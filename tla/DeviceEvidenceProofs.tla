------------------------ MODULE DeviceEvidenceProofs ------------------------
(***************************************************************************)
(* EvidenceSound and AcceptanceTrue for every length of the windows, gaps    *)
(* and tolerances, and any number of restarts.  The strengthening has four  *)
(* parts.                                                                   *)
(*                                                                         *)
(* Reserved: whoever is about to publish holds the only reservation and     *)
(* nobody has published; what has been published is covered by a durable    *)
(* reservation, which no failure removes; the new firmware comes from a     *)
(* published command.                                                       *)
(*                                                                         *)
(* Traced: since a snapshot, either the box has not counted an attempt, or  *)
(* it has restarted and has no answer, or its last answer is one of those   *)
(* it was given since.                                                      *)
(*                                                                         *)
(* Dated: the rows of a boot all give the time of its start, and a later    *)
(* boot started after every row of an earlier one was sent.                 *)
(*                                                                         *)
(* Heard: a live status of the new firmware is one that was really sent.    *)
(***************************************************************************)
EXTENDS DeviceEvidence, SequenceTheorems, TLAPS

Rows == [firmware : {"legacy", "new"}, at : Nat, up : Nat, boot : Nat, fit : BOOLEAN]
Snaps == [up : Nat, attempts : Nat, code : Int]

EvidenceTypes ==
  /\ about \in {"transition", "diagnosis"} /\ now \in Nat
  /\ firmware \in {"legacy", "new"} /\ up \in Nat /\ boots \in Nat /\ attempts \in Nat /\ code \in Int
  /\ rows \in Seq(Rows)
  /\ pc \in {"watching", "reserved", "synced", "sent"}
  /\ reservation \in {"none", "written", "durable"}
  /\ published \in Nat /\ command \in BOOLEAN
  /\ snaps \in Seq(Snaps) /\ answered \in Seq(SUBSET Int)
  /\ Len(answered) = Len(snaps)

Reserved ==
  /\ published <= 1
  /\ pc = "reserved" => reservation = "written" /\ published = 0
  /\ pc = "synced" => reservation = "durable" /\ published = 0
  /\ published = 1 => reservation = "durable"
  /\ reservation = "none" => intent = {}
  /\ command => published = 1
  /\ about = "transition" /\ firmware = "new" => published = 1
  /\ \A i \in 1..Len(rows) : rows[i].firmware = "new" => firmware = "new" /\ published = 1
  /\ about = "diagnosis" => rows = <<>>

Traced ==
  /\ Len(snaps) > 0 =>
       \/ attempts = snaps[Len(snaps)].attempts \/ code = 0
       \/ code \in answered[Len(snaps)]
  /\ \A i \in 1..Len(snaps) : i + 1 <= Len(snaps) =>
       \/ snaps[i+1].attempts = snaps[i].attempts \/ snaps[i+1].code = 0
       \/ snaps[i+1].code \in answered[i]

Dated ==
  /\ \A i \in 1..Len(rows) :
       /\ rows[i].at <= now /\ rows[i].boot <= boots
       /\ rows[i].boot = boots => rows[i].at - rows[i].up = now - up
       /\ rows[i].boot # boots => now - up >= rows[i].at
  /\ \A i, j \in 1..Len(rows) :
       i < j => \/ rows[i].boot = rows[j].boot
                \/ rows[j].at - rows[j].up >= rows[i].at

Heard == \A s \in status : s.version = "new" /\ ~s.retained => s.at \in lives

EvidenceInv == EvidenceTypes /\ Reserved /\ Traced /\ Dated /\ Heard

-----------------------------------------------------------------------------

LEMMA FaultAnswerInt == ASSUME NEW p, NEW a, NEW o, NEW r PROVE FaultAnswer(p, a, o, r) \in Int
BY DEF FaultAnswer

\* The last rows after one more: each is the new one or was there.
LEMMA RowsKept ==
  ASSUME NEW rs \in Seq(Rows), NEW r \in Rows, NEW m \in {1, 2}
  PROVE  LET kept == SubSeq(Append(rs, r), m, Len(Append(rs, r)))
         IN /\ kept \in Seq(Rows)
            /\ \A i \in 1..Len(kept) :
                 \/ i = Len(kept) /\ kept[i] = r
                 \/ i < Len(kept) /\ m + i - 1 \in 1..Len(rs) /\ kept[i] = rs[m + i - 1]
<1> DEFINE all == Append(rs, r)
           kept == SubSeq(all, m, Len(all))
<1>1. /\ all \in Seq(Rows) /\ Len(all) = Len(rs) + 1 /\ all[Len(rs) + 1] = r
      /\ \A i \in 1..Len(rs) : all[i] = rs[i]
  BY AppendProperties
<1>2. Len(rs) \in Nat
  BY LenProperties
<1> HIDE DEF all
<1>3. \A i \in m..Len(all) : all[i] \in Rows
  BY <1>1, <1>2, ElementOfSeq
<1>4. /\ kept \in Seq(Rows)
      /\ Len(kept) = IF m <= Len(all) THEN Len(all) - m + 1 ELSE 0
      /\ \A i \in 1..(Len(all) - m + 1) : kept[i] = all[m + i - 1]
  BY <1>1, <1>2, <1>3, SubSeqProperties
<1> HIDE DEF kept
<1>5. ASSUME NEW i \in 1..Len(kept)
      PROVE  \/ i = Len(kept) /\ kept[i] = r
             \/ i < Len(kept) /\ m + i - 1 \in 1..Len(rs) /\ kept[i] = rs[m + i - 1]
  <2>1. i \in 1..(Len(all) - m + 1) /\ m + i - 1 \in 1..(Len(rs) + 1)
    BY <1>1, <1>2, <1>4
  <2>0. Len(kept) = Len(rs) + 2 - m
    BY <1>1, <1>2, <1>4
  <2>2. CASE m + i - 1 = Len(rs) + 1
    BY <1>1, <1>2, <1>4, <2>0, <2>1, <2>2
  <2>3. CASE m + i - 1 \in 1..Len(rs)
    <3>1. kept[i] = rs[m + i - 1]
      BY <1>1, <1>4, <2>1, <2>3
    <3>2. i < Len(kept)
      BY <1>2, <2>0, <2>1, <2>3
    <3>3. QED
      BY <2>3, <3>1, <3>2
  <2> QED
    BY <1>2, <2>1, <2>2, <2>3
<1>6. /\ kept \in Seq(Rows)
      /\ \A i \in 1..Len(kept) :
           \/ i = Len(kept) /\ kept[i] = r
           \/ i < Len(kept) /\ m + i - 1 \in 1..Len(rs) /\ kept[i] = rs[m + i - 1]
  BY <1>4, <1>5
<1> QED
  BY <1>6 DEF kept, all

\* What a report does to the rows.
LEMMA ReportsKeeps ==
  ASSUME Reports, rows \in Seq(Rows), firmware \in {"legacy", "new"}, now \in Nat, up \in Nat,
         boots \in Nat
  PROVE  /\ rows' \in Seq(Rows)
         /\ \E m \in {1, 2} : \A i \in 1..Len(rows') :
              \/ /\ i = Len(rows') /\ rows'[i].firmware = firmware
                 /\ rows'[i].at = now /\ rows'[i].up = up /\ rows'[i].boot = boots
              \/ i < Len(rows') /\ m + i - 1 \in 1..Len(rows) /\ rows'[i] = rows[m + i - 1]
<1>1. PICK fit \in {TRUE, firmware = "new"} :
        LET all == Append(rows, [firmware |-> firmware, at |-> now, up |-> up, boot |-> boots, fit |-> fit])
        IN rows' = SubSeq(all, IF Len(all) > 4 THEN 2 ELSE 1, Len(all))
  BY DEF Reports
<1> DEFINE r == [firmware |-> firmware, at |-> now, up |-> up, boot |-> boots, fit |-> fit]
           m == IF Len(Append(rows, r)) > 4 THEN 2 ELSE 1
<1>2. fit \in BOOLEAN
  BY <1>1
<1>3. r \in Rows /\ r.firmware = firmware /\ r.at = now /\ r.up = up /\ r.boot = boots
  BY <1>2 DEF Rows
<1>4. m \in {1, 2}
  OBVIOUS
<1>5. rows' = SubSeq(Append(rows, r), m, Len(Append(rows, r)))
  BY <1>1
<1> HIDE DEF r, m
<1>6. /\ rows' \in Seq(Rows)
      /\ \A i \in 1..Len(rows') :
           \/ i = Len(rows') /\ rows'[i] = r
           \/ i < Len(rows') /\ m + i - 1 \in 1..Len(rows) /\ rows'[i] = rows[m + i - 1]
  BY <1>3, <1>4, <1>5, RowsKept
<1> QED
  BY <1>3, <1>4, <1>6

LEMMA EvidenceInitially == EvidenceInit => EvidenceInv
<1> SUFFICES ASSUME EvidenceInit PROVE EvidenceInv
  OBVIOUS
<1> USE EvidenceAssumption DEF EvidenceAssumption, EvidenceInit
<1>0. command \in BOOLEAN
  OBVIOUS
<1>1. EvidenceTypes
  BY <1>0 DEF EvidenceTypes
<1>2. Reserved
  BY DEF Reserved
<1>3. Traced /\ Dated /\ Heard
  BY DEF Traced, Dated, Heard
<1> QED
  BY <1>1, <1>2, <1>3 DEF EvidenceInv

\* What the transition's part of a step keeps: the rows that are there.
LEMMA StepReserved == EvidenceInv /\ [EvidenceNext]_vars => Reserved'
<1> SUFFICES ASSUME EvidenceInv, [EvidenceNext]_vars PROVE Reserved'
  OBVIOUS
<1> USE DEF EvidenceInv, EvidenceTypes, Reserved, box, transition, diagnosis, TransitionRest
<1>1. CASE Tick
  BY <1>1 DEF Tick
<1>2. CASE BoxRestarts
  BY <1>2 DEF BoxRestarts, Restarts
<1>3. CASE Reports
  <2>1. \A i \in 1..Len(rows') :
          rows'[i].firmware = firmware \/ \E k \in 1..Len(rows) : rows'[i] = rows[k]
    BY <1>3, ReportsKeeps
  <2> QED
    BY <1>3, <2>1 DEF Reports
<1>4. CASE Updates
  BY <1>4 DEF Updates, Restarts
<1>5. CASE StatusArrives
  BY <1>5 DEF StatusArrives
<1>6. CASE Reserve
  BY <1>6 DEF Reserve
<1>7. CASE Sync
  BY <1>7 DEF Sync
<1>8. CASE Publish
  BY <1>8 DEF Publish, Publishes
<1>10. CASE OperatorStops
  BY <1>10 DEF OperatorStops
<1>11. CASE OpensFault
  BY <1>11 DEF OpensFault
<1>12. CASE Checks
  BY <1>12 DEF Checks
<1>13. CASE Snapshot
  BY <1>13 DEF Snapshot
<1>14. CASE UNCHANGED vars
  BY <1>14 DEF vars
<1> QED
  BY <1>1, <1>2, <1>3, <1>4, <1>5, <1>6, <1>7, <1>8, <1>10, <1>11, <1>12, <1>13, <1>14
     DEF EvidenceNext

LEMMA StepTypes == EvidenceInv /\ [EvidenceNext]_vars => EvidenceTypes'
<1> SUFFICES ASSUME EvidenceInv, [EvidenceNext]_vars PROVE EvidenceTypes'
  OBVIOUS
<1> USE DEF EvidenceInv, EvidenceTypes, box, transition, diagnosis, TransitionRest
<1>1. CASE Tick
  BY <1>1 DEF Tick
<1>2. CASE BoxRestarts
  BY <1>2 DEF BoxRestarts, Restarts
<1>3. CASE Reports
  <2>1. rows' \in Seq(Rows)
    BY <1>3, ReportsKeeps
  <2> QED
    BY <1>3, <2>1 DEF Reports
<1>4. CASE Updates
  <2>1. command' \in BOOLEAN
    BY <1>4 DEF Updates
  <2> QED
    BY <1>4, <2>1 DEF Updates, Restarts
<1>5. CASE StatusArrives
  BY <1>5 DEF StatusArrives
<1>6. CASE Reserve
  BY <1>6 DEF Reserve
<1>7. CASE Sync
  BY <1>7 DEF Sync
<1>8. CASE Publish
  <2>1. command' \in BOOLEAN
    BY <1>8 DEF Publish, Publishes
  <2> QED
    BY <1>8, <2>1 DEF Publish, Publishes
<1>10. CASE OperatorStops
  BY <1>10 DEF OperatorStops
<1>11. CASE OpensFault
  BY <1>11 DEF OpensFault
<1>12. CASE Checks
  <2>1. attempts' \in Nat
    BY <1>12 DEF Checks
  <2>2. code' \in Int
    BY <1>12, FaultAnswerInt DEF Checks
  <2>3. answered' \in Seq(SUBSET Int) /\ Len(answered') = Len(answered)
    <3>1. CASE answered = <<>>
      BY <1>12, <3>1 DEF Checks
    <3>2. CASE answered # <<>>
      <4>1. Len(answered) \in 1..Len(answered)
        BY <3>2
      <4>2. answered' = [answered EXCEPT ![Len(answered)] = @ \cup {code'}]
        BY <1>12, <3>2 DEF Checks
      <4>3. QED
        BY <2>2, <4>1, <4>2
    <3>3. QED
      BY <3>1, <3>2
  <2>4. UNCHANGED <<about, now, firmware, up, boots, lives, transition, opened, snaps, mishaps>>
    BY <1>12 DEF Checks
  <2> QED
    BY <2>1, <2>2, <2>3, <2>4
<1>13. CASE Snapshot
  <2>1. snaps' \in Seq(Snaps) /\ answered' \in Seq(SUBSET Int) /\ Len(answered') = Len(snaps')
    BY <1>13 DEF Snapshot, Snaps
  <2>2. UNCHANGED <<about, now, firmware, up, boots, lives, attempts, code, transition, opened, mishaps>>
    BY <1>13 DEF Snapshot
  <2> QED
    BY <2>1, <2>2
<1>14. CASE UNCHANGED vars
  BY <1>14 DEF vars
<1> QED
  BY <1>1, <1>2, <1>3, <1>4, <1>5, <1>6, <1>7, <1>8, <1>10, <1>11, <1>12, <1>13, <1>14
     DEF EvidenceNext

\* Only the box's restarts and checks, and the snapshots, disturb Traced.
LEMMA StepTraced == EvidenceInv /\ [EvidenceNext]_vars => Traced'
<1> SUFFICES ASSUME EvidenceInv, [EvidenceNext]_vars PROVE Traced'
  OBVIOUS
<1> USE DEF EvidenceInv, EvidenceTypes, Traced
<1>1. CASE BoxRestarts
  BY <1>1 DEF BoxRestarts, Restarts, diagnosis
<1>2. CASE Updates
  BY <1>2 DEF Updates, Restarts, diagnosis
<1>3. CASE Checks
  BY <1>3, FaultAnswerInt DEF Checks
<1>4. CASE Snapshot
  <2> DEFINE n == Len(snaps)
             snap == [up |-> up, attempts |-> attempts, code |-> code]
  <2>1. snaps' = Append(snaps, snap) /\ answered' = Append(answered, {})
        /\ attempts' = attempts /\ code' = code
    BY <1>4 DEF Snapshot, box
  <2>2. n \in Nat /\ snaps \in Seq(Snaps) /\ snap \in Snaps /\ answered \in Seq(SUBSET Int)
        /\ Len(answered) = n
    BY DEF Snaps
  <2> HIDE DEF snap
  <2>3. Len(snaps') = n + 1 /\ snaps'[n+1] = snap /\ \A i \in 1..n : snaps'[i] = snaps[i]
    BY <2>1, <2>2, AppendProperties
  <2>4. \A i \in 1..n : answered'[i] = answered[i]
    BY <2>1, <2>2, AppendProperties
  <2>5. snap.attempts = attempts /\ snap.code = code
    BY DEF snap
  <2>6. Len(snaps') > 0 =>
          \/ attempts' = snaps'[Len(snaps')].attempts \/ code' = 0 \/ code' \in answered'[Len(snaps')]
    BY <2>1, <2>2, <2>3, <2>5
  <2>7. ASSUME NEW i \in 1..Len(snaps'), i + 1 <= Len(snaps')
        PROVE  \/ snaps'[i+1].attempts = snaps'[i].attempts \/ snaps'[i+1].code = 0
               \/ snaps'[i+1].code \in answered'[i]
    <3>1. i \in 1..n
      BY <2>2, <2>3, <2>7
    <3>2. CASE i = n
      BY <2>2, <2>3, <2>4, <2>5, <3>1, <3>2
    <3>3. CASE i + 1 \in 1..n
      BY <2>2, <2>3, <2>4, <3>1, <3>3
    <3> QED
      BY <2>2, <3>1, <3>2, <3>3
  <2> QED
    BY <2>6, <2>7
<1>5. CASE UNCHANGED <<attempts, code, snaps, answered>>
  BY <1>5
<1>6. CASE Tick
  BY <1>6 DEF Tick, diagnosis
<1>7. Reports \/ StatusArrives \/ Reserve \/ Sync \/ Publish \/ OperatorStops \/ OpensFault
        \/ UNCHANGED vars => UNCHANGED <<attempts, code, snaps, answered>>
  BY DEF Reports, StatusArrives, Reserve, Sync, Publish, Publishes, OperatorStops,
         OpensFault, TransitionRest, box, diagnosis, vars
<1> QED
  BY <1>1, <1>2, <1>3, <1>4, <1>5, <1>6, <1>7 DEF EvidenceNext

\* A row is appended, the box starts anew, or time passes for it as for the NAS.
LEMMA StepDated == EvidenceInv /\ [EvidenceNext]_vars => Dated'
<1> SUFFICES ASSUME EvidenceInv, [EvidenceNext]_vars PROVE Dated'
  OBVIOUS
<1>0. EvidenceTypes /\ Dated /\ \A i \in 1..Len(rows) : rows[i] \in Rows
  BY ElementOfSeq DEF EvidenceInv, EvidenceTypes
<1>1. CASE Tick
  <2>1. /\ rows' = rows /\ boots' = boots /\ now' = now + 1 /\ up' = up + 1
        /\ now \in Nat /\ up \in Nat
    BY <1>0, <1>1 DEF Tick, transition, EvidenceTypes
  <2>2. ASSUME NEW i \in 1..Len(rows)
        PROVE  /\ rows[i].at <= now + 1 /\ rows[i].boot <= boots
               /\ rows[i].boot = boots => rows[i].at - rows[i].up = (now + 1) - (up + 1)
               /\ rows[i].boot # boots => (now + 1) - (up + 1) >= rows[i].at
    <3>1. rows[i].at \in Nat /\ rows[i].up \in Nat
      BY <1>0 DEF Rows
    <3>2. QED
      BY <1>0, <2>1, <3>1 DEF Dated
  <2>3. QED
    BY <1>0, <2>1, <2>2 DEF Dated
<1>2. CASE BoxRestarts \/ Updates
  <2>1. rows' = rows /\ boots' = boots + 1 /\ now' = now /\ up' = 0 /\ boots \in Nat /\ now \in Nat
    BY <1>0, <1>2 DEF BoxRestarts, Updates, Restarts, transition, EvidenceTypes
  <2>2. ASSUME NEW i \in 1..Len(rows)
        PROVE  /\ rows[i].at <= now /\ rows[i].boot <= boots + 1 /\ rows[i].boot # boots + 1
               /\ now - 0 >= rows[i].at
    <3>1. rows[i].at <= now /\ rows[i].boot <= boots /\ rows[i].at \in Nat /\ rows[i].boot \in Nat
      BY <1>0 DEF Dated, Rows
    <3>2. QED
      BY <2>1, <3>1
  <2>3. \A i \in 1..Len(rows') :
          /\ rows'[i].at <= now' /\ rows'[i].boot <= boots'
          /\ rows'[i].boot = boots' => rows'[i].at - rows'[i].up = now' - up'
          /\ rows'[i].boot # boots' => now' - up' >= rows'[i].at
    BY <2>1, <2>2
  <2>4. QED
    BY <1>0, <2>1, <2>3 DEF Dated
<1>3. CASE Reports
  <2>1. boots' = boots /\ now' = now /\ up' = up
    BY <1>3 DEF Reports, box
  <2>2. PICK m \in {1, 2} : \A i \in 1..Len(rows') :
              \/ /\ i = Len(rows') /\ rows'[i].at = now /\ rows'[i].up = up /\ rows'[i].boot = boots
              \/ i < Len(rows') /\ m + i - 1 \in 1..Len(rows) /\ rows'[i] = rows[m + i - 1]
    BY <1>0, <1>3, ReportsKeeps DEF EvidenceTypes
  <2>3. Len(rows') \in Nat
    BY <1>0, <1>3, ReportsKeeps, LenProperties DEF EvidenceTypes
  <2>4. ASSUME NEW i \in 1..Len(rows')
        PROVE  /\ rows'[i].at <= now /\ rows'[i].boot <= boots
               /\ rows'[i].boot = boots => rows'[i].at - rows'[i].up = now - up
               /\ rows'[i].boot # boots => now - up >= rows'[i].at
    <3>1. CASE rows'[i].at = now /\ rows'[i].up = up /\ rows'[i].boot = boots
      BY <1>0, <3>1 DEF EvidenceTypes
    <3>2. CASE m + i - 1 \in 1..Len(rows) /\ rows'[i] = rows[m + i - 1]
      BY <1>0, <3>2 DEF Dated
    <3>3. QED
      BY <2>2, <3>1, <3>2
  <2>5. ASSUME NEW i \in 1..Len(rows'), NEW j \in 1..Len(rows'), i < j
        PROVE  rows'[i].boot = rows'[j].boot \/ rows'[j].at - rows'[j].up >= rows'[i].at
    <3>1. i < Len(rows') /\ m + i - 1 \in 1..Len(rows) /\ rows'[i] = rows[m + i - 1]
      BY <2>2, <2>3, <2>5
    <3>2. CASE j = Len(rows') /\ rows'[j].at = now /\ rows'[j].up = up /\ rows'[j].boot = boots
      BY <2>4, <3>1, <3>2
    <3>3. CASE m + j - 1 \in 1..Len(rows) /\ rows'[j] = rows[m + j - 1]
      <4>1. m + i - 1 < m + j - 1
        BY <2>3, <2>5
      <4>2. QED
        BY <1>0, <3>1, <3>3, <4>1 DEF Dated
    <3>4. QED
      BY <2>2, <3>2, <3>3
  <2>6. QED
    BY <2>1, <2>4, <2>5 DEF Dated
<1>4. CASE OperatorStops
  <2>1. rows' = <<>>
    BY <1>4 DEF OperatorStops
  <2>2. QED
    BY <2>1 DEF Dated
<1>5. StatusArrives \/ Reserve \/ Sync \/ Publish \/ OpensFault \/ Checks \/ Snapshot \/ UNCHANGED vars
        => UNCHANGED <<rows, boots, now, up>>
  BY DEF StatusArrives, Reserve, Sync, Publish, Publishes, OpensFault, Checks, Snapshot,
         TransitionRest, transition, box, vars
<1>6. CASE UNCHANGED <<rows, boots, now, up>>
  BY <1>0, <1>6 DEF Dated
<1> QED
  BY <1>1, <1>2, <1>3, <1>4, <1>5, <1>6 DEF EvidenceNext

LEMMA StepHeard == EvidenceInv /\ [EvidenceNext]_vars => Heard'
<1> SUFFICES ASSUME EvidenceInv, [EvidenceNext]_vars PROVE Heard'
  OBVIOUS
<1>1. CASE StatusArrives
  BY <1>1 DEF StatusArrives, Heard
<1>2. CASE OperatorStops
  BY <1>2 DEF OperatorStops, Heard
<1>3. Tick \/ BoxRestarts \/ Updates \/ Reports \/ Reserve \/ Sync \/ Publish \/ OpensFault \/ Checks
        \/ Snapshot \/ UNCHANGED vars => UNCHANGED <<status, lives>>
  BY DEF Tick, BoxRestarts, Updates, Restarts, Reports, Reserve, Sync, Publish, Publishes, OpensFault,
         Checks, Snapshot, TransitionRest, transition, box, vars
<1>4. CASE UNCHANGED <<status, lives>>
  BY <1>4 DEF EvidenceInv, Heard
<1> QED
  BY <1>1, <1>2, <1>3, <1>4 DEF EvidenceNext

\* The invariant says what the run checks.
LEMMA InvSound == EvidenceInv => EvidenceSound
<1> SUFFICES ASSUME EvidenceInv PROVE EvidenceSound
  OBVIOUS
<1>1. OneCommand
  BY DEF EvidenceInv, Reserved, OneCommand
<1>2. DiagnosisTrue
  <2> SUFFICES ASSUME Len(snaps) = 3, Acceptance(snaps[1], snaps[2], snaps[3])
               PROVE  404 \in answered[1] /\ 200 \in answered[2]
    BY DEF DiagnosisTrue
  <2>0. snaps \in Seq(Snaps)
    BY DEF EvidenceInv, EvidenceTypes
  <2>1. snaps[1] \in Snaps /\ snaps[2] \in Snaps /\ snaps[3] \in Snaps
    BY <2>0, ElementOfSeq
  <2>2. \A i \in {1, 2} :
          \/ snaps[i+1].attempts = snaps[i].attempts \/ snaps[i+1].code = 0
          \/ snaps[i+1].code \in answered[i]
    BY DEF EvidenceInv, Traced
  <2> QED
    BY <2>1, <2>2 DEF Acceptance, Snaps
<1> QED
  BY <1>1, <1>2 DEF EvidenceSound

LEMMA InvAcceptance == EvidenceInv => AcceptanceTrue
<1> SUFFICES ASSUME EvidenceInv, NEW sent \in intent, AcceptBoot(rows, status, sent.at, sent.up)
             PROVE  LET left == rows[Len(rows) - 1]
                        right == rows[Len(rows)]
                    IN /\ firmware = "new" /\ published = 1
                       /\ \E t \in lives : sent.at < t /\ t <= left.at
                       /\ left.boot = right.boot \/ left.up <= Tolerance
  BY DEF AcceptanceTrue
<1> DEFINE n == Len(rows)
           left == rows[n - 1]
           right == rows[n]
<1>1. rows \in Seq(Rows) /\ n \in Nat /\ n >= 2 /\ left \in Rows /\ right \in Rows
  BY ElementOfSeq, LenProperties DEF EvidenceInv, EvidenceTypes, AcceptBoot
<1>2. /\ status # {} /\ \A s \in status : s.version = "new" /\ ~s.retained /\ sent.at < s.at /\ s.at <= left.at
      /\ right.firmware = "new" /\ right.up > left.up
      /\ Abs((right.at - left.at) - (right.up - left.up)) <= Tolerance
  BY DEF AcceptBoot
<1>3. firmware = "new" /\ published = 1
  BY <1>1, <1>2 DEF EvidenceInv, Reserved
<1>4. \E t \in lives : sent.at < t /\ t <= left.at
  BY <1>2 DEF EvidenceInv, Heard
<1>5. left.boot = right.boot \/ left.up <= Tolerance
  <2>1. left.boot = right.boot \/ right.at - right.up >= left.at
    BY <1>1 DEF EvidenceInv, Dated
  <2>2. left.at \in Nat /\ left.up \in Nat /\ right.at \in Nat /\ right.up \in Nat /\ Tolerance \in Nat
    BY <1>1, EvidenceAssumption DEF Rows
  <2> HIDE DEF left, right
  <2>3. (right.at - left.at) - (right.up - left.up) <= Tolerance
    BY <1>2, <2>2 DEF Abs
  <2>4. QED
    BY <2>1, <2>2, <2>3
<1> QED
  BY <1>3, <1>4, <1>5

LEMMA EvidenceInvariance == EvidenceSpec => []EvidenceInv
<1>1. EvidenceInv /\ [EvidenceNext]_vars => EvidenceInv'
  BY StepReserved, StepTypes, StepTraced, StepDated, StepHeard DEF EvidenceInv
<1> QED
  BY <1>1, EvidenceInitially, PTL DEF EvidenceSpec

\* Whatever the limits, and however often the box, the operator and the NAS
\* restart: one command at most, and an accepted diagnosis is true.
THEOREM EvidenceIsSound == EvidenceSpec => []EvidenceSound
BY EvidenceInvariance, InvSound, PTL

\* For all gaps and tolerances and any number of restarts: when accept_boot says yes
\* the new firmware runs, has gone online since the command, and the two rows are of
\* one boot, or the first of the first seconds of another.
THEOREM AcceptanceIsTrue == EvidenceSpec => []AcceptanceTrue
BY EvidenceInvariance, InvAcceptance, PTL
=============================================================================
