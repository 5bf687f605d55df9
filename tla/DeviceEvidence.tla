--------------------------- MODULE DeviceEvidence ---------------------------
(***************************************************************************)
(* The two operators of src/ops that conclude something about the box from  *)
(* the telemetry it happens to send.                                        *)
(*                                                                         *)
(*   first_battery_transition.py  watches the legacy firmware, reserves and *)
(*     sends the one command for its update, and accepts a boot of the new  *)
(*     firmware.  The process may die and the NAS lose power between any    *)
(*     two steps; only what was fsynced survives that.                      *)
(*   ota_diagnostic_fault.py      has the manifest fail for the box in a    *)
(*     window, and concludes from three snapshots that it failed once and   *)
(*     recovered once.                                                      *)
(*                                                                         *)
(* The box reports when it likes, restarts when it likes and forgets its    *)
(* counters then.  Time is counted in steps; the limits are constants in    *)
(* the proportions of the code.  A run is about one of the operators.       *)
(***************************************************************************)
EXTENDS OriginAccess, Sequences

CONSTANTS
  Gap, Span,     \* admit: seconds between rows (20..35), in all (85..110)
  Late,          \* admit: age of the last row, and clock against uptime (3 s)
  BootGap,       \* accept_boot: seconds between its two rows (30..400)
  Tolerance,     \* accept_boot: clock against uptime (5 s)
  Recent,        \* accept_boot: age of the last row (10 s)
  Seconds,       \* the fault's window (at most 120 s)
  MaxTime, MaxChecks, MaxMishaps   \* bounds

ASSUME EvidenceAssumption ==
  /\ Gap \subseteq Nat /\ Span \subseteq Nat /\ BootGap \subseteq Nat
  /\ {Late, Tolerance, Recent, Seconds, MaxTime, MaxChecks, MaxMishaps} \subseteq Nat

VARIABLES
  about,        \* which operator this is about
  now,
  firmware, up, \* the box: what it runs, since when
  boots, lives, \* history: its starts, and when the new firmware went online
  attempts, code, answered, \* its checks: number and last answer since its
                \* start; what it was answered since each snapshot
  rows, status, \* what the operator has received
  pc, reservation, intent, \* trigger_once, its file, and what it holds
  published,    \* commands given to the MQTT client
  command,      \* a command is on its way to the box
  opened,       \* when the fault was installed
  snaps,        \* the snapshots
  mishaps

box == <<firmware, up, boots, lives, attempts, code>>
transition == <<rows, status, pc, reservation, intent, published, command>>
diagnosis == <<opened, snaps, answered>>
vars == <<about, now, box, transition, diagnosis, mishaps>>

Abs(n) == IF n < 0 THEN -n ELSE n

-----------------------------------------------------------------------------
(* What the operators decide.                                              *)

\* admit: four rows of an isolated legacy box, evenly spaced, up to about now and
\* from about one boot.  "fit" is its state, voltage and current.
Admit(seen) ==
  /\ Len(seen) = 4
  /\ \A i \in 1..4 : seen[i].firmware = "legacy" /\ seen[i].fit
  /\ \A i \in 1..3 : LET gap == seen[i+1].at - seen[i].at
                     IN gap \in Gap /\ Abs(gap - (seen[i+1].up - seen[i].up)) <= Late
  /\ seen[4].at - seen[1].at \in Span /\ now - seen[4].at \in 0..Late

\* validate_candidate: a build of the new power policy, whose version, commit,
\* digest and size are those of one image.
Candidates == [version : {"0.2.0", "other"}, bound : BOOLEAN, sized : BOOLEAN]
ValidCandidate(meta) == meta.version = "0.2.0" /\ meta.bound /\ meta.sized

\* Fault: a status that the broker has kept counts as a live one.
AcceptBootRetained(seen, online, sentAt, oldUp) ==
  /\ Len(seen) >= 2 /\ online # {}
  /\ LET left == seen[Len(seen) - 1]
         right == seen[Len(seen)]
         elapsed == right.at - left.at
     IN /\ \A s \in online : s.version = "new" /\ sentAt < s.at /\ s.at <= left.at
        /\ now - right.at <= Recent
        /\ left.firmware = "new" /\ right.firmware = "new"
        /\ left.up < oldUp /\ right.up < oldUp
        /\ elapsed \in BootGap /\ right.up > left.up
        /\ Abs(elapsed - (right.up - left.up)) <= Tolerance

\* accept_boot: live status, then two consecutive rows of one new boot.
AcceptBoot(seen, online, sentAt, oldUp) ==
  /\ Len(seen) >= 2 /\ online # {}
  /\ LET left == seen[Len(seen) - 1]
         right == seen[Len(seen)]
         elapsed == right.at - left.at
     IN /\ \A s \in online : s.version = "new" /\ ~s.retained /\ sentAt < s.at /\ s.at <= left.at
        /\ now - right.at <= Recent
        /\ left.firmware = "new" /\ right.firmware = "new"
        /\ left.up < oldUp /\ right.up < oldUp
        /\ elapsed \in BootGap /\ right.up > left.up
        /\ Abs(elapsed - (right.up - left.up)) <= Tolerance

\* acceptance of three diagnostic snapshots.
Acceptance(before, failed, recovered) ==
  /\ before.up < failed.up /\ failed.up < recovered.up
  /\ failed.attempts = before.attempts + 1 /\ recovered.attempts = failed.attempts + 1
  /\ failed.code = 404 /\ recovered.code = 200

-----------------------------------------------------------------------------
(* The box and the way to it: external.                                     *)

\* Bound: a little longer than the fault's window, for a run about it.
Horizon == IF about = "transition" THEN MaxTime ELSE Seconds + 4

Tick ==
  /\ now < Horizon /\ now' = now + 1 /\ up' = up + 1
  /\ UNCHANGED <<about, firmware, boots, lives, attempts, code, transition, diagnosis, mishaps>>

Restarts(version) ==
  /\ firmware' = version /\ up' = 0 /\ boots' = boots + 1 /\ attempts' = 0 /\ code' = 0
  /\ UNCHANGED lives

BoxRestarts ==
  /\ mishaps < MaxMishaps /\ mishaps' = mishaps + 1
  /\ Restarts(firmware) /\ UNCHANGED <<about, now, transition, diagnosis>>

\* Telemetry, of which some is lost.
Reports ==
  /\ about = "transition" /\ (\A i \in DOMAIN rows : rows[i].at < now)
  /\ \E fit \in {TRUE, firmware = "new"} :
       LET all == Append(rows, [firmware |-> firmware, at |-> now, up |-> up, boot |-> boots, fit |-> fit])
       IN rows' = SubSeq(all, IF Len(all) > 4 THEN 2 ELSE 1, Len(all))
  /\ UNCHANGED <<about, now, box, status, pc, reservation, intent, published, command,
                 diagnosis, mishaps>>

\* The command reaches the box, which installs the new firmware.
Updates ==
  /\ command /\ command' = FALSE /\ Restarts("new")
  /\ UNCHANGED <<about, now, rows, status, pc, reservation, intent, published,
                 diagnosis, mishaps>>

\* Its status is live when it connects.  Who subscribes later gets the last one
\* that the broker has kept, which may be of the firmware before.
StatusArrives ==
  /\ about = "transition"
  /\ \E version \in {"legacy", firmware}, retained \in BOOLEAN :
       /\ retained => rows = <<>> /\ status = {}
       /\ ~retained => version = firmware /\ up <= 1
       /\ status' = {[version |-> version, at |-> now, retained |-> retained]}
       /\ lives' = IF version = "new" /\ ~retained THEN lives \cup {now} ELSE lives
  /\ UNCHANGED <<about, now, firmware, up, boots, attempts, code, rows, pc, reservation, intent,
                 published, command, diagnosis, mishaps>>

-----------------------------------------------------------------------------
(* first_battery_transition.                                               *)

TransitionRest == UNCHANGED <<about, now, box, diagnosis, mishaps>>

\* The reservation is created exclusively: who finds one stops.
Reserve ==
  /\ about = "transition" /\ pc = "watching" /\ Admit(rows)
  /\ \E candidate \in Candidates : ValidCandidate(candidate)
  /\ reservation = "none" /\ reservation' = "written"
  /\ intent' = {[at |-> now, up |-> rows[4].up]}
  /\ pc' = "reserved"
  /\ TransitionRest /\ UNCHANGED <<rows, status, published, command>>

\* fsync of the file and of its directory, and then one publish, which may be
\* lost with or without the client knowing.
Sync ==
  /\ pc = "reserved" /\ pc' = "synced" /\ reservation' = "durable"
  /\ TransitionRest /\ UNCHANGED <<rows, status, intent, published, command>>

Publishes(from) ==
  /\ pc = from /\ pc' = "sent" /\ published' = published + 1
  /\ command' \in {TRUE, command}
  /\ TransitionRest /\ UNCHANGED <<rows, status, reservation, intent>>

\* Fault: the command goes out before the reservation is durable.
PublishUnsynced == Publishes("reserved")

Publish == Publishes("synced")

\* The process dies, or the NAS loses power: the operator starts again with what
\* the disk holds.
OperatorStops ==
  /\ about = "transition" /\ mishaps < MaxMishaps /\ mishaps' = mishaps + 1
  /\ pc' = "watching" /\ rows' = <<>> /\ status' = {}
  /\ \/ UNCHANGED <<reservation, intent>>
     \/ reservation = "written" /\ reservation' = "none" /\ intent' = {}
  /\ UNCHANGED <<about, now, box, published, command, diagnosis>>

-----------------------------------------------------------------------------
(* ota_diagnostic_fault.                                                   *)

Open == opened # {} /\ (\A start \in opened : now < start + Seconds)

OpensFault ==
  /\ about = "diagnosis" /\ opened = {} /\ FaultFixturePasses("field", TRUE) /\ FaultFixturePasses("field", FALSE)
  /\ opened' = {now}
  /\ UNCHANGED <<about, now, box, transition, snaps, answered, mishaps>>

\* The box asks for the manifest.
Checks ==
  /\ about = "diagnosis" /\ attempts < MaxChecks
  /\ attempts' = attempts + 1
  /\ code' = FaultAnswer("field", "right", Open, Request("/version.json", "GET", "field", "right"))
  /\ answered' = IF answered = <<>> THEN <<>>
                 ELSE [answered EXCEPT ![Len(answered)] = @ \cup {code'}]
  /\ UNCHANGED <<about, now, firmware, up, boots, lives, transition, opened, snaps, mishaps>>

\* diagnostic_snapshot of an idle box.
Snapshot ==
  /\ about = "diagnosis" /\ Len(snaps) < 3
  /\ snaps' = Append(snaps, [up |-> up, attempts |-> attempts, code |-> code])
  /\ answered' = Append(answered, {})
  /\ UNCHANGED <<about, now, box, transition, opened, mishaps>>

-----------------------------------------------------------------------------

EvidenceInit ==
  /\ about \in {"transition", "diagnosis"} /\ now = 0
  /\ firmware = (IF about = "transition" THEN "legacy" ELSE "new")
  /\ up = (IF about = "transition" THEN MaxTime ELSE 0) /\ attempts = 0 /\ code = 0
  /\ rows = <<>> /\ status = {} /\ pc = "watching" /\ reservation = "none" /\ intent = {}
  /\ published = 0 /\ command = FALSE /\ boots = 0 /\ lives = {}
  /\ opened = {} /\ snaps = <<>> /\ answered = <<>> /\ mishaps = 0

EvidenceNext ==
  \/ Tick \/ BoxRestarts \/ Reports \/ Updates \/ StatusArrives
  \/ Reserve \/ Sync \/ Publish \/ OperatorStops
  \/ OpensFault \/ Checks \/ Snapshot

EvidenceSpec == EvidenceInit /\ [][EvidenceNext]_vars

-----------------------------------------------------------------------------
(* What has to hold.                                                       *)

\* Whatever dies and starts again, the update is commanded at most once.
OneCommand == published <= 1

\* Snapshots that are accepted tell the truth about the box, across its restarts
\* too: it was answered 404 after the first, and 200 after the second.
DiagnosisTrue ==
  (Len(snaps) = 3 /\ Acceptance(snaps[1], snaps[2], snaps[3])) =>
    404 \in answered[1] /\ 200 \in answered[2]

\* One command and true diagnoses, through every restart of the box, the operator
\* and the NAS.
EvidenceSound == OneCommand /\ DiagnosisTrue

\* Whenever accept_boot says yes, on whatever mixture of old, kept and fresh messages,
\* the box runs the new firmware after the one command, has really gone online with
\* it since, and both rows are of one boot.  A restart between the two escapes it only
\* if the first was sent within the tolerance of its own boot.
AcceptanceTrue ==
  \A sent \in intent : AcceptBoot(rows, status, sent.at, sent.up) =>
    LET left == rows[Len(rows) - 1]
        right == rows[Len(rows)]
    IN /\ firmware = "new" /\ published = 1
       /\ \E t \in lives : sent.at < t /\ t <= left.at
       /\ left.boot = right.boot \/ left.up <= Tolerance
=============================================================================
