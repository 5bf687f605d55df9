---------------------------- MODULE MonitorProofs -----------------------------
(***************************************************************************)
(* The deployed observer for every set of readings, every bound and any     *)
(* number of failures.                                                      *)
(*                                                                         *)
(* MonitorInv: what waits to be sent of a low battery is proven by the      *)
(* reading the running cycle judged.  That the frame checks of evaluate add *)
(* up to a proof is WarningProven; that the oldest of a queue is a member   *)
(* of it is OldestIn, by the least identifier.                              *)
(*                                                                         *)
(* ControlInv: an installation only ever undoes what it has created itself, *)
(* an upgrade keeps the old program in its place until the checkpoint is    *)
(* whole, and a handler's steps hold until its run is reported.             *)
(***************************************************************************)
EXTENDS MonitorDeployment, WellFoundedInduction, FiniteSetTheorems, TLAPS

-----------------------------------------------------------------------------
(* Readings.                                                               *)

\* parse_flux has five outcomes (Parsed).
LEMMA ParsedRange ==
  ASSUME NEW r, IsReading(r)
  PROVE  Parsed(r) \in {"refused", "malformed", "nothing", "legacy", "frame"}
BY DEF Parsed, IsReading

\* No stage of the firmware's policy is the alarm (STATES).
LEMMA StatesRange ==
  ASSUME NEW c \in 0..6
  PROVE  STATES[c] \in PowerOnly \cup {"POWER_SENSOR_FAULT"} /\ STATES[c] # "LOW_BATTERY"
<1>1. c = 0 \/ c = 1 \/ c = 2 \/ c = 3 \/ c = 4 \/ c = 5 \/ c = 6
  OBVIOUS
<1>2. STATES[c] \in {"NORMAL", "POWER_CAUTION", "ENERGY_SAVING", "BATTERY_PROTECTED",
                    "RECOVERY_WAIT", "INITIALIZING", "POWER_SENSOR_FAULT"}
  BY <1>1 DEF STATES
<1>3. QED
  BY <1>2 DEF PowerOnly

\* evaluate says one of the alarms or stages (Status).
LEMMA StatusRange ==
  ASSUME NEW r, IsReading(r)
  PROVE  Status(r) \in Alarms \cup PowerOnly
<1>1. FrameStatus(r) \in Alarms \cup PowerOnly
  BY StatesRange DEF FrameStatus, ClosedSchema, Alarms
<1>2. LegacyStatus(r) \in Alarms
  BY DEF LegacyStatus, Alarms
<1>3. QED
  BY <1>1, <1>2, ParsedRange DEF Status, Alarms

\* What the owner is owed is an alarm, or nothing (Owed).
LEMMA OwedRange == ASSUME NEW r, IsReading(r) PROVE Owed(r) \in Alarms \cup {"NORMAL"}
BY StatusRange DEF Owed

\* The checks of parse_flux and evaluate, in the order they are made, add up to a
\* proof of the low battery (FrameStatus).
LEMMA WarningProven ==
  ASSUME NEW r, IsReading(r), Warning(r)
  PROVE  ProvenLow(r)
<1>1. Parsed(r) = "frame" /\ FrameStatus(r) = "LOW_BATTERY"
  <2>1. LegacyStatus(r) # "LOW_BATTERY"
    BY DEF LegacyStatus
  <2>2. QED
    BY <2>1, ParsedRange DEF Warning, Status
<1>2. r.answer = "rows" /\ Has(r, "schema") /\ RequiredFields(r) \subseteq Frame(r)
  <2>1. r.answer \in {"refused", "malformed", "rows"}
    BY DEF IsReading
  <2>2. QED
    BY <1>1, <2>1 DEF Parsed, Legacy
<1>3. /\ ~(r.age["schema"] < -5)
      /\ r.value["schema"] = 1 /\ ClosedSchema(r)
      /\ ~(r.age["schema"] > 2 * r.value["interval_s"] + 30)
      /\ SensorGood(r) /\ PolicyKnown(r) /\ Qualified(r)
      /\ r.value["warning_active"] = 1
  <2>1. (r.value["schema"] = 1 /\ ClosedSchema(r)) => STATES[r.value["state"]] # "LOW_BATTERY"
    BY StatesRange DEF ClosedSchema
  <2>2. QED
    BY <1>1, <2>1 DEF FrameStatus
<1>4. \A k \in PowerFields \cup WarningFields : Has(r, k) /\ r.age[k] = r.age["schema"]
  <2>1. PowerFields \cup WarningFields \subseteq Frame(r)
    BY <1>2, <1>3 DEF RequiredFields, SensorGood, PolicyKnown
  <2>2. QED
    BY <2>1 DEF Frame, Has
<1>5. r.age["schema"] \in Int /\ r.value["interval_s"] \in Int
  BY <1>2 DEF IsReading, Has, PowerFields, WarningFields
<1>6. r.age["schema"] \in -5 .. 2 * r.value["interval_s"] + 30
  BY <1>3, <1>5
<1>7. r.value["warning_schema"] = 1 /\ r.value["valid"] = 1
  BY <1>3 DEF PolicyKnown, SensorGood
<1>8. r.value["warning_elapsed_s"] = 300
  BY <1>3 DEF Qualified
<1>9. r.value["voltage"] \in 1..110
  <2>1. r.value["voltage"] \in 1..160 /\ r.value["voltage"] <= 110
    BY <1>3, <1>8 DEF SensorGood, Qualified
  <2>2. QED
    BY <2>1
<1>10. QED
  BY <1>2, <1>3, <1>4, <1>6, <1>7, <1>8, <1>9 DEF ProvenLow

-----------------------------------------------------------------------------
(* Queues.                                                                 *)

\* The first of a queue that is not empty is one of its events, and none of them
\* is older (Oldest).
LEMMA OldestIn ==
  ASSUME NEW q, q \subseteq Events, q # {}
  PROVE  Oldest(q) \in q /\ \A f \in q : Oldest(q).id <= f.id
<1> DEFINE ids == {e.id : e \in q}
           R   == OpToRel(<, Nat)
<1>1. IsWellFoundedOn(R, Nat)
  BY NatLessThanWellFounded
<1>2. ids \subseteq Nat /\ ids # {}
  BY DEF Events
<1>3. PICK n \in ids : \A m \in ids : ~(<<m, n>> \in R)
  <2> HIDE DEF R, ids
  <2> QED
    BY <1>1, <1>2, WFMin
<1>4. \A m \in ids : n <= m
  <2> SUFFICES ASSUME NEW m \in ids PROVE n <= m
    OBVIOUS
  <2>1. m \in Nat /\ n \in Nat
    BY <1>2
  <2>2. ~(m < n)
    BY <1>3, <2>1 DEF OpToRel
  <2>3. QED
    BY <2>1, <2>2
<1>5. \E e \in q : \A f \in q : e.id <= f.id
  BY <1>4
<1>6. QED
  BY <1>5 DEF Oldest

-----------------------------------------------------------------------------
(* Types.                                                                  *)

Mems == [active : Alarms \cup {"NORMAL"}, seen : Readings \cup {NoReading}, pending : SUBSET Events]
Backups == [there : BOOLEAN, program : Contents, state : StateFiles]
Ops == {"idle"} \cup InstallSteps \cup UpgradeSteps

MonitorTypes ==
  /\ reading \in Readings
  /\ stateFile \in StateFiles
  /\ events \subseteq Events /\ told \subseteq Events
  /\ pc \in Stages
  /\ mem \in Mems
  /\ wanted \in BOOLEAN
  /\ born \in Nat /\ changes \in Nat /\ mishaps \in Nat

OperatorTypes ==
  /\ files \in [FileNames -> Contents]
  /\ home \in BOOLEAN /\ enabled \in BOOLEAN /\ wasActive \in BOOLEAN
  /\ fresh \in BOOLEAN /\ spoilt \in BOOLEAN /\ restored \in BOOLEAN
  /\ image \in Contents /\ op \in Ops /\ created \subseteq FileNames
  /\ original \in StateFiles /\ backup \in Backups
  /\ result \in Results /\ runs \in Nat

\* A cycle that notifies has something to say, and says of a low battery only
\* what the reading it judged proves.
Waiting ==
  /\ pc = "notify" => mem.pending # {}
  /\ pc \in {"events", "state", "notify"} =>
       /\ mem.seen \in Readings
       /\ \A e \in mem.pending : e.status = "LOW_BATTERY" => Warning(mem.seen)

MonitorInv == MonitorTypes /\ Waiting

\* The empty memory, files and backup have their types.
LEMMA ConstantsTyped ==
  /\ NoMem \in Mems /\ NoState \in StateFiles /\ Unread \in StateFiles
  /\ NoBackup \in Backups /\ OldFiles \subseteq StateFiles
<1>1. NoMem \in Mems
  BY DEF NoMem, Mems
<1>2. NoState \in StateFiles /\ Unread \in StateFiles
  BY DEF NoState, Unread, StateFiles, Statuses
<1>3. NoBackup \in Backups
  BY <1>2 DEF NoBackup, Backups, Contents
<1>4. [id |-> 0, status |-> "POWER_CAUTION"] \in Events
  BY DEF Events, Statuses, Superseded
<1>5. OldFiles \subseteq StateFiles
  BY <1>4 DEF OldFiles, StateFiles, Statuses, Superseded
<1>6. QED
  BY <1>1, <1>2, <1>3, <1>5

\* What cycle writes to state.json has its type (Saved).
LEMMA SavedTyped ==
  ASSUME MonitorTypes, NEW q, q \subseteq mem.pending
  PROVE  Saved(q) \in StateFiles
BY DEF MonitorTypes, Mems, Saved, StateFiles, Statuses

\* A low battery enters the queue only beside a reading that says it (Observe).
LEMMA ObserveKeeps == MonitorInv /\ Observe => MonitorInv'
<1> SUFFICES ASSUME MonitorInv, Observe PROVE MonitorInv'
  OBVIOUS
<1> DEFINE due   == Owed(reading)
           event == [id |-> born + 1, status |-> IF due = "NORMAL" THEN "RECOVERED" ELSE due]
           queue == StillOwed(stateFile.pending, reading)
<1>1. due \in Alarms \cup {"NORMAL"}
  BY OwedRange, MonitorAssumption DEF MonitorInv, MonitorTypes
<1>2. event \in Events /\ queue \subseteq Events
  <2>1. event.status \in Statuses /\ event.id \in Nat
    BY <1>1 DEF Statuses, MonitorInv, MonitorTypes
  <2>2. queue \subseteq stateFile.pending /\ stateFile.pending \subseteq Events
    BY DEF StillOwed, MonitorInv, MonitorTypes, StateFiles
  <2>3. QED
    BY <2>1, <2>2 DEF Events
<1>3. \A e \in queue \cup {event} : e.status = "LOW_BATTERY" => Warning(reading)
  <2>1. event.status = "LOW_BATTERY" => Warning(reading)
    BY DEF Owed, Warning
  <2>2. QED
    BY <2>1 DEF StillOwed
<1>4. /\ mem'.active = due /\ mem'.seen = reading /\ mem'.pending \subseteq queue \cup {event}
      /\ mem' = [active |-> mem'.active, seen |-> mem'.seen, pending |-> mem'.pending]
  BY DEF Observe
<1>5. mem' \in Mems
  <2>1. mem'.pending \in SUBSET Events
    BY <1>2, <1>4
  <2>2. mem'.seen \in Readings \cup {NoReading}
    BY <1>4 DEF MonitorInv, MonitorTypes
  <2>3. QED
    BY <1>1, <1>4, <2>1, <2>2 DEF Mems
<1>6. MonitorTypes'
  <2>1. pc' \in Stages /\ born' \in Nat
    BY DEF Observe, Stages, MonitorInv, MonitorTypes
  <2>2. QED
    BY <1>5, <2>1 DEF Observe, MonitorInv, MonitorTypes
<1>7. Waiting'
  <2>1. \A e \in mem'.pending : e.status = "LOW_BATTERY" => Warning(mem'.seen)
    BY <1>3, <1>4
  <2>2. mem'.seen \in Readings /\ pc' # "notify"
    BY <1>4 DEF Observe, MonitorInv, MonitorTypes
  <2>3. QED
    BY <2>1, <2>2 DEF Waiting
<1>8. QED
  BY <1>6, <1>7 DEF MonitorInv

\* Cutting the queue adds nothing, and an empty one is not announced (SaveState).
LEMMA SaveStateKeeps == MonitorInv /\ SaveState => MonitorInv'
<1> SUFFICES ASSUME MonitorInv, SaveState PROVE MonitorInv'
  OBVIOUS
<1> DEFINE kept == Newest(mem.pending, PendingMax)
<1>1. kept \subseteq mem.pending
  BY DEF Newest
<1>2. stateFile' \in StateFiles
  BY <1>1, SavedTyped DEF SaveState, MonitorInv
<1>3. \/ pc' = "sleep" /\ mem' = NoMem
      \/ pc' = "notify" /\ kept # {} /\ mem' = [mem EXCEPT !.pending = kept]
  BY DEF SaveState
<1> HIDE DEF kept
<1>4. mem' \in Mems
  BY <1>1, <1>3, ConstantsTyped DEF Mems, MonitorInv, MonitorTypes
<1>5. MonitorTypes'
  BY <1>2, <1>3, <1>4 DEF SaveState, MonitorInv, MonitorTypes, Stages
<1>6. Waiting'
  <2>1. CASE pc' = "sleep"
    BY <2>1 DEF Waiting
  <2>2. CASE pc' = "notify" /\ kept # {} /\ mem' = [mem EXCEPT !.pending = kept]
    <3>1. pc = "state" /\ mem'.pending = kept /\ mem'.seen = mem.seen
      BY <2>2 DEF SaveState, MonitorInv, MonitorTypes, Mems
    <3>2. QED
      BY <1>1, <2>2, <3>1 DEF MonitorInv, Waiting
  <2>3. QED
    BY <1>3, <2>1, <2>2
<1>7. QED
  BY <1>5, <1>6 DEF MonitorInv

\* What DSM takes is an event (notify_owner).
LEMMA TakenKeeps ==
  ASSUME MonitorInv, pc = "notify", told' = told \cup {Oldest(mem.pending)}
  PROVE  told' \subseteq Events
<1>1. Oldest(mem.pending) \in Events
  <2>1. mem.pending \subseteq Events /\ mem.pending # {}
    BY DEF MonitorInv, MonitorTypes, Mems, Waiting
  <2>2. QED
    BY <2>1, OldestIn
<1>2. QED
  BY <1>1 DEF MonitorInv, MonitorTypes

\* A notification that was taken leaves the queue (Accepted).
LEMMA AcceptedKeeps == MonitorInv /\ Accepted => MonitorInv'
<1> SUFFICES ASSUME MonitorInv, Accepted PROVE MonitorInv'
  OBVIOUS
<1>1. told' \subseteq Events
  BY TakenKeeps DEF Accepted
<1>2. mem' \in Mems
  BY DEF Accepted, MonitorInv, MonitorTypes, Mems
<1>3. QED
  BY <1>1, <1>2 DEF Accepted, MonitorInv, MonitorTypes, Waiting, Stages

\* What the observer's own steps keep (CycleStep).
LEMMA CycleKeeps == MonitorInv /\ CycleStep => MonitorInv'
<1> SUFFICES ASSUME MonitorInv, CycleStep PROVE MonitorInv'
  OBVIOUS
<1>1. CASE Observe
  BY <1>1, ObserveKeeps
<1>2. CASE SaveEvents
  <2>1. events' \subseteq Events
    BY <1>2 DEF SaveEvents, Newest, MonitorInv, MonitorTypes, Mems
  <2>2. QED
    BY <1>2, <2>1 DEF SaveEvents, MonitorInv, MonitorTypes, Waiting, Stages
<1>3. CASE SaveState
  BY <1>3, SaveStateKeeps
<1>4. CASE Accepted
  BY <1>4, AcceptedKeeps
<1>5. CASE Refused
  BY <1>5, ConstantsTyped DEF Refused, MonitorInv, MonitorTypes, Waiting, Stages
<1>6. CASE SavePopped
  <2>1. stateFile' \in StateFiles
    BY <1>6, SavedTyped DEF SavePopped, MonitorInv
  <2>2. QED
    BY <1>6, <2>1, ConstantsTyped DEF SavePopped, MonitorInv, MonitorTypes, Waiting, Stages
<1>7. QED
  BY <1>1, <1>2, <1>3, <1>4, <1>5, <1>6 DEF CycleStep

\* What a step of an operator may do to the observer and its files.
OperatorReach ==
  /\ Untouched
  /\ ServiceKept \/ Start \/ Stop
  /\ stateFile' \in {stateFile, original}
  /\ restored' \/ UNCHANGED <<stateFile, restored>>
  /\ mishaps' \in {mishaps, mishaps + 1}

\* No step of an operator reaches further into the observer than OperatorReach.
LEMMA OperatorsReach == InstallStep \/ UpgradeStep \/ HandlerFails => OperatorReach
<1> SUFFICES ASSUME InstallStep \/ UpgradeStep \/ HandlerFails PROVE OperatorReach
  OBVIOUS
<1>1. CASE BeginInstall
  BY <1>1 DEF BeginInstall, OperatorReach
<1>2. CASE MakeHome
  BY <1>2 DEF MakeHome, OperatorReach
<1>3. CASE CreateFile
  BY <1>3 DEF CreateFile, OperatorReach
<1>4. CASE Enroll
  BY <1>4 DEF Enroll, OperatorReach
<1>5. CASE StartInstalled
  BY <1>5 DEF StartInstalled, OperatorReach
<1>6. CASE AwaitFirstState
  BY <1>6 DEF AwaitFirstState, OperatorReach
<1>7. CASE InstallFails
  BY <1>7 DEF InstallFails, OperatorReach
<1>8. CASE UndoStop
  BY <1>8 DEF UndoStop, OperatorReach
<1>9. CASE UndoDisable
  BY <1>9 DEF UndoDisable, OperatorReach
<1>10. CASE UndoFiles
  BY <1>10 DEF UndoFiles, OperatorReach
<1>11. CASE BeginUpgrade
  BY <1>11 DEF BeginUpgrade, OperatorReach
<1>12. CASE StopOld
  BY <1>12 DEF StopOld, OperatorReach
<1>13. CASE ReadState
  BY <1>13 DEF ReadState, OperatorReach
<1>14. CASE SaveBackup
  BY <1>14 DEF SaveBackup, OperatorReach
<1>15. CASE ReplaceProgram
  BY <1>15 DEF ReplaceProgram, OperatorReach
<1>16. CASE StartNew
  BY <1>16 DEF StartNew, OperatorReach
<1>17. CASE ObserveNew
  BY <1>17 DEF ObserveNew, OperatorReach
<1>18. CASE CheckNew
  BY <1>18 DEF CheckNew, OperatorReach
<1>19. CASE UpgradeFails
  BY <1>19 DEF UpgradeFails, OperatorReach
<1>20. CASE BackStop
  BY <1>20 DEF BackStop, OperatorReach
<1>21. CASE BackProgram
  BY <1>21 DEF BackProgram, OperatorReach
<1>22. CASE BackState
  BY <1>22 DEF BackState, OperatorReach
<1>23. CASE BackStart
  BY <1>23 DEF BackStart, OperatorReach
<1>24. CASE HandlerFails
  BY <1>24 DEF HandlerFails, OperatorReach
<1>25. QED
  BY <1>1, <1>2, <1>3, <1>4, <1>5, <1>6, <1>7, <1>8, <1>9, <1>10, <1>11, <1>12,
     <1>13, <1>14, <1>15, <1>16, <1>17, <1>18, <1>19, <1>20, <1>21, <1>22, <1>23,
     <1>24
  DEF InstallStep, UpgradeStep

\* Stopping, starting and an older state.json leave MonitorInv in place.
LEMMA OperatorKeepsMonitor ==
  ASSUME MonitorInv, OperatorTypes, OperatorReach
  PROVE  MonitorInv'
<1>1. stateFile' \in StateFiles /\ mishaps' \in Nat
  BY DEF OperatorReach, MonitorInv, MonitorTypes, OperatorTypes
<1>2. wanted' \in BOOLEAN
  BY DEF OperatorReach, ServiceKept, Start, Stop, MonitorInv, MonitorTypes
<1>3. \/ UNCHANGED <<pc, mem>>
      \/ pc' \in {"sleep", "down"} /\ mem' = NoMem
  BY DEF OperatorReach, ServiceKept, Start, Stop, Active
<1>4. MonitorTypes'
  BY <1>1, <1>2, <1>3, ConstantsTyped DEF OperatorReach, Untouched, MonitorInv, MonitorTypes, Stages
<1>5. Waiting'
  <2>1. CASE UNCHANGED <<pc, mem>>
    BY <2>1 DEF MonitorInv, Waiting
  <2>2. CASE pc' \in {"sleep", "down"}
    BY <2>2 DEF Waiting
  <2>3. QED
    BY <1>3, <2>1, <2>2
<1>6. QED
  BY <1>4, <1>5 DEF MonitorInv

\* MonitorInv through every step of the deployed observer.
LEMMA MonitorKept == MonitorInv /\ OperatorTypes /\ DeployNext => MonitorInv'
<1> SUFFICES ASSUME MonitorInv, OperatorTypes, DeployNext PROVE MonitorInv'
  OBVIOUS
<1>1. CASE CycleOfNew
  BY <1>1, CycleKeeps DEF CycleOfNew
<1>2. CASE CycleOfOld
  BY <1>2, ConstantsTyped DEF CycleOfOld, MonitorInv, MonitorTypes, Waiting
<1>3. CASE ProcessEnds
  <2>1. CASE AcceptedLate
    <3>1. told' \subseteq Events
      BY <2>1, TakenKeeps DEF AcceptedLate
    <3>2. QED
      BY <2>1, <3>1, ConstantsTyped DEF AcceptedLate, MonitorInv, MonitorTypes, Waiting, Stages
  <2>2. CASE Crash
    BY <2>2, ConstantsTyped DEF Crash, MonitorInv, MonitorTypes, Waiting, Stages
  <2>3. QED
    BY <1>3, <2>1, <2>2 DEF ProcessEnds
<1>4. CASE SystemdRestarts
  BY <1>4 DEF SystemdRestarts, Restart, MonitorInv, MonitorTypes, Waiting, Stages
<1>5. CASE NewReading
  BY <1>5 DEF NewReading, ChangeReading, MonitorInv, MonitorTypes, Waiting
<1>6. CASE InstallStep \/ UpgradeStep \/ HandlerFails
  BY <1>6, OperatorsReach, OperatorKeepsMonitor
<1>7. CASE OperatorDies
  BY <1>7 DEF OperatorDies, MonitorInv, MonitorTypes, Waiting
<1>8. CASE Reboot
  <2>1. wanted' \in BOOLEAN /\ pc' = "down" /\ mem' = NoMem /\ mishaps' \in Nat
    BY <1>8 DEF Reboot, MonitorInv, MonitorTypes, OperatorTypes, HasFile
  <2>2. QED
    BY <1>8, <2>1, ConstantsTyped DEF Reboot, MonitorInv, MonitorTypes, Waiting, Stages
<1>9. QED
  BY <1>1, <1>2, <1>3, <1>4, <1>5, <1>6, <1>7, <1>8 DEF DeployNext

\* The types of the operators' state through every step.
LEMMA OperatorTypesKept == MonitorTypes /\ OperatorTypes /\ DeployNext => OperatorTypes'
<1> SUFFICES ASSUME MonitorTypes, OperatorTypes, DeployNext PROVE OperatorTypes'
  OBVIOUS
<1> USE DEF OperatorTypes, Ops, InstallSteps, UpgradeSteps, Results, FileNames, Contents
<1>1. CASE CycleOfNew
  BY <1>1 DEF CycleOfNew
<1>2. CASE CycleOfOld
  BY <1>2 DEF CycleOfOld
<1>3. CASE ProcessEnds
  BY <1>3 DEF ProcessEnds, deployVars
<1>4. CASE SystemdRestarts
  BY <1>4 DEF SystemdRestarts
<1>5. CASE NewReading
  BY <1>5 DEF NewReading, deployVars
<1>6. CASE BeginInstall
  <2>1. /\ op' = "home" /\ runs' = runs + 1 /\ created' = {} /\ result' = "none" /\ spoilt' = FALSE
        /\ ServiceKept
        /\ UNCHANGED <<files, home, enabled, wasActive, original, fresh, backup, restored>>
    BY <1>6 DEF BeginInstall
  <2>2. op' \in Ops /\ runs' \in Nat /\ created' \subseteq FileNames /\ result' \in Results
    BY <2>1
  <2>3. spoilt' \in BOOLEAN /\ image' \in Contents
    BY <2>1 DEF ServiceKept
  <2>4. QED
    BY <2>1, <2>2, <2>3
<1>7. CASE MakeHome
  BY <1>7 DEF MakeHome, ServiceKept
<1>8. CASE CreateFile
  BY <1>8 DEF CreateFile, ServiceKept
<1>9. CASE Enroll
  BY <1>9 DEF Enroll, ServiceKept
<1>10. CASE StartInstalled
  BY <1>10 DEF StartInstalled, Start, ServiceKept
<1>11. CASE AwaitFirstState
  BY <1>11 DEF AwaitFirstState, ServiceKept
<1>12. CASE InstallFails
  <2>1. files' \in {files} \cup (IF op \in FileNames THEN {[files EXCEPT ![op] = "partial"]} ELSE {})
    BY <1>12 DEF InstallFails
  <2>2. files' \in [FileNames -> Contents]
    BY <2>1
  <2>3. home' \in BOOLEAN /\ enabled' \in BOOLEAN
    BY <1>12 DEF InstallFails
  <2>4. fresh' \in BOOLEAN /\ image' \in Contents
    BY <1>12 DEF InstallFails, Start, ServiceKept
  <2>5. op' = "undo_stop" /\ UNCHANGED <<created, wasActive, original, backup, result, spoilt, restored, runs>>
    BY <1>12 DEF InstallFails
  <2>6. result' \in Results /\ runs' \in Nat /\ created' \subseteq FileNames /\ op' \in Ops
    BY <2>5
  <2>7. original' \in StateFiles /\ backup' \in Backups
    BY <2>5
  <2>8. wasActive' \in BOOLEAN /\ spoilt' \in BOOLEAN /\ restored' \in BOOLEAN
    BY <2>5
  <2>9. QED
    BY <2>2, <2>3, <2>4, <2>6, <2>7, <2>8
<1>13. CASE UndoStop
  BY <1>13 DEF UndoStop, ServiceKept
<1>14. CASE UndoDisable
  BY <1>14 DEF UndoDisable, ServiceKept
<1>15. CASE UndoFiles
  BY <1>15 DEF UndoFiles, ServiceKept
<1>16. CASE BeginUpgrade
  <2>1. /\ op' = "stop" /\ runs' = runs + 1 /\ original' = Unread /\ result' = "none"
        /\ spoilt' = FALSE /\ wasActive' = Active /\ backup' = [backup EXCEPT !.there = TRUE]
        /\ ServiceKept
        /\ UNCHANGED <<files, home, enabled, created, fresh, restored>>
    BY <1>16 DEF BeginUpgrade
  <2>2. wasActive' \in BOOLEAN
    BY <2>1 DEF Active
  <2>3. backup' \in Backups
    BY <2>1 DEF Backups
  <2>4. op' \in Ops /\ runs' \in Nat /\ result' \in Results /\ original' \in StateFiles
    BY <2>1, ConstantsTyped
  <2>5. spoilt' \in BOOLEAN /\ image' \in Contents
    BY <2>1 DEF ServiceKept
  <2>6. QED
    BY <2>1, <2>2, <2>3, <2>4, <2>5
<1>17. CASE StopOld
  BY <1>17 DEF StopOld, ServiceKept
<1>18. CASE ReadState
  BY <1>18 DEF ReadState, ServiceKept, MonitorTypes
<1>19. CASE SaveBackup
  BY <1>19 DEF SaveBackup, ServiceKept, Backups
<1>20. CASE ReplaceProgram
  BY <1>20 DEF ReplaceProgram, ServiceKept
<1>21. CASE StartNew
  BY <1>21 DEF StartNew, Start, ServiceKept
<1>22. CASE ObserveNew
  BY <1>22 DEF ObserveNew, ServiceKept
<1>23. CASE CheckNew
  BY <1>23 DEF CheckNew, ServiceKept
<1>24. CASE UpgradeFails
  <2>1. files' \in {files} \cup (IF op = "replace" THEN {[files EXCEPT !["program"] = "new"]} ELSE {})
    BY <1>24 DEF UpgradeFails
  <2>2. files' \in [FileNames -> Contents]
    BY <2>1
  <2>3. fresh' \in BOOLEAN /\ image' \in Contents
    BY <1>24 DEF UpgradeFails, Start, ServiceKept
  <2>4. /\ op' = "back_stop"
        /\ UNCHANGED <<home, enabled, created, wasActive, original, backup, result, spoilt, restored, runs>>
    BY <1>24 DEF UpgradeFails
  <2>5. QED
    BY <2>2, <2>3, <2>4
<1>25. CASE BackStop
  BY <1>25 DEF BackStop, ServiceKept
<1>26. CASE BackProgram
  BY <1>26 DEF BackProgram, ServiceKept
<1>27. CASE BackState
  BY <1>27 DEF BackState, ServiceKept
<1>28. CASE BackStart
  BY <1>28 DEF BackStart, Start, ServiceKept
<1>29. CASE HandlerFails
  BY <1>29 DEF HandlerFails, AfterFault, ServiceKept
<1>30. CASE OperatorDies
  BY <1>30 DEF OperatorDies
<1>31. CASE Reboot
  BY <1>31 DEF Reboot
<1>32. QED
  BY <1>1, <1>2, <1>3, <1>4, <1>5, <1>6, <1>7, <1>8, <1>9, <1>10, <1>11, <1>12,
     <1>13, <1>14, <1>15, <1>16, <1>17, <1>18, <1>19, <1>20, <1>21, <1>22, <1>23,
     <1>24, <1>25, <1>26, <1>27, <1>28, <1>29, <1>30, <1>31
  DEF DeployNext, InstallStep, UpgradeStep

-----------------------------------------------------------------------------
(* The operators.                                                          *)

\* Without its directories there is nothing of the observer on the NAS.
Homes ==
  /\ ~home => \A k \in FileNames : files[k] = "none"
  /\ op \in FileNames => home
  /\ backup.there => home

\* An installation works on what it has created itself, an upgrade on an
\* enrolled service, and only an upgrade has a checkpoint.
Divided ==
  /\ op \in InstallSteps =>
       /\ ~backup.there
       /\ \A k \in FileNames : files[k] # "old" /\ (files[k] = "new" => k \in created)
  /\ op \in UpgradeSteps => backup.there
  /\ (backup.there \/ files["program"] = "old") => enabled /\ HasFile("unit")

\* The old program stays in its place until both parts of the checkpoint are
\* there.
Saving ==
  /\ op \in {"stop", "read", "save_program", "save_state"} => files["program"] = "old"
  /\ op \in {"save_state", "replace"} => backup.program = "old"
  /\ op = "replace" => backup.state = original

\* What the handlers have undone so far.
Undoing ==
  /\ (op \in {"undo_disable", "undo_files"} /\ ~spoilt) => ~wanted /\ ~Active
  /\ (op = "undo_files" /\ ~spoilt) => ~enabled
  /\ (op \in {"back_state", "back_start"} /\ ~spoilt) => files["program"] = "old"

ControlInv == Homes /\ Divided /\ Saving /\ Undoing /\ UpgradeRecoverable /\ FailedRunUndone

\* ControlInv through every step: one case per action.
LEMMA ControlKept == OperatorTypes /\ ControlInv /\ DeployNext => ControlInv'
<1> SUFFICES ASSUME OperatorTypes, ControlInv, DeployNext PROVE ControlInv'
  OBVIOUS
<1> USE DEF ControlInv, Homes, Divided, Saving, Undoing, UpgradeRecoverable, FailedRunUndone,
            OperatorTypes, Ops, InstallSteps, UpgradeSteps, FileNames, Contents, HasFile, Active
<1>1. CASE CycleOfNew
  BY <1>1 DEF CycleOfNew, CycleStep, Observe, SaveEvents, SaveState, Accepted, Refused, SavePopped
<1>2. CASE CycleOfOld
  BY <1>2 DEF CycleOfOld
<1>3. CASE ProcessEnds
  BY <1>3 DEF ProcessEnds, AcceptedLate, Crash, deployVars
<1>4. CASE SystemdRestarts
  BY <1>4 DEF SystemdRestarts, Restart, Startable
<1>5. CASE NewReading
  BY <1>5 DEF NewReading, ChangeReading, deployVars
<1>6. CASE BeginInstall
  BY <1>6 DEF BeginInstall, ServiceKept
<1>7. CASE MakeHome
  BY <1>7 DEF MakeHome, ServiceKept
<1>8. CASE CreateFile
  BY <1>8 DEF CreateFile, ServiceKept
<1>9. CASE Enroll
  BY <1>9 DEF Enroll, ServiceKept
<1>10. CASE StartInstalled
  BY <1>10 DEF StartInstalled, Start, ServiceKept
<1>11. CASE AwaitFirstState
  BY <1>11 DEF AwaitFirstState, ServiceKept
<1>12. CASE InstallFails
  BY <1>12 DEF InstallFails, Start, ServiceKept
<1>13. CASE UndoStop
  BY <1>13 DEF UndoStop, Stop
<1>14. CASE UndoDisable
  BY <1>14 DEF UndoDisable, ServiceKept
<1>15. CASE UndoFiles
  BY <1>15 DEF UndoFiles, ServiceKept
<1>16. CASE BeginUpgrade
  BY <1>16 DEF BeginUpgrade, ServiceKept, Startable, Backups
<1>17. CASE StopOld
  BY <1>17 DEF StopOld, Stop
<1>18. CASE ReadState
  BY <1>18 DEF ReadState, ServiceKept
<1>19. CASE SaveBackup
  BY <1>19 DEF SaveBackup, ServiceKept, Backups
<1>20. CASE ReplaceProgram
  BY <1>20 DEF ReplaceProgram, ServiceKept
<1>21. CASE StartNew
  BY <1>21 DEF StartNew, Start, ServiceKept
<1>22. CASE ObserveNew
  BY <1>22 DEF ObserveNew, ServiceKept
<1>23. CASE CheckNew
  BY <1>23 DEF CheckNew, ServiceKept
<1>24. CASE UpgradeFails
  BY <1>24 DEF UpgradeFails, Start, Stop, ServiceKept
<1>25. CASE BackStop
  BY <1>25 DEF BackStop, Stop
<1>26. CASE BackProgram
  BY <1>26 DEF BackProgram, ServiceKept
<1>27. CASE BackState
  BY <1>27 DEF BackState, ServiceKept
<1>28. CASE BackStart
  BY <1>28 DEF BackStart, Start, ServiceKept
<1>29. CASE HandlerFails
  BY <1>29 DEF HandlerFails, AfterFault, ServiceKept
<1>30. CASE OperatorDies
  BY <1>30 DEF OperatorDies
<1>31. CASE Reboot
  BY <1>31 DEF Reboot
<1>32. QED
  BY <1>1, <1>2, <1>3, <1>4, <1>5, <1>6, <1>7, <1>8, <1>9, <1>10, <1>11, <1>12,
     <1>13, <1>14, <1>15, <1>16, <1>17, <1>18, <1>19, <1>20, <1>21, <1>22, <1>23,
     <1>24, <1>25, <1>26, <1>27, <1>28, <1>29, <1>30, <1>31
  DEF DeployNext, InstallStep, UpgradeStep

\* The three invariants hold of whatever is installed at the start.
LEMMA DeployInitially == DeployInit => MonitorInv /\ OperatorTypes /\ ControlInv
<1> SUFFICES ASSUME DeployInit PROVE MonitorInv /\ OperatorTypes /\ ControlInv
  OBVIOUS
<1>1. PICK program \in Existing :
        /\ files = [k \in FileNames |-> program]
        /\ home = (program # "none") /\ enabled = home /\ wanted = home
        /\ image = program
        /\ stateFile \in (IF program = "none" THEN {NoState} ELSE {NoState} \cup OldFiles)
  BY DEF DeployInit
<1>2. program \in {"none", "old", "new"}
  BY DeploymentAssumption
<1>3. stateFile \in StateFiles
  BY <1>1, ConstantsTyped
<1>4. MonitorInv
  <2>1. wanted \in BOOLEAN
    BY <1>1
  <2>2. QED
    BY <1>3, <2>1, ConstantsTyped DEF DeployInit, MonitorInit, MonitorInv, MonitorTypes, Waiting, Stages
<1>5. OperatorTypes
  <2>1. files \in [FileNames -> Contents] /\ image \in Contents
    BY <1>1, <1>2 DEF Contents
  <2>2. home \in BOOLEAN /\ enabled \in BOOLEAN
    BY <1>1
  <2>3. op \in Ops /\ result \in Results /\ created \subseteq FileNames
    BY DEF DeployInit, Ops, Results
  <2>4. QED
    BY <2>1, <2>2, <2>3, ConstantsTyped DEF DeployInit, OperatorTypes
<1>6. ControlInv
  BY <1>1, <1>2 DEF DeployInit, NoBackup, ControlInv, Homes, Divided, Saving, Undoing,
       UpgradeRecoverable, FailedRunUndone, InstallSteps, UpgradeSteps, FileNames, HasFile
<1>7. QED
  BY <1>4, <1>5, <1>6

\* And therefore always.
LEMMA DeployedInv == DeploySpec => [](MonitorInv /\ OperatorTypes /\ ControlInv)
<1>1. MonitorInv /\ OperatorTypes /\ ControlInv /\ [DeployNext]_vars
        => (MonitorInv /\ OperatorTypes /\ ControlInv)'
  <2> SUFFICES ASSUME MonitorInv, OperatorTypes, ControlInv, [DeployNext]_vars
               PROVE  (MonitorInv /\ OperatorTypes /\ ControlInv)'
    OBVIOUS
  <2>1. CASE DeployNext
    BY <2>1, MonitorKept, OperatorTypesKept, ControlKept DEF MonitorInv
  <2>2. CASE UNCHANGED vars
    <3>1. MonitorInv'
      BY <2>2 DEF vars, monitorVars, MonitorInv, MonitorTypes, Waiting
    <3>2. OperatorTypes'
      BY <2>2 DEF vars, deployVars, OperatorTypes
    <3>3. ControlInv'
      BY <2>2 DEF vars, monitorVars, deployVars, ControlInv, Homes, Divided, Saving, Undoing,
           UpgradeRecoverable, FailedRunUndone, HasFile, Active
    <3>4. QED
      BY <3>1, <3>2, <3>3
  <2>3. QED
    BY <2>1, <2>2
<1>2. QED
  BY <1>1, DeployInitially, PTL DEF DeploySpec

-----------------------------------------------------------------------------

\* The files, the queue and every step of the operators have their types,
\* whatever is installed at the start and however often something fails.
THEOREM DeployedTypes == DeploySpec => []DeployTypeOK
<1>1. MonitorInv /\ OperatorTypes => DeployTypeOK
  <2> SUFFICES ASSUME MonitorInv, OperatorTypes PROVE DeployTypeOK
    OBVIOUS
  <2>1. MonitorTypeOK
    BY DEF MonitorInv, MonitorTypes, Mems, MonitorTypeOK
  <2>2. backup.there \in BOOLEAN /\ backup.program \in Contents /\ backup.state \in StateFiles
    BY DEF OperatorTypes, Backups
  <2>3. QED
    BY <2>1, <2>2 DEF OperatorTypes, Ops, DeployTypeOK
<1>2. QED
  BY <1>1, DeployedInv, PTL

\* The owner is told of a low battery only while the reading of the same cycle
\* proves it, for every set of readings and every bound of the queue (cycle,
\* evaluate).
THEOREM AlarmsAreProven == DeploySpec => []NoStaleAlarm
<1>1. MonitorInv => NoStaleAlarm
  <2> SUFFICES ASSUME MonitorInv, pc = "notify", Oldest(mem.pending).status = "LOW_BATTERY"
               PROVE  ProvenLow(mem.seen)
    BY DEF NoStaleAlarm
  <2>1. mem.pending \subseteq Events /\ mem.pending # {}
    BY DEF MonitorInv, MonitorTypes, Mems, Waiting
  <2>2. Oldest(mem.pending) \in mem.pending
    BY <2>1, OldestIn
  <2>3. Warning(mem.seen) /\ mem.seen \in Readings
    BY <2>2 DEF MonitorInv, Waiting
  <2>4. QED
    BY <2>3, WarningProven, MonitorAssumption
<1>2. QED
  BY <1>1, DeployedInv, PTL

\* Once the new program is in place the checkpoint is whole, in any number of
\* runs, deaths and restarts (upgrade).
THEOREM UpgradesRecoverable == DeploySpec => []UpgradeRecoverable
<1>1. ControlInv => UpgradeRecoverable
  BY DEF ControlInv
<1>2. QED
  BY <1>1, DeployedInv, PTL

\* A failure that is reported by a handler without failures of its own has been
\* undone, and stays undone (apply_candidate, upgrade).
THEOREM FailuresUndone == DeploySpec => []FailedRunUndone
<1>1. ControlInv => FailedRunUndone
  BY DEF ControlInv
<1>2. QED
  BY <1>1, DeployedInv, PTL

-----------------------------------------------------------------------------
(* Which program runs.                                                     *)

Busy == {"events", "state", "notify", "popped"}
Unreplaced == {"stop", "read", "save_program", "save_state", "replace"}

\* The owner is told nothing before the new program runs, and the old program
\* is not replaced a second time: a state.json of the old program is one that
\* the new program meets before it has said a word, or never again.
ProgramsInv ==
  /\ pc \in Busy => image = "new"
  /\ ~home => image = "none" /\ told = {}
  /\ op \in {"home", "program"} => files["program"] = "none" /\ image = "none" /\ told = {}
  /\ op \in Unreplaced => files["program"] = "old"
  /\ (~backup.there \/ op \in Unreplaced) /\ files["program"] = "old" => image = "old" /\ told = {}
  /\ image = "old" /\ files["program"] = "new" => told = {}
  /\ ~restored /\ ~stateFile.policy /\ (image = "new" \/ files["program"] = "new") => told = {}
  /\ ~restored /\ pc \in {"notify", "popped"} => stateFile.policy

\* ProgramsInv through every step: one case per action.
LEMMA ProgramsKept ==
  MonitorTypes /\ OperatorTypes /\ ControlInv /\ ProgramsInv /\ DeployNext => ProgramsInv'
<1> SUFFICES ASSUME MonitorTypes, OperatorTypes, ControlInv, ProgramsInv, DeployNext
             PROVE  ProgramsInv'
  OBVIOUS
<1>h. Homes /\ Divided
  BY DEF ControlInv
<1>t. files \in [FileNames -> Contents] /\ op \in Ops /\ home \in BOOLEAN
  BY DEF OperatorTypes
<1>b. backup.there \in BOOLEAN /\ restored \in BOOLEAN /\ backup \in Backups
  BY DEF OperatorTypes, Backups
<1> USE <1>h, <1>t, <1>b DEF Homes, Divided, ProgramsInv, Busy, Unreplaced,
            Ops, InstallSteps, UpgradeSteps, FileNames, Contents, HasFile, Active, Stages
<1>1. CASE CycleOfNew
  <2>1. /\ image = "new" /\ UNCHANGED <<files, home, image, op, backup, restored>>
    BY <1>1 DEF CycleOfNew
  <2>2. home /\ op \notin {"home", "program"}
    BY <2>1
  <2>3. CASE Observe \/ SaveEvents \/ Refused
    BY <1>1, <2>1, <2>3 DEF Observe, SaveEvents, Refused
  <2>4. CASE SaveState \/ SavePopped
    BY <1>1, <2>1, <2>4 DEF SaveState, SavePopped, Saved
  <2>5. CASE Accepted
    BY <1>1, <2>1, <2>2, <2>5 DEF Accepted
  <2>6. QED
    BY <1>1, <2>3, <2>4, <2>5 DEF CycleOfNew, CycleStep
<1>2. CASE CycleOfOld
  BY <1>2 DEF CycleOfOld
<1>3. CASE ProcessEnds
  BY <1>3 DEF ProcessEnds, AcceptedLate, Crash, deployVars
<1>4. CASE SystemdRestarts
  BY <1>4 DEF SystemdRestarts, Restart, Startable
<1>5. CASE NewReading
  BY <1>5 DEF NewReading, ChangeReading, deployVars
<1>6. CASE BeginInstall
  BY <1>6 DEF BeginInstall, ServiceKept, Untouched
<1>7. CASE MakeHome
  BY <1>7 DEF MakeHome, ServiceKept, Untouched
<1>8. CASE CreateFile
  BY <1>8 DEF CreateFile, ServiceKept, Untouched
<1>9. CASE Enroll
  BY <1>9 DEF Enroll, ServiceKept, Untouched
<1>10. CASE StartInstalled
  BY <1>10 DEF StartInstalled, Start, Startable, Untouched
<1>11. CASE AwaitFirstState
  BY <1>11 DEF AwaitFirstState, ServiceKept, Untouched
<1>12. CASE InstallFails
  BY <1>12 DEF InstallFails, Start, Startable, ServiceKept, Untouched
<1>13. CASE UndoStop
  BY <1>13 DEF UndoStop, Stop, Untouched
<1>14. CASE UndoDisable
  BY <1>14 DEF UndoDisable, ServiceKept, Untouched
<1>15. CASE UndoFiles
  BY <1>15 DEF UndoFiles, ServiceKept, Untouched
<1>16. CASE BeginUpgrade
  BY <1>16 DEF BeginUpgrade, ServiceKept, Startable, Backups, Untouched
<1>17. CASE StopOld
  BY <1>17 DEF StopOld, Stop, Untouched
<1>18. CASE ReadState
  BY <1>18 DEF ReadState, ServiceKept, Untouched
<1>19. CASE SaveBackup
  BY <1>19 DEF SaveBackup, ServiceKept, Backups, Untouched
<1>20. CASE ReplaceProgram
  BY <1>20 DEF ReplaceProgram, ServiceKept, Untouched
<1>21. CASE StartNew
  BY <1>21 DEF StartNew, Start, Startable, Untouched
<1>22. CASE ObserveNew
  BY <1>22 DEF ObserveNew, ServiceKept, Untouched
<1>23. CASE CheckNew
  BY <1>23 DEF CheckNew, ServiceKept, Untouched
<1>24. CASE UpgradeFails
  BY <1>24 DEF UpgradeFails, Start, Startable, Stop, ServiceKept, Untouched
<1>25. CASE BackStop
  BY <1>25 DEF BackStop, Stop, Untouched
<1>26. CASE BackProgram
  BY <1>26 DEF BackProgram, ServiceKept, Untouched
<1>27. CASE BackState
  BY <1>27 DEF BackState, ServiceKept, Untouched
<1>28. CASE BackStart
  BY <1>28 DEF BackStart, Start, Startable, ServiceKept, Untouched
<1>29. CASE HandlerFails
  BY <1>29 DEF HandlerFails, AfterFault, ServiceKept, Untouched
<1>30. CASE OperatorDies
  BY <1>30 DEF OperatorDies
<1>31. CASE Reboot
  BY <1>31 DEF Reboot
<1>32. QED
  BY <1>1, <1>2, <1>3, <1>4, <1>5, <1>6, <1>7, <1>8, <1>9, <1>10, <1>11, <1>12,
     <1>13, <1>14, <1>15, <1>16, <1>17, <1>18, <1>19, <1>20, <1>21, <1>22, <1>23,
     <1>24, <1>25, <1>26, <1>27, <1>28, <1>29, <1>30, <1>31
  DEF DeployNext, InstallStep, UpgradeStep

-----------------------------------------------------------------------------
(* The last word.                                                          *)

\* Identifiers are given in order, and the running cycle's event has the last.
Ordered ==
  /\ \A e \in told \cup stateFile.pending \cup events : e.id <= born
  /\ pc = "events" => \A e \in told \cup stateFile.pending \cup events : e.id < born
  /\ pc \in Busy => \A e \in mem.pending : e.id <= born

\* What waits in state.json, and what the running cycle is going to write there.
FileWords ==
  /\ ~stateFile.policy => stateFile = NoState \/ stateFile \in OldFiles
  /\ stateFile.policy =>
       /\ \A e \in stateFile.pending :
            /\ e.status \notin Superseded
            /\ e.status = "LOW_BATTERY" => stateFile.active = "LOW_BATTERY"
       /\ LastWord(stateFile.pending, stateFile.active)

CycleWords ==
  pc \in Busy =>
    /\ mem.active = Owed(mem.seen)
    /\ \A e \in mem.pending : e.status \notin Superseded
    /\ LastWord(mem.pending, mem.active)
    /\ pc \in {"notify", "popped"} =>
         /\ stateFile.policy /\ stateFile.active = mem.active
         /\ mem.pending \subseteq stateFile.pending
    /\ pc = "notify" => mem.pending = stateFile.pending

WordsInv == restored \/ (Ordered /\ FileWords /\ CycleWords)

\* A queue that is not empty has a newest event.
LEMMA LatestIn ==
  ASSUME NEW q, q \subseteq Events, q # {}, NEW n \in Nat, \A e \in q : e.id <= n
  PROVE  \E m \in q : \A f \in q : f.id <= m.id
<1> DEFINE ages == {n - e.id : e \in q}
           R    == OpToRel(<, Nat)
<1>1. IsWellFoundedOn(R, Nat)
  BY NatLessThanWellFounded
<1>2. ages \subseteq Nat /\ ages # {}
  BY DEF Events
<1>3. PICK a \in ages : \A b \in ages : ~(<<b, a>> \in R)
  <2> HIDE DEF R, ages
  <2> QED
    BY <1>1, <1>2, WFMin
<1>4. \A b \in ages : a <= b
  <2> SUFFICES ASSUME NEW b \in ages PROVE a <= b
    OBVIOUS
  <2>1. a \in Nat /\ b \in Nat
    BY <1>2
  <2>2. ~(b < a)
    BY <1>3, <2>1 DEF OpToRel
  <2>3. QED
    BY <2>1, <2>2
<1>5. PICK m \in q : a = n - m.id
  OBVIOUS
<1>6. ASSUME NEW f \in q PROVE f.id <= m.id
  <2>1. n - m.id <= n - f.id
    BY <1>4, <1>5
  <2>2. f.id \in Nat /\ m.id \in Nat
    BY DEF Events
  <2>3. QED
    BY <2>1, <2>2
<1>7. QED
  BY <1>6

\* The bound of a queue never cuts its newest event (Newest).
LEMMA CutKeepsLast ==
  ASSUME NEW q, q \subseteq Events, NEW n \in Nat, \A e \in q : e.id <= n,
         NEW k \in Nat \ {0}, NEW a, LastWord(q, a), told \subseteq Events
  PROVE  LastWord(Newest(q, k), a)
<1> DEFINE kept == Newest(q, k)
<1>1. kept \subseteq q
  BY DEF Newest
<1> SUFFICES ASSUME NEW e \in told \cup kept, \A f \in told \cup kept : f.id <= e.id
             PROVE  Speaks(e, a)
  BY DEF LastWord
<1>2. ASSUME NEW f \in q PROVE f.id <= e.id
  <2>1. PICK m \in q : \A g \in q : g.id <= m.id
    BY <1>2, LatestIn
  <2>2. {g \in q : g.id > m.id} = {}
    <3>1. ASSUME NEW g \in q, g.id > m.id PROVE FALSE
      <4>1. g.id \in Nat /\ m.id \in Nat /\ g.id <= m.id
        BY <2>1 DEF Events
      <4>2. QED
        BY <3>1, <4>1
    <3>2. QED
      BY <3>1
  <2>3. m \in kept
    <3>1. Cardinality({g \in q : g.id > m.id}) = 0
      BY <2>2, FS_EmptySet
    <3>2. QED
      BY <3>1 DEF Newest
  <2>4. f.id \in Nat /\ m.id \in Nat /\ e.id \in Nat
    BY <1>1 DEF Events
  <2>5. f.id <= m.id /\ m.id <= e.id
    BY <2>1, <2>3
  <2>6. QED
    BY <2>4, <2>5
<1>3. QED
  BY <1>1, <1>2 DEF LastWord

\* Steps that say nothing and write nothing, and that go on with a cycle or end
\* it.
LEMMA WordsRest ==
  ASSUME MonitorTypes, WordsInv, UNCHANGED <<events, born, told>>,
         restored' \/ UNCHANGED <<stateFile, restored>>,
         UNCHANGED <<pc, mem>> \/ pc' \in {"sleep", "down"}
  PROVE  WordsInv'
<1> SUFFICES ASSUME ~restored', ~restored, UNCHANGED stateFile PROVE WordsInv'
  BY DEF WordsInv
<1>1. Ordered /\ FileWords /\ CycleWords
  BY DEF WordsInv
<1>2. Ordered'
  BY <1>1 DEF Ordered, Busy
<1>3. FileWords'
  BY <1>1 DEF FileWords, LastWord
<1>4. CycleWords'
  BY <1>1 DEF CycleWords, LastWord, Busy
<1>5. QED
  BY <1>2, <1>3, <1>4 DEF WordsInv

\* A new event is the last word; without one no word is taken back: the low
\* battery is dropped, and a superseded word met, only by a cycle that has a new
\* one (Observe).
LEMMA ObserveWords ==
  ASSUME MonitorInv, WordsInv, ~restored, Observe, UNCHANGED restored,
         ~stateFile.policy => told = {}
  PROVE  WordsInv'
<1> DEFINE due   == Owed(reading)
           event == [id |-> born + 1, status |-> IF due = "NORMAL" THEN "RECOVERED" ELSE due]
           queue == StillOwed(stateFile.pending, reading)
<1>i. Ordered /\ FileWords
  BY DEF WordsInv
<1>t. /\ stateFile.pending \subseteq Events /\ told \subseteq Events /\ events \subseteq Events
      /\ born \in Nat /\ stateFile \in StateFiles /\ reading \in Readings
  BY DEF MonitorInv, MonitorTypes, StateFiles
<1>d. due \in Alarms \cup {"NORMAL"} /\ (due = "LOW_BATTERY" => Warning(reading))
  BY <1>t, OwedRange, MonitorAssumption DEF Owed, Warning
<1>q. queue \subseteq stateFile.pending /\ \A e \in queue : e.status \notin Superseded
  BY DEF StillOwed
<1>1. /\ mem'.active = due /\ mem'.seen = reading
      /\ mem'.pending = (IF due = stateFile.active THEN queue ELSE queue \cup {event})
      /\ IF due = stateFile.active THEN pc' = "state" /\ born' = born
                                   ELSE pc' = "events" /\ born' = born + 1
      /\ UNCHANGED <<reading, stateFile, events, told>>
  BY DEF Observe
<1>e. event.id = born + 1 /\ event.status \notin Superseded /\ Speaks(event, due)
  BY <1>d DEF Superseded, Alarms, Speaks
<1> HIDE DEF event, queue, due
<1>n. \A e \in told \cup stateFile.pending \cup events : e.id \in Nat /\ e.id <= born
  BY <1>i, <1>t DEF Ordered, Events
<1>2. Ordered'
  <2>1. \A e \in told \cup stateFile.pending \cup events : e.id <= born' /\ (pc' = "events" => e.id < born')
    BY <1>1, <1>n, <1>t
  <2>2. \A e \in mem'.pending : e.id <= born'
    BY <1>1, <1>n, <1>t, <1>q, <1>e
  <2>3. QED
    BY <1>1, <2>1, <2>2 DEF Ordered
<1>3. FileWords'
  BY <1>1, <1>i DEF FileWords, LastWord
<1>4. LastWord(mem'.pending, due)
  <2>1. CASE due = stateFile.active /\ stateFile.policy
    <3>1. queue = stateFile.pending
      BY <1>i, <1>d, <2>1 DEF FileWords, StillOwed, queue
    <3>2. QED
      BY <1>1, <1>i, <2>1, <3>1 DEF FileWords
  <2>2. CASE due = stateFile.active /\ ~stateFile.policy
    <3>1. stateFile = NoState
      BY <1>i, <1>d, <2>2 DEF FileWords, OldFiles, Alarms
    <3>2. mem'.pending = {}
      BY <1>1, <1>q, <2>2, <3>1 DEF NoState
    <3>3. QED
      BY <2>2, <3>2 DEF LastWord
  <2>3. CASE due # stateFile.active
    <3>1. mem'.pending = queue \cup {event}
      BY <1>1, <2>3
    <3>2. ASSUME NEW e \in told \cup mem'.pending, \A f \in told \cup mem'.pending : f.id <= e.id
          PROVE  Speaks(e, due)
      <4>1. event.id <= e.id
        BY <3>1, <3>2
      <4>2. e = event
        BY <1>e, <1>n, <1>t, <1>q, <3>1, <4>1
      <4>3. QED
        BY <1>e, <4>2
    <3>3. QED
      BY <3>2 DEF LastWord
  <2>4. QED
    BY <2>1, <2>2, <2>3
<1>5. CycleWords'
  <2>1. \A e \in mem'.pending : e.status \notin Superseded
    BY <1>1, <1>q, <1>e
  <2>2. mem'.active = Owed(mem'.seen)
    BY <1>1 DEF due
  <2>3. LastWord(mem.pending, mem.active)'
    BY <1>1, <1>4 DEF LastWord
  <2>4. pc' \notin {"notify", "popped"}
    BY <1>1
  <2>5. QED
    BY <2>1, <2>2, <2>3, <2>4 DEF CycleWords
<1>6. QED
  BY <1>2, <1>3, <1>5 DEF WordsInv

\* The history takes the event, and no word changes (SaveEvents).
LEMMA SaveEventsWords ==
  ASSUME MonitorInv, WordsInv, ~restored, SaveEvents, UNCHANGED restored
  PROVE  WordsInv'
<1>i. Ordered /\ FileWords /\ CycleWords /\ born \in Nat
  BY DEF WordsInv, MonitorInv, MonitorTypes
<1>1. /\ pc = "events" /\ pc' = "state" /\ events' \subseteq events \cup mem.pending
      /\ UNCHANGED <<stateFile, mem, born, told>>
  BY DEF SaveEvents, Newest
<1>2. Ordered'
  <2>1. \A e \in told \cup stateFile.pending \cup events \cup mem.pending : e.id <= born
    BY <1>i, <1>1 DEF Ordered, Busy
  <2>2. QED
    BY <1>1, <2>1 DEF Ordered, Busy
<1>3. FileWords'
  BY <1>i, <1>1 DEF FileWords, LastWord
<1>4. CycleWords'
  BY <1>i, <1>1 DEF CycleWords, LastWord, Busy
<1>5. QED
  BY <1>2, <1>3, <1>4 DEF WordsInv

\* A queue is cut at its old end, and a low battery that waits is the alarm that
\* is saved beside it (SaveState).
LEMMA SaveStateWords ==
  ASSUME MonitorInv, WordsInv, ~restored, SaveState, UNCHANGED restored
  PROVE  WordsInv'
<1> DEFINE kept == Newest(mem.pending, PendingMax)
<1>i. Ordered /\ FileWords /\ CycleWords
  BY DEF WordsInv
<1>t. born \in Nat /\ mem \in Mems /\ mem.pending \subseteq Events /\ told \subseteq Events
  BY DEF MonitorInv, MonitorTypes, Mems
<1>1. /\ pc = "state" /\ UNCHANGED <<events, born, told>>
      /\ stateFile' = Saved(kept)
      /\ \/ pc' = "sleep"
         \/ pc' = "notify" /\ mem' = [mem EXCEPT !.pending = kept]
  BY DEF SaveState
<1>c. /\ mem.active = Owed(mem.seen)
      /\ \A e \in mem.pending : e.status \notin Superseded
      /\ LastWord(mem.pending, mem.active)
      /\ \A e \in mem.pending : e.id <= born
  BY <1>1, <1>i DEF CycleWords, Ordered, Busy
<1>k. kept \subseteq mem.pending
  BY DEF Newest
<1>l. LastWord(kept, mem.active)
  BY <1>t, <1>c, CutKeepsLast, MonitorAssumption
<1>a. \A e \in mem.pending : e.status = "LOW_BATTERY" => mem.active = "LOW_BATTERY"
  <2>1. Warning(mem.seen) => Owed(mem.seen) = "LOW_BATTERY"
    BY DEF Warning, Owed, PowerOnly
  <2>2. QED
    BY <1>1, <1>c, <2>1 DEF MonitorInv, Waiting
<1> HIDE DEF kept
<1>f. stateFile'.pending = kept /\ stateFile'.policy /\ stateFile'.active = mem.active
  BY <1>1 DEF Saved
<1>m. pc' = "notify" => mem'.pending = kept /\ mem'.active = mem.active /\ mem'.seen = mem.seen
  BY <1>1, <1>t DEF Mems
<1>2. Ordered'
  <2>1. \A e \in kept : e.id <= born
    BY <1>k, <1>c
  <2>2. pc' # "events" /\ (pc' \in Busy => pc' = "notify")
    BY <1>1 DEF Busy
  <2>3. QED
    BY <1>1, <1>i, <1>f, <1>m, <2>1, <2>2 DEF Ordered
<1>3. FileWords'
  <2>1. LastWord(stateFile.pending, stateFile.active)'
    BY <1>1, <1>f, <1>l DEF LastWord
  <2>2. \A e \in stateFile'.pending :
           /\ e.status \notin Superseded
           /\ e.status = "LOW_BATTERY" => stateFile'.active = "LOW_BATTERY"
    BY <1>f, <1>k, <1>c, <1>a
  <2>3. QED
    BY <1>f, <2>1, <2>2 DEF FileWords
<1>4. CycleWords'
  <2>1. SUFFICES ASSUME pc' = "notify" PROVE CycleWords'
    BY <1>1 DEF CycleWords, Busy
  <2>2. LastWord(mem.pending, mem.active)'
    BY <1>1, <1>m, <1>l, <2>1 DEF LastWord
  <2>3. mem'.active = Owed(mem'.seen)
    BY <1>m, <1>c, <2>1
  <2>4. \A e \in mem'.pending : e.status \notin Superseded
    BY <1>m, <1>k, <1>c, <2>1
  <2>5. QED
    BY <1>f, <1>m, <2>1, <2>2, <2>3, <2>4 DEF CycleWords
<1>5. QED
  BY <1>2, <1>3, <1>4 DEF WordsInv

\* What DSM takes was waiting, so the words said and still to be said are the
\* same ones (Accepted, AcceptedLate).
LEMMA TakenWords ==
  ASSUME MonitorInv, WordsInv, ~restored, pc = "notify",
         told' = told \cup {Oldest(mem.pending)},
         UNCHANGED <<restored, stateFile, events, born>>,
         \/ pc' = "sleep"
         \/ pc' = "popped" /\ mem' = [mem EXCEPT !.pending = @ \ {Oldest(@)}]
  PROVE  WordsInv'
<1> DEFINE o == Oldest(mem.pending)
<1>i. Ordered /\ FileWords /\ CycleWords
  BY DEF WordsInv
<1>t. born \in Nat /\ mem \in Mems /\ mem.pending \subseteq Events /\ mem.pending # {}
  BY DEF MonitorInv, MonitorTypes, Mems, Waiting
<1>c. /\ mem.active = Owed(mem.seen)
      /\ \A e \in mem.pending : e.status \notin Superseded
      /\ LastWord(mem.pending, mem.active)
      /\ stateFile.policy /\ stateFile.active = mem.active /\ mem.pending = stateFile.pending
  BY <1>i DEF CycleWords, Busy
<1>o. o \in mem.pending
  BY <1>t, OldestIn
<1> HIDE DEF o
<1>u. told' = told \cup {o}
  BY DEF o
<1>m. pc' = "popped" =>
        mem'.pending = mem.pending \ {o} /\ mem'.active = mem.active /\ mem'.seen = mem.seen
  BY <1>t DEF Mems, o
<1>p. pc' \notin {"events", "notify"} /\ (pc' \in Busy => pc' = "popped")
  BY DEF Busy
<1>2. Ordered'
  BY <1>i, <1>u, <1>o, <1>c, <1>m, <1>p DEF Ordered
<1>3. FileWords'
  <2>1. told' \cup stateFile'.pending = told \cup stateFile.pending
    BY <1>u, <1>o, <1>c
  <2>2. LastWord(stateFile.pending, stateFile.active)'
    BY <1>i, <1>c, <2>1 DEF FileWords, LastWord
  <2>3. QED
    BY <1>i, <1>c, <2>2 DEF FileWords
<1>4. CycleWords'
  <2>1. SUFFICES ASSUME pc' = "popped" PROVE CycleWords'
    BY <1>p DEF CycleWords
  <2>2. told' \cup mem'.pending = told \cup mem.pending
    BY <1>u, <1>o, <1>m, <2>1
  <2>3. LastWord(mem.pending, mem.active)'
    BY <1>c, <1>m, <2>1, <2>2 DEF LastWord
  <2>4. mem'.active = Owed(mem'.seen) /\ \A e \in mem'.pending : e.status \notin Superseded
    BY <1>m, <1>c, <2>1
  <2>5. QED
    BY <1>c, <1>m, <2>1, <2>3, <2>4 DEF CycleWords
<1>5. QED
  BY <1>2, <1>3, <1>4 DEF WordsInv

\* The queue without the notification that was taken is saved (SavePopped).
LEMMA SavePoppedWords ==
  ASSUME MonitorInv, WordsInv, ~restored, SavePopped, UNCHANGED restored
  PROVE  WordsInv'
<1>i. Ordered /\ FileWords /\ CycleWords
  BY DEF WordsInv
<1>1. /\ pc = "popped" /\ pc' = "sleep" /\ UNCHANGED <<events, born, told>>
      /\ stateFile'.pending = mem.pending /\ stateFile'.policy /\ stateFile'.active = mem.active
  BY DEF SavePopped, Saved
<1>c. /\ LastWord(mem.pending, mem.active)
      /\ stateFile.policy /\ stateFile.active = mem.active /\ mem.pending \subseteq stateFile.pending
      /\ \A e \in mem.pending : e.id <= born
  BY <1>i, <1>1 DEF CycleWords, Ordered, Busy
<1>2. Ordered'
  BY <1>i, <1>1, <1>c DEF Ordered, Busy
<1>3. FileWords'
  <2>1. LastWord(stateFile.pending, stateFile.active)'
    BY <1>1, <1>c DEF LastWord
  <2>2. QED
    BY <1>i, <1>1, <1>c, <2>1 DEF FileWords
<1>4. CycleWords'
  BY <1>1 DEF CycleWords, Busy
<1>5. QED
  BY <1>2, <1>3, <1>4 DEF WordsInv

\* The superseded program leaves a file without the mark of the policy
\* (CycleOfOld).
LEMMA OldWords ==
  ASSUME MonitorInv, WordsInv, ~restored, CycleOfOld
  PROVE  WordsInv'
<1>i. Ordered /\ FileWords
  BY DEF WordsInv
<1>1. /\ pc = "sleep" /\ UNCHANGED <<pc, mem, events, born, told, restored>>
      /\ stateFile' \in OldFiles
  BY DEF CycleOfOld
<1>2. ~stateFile'.policy /\ \A e \in stateFile'.pending : e.id = 0
  BY <1>1 DEF OldFiles
<1>3. Ordered'
  <2>1. born \in Nat
    BY DEF MonitorInv, MonitorTypes
  <2>2. QED
    BY <1>i, <1>1, <1>2, <2>1 DEF Ordered, Busy
<1>4. FileWords' /\ CycleWords'
  BY <1>1, <1>2 DEF FileWords, CycleWords, Busy
<1>5. QED
  BY <1>3, <1>4 DEF WordsInv

\* WordsInv through every step of the deployed observer.
LEMMA WordsKept == MonitorInv /\ ProgramsInv /\ WordsInv /\ DeployNext => WordsInv'
<1> SUFFICES ASSUME MonitorInv, ProgramsInv, WordsInv, DeployNext PROVE WordsInv'
  OBVIOUS
<1>t. MonitorTypes
  BY DEF MonitorInv
<1>1. CASE CycleOfNew
  <2>r. UNCHANGED restored
    BY <1>1 DEF CycleOfNew
  <2> SUFFICES ASSUME ~restored PROVE WordsInv'
    BY <2>r DEF WordsInv
  <2>1. CASE Observe
    <3>1. ~stateFile.policy => told = {}
      BY <1>1 DEF CycleOfNew, ProgramsInv
    <3>2. QED
      BY <2>r, <2>1, <3>1, ObserveWords
  <2>2. CASE SaveEvents
    BY <2>r, <2>2, SaveEventsWords
  <2>3. CASE SaveState
    BY <2>r, <2>3, SaveStateWords
  <2>4. CASE Accepted
    BY <2>r, <2>4, TakenWords DEF Accepted
  <2>5. CASE Refused
    BY <2>r, <2>5, <1>t, WordsRest DEF Refused
  <2>6. CASE SavePopped
    BY <2>r, <2>6, SavePoppedWords
  <2>7. QED
    BY <1>1, <2>1, <2>2, <2>3, <2>4, <2>5, <2>6 DEF CycleOfNew, CycleStep
<1>2. CASE CycleOfOld
  <2>1. UNCHANGED restored
    BY <1>2 DEF CycleOfOld
  <2>2. QED
    BY <1>2, <2>1, OldWords DEF WordsInv
<1>3. CASE ProcessEnds
  <2>r. UNCHANGED restored
    BY <1>3 DEF ProcessEnds, deployVars
  <2> SUFFICES ASSUME ~restored PROVE WordsInv'
    BY <2>r DEF WordsInv
  <2>1. CASE AcceptedLate
    BY <2>r, <2>1, TakenWords DEF AcceptedLate
  <2>2. CASE Crash
    BY <2>r, <2>2, <1>t, WordsRest DEF Crash
  <2>3. QED
    BY <1>3, <2>1, <2>2 DEF ProcessEnds
<1>4. CASE SystemdRestarts
  BY <1>4, <1>t, WordsRest DEF SystemdRestarts, Restart
<1>5. CASE NewReading
  BY <1>5, <1>t, WordsRest DEF NewReading, ChangeReading, deployVars
<1>6. CASE InstallStep \/ UpgradeStep \/ HandlerFails
  <2>1. OperatorReach
    BY <1>6, OperatorsReach
  <2>2. UNCHANGED <<pc, mem>> \/ pc' \in {"sleep", "down"}
    BY <2>1 DEF OperatorReach, ServiceKept, Start, Stop
  <2>3. QED
    BY <1>t, <2>1, <2>2, WordsRest DEF OperatorReach, Untouched
<1>7. CASE OperatorDies
  BY <1>7, <1>t, WordsRest DEF OperatorDies
<1>8. CASE Reboot
  BY <1>8, <1>t, WordsRest DEF Reboot
<1>9. QED
  BY <1>1, <1>2, <1>3, <1>4, <1>5, <1>6, <1>7, <1>8 DEF DeployNext

\* Before the first run nothing has been said.
LEMMA WordsInitially == DeployInit => ProgramsInv /\ WordsInv
<1> SUFFICES ASSUME DeployInit PROVE ProgramsInv /\ WordsInv
  OBVIOUS
<1>1. PICK program \in Existing :
        /\ files = [k \in FileNames |-> program]
        /\ home = (program # "none") /\ enabled = home /\ wanted = home
        /\ image = program
        /\ stateFile \in (IF program = "none" THEN {NoState} ELSE {NoState} \cup OldFiles)
  BY DEF DeployInit
<1>2. /\ pc = "down" /\ op = "idle" /\ told = {} /\ events = {} /\ born = 0 /\ ~restored
      /\ ~backup.there
  BY DEF DeployInit, MonitorInit, NoBackup
<1>3. files["program"] = program
  BY <1>1 DEF FileNames
<1>4. ProgramsInv
  BY <1>1, <1>2, <1>3 DEF ProgramsInv, Busy, Unreplaced
<1>5. stateFile \in {NoState} \cup OldFiles
  BY <1>1
<1>6. ~stateFile.policy /\ \A e \in stateFile.pending : e.id = 0
  BY <1>5 DEF NoState, OldFiles
<1>7. WordsInv
  BY <1>2, <1>5, <1>6 DEF WordsInv, Ordered, FileWords, CycleWords, Busy
<1>8. QED
  BY <1>4, <1>7

\* And therefore always.
LEMMA WordsAlways ==
  DeploySpec => [](MonitorInv /\ OperatorTypes /\ ControlInv /\ ProgramsInv /\ WordsInv)
<1>1. MonitorInv /\ OperatorTypes /\ ControlInv /\ ProgramsInv /\ WordsInv
        /\ MonitorInv' /\ OperatorTypes' /\ ControlInv' /\ [DeployNext]_vars
        => (ProgramsInv /\ WordsInv)'
  <2> SUFFICES ASSUME MonitorInv, OperatorTypes, ControlInv, ProgramsInv, WordsInv, [DeployNext]_vars
               PROVE  (ProgramsInv /\ WordsInv)'
    OBVIOUS
  <2>1. CASE DeployNext
    BY <2>1, ProgramsKept, WordsKept DEF MonitorInv
  <2>2. CASE UNCHANGED vars
    <3>1. UNCHANGED <<stateFile, events, pc, mem, born, told>>
      BY <2>2 DEF vars, monitorVars
    <3>2. UNCHANGED <<files, home, image, op, backup, restored>>
      BY <2>2 DEF vars, deployVars
    <3>3. ProgramsInv'
      BY <3>1, <3>2 DEF ProgramsInv
    <3>4. WordsInv'
      BY <3>1, <3>2, WordsRest DEF MonitorInv
    <3>5. QED
      BY <3>3, <3>4
  <2>3. QED
    BY <2>1, <2>2
<1>2. QED
  BY <1>1, WordsInitially, DeployedInv, PTL DEF DeploySpec

\* With everything sent that state.json keeps, the last word the owner has had
\* is the alarm that is raised there, or the end of it: for every bound of the
\* queue, through crashes between any two writes, answers that come too late,
\* refusals, and every step of the operators (cycle, advance).
THEOREM LastWordSound ==
  DeploySpec => [](~restored /\ stateFile.policy => LastWord(stateFile.pending, stateFile.active))
<1>1. WordsInv => (~restored /\ stateFile.policy => LastWord(stateFile.pending, stateFile.active))
  BY DEF WordsInv, FileWords
<1>2. QED
  BY <1>1, WordsAlways, PTL

-----------------------------------------------------------------------------
(* How far back the queue reaches.                                         *)

\* The events of a queue that came after e.
Newer(q, e) == {f \in q : f.id > e.id}

Distinct(q) == \A e, f \in q : e.id = f.id => e = f
OneLow(q) == \A e, f \in q : e.status = "LOW_BATTERY" /\ f.status = "LOW_BATTERY" => e = f

\* While the low battery is raised, its own event will leave the queue of those
\* that wait beside it.
Leaves(e, active) == IF active = "LOW_BATTERY" /\ e.status # "LOW_BATTERY" THEN 1 ELSE 0

\* Of the events made since e, up to the n-th, every second one waits with e,
\* but for the lost ones: a low battery that has ended is dropped, and only its
\* end is put beside it.
Gaps(q, active, n, lost) ==
  \A e \in q : n - e.id <= 2 * Cardinality(Newer(q, e)) + lost - Leaves(e, active)

\* A queue of distinct events is finite, and has no more events after e than
\* were made after e.
LEMMA NewerFinite ==
  ASSUME NEW q, q \subseteq Events, Distinct(q), NEW n \in Nat, \A f \in q : f.id <= n,
         NEW e \in Events, e.id <= n
  PROVE  /\ IsFiniteSet(Newer(q, e)) /\ Cardinality(Newer(q, e)) \in Nat
         /\ Cardinality(Newer(q, e)) <= n - e.id
<1> DEFINE S == Newer(q, e)
           T == e.id + 1 .. n
           F == [f \in S |-> f.id]
<1>1. \A f \in S : f \in q /\ f.id \in Nat /\ f.id > e.id /\ f.id <= n
  BY DEF Newer, Events
<1>2. e.id \in Nat
  BY DEF Events
<1>3. F \in [S -> T]
  BY <1>1, <1>2
<1>4. \A f, g \in S : F[f] = F[g] => f = g
  BY <1>1 DEF Distinct
<1>5. F \in Injection(S, T)
  BY <1>3, <1>4 DEF Injection, IsInjective
<1>6. IsFiniteSet(T) /\ Cardinality(T) = IF e.id + 1 > n THEN 0 ELSE n - (e.id + 1) + 1
  <2>1. \A i, j \in Int : /\ IsFiniteSet(i..j)
                         /\ Cardinality(i..j) = IF i > j THEN 0 ELSE j - i + 1
    BY FS_Interval
  <2>2. e.id + 1 \in Int /\ n \in Int
    BY <1>2
  <2>3. QED
    BY <2>1, <2>2
<1> HIDE DEF S, T, F
<1>7. IsFiniteSet(S) /\ Cardinality(S) <= Cardinality(T)
  BY <1>5, <1>6, FS_Injection
<1>8. Cardinality(S) \in Nat
  BY <1>7, FS_CardinalityType
<1>9. Cardinality(T) \in Int /\ Cardinality(T) <= n - e.id
  BY <1>2, <1>6
<1>10. Cardinality(S) <= n - e.id
  BY <1>2, <1>7, <1>8, <1>9
<1>11. QED
  BY <1>7, <1>8, <1>10 DEF S

\* A later count with as much more room for lost events.
LEMMA GapsLoosen ==
  ASSUME NEW q, q \subseteq Events, Distinct(q), NEW n \in Nat, \A f \in q : f.id <= n,
         NEW a, NEW i \in Int, NEW j \in Int, NEW k \in Int, NEW l \in Int, j - i <= l - k,
         Gaps(q, a, i, k)
  PROVE  Gaps(q, a, j, l)
<1> SUFFICES ASSUME NEW e \in q
             PROVE  j - e.id <= 2 * Cardinality(Newer(q, e)) + l - Leaves(e, a)
  BY DEF Gaps
<1>1. e.id \in Nat /\ Leaves(e, a) \in Int
  BY DEF Events, Leaves
<1>2. Cardinality(Newer(q, e)) \in Nat
  BY NewerFinite
<1>3. i - e.id <= 2 * Cardinality(Newer(q, e)) + k - Leaves(e, a)
  BY DEF Gaps
<1>4. QED
  BY <1>1, <1>2, <1>3

\* A new event comes, and a low battery that has ended goes (advance, cycle).
LEMMA QueueGrows ==
  ASSUME NEW p, p \subseteq Events, Distinct(p), OneLow(p), NEW n \in Nat, \A f \in p : f.id <= n,
         NEW a, NEW d, a # d, NEW l \in Nat, Gaps(p, a, n, l),
         \A f \in p : f.status = "LOW_BATTERY" => a = "LOW_BATTERY",
         NEW q, q = {f \in p : f.status # "LOW_BATTERY" \/ d = "LOW_BATTERY"},
         NEW ev \in Events, ev.id = n + 1, ev.status = "LOW_BATTERY" <=> d = "LOW_BATTERY"
  PROVE  /\ Distinct(q \cup {ev}) /\ OneLow(q \cup {ev})
         /\ Gaps(q \cup {ev}, d, n + 1, l)
<1> DEFINE s == q \cup {ev}
<1>1. q \subseteq p /\ \A f \in q : f.id \in Nat /\ f.id <= n
  BY DEF Events
<1>2. Distinct(s)
  BY <1>1 DEF Distinct
<1>3. \A f \in q : f.status = "LOW_BATTERY" => a = "LOW_BATTERY" /\ d = "LOW_BATTERY"
  OBVIOUS
<1>4. OneLow(s)
  BY <1>3 DEF OneLow
<1>5. Gaps(s, d, n + 1, l)
  <2> SUFFICES ASSUME NEW e \in s
               PROVE  (n + 1) - e.id <= 2 * Cardinality(Newer(s, e)) + l - Leaves(e, d)
    BY DEF Gaps
  <2>1. CASE e = ev
    <3>1. Newer(s, e) = {}
      BY <1>1, <2>1 DEF Newer
    <3>2. Cardinality(Newer(s, e)) = 0 /\ Leaves(e, d) = 0
      BY <2>1, <3>1, FS_EmptySet DEF Leaves
    <3>3. QED
      BY <2>1, <3>2
  <2>2. CASE e \in q
    <3>e. e \in Events /\ e \in p /\ e.id \in Nat /\ e.id <= n
      BY <1>1, <2>2
    <3>f. Distinct(q)
      BY <1>1 DEF Distinct
    <3>1. /\ IsFiniteSet(Newer(p, e)) /\ Cardinality(Newer(p, e)) \in Nat
          /\ IsFiniteSet(Newer(q, e)) /\ Cardinality(Newer(q, e)) \in Nat
      BY <1>1, <3>e, <3>f, NewerFinite
    <3>2. Newer(s, e) = Newer(q, e) \cup {ev} /\ ev \notin Newer(q, e)
      BY <1>1, <3>e DEF Newer
    <3>3. Cardinality(Newer(s, e)) = Cardinality(Newer(q, e)) + 1
      <4>1. Cardinality(Newer(q, e) \cup {ev})
              = IF ev \in Newer(q, e) THEN Cardinality(Newer(q, e)) ELSE Cardinality(Newer(q, e)) + 1
        BY <3>1, FS_AddElement
      <4>2. QED
        BY <3>2, <4>1
    <3>4. n - e.id <= 2 * Cardinality(Newer(p, e)) + l - Leaves(e, a)
      BY <3>e DEF Gaps
    <3> HIDE DEF s
    <3>5. CASE a = "LOW_BATTERY"
      <4>1. Leaves(e, a) = 1 /\ Leaves(e, d) = 0
        BY <1>3, <2>2, <3>5 DEF Leaves
      <4>2. Cardinality(Newer(p, e)) <= Cardinality(Newer(q, e)) + 1
        <5>1. CASE \E low \in p : low.status = "LOW_BATTERY"
          <6>1. PICK low \in p : low.status = "LOW_BATTERY"
            BY <5>1
          <6>2. Newer(p, e) \ {low} \in SUBSET Newer(q, e)
            BY <6>1 DEF Newer, OneLow
          <6>3. Cardinality(Newer(p, e) \ {low}) <= Cardinality(Newer(q, e))
            BY <3>1, <6>2, FS_Subset
          <6>4. Cardinality(Newer(p, e) \ {low})
                  = IF low \in Newer(p, e) THEN Cardinality(Newer(p, e)) - 1 ELSE Cardinality(Newer(p, e))
            BY <3>1, FS_RemoveElement
          <6>5. QED
            BY <3>1, <6>3, <6>4
        <5>2. CASE ~\E low \in p : low.status = "LOW_BATTERY"
          <6>1. p = q
            BY <5>2
          <6>2. Newer(p, e) = Newer(q, e)
            BY <6>1
          <6>3. QED
            BY <3>1, <6>2
        <5>3. QED
          BY <5>1, <5>2
      <4>3. QED
        BY <3>e, <3>1, <3>3, <3>4, <4>1, <4>2
    <3>6. CASE a # "LOW_BATTERY"
      <4>1. p = q
        BY <3>6
      <4>2. Newer(p, e) = Newer(q, e)
        BY <4>1
      <4>3. Leaves(e, a) = 0 /\ Leaves(e, d) \in 0..1
        BY <3>6 DEF Leaves
      <4>4. QED
        BY <3>e, <3>1, <3>3, <3>4, <4>2, <4>3
    <3>7. QED
      BY <3>5, <3>6
  <2>3. QED
    BY <2>1, <2>2
<1>6. QED
  BY <1>2, <1>4, <1>5

\* The bound of a queue leaves every event it keeps with the same newer ones, and
\* fewer than the bound of them (Newest).
LEMMA CutCounts ==
  ASSUME NEW q, q \subseteq Events, Distinct(q), NEW n \in Nat, \A f \in q : f.id <= n,
         NEW k \in Nat \ {0}
  PROVE  \A e \in Newest(q, k) : /\ Newer(Newest(q, k), e) = Newer(q, e)
                                 /\ Cardinality(Newer(q, e)) < k
<1> SUFFICES ASSUME NEW e \in Newest(q, k)
             PROVE  Newer(Newest(q, k), e) = Newer(q, e) /\ Cardinality(Newer(q, e)) < k
  OBVIOUS
<1>1. e \in q /\ Cardinality(Newer(q, e)) < k
  BY DEF Newest, Newer
<1>2. IsFiniteSet(Newer(q, e)) /\ Cardinality(Newer(q, e)) \in Nat /\ e.id \in Nat
  BY <1>1, NewerFinite DEF Events
<1>3. ASSUME NEW f \in Newer(q, e) PROVE f \in Newest(q, k)
  <2>1. f \in q /\ f.id > e.id /\ f.id \in Nat
    BY <1>3 DEF Newer, Events
  <2>2. Newer(q, f) \in SUBSET Newer(q, e)
    BY <1>2, <2>1 DEF Newer, Events
  <2>3. Cardinality(Newer(q, f)) <= Cardinality(Newer(q, e)) /\ Cardinality(Newer(q, f)) \in Nat
    BY <1>2, <2>2, FS_Subset, FS_CardinalityType
  <2>4. Cardinality(Newer(q, f)) < k
    BY <1>1, <1>2, <2>3
  <2>5. QED
    BY <2>1, <2>4 DEF Newest, Newer
<1>4. Newest(q, k) \subseteq q
  BY DEF Newest
<1>5. Newer(Newest(q, k), e) = Newer(q, e)
  BY <1>3, <1>4 DEF Newer
<1>6. QED
  BY <1>1, <1>5

\* The operator has still to stop the service once in this run.
Standing == {"home", "program", "config", "unit", "enroll", "start", "await", "undo_stop",
             "stop", "read", "save_program", "save_state", "replace", "restart", "observe",
             "check", "back_stop"}
Reserve == IF op \in Standing THEN 1 ELSE 0

\* How often, at most, the observer was ended with an event that it had not
\* saved: by a mishap, or by the stop of an operator's run.
Lost == mishaps + runs - Reserve
LossInv == op \in Standing => runs > 0

\* The history reaches back past a full queue and everything lost so far.
Within == Lost + 2 * PendingMax <= HistoryMax

\* An event was made that state.json does not have.
Unsaved == IF pc \in {"events", "state"} /\ mem.active # stateFile.active THEN 1 ELSE 0

FileCounts ==
  stateFile.policy =>
    /\ stateFile.pending \subseteq events
    /\ OneLow(stateFile.pending)
    /\ Gaps(stateFile.pending, stateFile.active, born - Unsaved, Lost)
    /\ \A e \in stateFile.pending : Cardinality(Newer(stateFile.pending, e)) < PendingMax

CycleCounts ==
  /\ pc \in Busy =>
       /\ Distinct(mem.pending) /\ OneLow(mem.pending)
       /\ Gaps(mem.pending, mem.active, born, Lost)
  /\ pc = "events" =>
       /\ \A e \in mem.pending : e.id = born \/ (stateFile.policy /\ e \in stateFile.pending)
       /\ mem.active # stateFile.active
  /\ pc \in {"state", "notify", "popped"} => mem.pending \subseteq events

CountInv == Distinct(events) /\ FileCounts /\ CycleCounts
CountsInv == restored \/ ~Within \/ CountInv

\* What the steps outside the cycle can take from the observer: an unsaved event,
\* and then a mishap or the one stop of the run is spent.
Spends ==
  /\ Lost' >= Lost
  /\ \/ UNCHANGED <<pc, mem>>
     \/ pc' \in {"sleep", "down"} /\ Lost' >= Lost + Unsaved

\* The invariants this part rests on.
BaseInv == MonitorInv /\ OperatorTypes /\ ControlInv /\ ProgramsInv /\ WordsInv

LEMMA LostTyped ==
  ASSUME BaseInv, LossInv
  PROVE  Lost \in Nat /\ Unsaved \in 0..1 /\ born \in Nat /\ Reserve \in 0..1
<1>1. mishaps \in Nat /\ runs \in Nat /\ born \in Nat
  BY DEF BaseInv, MonitorInv, MonitorTypes, OperatorTypes
<1>2. QED
  BY <1>1 DEF LossInv, Lost, Reserve, Unsaved

\* A run begins with its reserve, and counts (BeginInstall, BeginUpgrade).
LEMMA LossKept == BaseInv /\ LossInv /\ DeployNext => LossInv'
<1> SUFFICES ASSUME BaseInv, LossInv, DeployNext PROVE LossInv'
  OBVIOUS
<1>t. runs \in Nat
  BY DEF BaseInv, OperatorTypes
<1>1. CASE BeginInstall \/ BeginUpgrade
  BY <1>t, <1>1 DEF BeginInstall, BeginUpgrade, LossInv
<1>2. CASE UNCHANGED <<op, runs>>
  BY <1>2 DEF LossInv
<1>3. CASE runs' = runs /\ (op' \in Standing => op \in Standing)
  BY <1>3 DEF LossInv
<1>4. CASE InstallStep /\ ~BeginInstall
  <2>1. runs' = runs /\ op \in Standing \cup {"undo_disable", "undo_files"}
    BY <1>4 DEF InstallStep, MakeHome, CreateFile, Enroll, StartInstalled, AwaitFirstState,
         InstallFails, UndoStop, UndoDisable, UndoFiles, FileNames, Standing
  <2>2. op \in {"undo_disable", "undo_files"} => op' \notin Standing
    BY <1>4 DEF InstallStep, MakeHome, CreateFile, Enroll, StartInstalled, AwaitFirstState,
         InstallFails, UndoStop, UndoDisable, UndoFiles, FileNames, Standing
  <2>3. QED
    BY <1>3, <2>1, <2>2
<1>5. CASE UpgradeStep /\ ~BeginUpgrade
  <2>1. runs' = runs /\ op \in Standing \cup {"back_program", "back_state", "back_start"}
    BY <1>5 DEF UpgradeStep, StopOld, ReadState, SaveBackup, ReplaceProgram, StartNew, ObserveNew,
         CheckNew, UpgradeFails, BackStop, BackProgram, BackState, BackStart, Standing
  <2>2. op \in {"back_program", "back_state", "back_start"} => op' \notin Standing
    BY <1>5 DEF UpgradeStep, StopOld, ReadState, SaveBackup, ReplaceProgram, StartNew, ObserveNew,
         CheckNew, UpgradeFails, BackStop, BackProgram, BackState, BackStart, Standing
  <2>3. QED
    BY <1>3, <2>1, <2>2
<1>6. CASE CycleOfNew \/ CycleOfOld \/ ProcessEnds \/ SystemdRestarts \/ NewReading
  BY <1>2, <1>6 DEF CycleOfNew, CycleOfOld, ProcessEnds, SystemdRestarts, NewReading, deployVars
<1>7. CASE HandlerFails \/ OperatorDies \/ Reboot
  <2>1. runs' = runs /\ op' \notin Standing
    BY <1>7 DEF HandlerFails, AfterFault, OperatorDies, Reboot, Standing
  <2>2. QED
    BY <1>3, <2>1
<1>8. QED
  BY <1>1, <1>4, <1>5, <1>6, <1>7 DEF DeployNext

\* A mishap pays for whatever its step takes.
LEMMA MishapSpends ==
  ASSUME BaseInv, LossInv, mishaps' = mishaps + 1, runs' = runs,
         op' \in Standing => op \in Standing,
         UNCHANGED <<pc, mem>> \/ pc' \in {"sleep", "down"}
  PROVE  Spends
<1>1. mishaps \in Nat /\ runs \in Nat
  BY DEF BaseInv, MonitorInv, MonitorTypes, OperatorTypes
<1>2. Unsaved \in 0..1
  BY DEF Unsaved
<1>3. Lost' >= Lost + 1
  BY <1>1 DEF Lost, Reserve
<1>4. Lost \in Int /\ Lost' \in Int
  BY <1>1 DEF Lost, Reserve
<1>5. QED
  BY <1>2, <1>3, <1>4 DEF Spends

\* The stop that a run has in reserve pays for what it takes (UndoStop, BackStop).
LEMMA StopSpends ==
  ASSUME BaseInv, LossInv, UNCHANGED <<mishaps, runs>>, op \in Standing, op' \notin Standing,
         pc' \in {"sleep", "down"}
  PROVE  Spends
<1>1. mishaps \in Nat /\ runs \in Nat
  BY DEF BaseInv, MonitorInv, MonitorTypes, OperatorTypes
<1>2. Reserve = 1 /\ Reserve' = 0 /\ Unsaved \in 0..1
  BY DEF Reserve, Unsaved
<1>3. Lost' = Lost + 1 /\ Lost \in Int
  BY <1>1, <1>2 DEF Lost
<1>4. QED
  BY <1>2, <1>3 DEF Spends

\* Any other step takes no unsaved event.
LEMMA RestSpends ==
  ASSUME BaseInv, LossInv, UNCHANGED <<mishaps, runs>>, op' \in Standing => op \in Standing,
         UNCHANGED <<pc, mem>> \/ (pc' \in {"sleep", "down"} /\ pc \notin {"events", "state"})
  PROVE  Spends
<1>1. mishaps \in Nat /\ runs \in Nat
  BY DEF BaseInv, MonitorInv, MonitorTypes, OperatorTypes
<1>2. Lost' >= Lost /\ Lost \in Int /\ Lost' \in Int
  BY <1>1 DEF Lost, Reserve
<1>3. pc \notin {"events", "state"} => Unsaved = 0
  BY DEF Unsaved
<1>4. QED
  BY <1>2, <1>3 DEF Spends

\* What an installation takes: its one stop is UndoStop.
LEMMA InstallSpends ==
  ASSUME BaseInv, LossInv, InstallStep
  PROVE  Spends
<1> USE DEF Standing, FileNames
<1>s. Start => UNCHANGED <<pc, mem>> \/ (pc' \in {"sleep", "down"} /\ pc \notin {"events", "state"})
  BY DEF Start, Active
<1>1. CASE BeginInstall
  <2>1. runs \in Nat /\ mishaps \in Nat
    BY DEF BaseInv, MonitorInv, MonitorTypes, OperatorTypes
  <2>2. Reserve = 0 /\ Reserve' = 1 /\ runs' = runs + 1 /\ mishaps' = mishaps
    BY <1>1 DEF BeginInstall, Reserve
  <2>3. Lost' = Lost /\ Lost \in Int
    BY <2>1, <2>2 DEF Lost
  <2>4. QED
    BY <1>1, <2>3 DEF BeginInstall, ServiceKept, Spends
<1>2. CASE MakeHome
  BY <1>2, RestSpends DEF MakeHome, ServiceKept
<1>3. CASE CreateFile
  BY <1>3, RestSpends DEF CreateFile, ServiceKept
<1>4. CASE Enroll
  BY <1>4, RestSpends DEF Enroll, ServiceKept
<1>5. CASE StartInstalled
  BY <1>5, <1>s, RestSpends DEF StartInstalled
<1>6. CASE AwaitFirstState
  BY <1>6, RestSpends DEF AwaitFirstState, ServiceKept
<1>7. CASE InstallFails
  BY <1>7, <1>s, MishapSpends DEF InstallFails, ServiceKept
<1>8. CASE UndoStop
  BY <1>8, StopSpends DEF UndoStop, Stop
<1>9. CASE UndoDisable
  BY <1>9, RestSpends DEF UndoDisable, ServiceKept
<1>10. CASE UndoFiles
  BY <1>10, RestSpends DEF UndoFiles, ServiceKept
<1>11. QED
  BY <1>1, <1>2, <1>3, <1>4, <1>5, <1>6, <1>7, <1>8, <1>9, <1>10 DEF InstallStep

\* What an upgrade takes: it stops the old program, which has no event to lose,
\* and the new one in BackStop.
LEMMA UpgradeSpends ==
  ASSUME BaseInv, LossInv, UpgradeStep
  PROVE  Spends
<1> USE DEF Standing
<1>s. Start => UNCHANGED <<pc, mem>> \/ (pc' \in {"sleep", "down"} /\ pc \notin {"events", "state"})
  BY DEF Start, Active
<1>1. CASE BeginUpgrade
  <2>1. runs \in Nat /\ mishaps \in Nat
    BY DEF BaseInv, MonitorInv, MonitorTypes, OperatorTypes
  <2>2. Reserve = 0 /\ Reserve' = 1 /\ runs' = runs + 1 /\ mishaps' = mishaps
    BY <1>1 DEF BeginUpgrade, Reserve
  <2>3. Lost' = Lost /\ Lost \in Int
    BY <2>1, <2>2 DEF Lost
  <2>4. QED
    BY <1>1, <2>3 DEF BeginUpgrade, ServiceKept, Spends
<1>2. CASE StopOld
  <2>1. pc \notin {"events", "state"}
    BY <1>2 DEF StopOld, BaseInv, ProgramsInv, Unreplaced, Busy
  <2>2. QED
    BY <1>2, <2>1, RestSpends DEF StopOld, Stop
<1>3. CASE ReadState
  BY <1>3, RestSpends DEF ReadState, ServiceKept
<1>4. CASE SaveBackup
  BY <1>4, RestSpends DEF SaveBackup, ServiceKept
<1>5. CASE ReplaceProgram
  BY <1>5, RestSpends DEF ReplaceProgram, ServiceKept
<1>6. CASE StartNew
  BY <1>6, <1>s, RestSpends DEF StartNew
<1>7. CASE ObserveNew
  BY <1>7, RestSpends DEF ObserveNew, ServiceKept
<1>8. CASE CheckNew
  BY <1>8, RestSpends DEF CheckNew, ServiceKept
<1>9. CASE UpgradeFails
  BY <1>9, <1>s, MishapSpends DEF UpgradeFails, ServiceKept, Stop
<1>10. CASE BackStop
  BY <1>10, StopSpends DEF BackStop, Stop
<1>11. CASE BackProgram
  BY <1>11, RestSpends DEF BackProgram, ServiceKept
<1>12. CASE BackState
  BY <1>12, RestSpends DEF BackState, ServiceKept
<1>13. CASE BackStart
  BY <1>13, <1>s, RestSpends DEF BackStart, ServiceKept
<1>14. QED
  BY <1>1, <1>2, <1>3, <1>4, <1>5, <1>6, <1>7, <1>8, <1>9, <1>10, <1>11, <1>12, <1>13
  DEF UpgradeStep
\* A mishap outside the cycle, a restart, and a notification that DSM refused or
\* answered too late take no more than Spends allows.
LEMMA OthersSpend ==
  ASSUME BaseInv, LossInv,
         HandlerFails \/ OperatorDies \/ Reboot \/ ProcessEnds \/ SystemdRestarts \/ NewReading
           \/ (CycleOfNew /\ Refused)
  PROVE  Spends
<1>1. CASE HandlerFails
  <2>1. op' \notin Standing
    BY <1>1 DEF HandlerFails, AfterFault, Standing
  <2>2. runs' = runs
    BY <1>1 DEF HandlerFails
  <2>3. QED
    BY <1>1, <2>1, <2>2, MishapSpends DEF HandlerFails, ServiceKept
<1>2. CASE OperatorDies
  BY <1>2, MishapSpends DEF OperatorDies, Standing
<1>3. CASE Reboot
  BY <1>3, MishapSpends DEF Reboot, Standing
<1>4. CASE ProcessEnds
  BY <1>4, MishapSpends DEF ProcessEnds, AcceptedLate, Crash, deployVars
<1>5. CASE SystemdRestarts
  BY <1>5, RestSpends DEF SystemdRestarts, Restart
<1>6. CASE NewReading
  BY <1>6, RestSpends DEF NewReading, ChangeReading, deployVars
<1>7. CASE CycleOfNew /\ Refused
  BY <1>7, RestSpends DEF CycleOfNew, Refused
<1>8. QED
  BY <1>1, <1>2, <1>3, <1>4, <1>5, <1>6, <1>7

\* What waits in state.json and in the cycle is distinct and made already.
LEMMA QueuesOrdered ==
  ASSUME BaseInv, ~restored, CountInv
  PROVE  /\ stateFile.pending \subseteq Events /\ \A e \in stateFile.pending : e.id <= born
         /\ stateFile.policy => Distinct(stateFile.pending)
         /\ mem.pending \subseteq Events /\ (pc \in Busy => \A e \in mem.pending : e.id <= born)
         /\ events \subseteq Events /\ \A e \in events : e.id <= born
<1>1. Ordered
  BY DEF BaseInv, WordsInv
<1>2. MonitorTypes
  BY DEF BaseInv, MonitorInv
<1>3. stateFile.policy => Distinct(stateFile.pending)
  BY DEF CountInv, FileCounts, Distinct
<1>4. stateFile.pending \subseteq Events /\ mem.pending \subseteq Events /\ events \subseteq Events
  BY <1>2 DEF MonitorTypes, StateFiles, Mems
<1>5. QED
  BY <1>1, <1>3, <1>4 DEF Ordered

\* Steps that make no event and write no history: what is lost is paid for.
LEMMA CountsRest ==
  ASSUME BaseInv, BaseInv', LossInv, LossInv', CountsInv, Spends, UNCHANGED <<events, born>>,
         restored' \/ UNCHANGED <<stateFile, restored>>
  PROVE  CountsInv'
<1> SUFFICES ASSUME ~restored', Within' PROVE CountInv'
  BY DEF CountsInv
<1>1. ~restored /\ UNCHANGED stateFile
  OBVIOUS
<1>t. born \in Nat /\ HistoryMax \in Nat /\ PendingMax \in Nat
  BY MonitorAssumption DEF BaseInv, MonitorInv, MonitorTypes
<1>l. PICK l \in Nat : l = Lost
  BY LostTyped
<1>k. PICK k \in Int : k = Lost'
  <2>1. mishaps' \in Nat /\ runs' \in Nat
    BY DEF BaseInv, MonitorInv, MonitorTypes, OperatorTypes
  <2>2. Lost' \in Int
    BY <2>1 DEF Lost, Reserve
  <2>3. QED
    BY <2>2
<1>u. PICK u \in 0..1 : u = Unsaved
  BY LostTyped
<1>w. PICK w \in 0..1 : w = Unsaved'
  BY DEF Unsaved
<1>2. l <= k
  BY <1>l, <1>k DEF Spends
<1>3. CountInv
  <2>1. k + 2 * PendingMax <= HistoryMax
    BY <1>k DEF Within
  <2>2. l + 2 * PendingMax <= HistoryMax
    BY <1>2, <1>t, <2>1
  <2>3. Within
    BY <1>l, <2>2 DEF Within
  <2>4. QED
    BY <1>1, <2>3 DEF CountsInv
<1>4. \/ UNCHANGED <<pc, mem>> /\ w = u
      \/ pc' \in {"sleep", "down"} /\ w = 0 /\ l + u <= k
  <2>1. CASE UNCHANGED <<pc, mem>>
    BY <1>1, <1>u, <1>w, <2>1 DEF Unsaved
  <2>2. CASE pc' \in {"sleep", "down"} /\ Lost' >= Lost + Unsaved
    <3>1. w = 0
      BY <1>w, <2>2 DEF Unsaved
    <3>2. QED
      BY <1>l, <1>k, <1>u, <2>2, <3>1
  <2>3. QED
    BY <2>1, <2>2 DEF Spends
<1>5. Distinct(events)'
  BY <1>3 DEF CountInv, Distinct
<1>6. FileCounts'
  <2>1. SUFFICES ASSUME stateFile.policy
                 PROVE  Gaps(stateFile.pending, stateFile.active, born - w, k)
    BY <1>1, <1>3, <1>k, <1>w DEF FileCounts, CountInv
  <2>2. Gaps(stateFile.pending, stateFile.active, born - u, l)
    BY <1>3, <1>l, <1>u, <2>1 DEF CountInv, FileCounts
  <2>3. (born - w) - (born - u) <= k - l /\ born - w \in Int /\ born - u \in Int
    BY <1>t, <1>2, <1>4
  <2>4. QED
    BY <1>1, <1>3, <1>t, <2>1, <2>2, <2>3, QueuesOrdered, GapsLoosen
<1>7. CycleCounts'
  <2>1. CASE UNCHANGED <<pc, mem>>
    <3>1. pc \in Busy => Gaps(mem.pending, mem.active, born, k)
      <4>1. SUFFICES ASSUME pc \in Busy PROVE Gaps(mem.pending, mem.active, born, k)
        OBVIOUS
      <4>2. Gaps(mem.pending, mem.active, born, l) /\ Distinct(mem.pending)
        BY <1>3, <1>l, <4>1 DEF CountInv, CycleCounts
      <4>3. born - born <= k - l
        BY <1>t, <1>2
      <4>4. QED
        BY <1>1, <1>3, <1>t, <4>1, <4>2, <4>3, QueuesOrdered, GapsLoosen
    <3>2. QED
      BY <1>1, <1>3, <1>k, <2>1, <3>1 DEF CycleCounts, CountInv
  <2>2. CASE pc' \in {"sleep", "down"}
    BY <2>2 DEF CycleCounts, Busy
  <2>3. QED
    BY <1>4, <2>1, <2>2
<1>8. QED
  BY <1>5, <1>6, <1>7 DEF CountInv

\* The cycle's own steps lose nothing.
LEMMA CycleSpends ==
  ASSUME CycleOfNew
  PROVE  Lost' = Lost /\ (Within' <=> Within) /\ UNCHANGED restored
<1>1. UNCHANGED <<op, runs, restored, mishaps>>
  BY DEF CycleOfNew, CycleStep, Observe, SaveEvents, SaveState, Accepted, Refused, SavePopped
<1>2. QED
  BY <1>1 DEF Lost, Within, Reserve

\* The queue the cycle goes on with: the one of state.json, or what is left of it
\* and the new event (Observe).
LEMMA ObserveCounts ==
  ASSUME BaseInv, LossInv, ~restored, CountInv, CycleOfNew, Observe
  PROVE  CountInv'
<1> DEFINE due   == Owed(reading)
           event == [id |-> born + 1, status |-> IF due = "NORMAL" THEN "RECOVERED" ELSE due]
           queue == StillOwed(stateFile.pending, reading)
           old   == IF stateFile.policy THEN stateFile.pending ELSE {}
<1>t. MonitorInv /\ FileWords /\ born \in Nat /\ reading \in Readings /\ stateFile \in StateFiles
  BY DEF BaseInv, WordsInv, MonitorInv, MonitorTypes
<1>d. due \in Alarms \cup {"NORMAL"} /\ (due = "LOW_BATTERY" <=> Warning(reading))
  <2>1. due \in Alarms \cup {"NORMAL"}
    BY <1>t, OwedRange, MonitorAssumption
  <2>2. QED
    BY <2>1 DEF Owed, Warning, PowerOnly
<1>e. /\ event \in Events /\ event.id = born + 1
      /\ event.status = "LOW_BATTERY" <=> due = "LOW_BATTERY"
  <2>1. event.status \in Statuses /\ event.id \in Nat
    BY <1>d, <1>t DEF Statuses
  <2>2. QED
    BY <2>1 DEF Events
<1>1. /\ pc = "sleep" /\ mem'.active = due
      /\ mem'.pending = (IF due = stateFile.active THEN queue ELSE queue \cup {event})
      /\ IF due = stateFile.active THEN pc' = "state" /\ born' = born
                                   ELSE pc' = "events" /\ born' = born + 1
      /\ UNCHANGED <<stateFile, events>>
  BY DEF Observe
<1>q. /\ queue = {e \in old : e.status # "LOW_BATTERY" \/ due = "LOW_BATTERY"}
      /\ \A e \in old : e.status = "LOW_BATTERY" => stateFile.active = "LOW_BATTERY"
  <2>1. CASE stateFile.policy
    BY <1>t, <1>d, <2>1 DEF StillOwed, FileWords
  <2>2. CASE ~stateFile.policy
    <3>1. \A e \in stateFile.pending : e.status = "POWER_CAUTION"
      BY <1>t, <2>2 DEF FileWords, NoState, OldFiles
    <3>2. queue = {}
      BY <3>1 DEF StillOwed, Superseded
    <3>3. QED
      BY <2>2, <3>2
  <2>3. QED
    BY <2>1, <2>2
<1> HIDE DEF due, event, queue
<1>l. PICK l \in Nat : l = Lost /\ l = Lost'
  BY LostTyped, CycleSpends
<1>o. /\ old \subseteq Events /\ Distinct(old) /\ OneLow(old) /\ Gaps(old, stateFile.active, born, l)
      /\ \A e \in old : e.id <= born
      /\ stateFile.policy => old \subseteq events
  <2>1. Unsaved = 0 /\ born - 0 = born
    BY <1>1, <1>t DEF Unsaved
  <2>2. CASE stateFile.policy
    BY <1>l, <2>1, <2>2, QueuesOrdered DEF CountInv, FileCounts
  <2>3. CASE ~stateFile.policy
    BY <2>3 DEF Distinct, OneLow, Gaps
  <2>4. QED
    BY <2>2, <2>3
<1>2. Unsaved' = IF due = stateFile.active THEN 0 ELSE 1
  BY <1>1 DEF Unsaved
<1>3. FileCounts'
  <2>1. SUFFICES ASSUME stateFile.policy
                 PROVE  Gaps(stateFile.pending, stateFile.active, born' - Unsaved', l)
    BY <1>1, <1>l DEF FileCounts, CountInv
  <2>2. born' - Unsaved' = born
    BY <1>1, <1>2, <1>t
  <2>3. QED
    BY <1>o, <2>1, <2>2
<1>4. CASE due = stateFile.active
  <2>1. mem'.pending = queue /\ queue \subseteq old /\ pc' = "state" /\ born' = born
    BY <1>1, <1>4, <1>q
  <2>2. queue = old
    BY <1>4, <1>q
  <2>3. queue \subseteq events
    BY <1>o, <2>2
  <2>4. CycleCounts'
    <3>1. Gaps(mem'.pending, mem'.active, born', l)
      BY <1>1, <1>4, <1>o, <2>1, <2>2
    <3>2. Distinct(mem'.pending) /\ OneLow(mem'.pending) /\ mem'.pending \subseteq events'
      BY <1>1, <1>o, <2>1, <2>2, <2>3
    <3>3. QED
      BY <1>l, <2>1, <3>1, <3>2 DEF CycleCounts, Distinct, OneLow
  <2>5. QED
    BY <1>1, <1>3, <2>4 DEF CountInv, Distinct
<1>5. CASE due # stateFile.active
  <2>1. mem'.pending = queue \cup {event} /\ pc' = "events" /\ born' = born + 1
    BY <1>1, <1>5
  <2>2. /\ Distinct(queue \cup {event}) /\ OneLow(queue \cup {event})
        /\ Gaps(queue \cup {event}, due, born + 1, l)
    BY <1>t, <1>e, <1>q, <1>o, <1>5, QueueGrows
  <2>3. CycleCounts'
    <3>1. Gaps(mem'.pending, mem'.active, born', l)
      BY <1>1, <2>1, <2>2
    <3>2. Distinct(mem'.pending) /\ OneLow(mem'.pending)
      BY <2>1, <2>2
    <3>3. \A e \in mem'.pending : e.id = born' \/ (stateFile'.policy /\ e \in stateFile'.pending)
      BY <1>1, <1>e, <1>q, <2>1
    <3>4. QED
      BY <1>1, <1>5, <1>l, <2>1, <3>1, <3>2, <3>3 DEF CycleCounts, Distinct, OneLow
  <2>4. QED
    BY <1>1, <1>3, <2>3 DEF CountInv, Distinct
<1>6. QED
  BY <1>4, <1>5

\* The history keeps what waits: a full queue and everything lost fit in it
\* (SaveEvents).
LEMMA SaveEventsCounts ==
  ASSUME BaseInv, LossInv, ~restored, Within, CountInv, CycleOfNew, SaveEvents
  PROVE  CountInv'
<1> DEFINE fresh1 == {e \in mem.pending : e.id = born}
           all    == events \cup fresh1
<1>t. born \in Nat /\ HistoryMax \in Nat \ {0} /\ PendingMax \in Nat \ {0}
  BY MonitorAssumption DEF BaseInv, MonitorInv, MonitorTypes
<1>1. /\ pc = "events" /\ pc' = "state" /\ events' = Newest(all, HistoryMax)
      /\ UNCHANGED <<stateFile, mem, born>>
  BY DEF SaveEvents
<1>c. /\ Distinct(mem.pending)
      /\ \A e \in mem.pending : e.id = born \/ (stateFile.policy /\ e \in stateFile.pending)
      /\ mem.active # stateFile.active
  BY <1>1 DEF CountInv, CycleCounts, Busy
<1>o. \A e \in events : e.id < born
  BY <1>1 DEF BaseInv, WordsInv, Ordered
<1>a. all \subseteq Events /\ Distinct(all) /\ \A e \in all : e.id <= born
  <2>1. fresh1 \subseteq Events /\ events \subseteq Events
    BY QueuesOrdered
  <2>2. \A e \in events : e.id \in Nat /\ e.id < born
    BY <1>o, <2>1 DEF Events
  <2>3. \A e, f \in all : e.id = f.id => e = f
    BY <1>c, <1>t, <2>2 DEF CountInv, Distinct
  <2>4. \A e \in all : e.id <= born
    BY <1>t, <2>2
  <2>5. QED
    BY <2>1, <2>3, <2>4 DEF Distinct
<1>l. PICK l \in Nat : l = Lost /\ l = Lost'
  BY LostTyped, CycleSpends
<1>p. stateFile.policy => stateFile.pending \subseteq events'
  <2> SUFFICES ASSUME stateFile.policy, NEW e \in stateFile.pending PROVE e \in events'
    OBVIOUS
  <2>1. e \in events /\ e \in Events /\ e.id \in Nat /\ e.id <= born
    BY QueuesOrdered DEF CountInv, FileCounts, Events
  <2>2. Cardinality(Newer(all, e)) \in Nat /\ Cardinality(Newer(all, e)) <= born - e.id
    BY <1>a, <1>t, <2>1, NewerFinite
  <2>3. /\ Cardinality(Newer(stateFile.pending, e)) \in Nat
        /\ Cardinality(Newer(stateFile.pending, e)) < PendingMax
    BY <1>t, <2>1, QueuesOrdered, NewerFinite DEF CountInv, FileCounts
  <2>4. (born - 1) - e.id
          <= 2 * Cardinality(Newer(stateFile.pending, e)) + l - Leaves(e, stateFile.active)
    <3>1. Unsaved = 1
      BY <1>1, <1>c DEF Unsaved
    <3>2. QED
      BY <1>l, <3>1 DEF CountInv, FileCounts, Gaps
  <2>5. Leaves(e, stateFile.active) \in 0..1
    BY DEF Leaves
  <2>6. l + 2 * PendingMax <= HistoryMax
    BY <1>l DEF Within
  <2>7. born - e.id < HistoryMax
    BY <1>t, <2>1, <2>3, <2>4, <2>5, <2>6
  <2>8. Cardinality(Newer(all, e)) < HistoryMax
    BY <1>t, <2>1, <2>2, <2>7
  <2>9. QED
    BY <1>1, <2>1, <2>8 DEF Newest, Newer
<1>m. mem'.pending \subseteq events'
  <2> SUFFICES ASSUME NEW e \in mem.pending, e.id = born PROVE e \in events'
    BY <1>1, <1>c, <1>p
  <2>1. Newer(all, e) = {}
    <3>1. ASSUME NEW f \in all, f.id > e.id PROVE FALSE
      <4>1. f.id \in Nat /\ f.id <= born
        BY <1>a DEF Events
      <4>2. QED
        BY <1>t, <3>1, <4>1
    <3>2. QED
      BY <3>1 DEF Newer
  <2>2. Cardinality(Newer(all, e)) = 0
    BY <2>1, FS_EmptySet
  <2>3. QED
    BY <1>1, <1>t, <2>2 DEF Newest, Newer
<1>2. Distinct(events)'
  <2>1. events' \subseteq all
    BY <1>1 DEF Newest
  <2>2. QED
    BY <1>a, <2>1 DEF Distinct
<1>3. FileCounts'
  <2>1. Unsaved' = Unsaved
    BY <1>1 DEF Unsaved
  <2>2. QED
    BY <1>1, <1>l, <1>p, <2>1 DEF CountInv, FileCounts
<1>4. CycleCounts'
  BY <1>1, <1>l, <1>m DEF CountInv, CycleCounts, Busy
<1>5. QED
  BY <1>2, <1>3, <1>4 DEF CountInv

\* The bound of the queue makes room for the next event, and what stays keeps its
\* place (SaveState).
LEMMA SaveStateCounts ==
  ASSUME BaseInv, LossInv, ~restored, CountInv, CycleOfNew, SaveState
  PROVE  CountInv'
<1> DEFINE kept == Newest(mem.pending, PendingMax)
<1>t. born \in Nat /\ PendingMax \in Nat \ {0} /\ mem \in Mems
  BY MonitorAssumption DEF BaseInv, MonitorInv, MonitorTypes
<1>1. /\ pc = "state" /\ UNCHANGED <<events, born>>
      /\ stateFile' = Saved(kept)
      /\ \/ pc' = "sleep"
         \/ pc' = "notify" /\ mem' = [mem EXCEPT !.pending = kept]
  BY DEF SaveState
<1>l. PICK l \in Nat : l = Lost /\ l = Lost'
  BY LostTyped, CycleSpends
<1>c. /\ Distinct(mem.pending) /\ OneLow(mem.pending) /\ mem.pending \subseteq events
      /\ Gaps(mem.pending, mem.active, born, l)
  BY <1>1, <1>l DEF CountInv, CycleCounts, Busy
<1>q. mem.pending \subseteq Events /\ \A e \in mem.pending : e.id <= born
  BY <1>1, QueuesOrdered DEF Busy
<1>n. \A e \in kept : /\ Newer(kept, e) = Newer(mem.pending, e)
                      /\ Cardinality(Newer(mem.pending, e)) < PendingMax
  BY <1>c, <1>q, <1>t, CutCounts
<1>k. kept \subseteq mem.pending
  BY DEF Newest
<1> HIDE DEF kept
<1>2. Distinct(kept) /\ OneLow(kept) /\ kept \subseteq events
  BY <1>k, <1>c DEF Distinct, OneLow
<1>3. Gaps(kept, mem.active, born, l)
  BY <1>k, <1>n, <1>c DEF Gaps
<1>f. stateFile'.pending = kept /\ stateFile'.active = mem.active
  BY <1>1 DEF Saved
<1>m. pc' = "notify" => mem'.pending = kept /\ mem'.active = mem.active
  BY <1>1, <1>t DEF Mems
<1>4. FileCounts'
  <2>1. Unsaved' = 0 /\ born' - 0 = born
    BY <1>1, <1>t DEF Unsaved
  <2>2. Gaps(stateFile'.pending, stateFile'.active, born' - Unsaved', l)
    BY <1>3, <1>f, <2>1
  <2>3. \A e \in stateFile'.pending : Cardinality(Newer(stateFile'.pending, e)) < PendingMax
    BY <1>n, <1>f
  <2>4. OneLow(stateFile'.pending) /\ stateFile'.pending \subseteq events'
    BY <1>1, <1>2, <1>f
  <2>5. QED
    BY <1>l, <2>2, <2>3, <2>4 DEF FileCounts, OneLow
<1>5. CycleCounts'
  <2>1. SUFFICES ASSUME pc' = "notify" PROVE CycleCounts'
    BY <1>1 DEF CycleCounts, Busy
  <2>2. Gaps(mem'.pending, mem'.active, born', l)
    BY <1>1, <1>3, <1>m, <2>1
  <2>3. Distinct(mem'.pending) /\ OneLow(mem'.pending) /\ mem'.pending \subseteq events'
    BY <1>1, <1>2, <1>m, <2>1
  <2>4. QED
    BY <1>l, <2>1, <2>2, <2>3 DEF CycleCounts, Distinct, OneLow
<1>6. QED
  BY <1>1, <1>4, <1>5 DEF CountInv, Distinct

\* The oldest is nobody's newer event, so the others keep their place (Accepted).
LEMMA AcceptedCounts ==
  ASSUME BaseInv, LossInv, ~restored, CountInv, CycleOfNew, Accepted
  PROVE  CountInv'
<1> DEFINE o == Oldest(mem.pending)
<1>t. born \in Nat /\ mem \in Mems /\ mem.pending \subseteq Events /\ mem.pending # {} /\ pc = "notify"
  BY DEF BaseInv, MonitorInv, MonitorTypes, Mems, Waiting, Accepted
<1>o. o \in mem.pending /\ \A f \in mem.pending : o.id <= f.id
  BY <1>t, OldestIn
<1> HIDE DEF o
<1>1. /\ pc' = "popped" /\ UNCHANGED <<stateFile, events, born>>
      /\ mem'.pending = mem.pending \ {o} /\ mem'.active = mem.active
  BY <1>t DEF Accepted, Mems, o
<1>l. PICK l \in Nat : l = Lost /\ l = Lost'
  BY LostTyped, CycleSpends
<1>c. /\ Distinct(mem.pending) /\ OneLow(mem.pending) /\ mem.pending \subseteq events
      /\ Gaps(mem.pending, mem.active, born, l)
  BY <1>t, <1>l DEF CountInv, CycleCounts, Busy
<1>2. Gaps(mem'.pending, mem'.active, born', l)
  <2> SUFFICES ASSUME NEW e \in mem'.pending
               PROVE  born - e.id <= 2 * Cardinality(Newer(mem'.pending, e)) + l - Leaves(e, mem.active)
    BY <1>1 DEF Gaps
  <2>1. e \in mem.pending /\ o.id \in Nat /\ e.id \in Nat /\ o.id <= e.id
    BY <1>1, <1>o, <1>t DEF Events
  <2>2. Newer(mem'.pending, e) = Newer(mem.pending, e)
    BY <1>1, <2>1 DEF Newer
  <2>3. QED
    BY <1>c, <2>1, <2>2 DEF Gaps
<1>3. FileCounts'
  <2>1. Unsaved' = 0 /\ Unsaved = 0
    BY <1>1, <1>t DEF Unsaved
  <2>2. QED
    BY <1>1, <1>l, <2>1 DEF CountInv, FileCounts
<1>4. CycleCounts'
  <2>1. Distinct(mem'.pending) /\ OneLow(mem'.pending) /\ mem'.pending \subseteq events'
    BY <1>1, <1>c DEF Distinct, OneLow
  <2>2. QED
    BY <1>1, <1>l, <1>2, <2>1 DEF CycleCounts, Distinct, OneLow
<1>5. QED
  BY <1>1, <1>3, <1>4 DEF CountInv, Distinct

\* The shorter queue is saved (SavePopped).
LEMMA SavePoppedCounts ==
  ASSUME BaseInv, LossInv, ~restored, CountInv, CycleOfNew, SavePopped
  PROVE  CountInv'
<1>1. /\ pc = "popped" /\ pc' = "sleep" /\ UNCHANGED <<events, born>>
      /\ stateFile'.pending = mem.pending /\ stateFile'.active = mem.active
  BY DEF SavePopped, Saved
<1>t. born \in Nat
  BY DEF BaseInv, MonitorInv, MonitorTypes
<1>l. PICK l \in Nat : l = Lost /\ l = Lost'
  BY LostTyped, CycleSpends
<1>c. /\ OneLow(mem.pending) /\ mem.pending \subseteq events /\ Gaps(mem.pending, mem.active, born, l)
      /\ Distinct(mem.pending)
  BY <1>1, <1>l DEF CountInv, CycleCounts, Busy
<1>w. stateFile.policy /\ mem.pending \subseteq stateFile.pending
  BY <1>1 DEF BaseInv, WordsInv, CycleWords, Busy
<1>2. \A e \in mem.pending : Cardinality(Newer(mem.pending, e)) < PendingMax
  <2> SUFFICES ASSUME NEW e \in mem.pending PROVE Cardinality(Newer(mem.pending, e)) < PendingMax
    OBVIOUS
  <2>1. /\ IsFiniteSet(Newer(stateFile.pending, e)) /\ Cardinality(Newer(stateFile.pending, e)) \in Nat
        /\ Cardinality(Newer(stateFile.pending, e)) < PendingMax
    BY <1>t, <1>w, QueuesOrdered, NewerFinite DEF CountInv, FileCounts
  <2>2. Newer(mem.pending, e) \in SUBSET Newer(stateFile.pending, e)
    BY <1>w DEF Newer
  <2>3. Cardinality(Newer(mem.pending, e)) <= Cardinality(Newer(stateFile.pending, e))
    BY <2>1, <2>2, FS_Subset
  <2>4. Cardinality(Newer(mem.pending, e)) \in Nat
    BY <2>1, <2>2, FS_Subset, FS_CardinalityType
  <2>5. PendingMax \in Nat
    BY MonitorAssumption
  <2>6. QED
    BY <2>1, <2>3, <2>4, <2>5
<1>3. FileCounts'
  <2>1. Unsaved' = 0 /\ born' - 0 = born
    BY <1>1, <1>t DEF Unsaved
  <2>2. Gaps(stateFile'.pending, stateFile'.active, born' - Unsaved', l)
    BY <1>1, <1>c, <2>1
  <2>3. QED
    BY <1>1, <1>l, <1>c, <1>2, <2>2 DEF FileCounts, OneLow
<1>4. CycleCounts'
  BY <1>1 DEF CycleCounts, Busy
<1>5. QED
  BY <1>1, <1>3, <1>4 DEF CountInv, Distinct

\* CountsInv through every step of the deployed observer.
LEMMA CountsKept ==
  BaseInv /\ BaseInv' /\ LossInv /\ LossInv' /\ CountsInv /\ DeployNext => CountsInv'
<1> SUFFICES ASSUME BaseInv, BaseInv', LossInv, LossInv', CountsInv, DeployNext PROVE CountsInv'
  OBVIOUS
<1>1. CASE CycleOfNew /\ ~Refused
  <2>r. UNCHANGED restored /\ (Within' <=> Within)
    BY <1>1, CycleSpends
  <2> SUFFICES ASSUME ~restored, Within PROVE CountInv'
    BY <2>r DEF CountsInv
  <2>c. CountInv
    BY DEF CountsInv
  <2>1. CASE Observe
    BY <1>1, <2>c, <2>1, ObserveCounts
  <2>2. CASE SaveEvents
    BY <1>1, <2>c, <2>2, SaveEventsCounts
  <2>3. CASE SaveState
    BY <1>1, <2>c, <2>3, SaveStateCounts
  <2>4. CASE Accepted
    BY <1>1, <2>c, <2>4, AcceptedCounts
  <2>5. CASE SavePopped
    BY <1>1, <2>c, <2>5, SavePoppedCounts
  <2>6. QED
    BY <1>1, <2>1, <2>2, <2>3, <2>4, <2>5 DEF CycleOfNew, CycleStep
<1>2. CASE CycleOfNew /\ Refused
  <2>1. UNCHANGED <<events, born, stateFile, restored>>
    BY <1>2 DEF CycleOfNew, Refused
  <2>2. QED
    BY <1>2, <2>1, OthersSpend, CountsRest
<1>3. CASE CycleOfOld
  <2>1. /\ pc = "sleep" /\ UNCHANGED <<pc, mem, events, born, restored, op, runs, mishaps>>
        /\ stateFile' \in OldFiles
    BY <1>3 DEF CycleOfOld
  <2>2. ~stateFile'.policy
    BY <2>1 DEF OldFiles
  <2>3. Within' <=> Within
    BY <2>1 DEF Within, Lost, Reserve
  <2>4. CountInv => CountInv'
    BY <2>1, <2>2 DEF CountInv, FileCounts, CycleCounts, Distinct, Busy
  <2>5. QED
    BY <2>1, <2>3, <2>4 DEF CountsInv
<1>4. CASE ProcessEnds
  <2>1. UNCHANGED <<events, born, stateFile, restored>>
    BY <1>4 DEF ProcessEnds, AcceptedLate, Crash, deployVars
  <2>2. QED
    BY <1>4, <2>1, OthersSpend, CountsRest
<1>5. CASE SystemdRestarts
  <2>1. UNCHANGED <<events, born, stateFile, restored>>
    BY <1>5 DEF SystemdRestarts, Restart
  <2>2. QED
    BY <1>5, <2>1, OthersSpend, CountsRest
<1>6. CASE NewReading
  <2>1. UNCHANGED <<events, born, stateFile, restored>>
    BY <1>6 DEF NewReading, ChangeReading, deployVars
  <2>2. QED
    BY <1>6, <2>1, OthersSpend, CountsRest
<1>7. CASE InstallStep \/ UpgradeStep \/ HandlerFails
  <2>1. UNCHANGED <<events, born>> /\ (restored' \/ UNCHANGED <<stateFile, restored>>)
    BY <1>7, OperatorsReach DEF OperatorReach, Untouched
  <2>2. Spends
    BY <1>7, InstallSpends, UpgradeSpends, OthersSpend
  <2>3. QED
    BY <2>1, <2>2, CountsRest
<1>8. CASE OperatorDies \/ Reboot
  <2>1. UNCHANGED <<events, born, stateFile, restored>>
    BY <1>8 DEF OperatorDies, Reboot
  <2>2. QED
    BY <1>8, <2>1, OthersSpend, CountsRest
<1>9. QED
  BY <1>1, <1>2, <1>3, <1>4, <1>5, <1>6, <1>7, <1>8 DEF DeployNext

\* Nothing is lost and nothing waits before the first step.
LEMMA CountsInitially == DeployInit => LossInv /\ CountsInv
<1> SUFFICES ASSUME DeployInit PROVE LossInv /\ CountsInv
  OBVIOUS
<1>1. /\ stateFile \in {NoState} \cup OldFiles
      /\ pc = "down" /\ op = "idle" /\ events = {}
  BY DEF DeployInit, MonitorInit
<1>2. ~stateFile.policy
  BY <1>1 DEF NoState, OldFiles
<1>3. QED
  BY <1>1, <1>2 DEF LossInv, Standing, CountsInv, CountInv, FileCounts, CycleCounts, Distinct, Busy

\* And therefore always.
LEMMA CountsAlways == DeploySpec => [](BaseInv /\ LossInv /\ CountsInv)
<1>1. BaseInv /\ BaseInv' /\ LossInv /\ CountsInv /\ [DeployNext]_vars => (LossInv /\ CountsInv)'
  <2> SUFFICES ASSUME BaseInv, BaseInv', LossInv, CountsInv, [DeployNext]_vars
               PROVE  (LossInv /\ CountsInv)'
    OBVIOUS
  <2>1. CASE DeployNext
    BY <2>1, LossKept, CountsKept
  <2>2. CASE UNCHANGED vars
    <3>1. UNCHANGED <<stateFile, events, pc, mem, born, op, runs, mishaps, restored>>
      BY <2>2 DEF vars, monitorVars, deployVars
    <3>2. LossInv'
      BY <3>1 DEF LossInv
    <3>3. Spends
      BY <3>1, RestSpends
    <3>4. QED
      BY <3>1, <3>2, <3>3, CountsRest
  <2>3. QED
    BY <2>1, <2>2
<1>2. DeploySpec => []BaseInv
  BY WordsAlways, PTL DEF BaseInv
<1>3. QED
  BY <1>1, <1>2, CountsInitially, PTL DEF DeploySpec

\* Nothing waits that is not in the history, as long as the history is longer
\* than two full queues and one event more for every mishap and every run of an
\* operator: while it waits, an alarm that comes and goes makes two events and
\* leaves one beside it, and an event that was made and not saved is made again
\* under another number.  In the code, 50 events against 2 * 16 leave room for
\* eighteen of those (cycle: the last 50 of the history, the last 16 of the queue).
THEOREM QueueStaysInHistory ==
  DeploySpec => [](mishaps + runs + 2 * PendingMax <= HistoryMax => DeployedQueueSound)
<1>1. BaseInv /\ LossInv /\ CountsInv
        => (mishaps + runs + 2 * PendingMax <= HistoryMax => DeployedQueueSound)
  <2> SUFFICES ASSUME BaseInv, LossInv, CountsInv, mishaps + runs + 2 * PendingMax <= HistoryMax,
                      ~restored, stateFile.policy
               PROVE  /\ stateFile.pending \subseteq events
                      /\ LastWord(stateFile.pending, stateFile.active)
    BY DEF DeployedQueueSound, QueueSound
  <2>1. Within
    <3>1. mishaps \in Nat /\ runs \in Nat /\ PendingMax \in Nat /\ HistoryMax \in Nat
      BY MonitorAssumption DEF BaseInv, MonitorInv, MonitorTypes, OperatorTypes
    <3>2. QED
      BY <3>1 DEF Within, Lost, Reserve
  <2>2. stateFile.pending \subseteq events
    BY <2>1 DEF CountsInv, CountInv, FileCounts
  <2>3. QED
    BY <2>2 DEF BaseInv, WordsInv, FileWords
<1>2. QED
  BY <1>1, CountsAlways, PTL
=============================================================================
