---------------------------- MODULE PowerMonitor ----------------------------
(***************************************************************************)
(* The battery observer of the NAS, src/ops/power_monitor.py.  Once a       *)
(* minute it reads the newest telemetry, decides what the owner has to be   *)
(* told, and keeps the decision in two files that are replaced one after    *)
(* the other: events.json (the history) and state.json (the alarm that is   *)
(* raised and the notifications not yet handed over).  The process can end  *)
(* between any two of those writes; systemd starts it again.                *)
(*                                                                         *)
(* A queue of events is the set of its events: ids are given in order, so   *)
(* the id is the position.  uuid4 is modelled as a fresh number.            *)
(***************************************************************************)
EXTENDS Integers, FiniteSets

CONSTANTS
  Readings,    \* the answers a query can give, see IsReading
  PendingMax,  \* 16: notifications kept in state.json
  HistoryMax,  \* 50: events kept in events.json
  MaxChanges,  \* bound: changes of the reading
  MaxMishaps   \* bound: crashes, answers that come too late, failing steps

-----------------------------------------------------------------------------
(* What the query answers.                                                 *)

WarningFields == {"warning_schema", "warning_active", "warning_elapsed_s",
                  "warning_voltage_v", "warning_required_s"}
PowerFields == {"schema", "state", "valid", "interval_s", "sample_age_ms", "voltage"}

\* One answer: how the query ended, the age in seconds of the newest row of
\* each field that has one, and its value (voltages in tenths of a volt).
\* A malformed answer is one that parse_flux refuses before it has rows.
IsReading(r) ==
  /\ r.answer \in {"refused", "malformed", "rows"}
  /\ DOMAIN r.age \subseteq PowerFields \cup WarningFields /\ r.age \in [DOMAIN r.age -> Int]
  /\ r.value \in [PowerFields \cup WarningFields -> Int]

ASSUME MonitorAssumption ==
  /\ \A r \in Readings : IsReading(r)
  /\ PendingMax \in Nat \ {0}
  /\ HistoryMax \in Nat \ {0}
  /\ MaxChanges \in Nat
  /\ MaxMishaps \in Nat

\* An answer that is none: before anything was asked.
NoReading == [answer |-> "refused", age |-> <<>>,
              value |-> [k \in PowerFields \cup WarningFields |-> 0]]

Has(r, k) == k \in DOMAIN r.age

\* The rows of one telemetry frame carry one time stamp; the frame is the one
\* the schema field came with.
Frame(r) == {k \in DOMAIN r.age : r.age[k] = r.age["schema"]}

\* The fields that must come from that frame: the five warning fields as well
\* when one of them was ever reported.
RequiredFields(r) ==
  (PowerFields \ {"voltage"})
    \cup (IF DOMAIN r.age \cap WarningFields = {} THEN {} ELSE WarningFields)

\* A frame without a schema field, or a voltage newer than the last schema, is
\* what the firmware before the power schema sends.
Legacy(r) == ~Has(r, "schema") \/ (Has(r, "voltage") /\ r.age["voltage"] < r.age["schema"])
LegacyAge(r) == IF Has(r, "schema")
                THEN r.age["voltage"]
                ELSE CHOOSE a \in {r.age[k] : k \in DOMAIN r.age} :
                       \A k \in DOMAIN r.age : a <= r.age[k]

\* parse_flux: no rows, an old firmware, a whole frame, or rows of several.
Parsed(r) ==
  IF r.answer # "rows" THEN r.answer
  ELSE IF DOMAIN r.age = {} THEN "nothing"
  ELSE IF Legacy(r) THEN "legacy"
  ELSE IF RequiredFields(r) \subseteq Frame(r) THEN "frame" ELSE "malformed"

-----------------------------------------------------------------------------
(* evaluate: what one answer says of the box.                              *)

STATES == [c \in 0..6 |->
  CASE c = 0 -> "NORMAL"            [] c = 1 -> "POWER_CAUTION"
    [] c = 2 -> "ENERGY_SAVING"     [] c = 3 -> "BATTERY_PROTECTED"
    [] c = 4 -> "RECOVERY_WAIT"     [] c = 5 -> "POWER_SENSOR_FAULT"
    [] c = 6 -> "INITIALIZING"]

PowerOnly == {"NORMAL", "POWER_CAUTION", "ENERGY_SAVING", "BATTERY_PROTECTED",
              "RECOVERY_WAIT", "INITIALIZING"}
Alarms == {"LOW_BATTERY", "WARNING_POLICY_UNAVAILABLE", "POWER_SENSOR_FAULT",
           "OFFLINE", "SOURCE_UNAVAILABLE", "SOURCE_INVALID", "LEGACY_FIRMWARE"}
Superseded == {"ENERGY_SAVING", "BATTERY_PROTECTED", "RECOVERY_WAIT", "POWER_CAUTION"}
\* The statuses notify_owner has words for; it refuses any other.
MESSAGES == Alarms \cup {"ENERGY_SAVING", "BATTERY_PROTECTED", "RECOVERY_WAIT",
                         "INITIALIZING", "RECOVERED"}

ClosedSchema(r) == r.value["interval_s"] \in {30, 60, 120, 300} /\ r.value["state"] \in 0..6

\* A sensor reading that counts: valid, at most 2 s old when it was sent, and a
\* voltage of the same frame above 0 and at most 16 V.
SensorGood(r) ==
  /\ r.value["valid"] = 1
  /\ r.value["sample_age_ms"] \in 0..2000
  /\ "voltage" \in Frame(r)
  /\ r.value["voltage"] \in 1..160

PolicyKnown(r) == WarningFields \subseteq Frame(r) /\ r.value["warning_schema"] = 1

\* The qualification the firmware reports has to be its own policy, whole, and
\* agree with the voltage beside it.
Qualified(r) ==
  /\ r.value["warning_active"] \in {0, 1}
  /\ r.value["warning_elapsed_s"] \in 0..300
  /\ r.value["warning_voltage_v"] = 110
  /\ r.value["warning_required_s"] = 300
  /\ (r.value["warning_active"] = 1) = (r.value["warning_elapsed_s"] = 300)
  /\ r.value["warning_elapsed_s"] = 0 \/ r.value["voltage"] <= 110

\* The status of a whole frame, in the order the checks are made.
FrameStatus(r) ==
  IF r.age["schema"] < -5 \/ (r.value["schema"] = 1 /\ ~ClosedSchema(r)) THEN "SOURCE_INVALID"
  ELSE IF r.value["schema"] # 1
       THEN (IF r.age["schema"] > 90 THEN "OFFLINE" ELSE "LEGACY_FIRMWARE")
  ELSE IF r.age["schema"] > 2 * r.value["interval_s"] + 30 THEN "OFFLINE"
  ELSE IF ~SensorGood(r) THEN "POWER_SENSOR_FAULT"
  ELSE IF ~PolicyKnown(r) THEN "WARNING_POLICY_UNAVAILABLE"
  ELSE IF ~Qualified(r) THEN "SOURCE_INVALID"
  ELSE IF r.value["warning_active"] = 1 THEN "LOW_BATTERY"
  ELSE STATES[r.value["state"]]

LegacyStatus(r) ==
  IF LegacyAge(r) < -5 THEN "SOURCE_INVALID"
  ELSE IF LegacyAge(r) > 90 THEN "OFFLINE" ELSE "LEGACY_FIRMWARE"

Status(r) ==
  CASE Parsed(r) = "refused"   -> "SOURCE_UNAVAILABLE"
    [] Parsed(r) = "malformed" -> "SOURCE_INVALID"
    [] Parsed(r) = "nothing"   -> "OFFLINE"
    [] Parsed(r) = "legacy"    -> LegacyStatus(r)
    [] Parsed(r) = "frame"     -> FrameStatus(r)

\* battery_warning_active, set only at the end of evaluate.
Warning(r) == Status(r) = "LOW_BATTERY"

\* Fault: the stages of the firmware's policy raise alarms of their own.
OwedStage(r) == Status(r)

\* advance: the stages of the firmware's own battery policy are observations,
\* they raise no alarm.
Owed(r) == IF Status(r) \in PowerOnly THEN "NORMAL" ELSE Status(r)

-----------------------------------------------------------------------------
(* The observer.                                                           *)

VARIABLES
  reading,    \* what a query answers now
  stateFile,  \* state.json, or NoState
  events,     \* events.json; no file reads as no events
  pc,         \* where cycle is; "down" when there is no process
  mem,        \* the cycle's state and the reading it judged
  wanted,     \* systemd keeps the service running
  born,       \* events made so far; the id of the next one is above
  told,       \* history: the events DSM took for the owner
  changes,    \* changes of the reading so far
  mishaps     \* mishaps so far

observerVars == <<stateFile, events, pc, mem, born, told>>
monitorVars == <<reading, stateFile, events, pc, mem, wanted, born, told, changes, mishaps>>

Statuses == Alarms \cup Superseded \cup {"NORMAL", "RECOVERED"}
Events == [id : Nat, status : Statuses]
NoState == [there |-> FALSE, active |-> "NORMAL", pending |-> {}, policy |-> FALSE]
StateFiles == [there : BOOLEAN, active : Statuses, pending : SUBSET Events, policy : BOOLEAN]
\* What the superseded program can leave behind: its own alarms, in a file
\* without the mark of the warning policy.
OldFiles == {[there |-> TRUE, active |-> "ENERGY_SAVING", policy |-> FALSE,
              pending |-> {[id |-> 0, status |-> "POWER_CAUTION"]}]}
NoMem == [active |-> "NORMAL", seen |-> NoReading, pending |-> {}]
Stages == {"down", "sleep", "events", "state", "notify", "popped"}

\* The oldest event of a queue, and its newest n: list[0] and list[-n:].
Oldest(q) == CHOOSE e \in q : \A f \in q : e.id <= f.id
Newest(q, n) == {e \in q : Cardinality({f \in q : f.id > e.id}) < n}

\* Fault: a low battery that has ended stays in the queue.
StillOwedStale(pending, r) == {e \in pending : e.status \notin Superseded}

\* Fault: a superseded notification nobody can word stays at the head.
StillOwedUnworded(pending, r) ==
  {e \in pending : e.status \notin Superseded \ {"POWER_CAUTION"}
                    /\ (e.status # "LOW_BATTERY" \/ Warning(r))}

\* The notifications that are still worth sending: none of the superseded
\* threshold policy, and no low battery that has ended meanwhile.
StillOwed(pending, r) ==
  {e \in pending : e.status \notin Superseded
                    /\ (e.status # "LOW_BATTERY" \/ Warning(r))}

\* state.json is read, the answer judged, the state advanced.
Observe ==
  LET due   == Owed(reading)
      event == [id |-> born + 1, status |-> IF due = "NORMAL" THEN "RECOVERED" ELSE due]
      queue == StillOwed(stateFile.pending, reading)
  IN /\ pc = "sleep"
     /\ mem' = [active  |-> due, seen |-> reading,
                pending |-> IF due = stateFile.active THEN queue ELSE queue \cup {event}]
     /\ IF due = stateFile.active
        THEN pc' = "state" /\ UNCHANGED born
        ELSE pc' = "events" /\ born' = born + 1
     /\ UNCHANGED <<reading, stateFile, events, wanted, told, changes, mishaps>>

\* The new event enters the history before anything else is saved.
SaveEvents ==
  /\ pc = "events"
  /\ events' = Newest(events \cup {e \in mem.pending : e.id = born}, HistoryMax)
  /\ pc' = "state"
  /\ UNCHANGED <<reading, stateFile, mem, wanted, born, told, changes, mishaps>>

Saved(pending) == [there |-> TRUE, active |-> mem.active, pending |-> pending, policy |-> TRUE]

\* Fault: a full queue keeps its oldest notifications, [:16] for [-16:].
SaveStateOldest ==
  LET kept == {e \in mem.pending : Cardinality({f \in mem.pending : f.id < e.id}) < PendingMax}
  IN /\ pc = "state"
     /\ stateFile' = Saved(kept)
     /\ IF kept = {}
        THEN pc' = "sleep" /\ mem' = NoMem
        ELSE pc' = "notify" /\ mem' = [mem EXCEPT !.pending = kept]
     /\ UNCHANGED <<reading, events, wanted, born, told, changes, mishaps>>

SaveState ==
  LET kept == Newest(mem.pending, PendingMax)
  IN /\ pc = "state"
     /\ stateFile' = Saved(kept)
     /\ IF kept = {}
        THEN pc' = "sleep" /\ mem' = NoMem
        ELSE pc' = "notify" /\ mem' = [mem EXCEPT !.pending = kept]
     /\ UNCHANGED <<reading, events, wanted, born, told, changes, mishaps>>

\* notify_owner: DSM took the oldest notification.
Accepted ==
  /\ pc = "notify"
  /\ Oldest(mem.pending).status \in MESSAGES
  /\ told' = told \cup {Oldest(mem.pending)}
  /\ mem' = [mem EXCEPT !.pending = @ \ {Oldest(@)}]
  /\ pc' = "popped"
  /\ UNCHANGED <<reading, stateFile, events, wanted, born, changes, mishaps>>

\* It refused, or the call failed: the next cycle tries again.
Refused ==
  /\ pc = "notify"
  /\ pc' = "sleep" /\ mem' = NoMem
  /\ UNCHANGED <<reading, stateFile, events, wanted, born, told, changes, mishaps>>

\* DSM took it, and the answer missed the 5 s of the call.
AcceptedLate ==
  /\ pc = "notify" /\ mishaps < MaxMishaps
  /\ Oldest(mem.pending).status \in MESSAGES
  /\ told' = told \cup {Oldest(mem.pending)}
  /\ mishaps' = mishaps + 1
  /\ pc' = "sleep" /\ mem' = NoMem
  /\ UNCHANGED <<reading, stateFile, events, wanted, born, changes>>

SavePopped ==
  /\ pc = "popped"
  /\ stateFile' = Saved(mem.pending)
  /\ pc' = "sleep" /\ mem' = NoMem
  /\ UNCHANGED <<reading, events, wanted, born, told, changes, mishaps>>

\* The process ends, at any point: a write that fails, SIGKILL, the power.  (After
\* a SIGTERM from outside systemctl, Restart=on-failure would leave it down.)
Crash ==
  /\ pc # "down" /\ mishaps < MaxMishaps
  /\ pc' = "down" /\ mem' = NoMem
  /\ mishaps' = mishaps + 1
  /\ UNCHANGED <<reading, stateFile, events, wanted, born, told, changes>>

\* Restart=on-failure, or the service's start.
Restart ==
  /\ pc = "down" /\ wanted
  /\ pc' = "sleep"
  /\ UNCHANGED <<reading, stateFile, events, mem, wanted, born, told, changes, mishaps>>

ChangeReading ==
  /\ changes < MaxChanges
  /\ reading' \in Readings \ {reading}
  /\ changes' = changes + 1
  /\ UNCHANGED <<stateFile, events, pc, mem, wanted, born, told, mishaps>>

\* The steps of one cycle, in its order.
CycleStep == Observe \/ SaveEvents \/ SaveState \/ Accepted \/ Refused \/ SavePopped

MonitorInit ==
  /\ reading \in Readings
  /\ events = {} /\ pc = "down" /\ mem = NoMem
  /\ born = 0 /\ told = {} /\ changes = 0 /\ mishaps = 0

-----------------------------------------------------------------------------
(* What has to hold.                                                       *)

MonitorTypeOK ==
  /\ reading \in Readings
  /\ stateFile \in StateFiles
  /\ events \subseteq Events /\ told \subseteq Events
  /\ pc \in Stages
  /\ mem.active \in Alarms \cup {"NORMAL"} /\ mem.seen \in Readings \cup {NoReading}
  /\ mem.pending \subseteq Events
  /\ wanted \in BOOLEAN
  /\ born \in Nat /\ changes \in Nat /\ mishaps \in Nat

\* A frame that proves a low battery: all of it from one moment, recent, the
\* measurement valid, and the firmware's own 300 s below 11.0 V complete.
ProvenLow(r) ==
  /\ r.answer = "rows"
  /\ \A k \in PowerFields \cup WarningFields : Has(r, k) /\ r.age[k] = r.age["schema"]
  /\ r.age["schema"] \in -5 .. 2 * r.value["interval_s"] + 30
  /\ r.value["schema"] = 1 /\ r.value["warning_schema"] = 1
  /\ r.value["valid"] = 1 /\ r.value["voltage"] \in 1..110
  /\ r.value["warning_active"] = 1 /\ r.value["warning_elapsed_s"] = 300

\* The owner is told of a low battery only while the reading of the same cycle
\* proves it, however long the notification has waited (cycle, evaluate).
NoStaleAlarm ==
  (pc = "notify" /\ Oldest(mem.pending).status = "LOW_BATTERY") => ProvenLow(mem.seen)

\* The event that speaks of an alarm, or of its end.
Speaks(e, active) == e.status = (IF active = "NORMAL" THEN "RECOVERED" ELSE active)

\* With the events of q still to be sent, the last word the owner will have had
\* speaks of the alarm that is raised.
LastWord(q, active) ==
  \A e \in told \cup q : (\A f \in told \cup q : f.id <= e.id) => Speaks(e, active)

\* What the owner hears once everything waiting is sent is what is the case:
\* a crash, a refusal or the bound of the queue never leaves an older word as
\* the last one.  And nothing waits that is not in the history.
QueueSound ==
  stateFile.policy =>
    /\ stateFile.pending \subseteq events
    /\ LastWord(stateFile.pending, stateFile.active)
=============================================================================
