------------------------- MODULE MonitorDeployment --------------------------
(***************************************************************************)
(* The two operators that put the battery observer on the NAS, beside the   *)
(* observer itself: install_power_monitor.py creates its files, enables and *)
(* starts the service; update_power_monitor.py replaces the program of an   *)
(* existing service.  Both watch the first result and undo what they did    *)
(* when a step fails.  An operator can die between two steps, and the NAS   *)
(* can restart under it.                                                   *)
(*                                                                         *)
(* Checks of owners, modes, links, sizes and digests are left out where the *)
(* model has no state they could fail on.                                  *)
(***************************************************************************)
EXTENDS PowerMonitor

CONSTANTS
  Existing,  \* the programs that may be installed at the start
  MaxRuns    \* bound: runs of the operators

ASSUME DeploymentAssumption == Existing \subseteq {"none", "old", "new"} /\ MaxRuns \in Nat

VARIABLES
  files,      \* monitor.py, config.json and the unit: what is there
  home,       \* the directories ROOT and STATE exist
  enabled,    \* the unit is enabled: it starts with the NAS
  image,      \* the program the running process was started from
  op,         \* the operator's next step
  created,    \* install: the files it has finished
  wasActive,  \* upgrade: the service ran when it came
  original,   \* upgrade: original_state, or Unread
  fresh,      \* state.json was written since the operator's start
  backup,     \* BACKUP: there, the old program, the old state.json
  result,     \* what the last run reported
  spoilt,     \* a step of its handler failed as well
  restored,   \* history: an upgrade has put an older state.json back
  runs        \* runs so far

deployVars == <<files, home, enabled, image, op, created, wasActive, original,
                fresh, backup, result, spoilt, restored, runs>>
vars == <<monitorVars, deployVars>>

FileNames == {"program", "config", "unit"}
Contents == {"none", "partial", "old", "new"}
Unread == [NoState EXCEPT !.policy = TRUE]   \* no state.json has policy without being there
NoBackup == [there |-> FALSE, program |-> "none", state |-> Unread]
InstallSteps == {"home", "program", "config", "unit", "enroll", "start", "await", "undo_stop",
                 "undo_disable", "undo_files"}
UpgradeSteps == {"backup", "stop", "read", "save_program", "save_state", "replace", "restart",
                 "observe", "check", "back_stop", "back_program", "back_state", "back_start"}
Results == {"none", "installed", "updated", "failed", "gone"}

HasFile(k) == files[k] \notin {"none", "partial"}
Active == pc # "down"          \* systemctl is-active
Running == wanted /\ Active

-----------------------------------------------------------------------------
(* systemd and the programs.                                               *)

\* A unit starts its program when program, unit and configuration are whole.
Startable == HasFile("program") /\ HasFile("config") /\ HasFile("unit")

Start == /\ Startable
         /\ wanted' = TRUE
         /\ fresh' = FALSE
         /\ IF Active THEN UNCHANGED <<pc, mem, image>>
            ELSE pc' = "sleep" /\ mem' = NoMem /\ image' = files["program"]

Stop == pc' = "down" /\ mem' = NoMem /\ wanted' = FALSE

\* The steps of the new program, and how it ends.
CycleOfNew ==
  /\ image = "new" /\ CycleStep
  /\ fresh' = (fresh \/ pc = "state")
  /\ UNCHANGED <<files, home, enabled, image, op, created, wasActive, original,
                 backup, result, spoilt, restored, runs>>

\* The superseded program, of which only its files are known.
CycleOfOld ==
  /\ image = "old" /\ pc = "sleep"
  /\ stateFile' \in OldFiles \ {stateFile} /\ fresh' = TRUE
  /\ UNCHANGED <<reading, events, pc, mem, wanted, born, told, changes, mishaps>>
  /\ UNCHANGED <<files, home, enabled, image, op, created, wasActive, original,
                 backup, result, spoilt, restored, runs>>

ProcessEnds == (AcceptedLate \/ Crash) /\ image = "new" /\ UNCHANGED deployVars

SystemdRestarts ==
  /\ Startable /\ Restart
  /\ image' = files["program"]
  /\ UNCHANGED <<files, home, enabled, op, created, wasActive, original, fresh,
                 backup, result, spoilt, restored, runs>>

NewReading == ChangeReading /\ UNCHANGED deployVars

\* The NAS restarts: enabled units start, a running operator is gone.
Reboot ==
  /\ mishaps < MaxMishaps /\ mishaps' = mishaps + 1
  /\ pc' = "down" /\ mem' = NoMem
  /\ wanted' = (enabled /\ HasFile("unit"))
  /\ op' = "idle" /\ result' = IF op = "idle" THEN result ELSE "gone"
  /\ UNCHANGED <<reading, stateFile, events, born, told, changes>>
  /\ UNCHANGED <<files, home, enabled, image, created, wasActive, original, fresh,
                 backup, spoilt, restored, runs>>

\* The operator's process ends, with no handler run.
OperatorDies ==
  /\ op # "idle" /\ mishaps < MaxMishaps /\ mishaps' = mishaps + 1
  /\ op' = "idle" /\ result' = "gone"
  /\ UNCHANGED <<reading, stateFile, events, pc, mem, wanted, born, told, changes>>
  /\ UNCHANGED <<files, home, enabled, image, created, wasActive, original, fresh,
                 backup, spoilt, restored, runs>>

-----------------------------------------------------------------------------
(* The install operator.                                                   *)

SourceFailures == {"SOURCE_UNAVAILABLE", "SOURCE_INVALID"}

\* What the operators leave to the observer, systemd and the environment.
Untouched == UNCHANGED <<reading, events, born, told, changes>>
ServiceKept == UNCHANGED <<pc, mem, wanted, image>>

\* validate_observer_admission: a source that answers, and either the power
\* schema or the owner's word for doing without.
Admitted(r, bootstrap) ==
  /\ Parsed(r) \notin {"refused", "malformed"} /\ Status(r) \notin SourceFailures
  /\ bootstrap \/ (Parsed(r) = "frame" /\ r.value["schema"] = 1)

BeginInstall ==
  /\ op = "idle" /\ runs < MaxRuns
  /\ ~home /\ files["unit"] = "none"
  /\ \E bootstrap \in BOOLEAN : Admitted(reading, bootstrap)
  /\ op' = "home" /\ runs' = runs + 1 /\ created' = {}
  /\ result' = "none" /\ spoilt' = FALSE
  /\ Untouched /\ ServiceKept
  /\ UNCHANGED <<stateFile, mishaps, files, home, enabled, wasActive, original, fresh, backup, restored>>

MakeHome ==
  /\ op = "home"
  /\ home' = TRUE /\ op' = "program"
  /\ Untouched /\ ServiceKept
  /\ UNCHANGED <<stateFile, mishaps, files, enabled, created, wasActive, original, fresh,
                 backup, result, spoilt, restored, runs>>

\* Each file is made anew, and counts as created once it is on the disk.
CreateFile ==
  /\ op \in FileNames
  /\ files' = [files EXCEPT ![op] = "new"]
  /\ created' = created \cup {op}
  /\ op' = CASE op = "program" -> "config" [] op = "config" -> "unit" [] OTHER -> "enroll"
  /\ Untouched /\ ServiceKept
  /\ UNCHANGED <<stateFile, mishaps, home, enabled, wasActive, original, fresh, backup,
                 result, spoilt, restored, runs>>

Enroll ==
  /\ op = "enroll"
  /\ enabled' = TRUE /\ op' = "start"
  /\ Untouched /\ ServiceKept
  /\ UNCHANGED <<stateFile, mishaps, files, home, created, wasActive, original, fresh,
                 backup, result, spoilt, restored, runs>>

StartInstalled ==
  /\ op = "start" /\ Start
  /\ op' = "await"
  /\ Untouched
  /\ UNCHANGED <<stateFile, mishaps, files, home, enabled, created, wasActive, original,
                 backup, result, spoilt, restored, runs>>

\* A first state.json, from a service that still runs, that read its source.
InstallProven == Active /\ stateFile.there /\ stateFile.active \notin SourceFailures

AwaitFirstState ==
  /\ op = "await"
  /\ IF InstallProven THEN op' = "idle" /\ result' = "installed"
                      ELSE op' = "undo_stop" /\ UNCHANGED result
  /\ Untouched /\ ServiceKept
  /\ UNCHANGED <<stateFile, mishaps, files, home, enabled, created, wasActive, original,
                 fresh, backup, spoilt, restored, runs>>

\* A step of the installation fails.  A file may be left unfinished, and a
\* command of systemd may have done its work all the same.
InstallFails ==
  /\ op \in {"home"} \cup FileNames \cup {"enroll", "start", "await"}
  /\ mishaps < MaxMishaps /\ mishaps' = mishaps + 1
  /\ op' = "undo_stop"
  /\ files' \in {files} \cup (IF op \in FileNames THEN {[files EXCEPT ![op] = "partial"]} ELSE {})
  /\ home' \in {home} \cup (IF op = "home" THEN {TRUE} ELSE {})
  /\ enabled' \in {enabled} \cup (IF op = "enroll" THEN {TRUE} ELSE {})
  /\ \/ op = "start" /\ Start
     \/ ServiceKept /\ UNCHANGED fresh
  /\ Untouched
  /\ UNCHANGED <<stateFile, created, wasActive, original, backup, result, spoilt, restored, runs>>

UndoStop ==
  /\ op = "undo_stop" /\ Stop
  /\ op' = "undo_disable"
  /\ Untouched
  /\ UNCHANGED <<stateFile, mishaps, files, home, enabled, image, created, wasActive,
                 original, fresh, backup, result, spoilt, restored, runs>>

UndoDisable ==
  /\ op = "undo_disable"
  /\ enabled' = FALSE /\ op' = "undo_files"
  /\ Untouched /\ ServiceKept
  /\ UNCHANGED <<stateFile, mishaps, files, home, created, wasActive, original, fresh,
                 backup, result, spoilt, restored, runs>>

\* The finished files are removed; the directories stay, and refuse a new run.
UndoFiles ==
  /\ op = "undo_files"
  /\ files' = [k \in FileNames |-> IF k \in created THEN "none" ELSE files[k]]
  /\ op' = "idle" /\ result' = "failed"
  /\ Untouched /\ ServiceKept
  /\ UNCHANGED <<stateFile, mishaps, home, enabled, created, wasActive, original, fresh,
                 backup, spoilt, restored, runs>>

-----------------------------------------------------------------------------
(* The upgrade operator.                                                   *)

\* probe: the new program reads a frame of the warning schema today.
Probed(r) ==
  /\ Parsed(r) = "frame" /\ "warning_schema" \in Frame(r) /\ r.value["warning_schema"] = 1
  /\ Status(r) \notin SourceFailures \cup {"WARNING_POLICY_UNAVAILABLE", "OFFLINE", "LEGACY_FIRMWARE"}

\* An old backup is never overwritten: BACKUP.mkdir refuses.
BeginUpgrade ==
  /\ op = "idle" /\ runs < MaxRuns
  /\ home /\ Startable /\ files["program"] = "old"
  /\ Probed(reading)
  /\ ~backup.there /\ backup' = [backup EXCEPT !.there = TRUE]
  /\ wasActive' = Active
  /\ op' = "stop" /\ runs' = runs + 1 /\ original' = Unread
  /\ result' = "none" /\ spoilt' = FALSE
  /\ Untouched /\ ServiceKept
  /\ UNCHANGED <<stateFile, mishaps, files, home, enabled, created, fresh, restored>>

StopOld ==
  /\ op = "stop" /\ Stop
  /\ op' = "read"
  /\ Untouched
  /\ UNCHANGED <<stateFile, mishaps, files, home, enabled, image, created, wasActive,
                 original, fresh, backup, result, spoilt, restored, runs>>

ReadState ==
  /\ op = "read"
  /\ original' = stateFile /\ op' = "save_program"
  /\ Untouched /\ ServiceKept
  /\ UNCHANGED <<stateFile, mishaps, files, home, enabled, created, wasActive, fresh,
                 backup, result, spoilt, restored, runs>>

\* Fault: the checkpoint holds the program alone.
SaveBackupProgram ==
  /\ op = "save_program" /\ op' = "replace"
  /\ backup' = [backup EXCEPT !.program = files["program"]]
  /\ Untouched /\ ServiceKept
  /\ UNCHANGED <<stateFile, mishaps, files, home, enabled, created, wasActive, original,
                 fresh, result, spoilt, restored, runs>>

SaveBackup ==
  /\ \/ /\ op = "save_program" /\ op' = "save_state"
        /\ backup' = [backup EXCEPT !.program = files["program"]]
     \/ /\ op = "save_state" /\ op' = "replace"
        /\ backup' = [backup EXCEPT !.state = original]
  /\ Untouched /\ ServiceKept
  /\ UNCHANGED <<stateFile, mishaps, files, home, enabled, created, wasActive, original,
                 fresh, result, spoilt, restored, runs>>

ReplaceProgram ==
  /\ op = "replace"
  /\ files' = [files EXCEPT !["program"] = "new"] /\ op' = "restart"
  /\ Untouched /\ ServiceKept
  /\ UNCHANGED <<stateFile, mishaps, home, enabled, created, wasActive, original, fresh,
                 backup, result, spoilt, restored, runs>>

StartNew ==
  /\ op = "restart" /\ Start
  /\ op' = "observe"
  /\ Untouched
  /\ UNCHANGED <<stateFile, mishaps, files, home, enabled, created, wasActive, original,
                 backup, result, spoilt, restored, runs>>

\* A state.json of the new program, written since it was started.
UpgradeProven ==
  /\ stateFile.there /\ fresh /\ stateFile.policy
  /\ stateFile.active \notin SourceFailures \cup {"WARNING_POLICY_UNAVAILABLE"}

\* Twenty seconds of waiting, or at once when there is no state.json to read.
ObserveNew ==
  /\ op = "observe"
  /\ op' = IF UpgradeProven THEN "check" ELSE "back_stop"
  /\ Untouched /\ ServiceKept
  /\ UNCHANGED <<stateFile, mishaps, files, home, enabled, created, wasActive, original,
                 fresh, backup, result, spoilt, restored, runs>>

CheckNew ==
  /\ op = "check"
  /\ IF Active /\ files["program"] = "new"
     THEN op' = "idle" /\ result' = "updated"
     ELSE op' = "back_stop" /\ UNCHANGED result
  /\ Untouched /\ ServiceKept
  /\ UNCHANGED <<stateFile, mishaps, files, home, enabled, created, wasActive, original,
                 fresh, backup, spoilt, restored, runs>>

\* A step fails; a command, or the write of the program, may have done its work.
UpgradeFails ==
  /\ op \in {"stop", "read", "save_program", "save_state", "replace", "restart", "observe", "check"}
  /\ mishaps < MaxMishaps /\ mishaps' = mishaps + 1
  /\ op' = "back_stop"
  /\ files' \in {files} \cup (IF op = "replace" THEN {[files EXCEPT !["program"] = "new"]} ELSE {})
  /\ \/ op = "stop" /\ Stop /\ UNCHANGED <<image, fresh>>
     \/ op = "restart" /\ Start
     \/ ServiceKept /\ UNCHANGED fresh
  /\ Untouched
  /\ UNCHANGED <<stateFile, home, enabled, created, wasActive, original, backup, result,
                 spoilt, restored, runs>>

BackStop ==
  /\ op = "back_stop" /\ Stop
  /\ op' = "back_program"
  /\ Untouched
  /\ UNCHANGED <<stateFile, mishaps, files, home, enabled, image, created, wasActive,
                 original, fresh, backup, result, spoilt, restored, runs>>

BackProgram ==
  /\ op = "back_program"
  /\ files' = [files EXCEPT !["program"] = "old"] /\ op' = "back_state"
  /\ Untouched /\ ServiceKept
  /\ UNCHANGED <<stateFile, mishaps, home, enabled, created, wasActive, original, fresh,
                 backup, result, spoilt, restored, runs>>

\* The state.json of before; events.json stays as the new program left it.
BackState ==
  /\ op = "back_state"
  /\ IF original.there THEN stateFile' = original /\ restored' = TRUE
                       ELSE UNCHANGED <<stateFile, restored>>
  /\ op' = "back_start"
  /\ Untouched /\ ServiceKept
  /\ UNCHANGED <<mishaps, files, home, enabled, created, wasActive, original, fresh,
                 backup, result, spoilt, runs>>

\* Fault: the old program is put back, and not started again.
BackStartNever ==
  /\ op = "back_start"
  /\ ServiceKept /\ UNCHANGED fresh
  /\ op' = "idle" /\ result' = "failed"
  /\ Untouched
  /\ UNCHANGED <<stateFile, mishaps, files, home, enabled, created, wasActive, original,
                 backup, spoilt, restored, runs>>

BackStart ==
  /\ op = "back_start"
  /\ IF wasActive THEN Start ELSE ServiceKept /\ UNCHANGED fresh
  /\ op' = "idle" /\ result' = "failed"
  /\ Untouched
  /\ UNCHANGED <<stateFile, mishaps, files, home, enabled, created, wasActive, original,
                 backup, spoilt, restored, runs>>

\* A step of a handler fails: a systemctl that returns an error is passed over,
\* anything else ends the operator where it is.  A handler that removes some of
\* the files and then fails is not modelled: the files stay as they were.
AfterFault == CASE op = "undo_stop" -> {"undo_disable", "idle"}
                [] op = "undo_disable" -> {"undo_files", "idle"}
                [] op = "back_stop" -> {"back_program", "idle"}
                [] OTHER -> {"idle"}

HandlerFails ==
  /\ op \in {"undo_stop", "undo_disable", "undo_files", "back_stop", "back_program",
             "back_state", "back_start"}
  /\ mishaps < MaxMishaps /\ mishaps' = mishaps + 1
  /\ op' \in AfterFault
  /\ result' = IF op' = "idle" THEN "failed" ELSE result
  /\ spoilt' = TRUE
  /\ Untouched /\ ServiceKept
  /\ UNCHANGED <<stateFile, files, home, enabled, created, wasActive, original, fresh,
                 backup, restored, runs>>

-----------------------------------------------------------------------------
(* The deployed observer.                                                  *)

DeployInit ==
  /\ MonitorInit
  /\ \E program \in Existing :
       /\ files = [k \in FileNames |-> program]
       /\ home = (program # "none") /\ enabled = home /\ wanted = home
       /\ image = program
       /\ stateFile \in (IF program = "none" THEN {NoState} ELSE {NoState} \cup OldFiles)
  /\ op = "idle" /\ created = {} /\ wasActive = FALSE /\ original = Unread
  /\ fresh = FALSE /\ backup = NoBackup /\ result = "none" /\ spoilt = FALSE
  /\ restored = FALSE /\ runs = 0

InstallStep ==
  \/ BeginInstall \/ MakeHome \/ CreateFile \/ Enroll \/ StartInstalled \/ AwaitFirstState
  \/ InstallFails \/ UndoStop \/ UndoDisable \/ UndoFiles

UpgradeStep ==
  \/ BeginUpgrade \/ StopOld \/ ReadState \/ SaveBackup \/ ReplaceProgram \/ StartNew
  \/ ObserveNew \/ CheckNew \/ UpgradeFails
  \/ BackStop \/ BackProgram \/ BackState \/ BackStart

DeployNext ==
  \/ CycleOfNew \/ CycleOfOld \/ ProcessEnds \/ SystemdRestarts \/ NewReading
  \/ InstallStep \/ UpgradeStep \/ HandlerFails \/ OperatorDies \/ Reboot

\* The observer's loop goes on, systemd starts it again, and DSM does not
\* refuse for ever.  Nothing is assumed of the operators.
DeploySpec ==
  /\ DeployInit /\ [][DeployNext]_vars
  /\ WF_vars(CycleOfNew) /\ WF_vars(SystemdRestarts)
  /\ SF_vars(CycleOfNew /\ Accepted)

-----------------------------------------------------------------------------
(* What has to hold.                                                       *)

DeployTypeOK ==
  /\ MonitorTypeOK
  /\ files \in [FileNames -> Contents]
  /\ home \in BOOLEAN /\ enabled \in BOOLEAN /\ wasActive \in BOOLEAN
  /\ fresh \in BOOLEAN /\ spoilt \in BOOLEAN /\ restored \in BOOLEAN
  /\ image \in Contents
  /\ op \in {"idle"} \cup InstallSteps \cup UpgradeSteps
  /\ created \subseteq FileNames
  /\ original \in StateFiles
  /\ backup.there \in BOOLEAN /\ backup.program \in Contents /\ backup.state \in StateFiles
  /\ result \in Results /\ runs \in Nat

\* Until an upgrade puts an older state.json back over a newer history, the
\* queue is sound whatever the operators, systemd and the power do.
DeployedQueueSound == restored \/ QueueSound

\* From the moment an upgrade has put the new program in place, its checkpoint
\* holds what undoing it by hand takes, even if the operator dies or the NAS
\* restarts ("Exclusive private checkpoint", upgrade).
UpgradeRecoverable ==
  (backup.there /\ files["program"] = "new") =>
    /\ backup.program = "old"
    /\ backup.state = original

\* A run that reports a failure, and whose handler met none of its own, has
\* left the service as it was: an installation nothing that runs or would
\* start, an upgrade the old program, running again if it ran before.
FailedRunUndone ==
  (result = "failed" /\ ~spoilt /\ op = "idle") =>
    IF backup.there
    THEN files["program"] = "old" /\ (wasActive => wanted)
    ELSE ~wanted /\ ~Active /\ ~enabled /\ \A k \in FileNames : files[k] # "new"

\* The new program watches, and no operator is at work.
Served == wanted /\ Startable /\ files["program"] = "new" /\ image = "new" /\ op = "idle" /\ ~restored

\* The last word the owner has is the low battery.
OwnerKnows == \E e \in told : e.status = "LOW_BATTERY" /\ \A f \in told : f.id <= e.id

\* A low battery that lasts while the observer is served becomes, and stays,
\* the last thing the owner was told, through crashes and refusals.
AlarmReachesOwner == <>[](Warning(reading) /\ Served) => <>[]OwnerKnows
=============================================================================
