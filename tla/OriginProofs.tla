--------------------------- MODULE OriginProofs -----------------------------
(***************************************************************************)
(* For every number of runs, failures, kills and restarts, and all times:   *)
(* whatever is on the disk of the NAS loads, the image stays closed and the *)
(* box is served, in the middle of any operator, handler and session.       *)
(***************************************************************************)
EXTENDS OriginSession, SequenceTheorems, TLAPS

-----------------------------------------------------------------------------
(* What the operators keep.                                                *)

Guards == {"none", "legacy", "auth", "static", "foreign"}
AuthGuards == {"auth", "static"}

\* nginx can load the guard beside this geo.
Fits(geo, guard) ==
  /\ guard = "legacy" => geo # "none"
  /\ guard \in AuthGuards => geo \in {"auth", "foreign"}

\* Nobody but a foreigner has written since the operator read.
ReadInv ==
  op \in {"password", "recheck"} =>
    /\ changed = {}
    /\ disk.geo \in {before.geo, "foreign"} /\ disk.guard \in {before.guard, "foreign"}

InstallInv ==
  kind = "install" /\ op \notin {"idle", "recheck"} =>
    /\ before.geo = "none" /\ before.guard = "none"
    /\ disk.guard \in {"none", "legacy", "foreign"}
    /\ op = "guard" => disk.geo \in {"legacy", "foreign"}
    /\ op = "undo_geo" \/ "guard" \notin changed => disk.guard # "legacy"

AddLanInv ==
  kind = "addlan" =>
    /\ before.geo = "legacy" /\ before.guard = "legacy"
    /\ op # "idle" => disk.guard \in {"legacy", "foreign"}

\* A password made by this run is dropped only where no policy that nginx runs
\* with, or would load, asks for it.
AuthInv ==
  kind = "auth" =>
    /\ before.geo = "legacy" /\ before.guard = "legacy"
    /\ op # "idle" =>
         /\ disk.geo \in {"legacy", "auth", "foreign"} /\ disk.guard \in {"legacy", "auth", "foreign"}
         /\ op = "geo" => changed = {}
         /\ op = "guard" => disk.geo # "legacy" /\ "guard" \notin changed
         /\ "guard" \notin changed \/ op \in {"undo_geo", "undo_bind", "undo_reload"} => disk.guard # "auth"
         /\ op = "drop_password" /\ ~spoilt => disk.guard # "auth"
         /\ op # "password" => password
         /\ made /\ ~spoilt /\ op \in {"recheck", "geo", "guard", "drop_password"} =>
              loaded.guard \notin AuthGuards

StaticInv ==
  kind = "static" =>
    /\ before.guard = "auth"
    /\ op # "idle" => disk.geo \in {"auth", "foreign"} /\ (~spoilt => password)

RestoreInv ==
  kind = "restore" /\ op # "idle" =>
    /\ op # "drop_password" => before.geo = "legacy" /\ before.guard = "legacy"
    /\ op = "undo_guard" => disk.geo = "auth"
    /\ op \in {"undo_geo", "undo_bind", "undo_reload"} => disk.guard = "legacy"
    /\ op = "drop_password" /\ made => disk.guard = "legacy" /\ loaded.guard \notin AuthGuards
    /\ op # "drop_password" /\ ~spoilt => password

\* A bootstrap remembers the run before it as long as it may be told to restore.
Recalls == Waits \cup {"restoring"}

\* What a bootstrap can restore is the legacy policy, if it has activated.
SavedInv ==
  worker["boot"] \in Recalls =>
    /\ saved.activated \in BOOLEAN
    /\ saved.activated => saved.before.geo = "legacy" /\ saved.before.guard = "legacy"
    /\ ~saved.activated => ~saved.made

PasswordInv == (disk.guard \in AuthGuards \/ loaded.guard \in AuthGuards) /\ ~spoilt => password

\* What a run that nobody wrote into has done to the two files, up to the step
\* it is at: replaced them one after the other, or put them back.
Replaces(k) == CASE k = "addlan" -> {"geo"} [] k = "static" -> {"guard"} [] OTHER -> {"geo", "guard"}

FilesOfRun ==
  /\ changed \subseteq Replaces(kind)
  /\ disk.guard = IF "guard" \in changed
                     /\ op \notin {"undo_geo", "undo_bind", "undo_reload", "drop_password"}
                  THEN Target(kind, "guard") ELSE before.guard
  /\ disk.geo = IF "geo" \in changed /\ op \notin {"undo_bind", "undo_reload", "drop_password"}
                THEN Target(kind, "geo") ELSE before.geo
  /\ op = "geo" => changed = {}
  /\ op = "guard" => changed = Replaces(kind) \ {"guard"}
  /\ op \in {"reload", "heads", "bind"} => changed = Replaces(kind)

\* nginx runs with what is there, or with what it ran with before.
NginxOfRun ==
  /\ op \in {"heads", "bind"} => SamePolicy(loaded, disk)
  /\ changed = {} \/ op = "drop_password" =>
       SamePolicy(loaded, disk) \/ SamePolicy(loaded, before.loaded)

RunInv ==
  op # "idle" /\ kind # "restore" /\ ~touched /\ ~spoilt =>
    /\ FilesOfRun /\ NginxOfRun
    /\ binding = before.binding
    /\ op = "password" \/ kind # "auth" => password = before.password
    /\ op = "drop_password" => outcome \in {"failed", "refused"}

MadeInv ==
  kind = "auth" =>
    /\ op = "password" => password = before.password
    /\ op \notin {"idle", "password"} \/ outcome = "done" => made = ~before.password

BoundInv ==
  /\ kind = "addlan" => before.binding = [geo |-> "legacy", guard |-> "legacy"]
  /\ kind = "static" => before.binding.guard = "auth"

\* restore() puts back what the session has in its memory.
RestoredInv ==
  kind = "restore" /\ op # "idle" /\ ~spoilt =>
    /\ op # "undo_guard" => disk.guard = before.guard
    /\ op \in {"undo_bind", "undo_reload", "drop_password"} => disk.geo = before.geo
    /\ op \in {"undo_reload", "drop_password"} => binding = before.binding
    /\ op = "drop_password" /\ before.guard = "legacy" => SamePolicy(loaded, disk)
    /\ password /\ made = ~before.password

SavedWhole ==
  worker["boot"] \in Recalls =>
    /\ saved.made = ~saved.before.password
    /\ ~saved.activated =>
         /\ saved.before.geo = "auth" /\ saved.before.guard = "auth"
         /\ saved.before.binding = [geo |-> "auth", guard |-> "auth"]

\* restore() runs in the worker of a bootstrap, where nobody else writes.
RestoringInv == kind = "restore" /\ op # "idle" => worker["boot"] = "restoring"

OneSession == worker["trace"] = "none" \/ worker["boot"] = "none"

\* What the steps of the operators change, and what the sessions add.
OperatorInv ==
  /\ disk.guard \in Guards /\ loaded.guard \in Guards
  /\ Fits(disk.geo, disk.guard)
  /\ ReadInv /\ InstallInv /\ AddLanInv /\ AuthInv /\ StaticInv /\ RestoreInv /\ PasswordInv
  /\ RunInv /\ MadeInv /\ BoundInv /\ RestoredInv

-----------------------------------------------------------------------------
(* What the sessions keep.                                                 *)

\* The files of a session are layered: what uses a file goes before it.
Layered ==
  /\ "load_server" \in disk.files => "load_http" \in disk.files
  /\ "trace_server" \in disk.files => "trace_http" \in disk.files
  /\ "observe_location" \in disk.files => "observe_http" \in disk.files

\* The stages of a bootstrap that has opened its window.
Opened == Busy \cup {"active", "closing"}

\* The watchdog of a worker that waits, opens or observes sleeps.
TimeInv ==
  /\ worker["boot"] = "none" => dog["boot"] = "none"
  /\ Alive("boot") /\ dog["boot"] # "asleep" => now >= Alarm("boot")
  /\ worker["boot"] \in Waits => now <= since["boot"] + Wait
  /\ worker["boot"] \in Opened =>
       now <= until["boot"] /\ until["boot"] <= since["boot"] + Wait + Window

PeerInv ==
  /\ worker["boot"] = "none" => BootFiles \cap (disk.files \cup loaded.files) = {} /\ ~closed
  /\ "peer" \in disk.files \cup loaded.files => consent
  /\ worker["boot"] \in {"testing", "proving"} /\ consent => "peer" \in disk.files
  /\ worker["boot"] = "active" /\ ~closed /\ consent => "peer" \in disk.files
  /\ worker["boot"] = "closing" => "peer" \notin disk.files
  /\ closed => /\ worker["boot"] \in {"active", "cleaning", "gone"}
               /\ "peer" \notin disk.files \cup loaded.files

FilesInv == Layered /\ TimeInv /\ PeerInv

-----------------------------------------------------------------------------
(* Types.                                                                  *)

SnapTyped(b) ==
  /\ b.geo \in Policies /\ b.guard \in Policies /\ b.binding \in Bindings
  /\ b.loaded \in Bindings /\ b.password \in BOOLEAN

PolicyTyped ==
  /\ disk \in Configurations /\ loaded \in Configurations
  /\ binding \in Bindings /\ password \in BOOLEAN
  /\ kind \in Kinds /\ outcome \in Outcomes /\ SnapTyped(before)
  /\ changed \subseteq {"geo", "guard"}
  /\ made \in BOOLEAN /\ touched \in BOOLEAN /\ spoilt \in BOOLEAN /\ guarded \in BOOLEAN

SessionTyped ==
  /\ now \in Nat
  /\ worker \in [Sessions -> WorkerStages]
  /\ dog \in [Sessions -> {"none", "asleep", "cleaning", "gone"}]
  /\ since \in [Sessions -> Nat] /\ until \in [Sessions -> Nat]
  /\ response \in [Sessions -> {"none", "report", "activate", "rollback"}]
  /\ consent \in BOOLEAN /\ seen \subseteq {"refusal", "transfer", "check"}
  /\ repaired \in BOOLEAN /\ closed \in BOOLEAN /\ stranded \in BOOLEAN
  /\ dropped \subseteq Sessions \X {"worker", "dog"}
  /\ missed \subseteq Sessions \X {"worker", "dog"} /\ gaveUp \subseteq Sessions \X {"worker", "dog"}

SavedTyped ==
  worker["boot"] \in Recalls =>
    saved.activated \in BOOLEAN /\ saved.made \in BOOLEAN /\ SnapTyped(saved.before)

TypeInv == PolicyTyped /\ op \in StepsOf(kind) /\ SessionTyped /\ SavedTyped

\* The policy, what a bootstrap remembers of it, and the whole invariant.
PolicyInv == PolicyTyped /\ op \in StepsOf(kind) /\ OperatorInv
MemoryInv == SavedTyped /\ SavedInv /\ SavedWhole /\ RestoringInv /\ OneSession
OriginInv == PolicyInv /\ SessionTyped /\ MemoryInv /\ FilesInv

LEMMA InvParts == OriginInv => TypeInv /\ OperatorInv
BY DEF OriginInv, PolicyInv, MemoryInv, TypeInv

LEMMA TypeInvTyped == TypeInv => SessionTypeOK
BY DEF TypeInv, PolicyTyped, SessionTyped, SnapTyped, SessionTypeOK, OriginTypeOK

\* The steps that each kind of operator has.
LEMMA StepsLaw ==
  /\ \A k : "idle" \in StepsOf(k)
  /\ op \in StepsOf("none") => op = "idle"
  /\ StepsOf("install") =
       {"idle", "recheck", "geo", "guard", "reload", "heads", "undo_guard", "undo_geo", "undo_reload"}
  /\ StepsOf("addlan") = {"idle", "recheck", "geo", "reload", "heads", "bind", "undo_geo", "undo_reload"}
  /\ StepsOf("auth") = Steps
  /\ StepsOf("restore") =
       {"idle", "undo_guard", "undo_geo", "undo_bind", "undo_reload", "drop_password"}
  /\ StepsOf("static") =
       {"idle", "recheck", "guard", "reload", "heads", "bind", "undo_guard", "undo_bind", "undo_reload"}
BY DEF StepsOf, Steps

\* One of the two policy files gets another contents.
LEMMA FileWritten ==
  ASSUME disk \in Configurations, NEW file \in {"geo", "guard"}, NEW v \in Policies,
         disk' = [disk EXCEPT ![file] = v]
  PROVE  /\ disk' \in Configurations /\ disk'.files = disk.files
         /\ disk'.geo = (IF file = "geo" THEN v ELSE disk.geo)
         /\ disk'.guard = (IF file = "guard" THEN v ELSE disk.guard)
<1>1. CASE file = "geo"
  BY <1>1 DEF Configurations
<1>2. CASE file = "guard"
  BY <1>2 DEF Configurations
<1>3. QED
  BY <1>1, <1>2

LEMMA SnapshotTyped ==
  ASSUME PolicyTyped
  PROVE  /\ SnapTyped(Snapshot)
         /\ Snapshot.geo = disk.geo /\ Snapshot.guard = disk.guard
         /\ Snapshot.binding = binding /\ Snapshot.password = password
BY DEF Snapshot, SnapTyped, PolicyTyped, Configurations, Bindings

-----------------------------------------------------------------------------
(* What each step of an operator does.                                      *)

\* What every step of an operator keeps, whoever runs it.
OperatorKept ==
  /\ PolicyTyped' /\ op' \in StepsOf(kind')
  /\ disk'.files = disk.files
  /\ loaded' = loaded \/ loaded' = disk'
  /\ OperatorInv'

LEMMA BeginKept ==
  ASSUME TypeInv, OperatorInv, NEW k \in {"install", "addlan", "auth", "static"},
         NEW next \in {"password", "recheck"}, Begins(k, next),
         k = "auth" <=> next = "password",
         k \in {"addlan", "auth"} => disk.geo = "legacy" /\ disk.guard = "legacy" /\ binding = Bound,
         k = "static" => disk.guard = "auth" /\ binding.guard = "auth"
  PROVE  OperatorKept
<1>1. /\ kind' = k /\ op' = next /\ changed' = {} /\ made' = FALSE /\ outcome' = "none"
      /\ touched' = FALSE /\ before' = Snapshot
      /\ UNCHANGED <<disk, loaded, binding, password, spoilt, guarded>>
  BY DEF Begins
<1>2. /\ SnapTyped(Snapshot) /\ Snapshot.geo = disk.geo /\ Snapshot.guard = disk.guard
      /\ Snapshot.binding = binding /\ Snapshot.password = password
  BY SnapshotTyped DEF TypeInv
<1>3. PolicyTyped' /\ op' \in StepsOf(kind')
  BY <1>1, <1>2, StepsLaw DEF TypeInv, PolicyTyped, SnapTyped, Kinds, Outcomes, Steps
<1>4. before'.geo = disk'.geo /\ before'.guard = disk'.guard /\ before'.binding = binding'
      /\ before'.password = password'
  BY <1>1, <1>2
<1>5. Snapshot.loaded.geo = loaded.geo /\ Snapshot.loaded.guard = loaded.guard
  BY DEF Snapshot
<1>6. RunInv'
  <2>1. op' \in {"password", "recheck"}
    BY <1>1
  <2>2. FilesOfRun' /\ NginxOfRun'
    BY <1>1, <1>4, <1>5, <2>1 DEF FilesOfRun, NginxOfRun, SamePolicy
  <2>3. QED
    BY <1>1, <1>4, <2>1, <2>2 DEF RunInv
<1>7. BoundInv'
  BY <1>1, <1>2, <1>4 DEF BoundInv, Bound
<1>8. MadeInv'
  BY <1>1, <1>4 DEF MadeInv
<1>9. QED
  BY <1>1, <1>3, <1>4, <1>6, <1>7, <1>8
     DEF OperatorKept, OperatorInv, TypeInv, Fits, ReadInv, InstallInv, AddLanInv, AuthInv,
         StaticInv, RestoreInv, PasswordInv, RestoredInv, AuthGuards

LEMMA MakePasswordKept ==
  ASSUME TypeInv, OperatorInv, MakePassword PROVE OperatorKept
<1>1. /\ op = "password" /\ op' = "recheck" /\ password' = TRUE /\ made' = ~password
      /\ UNCHANGED <<disk, loaded, binding, kind, before, changed, outcome, touched, spoilt, guarded>>
  BY DEF MakePassword
<1>2. kind = "auth"
  BY <1>1, StepsLaw DEF TypeInv, PolicyTyped, Kinds
<1>3. PolicyTyped' /\ op' \in StepsOf(kind')
  BY <1>1, <1>2, StepsLaw DEF TypeInv, PolicyTyped, SnapTyped, Steps
<1>4. RunInv'
  BY <1>1, <1>2 DEF OperatorInv, ReadInv, RunInv, FilesOfRun, NginxOfRun, SamePolicy, Target, Replaces
<1>5. MadeInv'
  BY <1>1, <1>2 DEF OperatorInv, MadeInv
<1>6. QED
  BY <1>1, <1>2, <1>3, <1>4, <1>5
     DEF OperatorKept, OperatorInv, TypeInv, PolicyTyped, ReadInv, InstallInv, AddLanInv, AuthInv,
         StaticInv, RestoreInv, PasswordInv, RestoredInv, BoundInv, AuthGuards

LEMMA RecheckKept ==
  ASSUME TypeInv, OperatorInv, Recheck PROVE OperatorKept
<1>1. /\ op = "recheck"
      /\ UNCHANGED <<disk, loaded, binding, password, kind, before, changed, made, touched, spoilt, guarded>>
      /\ \/ /\ StillAsRead /\ op' = (IF kind = "static" THEN "guard" ELSE "geo") /\ outcome' = outcome
         \/ kind = "auth" /\ op' = "drop_password" /\ outcome' = "refused"
         \/ kind # "auth" /\ op' = "idle" /\ outcome' = "refused"
  BY DEF Recheck, Ends
<1>2. kind \in {"install", "addlan", "auth", "static"}
  BY <1>1, StepsLaw DEF TypeInv, PolicyTyped, Kinds
<1>3. PolicyTyped' /\ op' \in StepsOf(kind')
  BY <1>1, <1>2, StepsLaw DEF TypeInv, PolicyTyped, SnapTyped, Outcomes, Steps
<1>4. changed = {}
  BY <1>1 DEF OperatorInv, ReadInv
<1>5. RunInv'
  BY <1>1, <1>2, <1>4 DEF OperatorInv, RunInv, FilesOfRun, NginxOfRun, SamePolicy, Replaces
<1>6. MadeInv'
  BY <1>1, <1>2 DEF OperatorInv, MadeInv
<1>7. InstallInv'
  BY <1>1, <1>2, <1>4 DEF OperatorInv, ReadInv, InstallInv, StillAsRead
<1>8. AuthInv'
  BY <1>1, <1>2, <1>4 DEF OperatorInv, AuthInv
<1>9. QED
  BY <1>1, <1>2, <1>3, <1>5, <1>6, <1>7, <1>8
     DEF OperatorKept, OperatorInv, TypeInv, PolicyTyped, ReadInv, AddLanInv,
         StaticInv, RestoreInv, PasswordInv, RestoredInv, BoundInv, AuthGuards

\* A step that replaces a file.
LEMMA WritesEffect ==
  ASSUME TypeInv, NEW file \in {"geo", "guard"}, Writes(file),
         kind \in {"install", "addlan", "auth", "static"}
  PROVE  /\ disk' \in Configurations /\ disk'.files = disk.files
         /\ disk'.geo = (IF file = "geo" THEN Target(kind, "geo") ELSE disk.geo)
         /\ disk'.guard = (IF file = "guard" THEN Target(kind, "guard") ELSE disk.guard)
         /\ changed' = changed \cup {file} /\ changed' \subseteq {"geo", "guard"}
         /\ op' = (IF file = "geo" /\ kind # "addlan" THEN "guard" ELSE "reload")
<1>1. Target(kind, file) \in Policies
  BY DEF Target, Policies
<1>2. /\ disk' = [disk EXCEPT ![file] = Target(kind, file)] /\ changed' = changed \cup {file}
      /\ op' = (IF file = "geo" /\ kind # "addlan" THEN "guard" ELSE "reload")
  BY DEF Writes, AfterFile
<1>3. disk \in Configurations /\ changed \subseteq {"geo", "guard"}
  BY DEF TypeInv, PolicyTyped
<1>4. QED
  BY <1>1, <1>2, <1>3, FileWritten

\* A step of the activation that raises, before or after what it does to nginx.
LEMMA HandlerKept ==
  ASSUME TypeInv, OperatorInv,
         op \in {"geo", "guard", "reload", "heads", "bind"}, kind # "restore", op' = Handler,
         loaded' = loaded \/ loaded' = disk,
         UNCHANGED <<disk, binding, password, kind, before, changed, made, outcome, touched,
                     spoilt, guarded>>
  PROVE  OperatorKept
<1>1. kind \in {"install", "addlan", "auth", "static"}
  BY StepsLaw DEF TypeInv, PolicyTyped, Kinds
<1>2. op' = (IF kind = "addlan" THEN "undo_geo" ELSE "undo_guard")
  BY <1>1 DEF Handler
<1>3. PolicyTyped' /\ op' \in StepsOf(kind')
  BY <1>1, <1>2, StepsLaw DEF TypeInv, PolicyTyped, SnapTyped, Steps
<1>4. RunInv'
  BY <1>1, <1>2 DEF OperatorInv, RunInv, FilesOfRun, NginxOfRun, SamePolicy, Target, Replaces
<1>5. QED
  BY <1>1, <1>2, <1>3, <1>4
     DEF OperatorKept, OperatorInv, TypeInv, PolicyTyped, ReadInv, InstallInv, AddLanInv, AuthInv,
         StaticInv, RestoreInv, PasswordInv, RestoredInv, BoundInv, MadeInv, AuthGuards

LEMMA InstallWritesKept ==
  ASSUME TypeInv, OperatorInv, InstallWrites PROVE OperatorKept
<1>1. /\ kind = "install" /\ op \in {"geo", "guard"}
      /\ UNCHANGED <<loaded, binding, password, kind, before, made, outcome, touched, spoilt, guarded>>
  BY DEF InstallWrites
<1>2. CASE disk[op] = "none" /\ Writes(op)
  <2>1. /\ disk' \in Configurations /\ disk'.files = disk.files
        /\ op = "geo" => disk.geo = "none" /\ disk'.geo = "legacy" /\ disk'.guard = disk.guard
                         /\ op' = "guard"
        /\ op = "guard" => disk.guard = "none" /\ disk'.geo = disk.geo /\ disk'.guard = "legacy"
                           /\ op' = "reload"
        /\ changed' = changed \cup {op} /\ changed' \subseteq {"geo", "guard"}
    BY <1>1, <1>2, WritesEffect DEF Target
  <2>2. PolicyTyped' /\ op' \in StepsOf(kind')
    BY <1>1, <2>1, StepsLaw DEF TypeInv, PolicyTyped, SnapTyped
  <2>3. RunInv'
    BY <1>1, <2>1 DEF OperatorInv, RunInv, FilesOfRun, NginxOfRun, Replaces, Target
  <2>4. QED
    BY <1>1, <2>1, <2>2, <2>3
       DEF OperatorKept, OperatorInv, TypeInv, PolicyTyped, ReadInv, InstallInv, AddLanInv, AuthInv,
           StaticInv, RestoreInv, PasswordInv, RestoredInv, BoundInv, MadeInv, AuthGuards, Guards, Fits
<1>3. CASE Raises
  BY <1>1, <1>3, HandlerKept DEF Raises
<1>4. QED
  BY <1>2, <1>3 DEF InstallWrites

LEMMA AddLanWritesKept ==
  ASSUME TypeInv, OperatorInv, AddLanWrites PROVE OperatorKept
<1>1. /\ kind = "addlan" /\ op = "geo" /\ Writes("geo")
      /\ UNCHANGED <<loaded, binding, password, kind, before, made, outcome, touched, spoilt, guarded>>
  BY DEF AddLanWrites
<1>2. /\ disk' \in Configurations /\ disk'.files = disk.files
      /\ disk'.geo = "lan" /\ disk'.guard = disk.guard /\ op' = "reload"
      /\ changed' = changed \cup {"geo"} /\ changed' \subseteq {"geo", "guard"}
  BY <1>1, WritesEffect DEF Target
<1>3. PolicyTyped' /\ op' \in StepsOf(kind')
  BY <1>1, <1>2, StepsLaw DEF TypeInv, PolicyTyped, SnapTyped
<1>4. RunInv'
  BY <1>1, <1>2 DEF OperatorInv, RunInv, FilesOfRun, NginxOfRun, Replaces, Target
<1>5. QED
  BY <1>1, <1>2, <1>3, <1>4
     DEF OperatorKept, OperatorInv, TypeInv, PolicyTyped, ReadInv, InstallInv, AddLanInv, AuthInv,
         StaticInv, RestoreInv, PasswordInv, RestoredInv, BoundInv, MadeInv, AuthGuards, Guards, Fits

LEMMA AuthWritesKept ==
  ASSUME TypeInv, OperatorInv, AuthWrites PROVE OperatorKept
<1>1. /\ kind = "auth" /\ op \in {"geo", "guard"}
      /\ UNCHANGED <<loaded, binding, password, kind, before, made, outcome, touched, spoilt, guarded>>
  BY DEF AuthWrites
<1>2. CASE disk[op] = before[op] /\ Writes(op)
  <2>1. /\ disk' \in Configurations /\ disk'.files = disk.files
        /\ op = "geo" => disk.geo = before.geo /\ disk'.geo = "auth" /\ disk'.guard = disk.guard
                         /\ op' = "guard"
        /\ op = "guard" => disk.guard = before.guard /\ disk'.geo = disk.geo /\ disk'.guard = "auth"
                           /\ op' = "reload"
        /\ changed' = changed \cup {op} /\ changed' \subseteq {"geo", "guard"}
    BY <1>1, <1>2, WritesEffect DEF Target
  <2>2. PolicyTyped' /\ op' \in StepsOf(kind')
    BY <1>1, <2>1, StepsLaw DEF TypeInv, PolicyTyped, SnapTyped, Steps
  <2>3. RunInv'
    BY <1>1, <2>1 DEF OperatorInv, RunInv, FilesOfRun, NginxOfRun, Replaces, Target
  <2>4. QED
    BY <1>1, <2>1, <2>2, <2>3
       DEF OperatorKept, OperatorInv, TypeInv, PolicyTyped, ReadInv, InstallInv, AddLanInv, AuthInv,
           StaticInv, RestoreInv, PasswordInv, RestoredInv, BoundInv, MadeInv, AuthGuards, Guards, Fits
<1>3. CASE Raises
  BY <1>1, <1>3, HandlerKept DEF Raises
<1>4. QED
  BY <1>2, <1>3 DEF AuthWrites

LEMMA StaticWritesKept ==
  ASSUME TypeInv, OperatorInv, StaticWrites PROVE OperatorKept
<1>1. /\ kind = "static" /\ op = "guard" /\ Writes("guard")
      /\ UNCHANGED <<loaded, binding, password, kind, before, made, outcome, touched, spoilt, guarded>>
  BY DEF StaticWrites
<1>2. /\ disk' \in Configurations /\ disk'.files = disk.files
      /\ disk'.geo = disk.geo /\ disk'.guard = "static" /\ op' = "reload"
      /\ changed' = changed \cup {"guard"} /\ changed' \subseteq {"geo", "guard"}
  BY <1>1, WritesEffect DEF Target
<1>3. PolicyTyped' /\ op' \in StepsOf(kind')
  BY <1>1, <1>2, StepsLaw DEF TypeInv, PolicyTyped, SnapTyped
<1>4. RunInv'
  BY <1>1, <1>2 DEF OperatorInv, RunInv, FilesOfRun, NginxOfRun, Replaces, Target
<1>5. QED
  BY <1>1, <1>2, <1>3, <1>4
     DEF OperatorKept, OperatorInv, TypeInv, PolicyTyped, ReadInv, InstallInv, AddLanInv, AuthInv,
         StaticInv, RestoreInv, PasswordInv, RestoredInv, BoundInv, MadeInv, AuthGuards, Guards, Fits

LEMMA TestAndReloadKept ==
  ASSUME TypeInv, OperatorInv, TestAndReload PROVE OperatorKept
<1>1. /\ op = "reload"
      /\ UNCHANGED <<disk, binding, password, kind, before, changed, made, outcome, touched, spoilt,
                     guarded>>
      /\ \/ loaded' = disk /\ op' = "heads"
         \/ loaded' = loaded /\ op' = Handler
  BY DEF TestAndReload, Reload
<1>2. kind \in {"install", "addlan", "auth", "static"}
  BY <1>1, StepsLaw DEF TypeInv, PolicyTyped, Kinds
<1>3. CASE loaded' = disk /\ op' = "heads"
  <2>1. PolicyTyped' /\ op' \in StepsOf(kind')
    BY <1>1, <1>2, <1>3, StepsLaw DEF TypeInv, PolicyTyped, SnapTyped, Steps
  <2>2. RunInv'
    BY <1>1, <1>2, <1>3
       DEF OperatorInv, RunInv, FilesOfRun, NginxOfRun, SamePolicy, Target, Replaces
  <2>3. QED
    BY <1>1, <1>2, <1>3, <2>1, <2>2
       DEF OperatorKept, OperatorInv, TypeInv, PolicyTyped, ReadInv, InstallInv, AddLanInv, AuthInv,
           StaticInv, RestoreInv, PasswordInv, RestoredInv, BoundInv, MadeInv, AuthGuards
<1>4. CASE loaded' = loaded /\ op' = Handler
  BY <1>1, <1>2, <1>4, HandlerKept
<1>5. QED
  BY <1>1, <1>3, <1>4

\* A run that ends where it is.
LEMMA EndKept ==
  ASSUME TypeInv, OperatorInv, op' = "idle", kind # "auth" \/ outcome' # "done" \/ MadeInv',
         outcome' \in Outcomes, guarded' \in BOOLEAN, spoilt' \in BOOLEAN, spoilt => spoilt',
         binding' \in Bindings,
         UNCHANGED <<disk, loaded, password, kind, before, changed, made, touched>>
  PROVE  OperatorKept
<1>1. PolicyTyped' /\ op' \in StepsOf(kind')
  BY StepsLaw DEF TypeInv, PolicyTyped, SnapTyped
<1>2. RunInv' /\ MadeInv' /\ BoundInv' /\ RestoredInv'
  BY DEF RunInv, MadeInv, BoundInv, RestoredInv, OperatorInv
<1>3. QED
  BY <1>1, <1>2
     DEF OperatorKept, OperatorInv, TypeInv, PolicyTyped, ReadInv, InstallInv, AddLanInv, AuthInv,
         StaticInv, RestoreInv, PasswordInv, AuthGuards

LEMMA LocalHeadsKept ==
  ASSUME TypeInv, OperatorInv, LocalHeads PROVE OperatorKept
<1>1. /\ op = "heads"
      /\ UNCHANGED <<disk, loaded, binding, password, kind, before, changed, made, touched, spoilt>>
  BY DEF LocalHeads
<1>2. kind \in {"install", "addlan", "auth", "static"} /\ spoilt \in BOOLEAN /\ binding \in Bindings
  BY <1>1, StepsLaw DEF TypeInv, PolicyTyped, Kinds
<1>3. CASE op' = Handler /\ UNCHANGED <<outcome, guarded>>
  BY <1>1, <1>2, <1>3, HandlerKept
<1>4. CASE kind = "install" /\ Ends("done") /\ guarded' = TRUE
  BY <1>1, <1>2, <1>4, EndKept DEF Ends, Outcomes
<1>5. CASE kind # "install" /\ op' = "bind" /\ UNCHANGED <<outcome, guarded>>
  <2>1. PolicyTyped' /\ op' \in StepsOf(kind')
    BY <1>1, <1>2, <1>5, StepsLaw DEF TypeInv, PolicyTyped, SnapTyped, Steps
  <2>2. RunInv'
    BY <1>1, <1>2, <1>5
       DEF OperatorInv, RunInv, FilesOfRun, NginxOfRun, SamePolicy, Target, Replaces
  <2>3. QED
    BY <1>1, <1>2, <1>5, <2>1, <2>2
       DEF OperatorKept, OperatorInv, TypeInv, PolicyTyped, ReadInv, InstallInv, AddLanInv, AuthInv,
           StaticInv, RestoreInv, PasswordInv, RestoredInv, BoundInv, MadeInv, AuthGuards
<1>6. QED
  BY <1>1, <1>3, <1>4, <1>5 DEF LocalHeads

LEMMA NewBindingLaw ==
  ASSUME TypeInv, kind \in {"addlan", "auth", "static"}
  PROVE  /\ NewBinding \in Bindings
         /\ NewBinding.guard = (IF kind = "addlan" THEN before.binding.guard ELSE kind)
         /\ kind = "addlan" => NewBinding.geo = "lan"
         /\ kind = "auth" => NewBinding.geo = "auth"
BY DEF NewBinding, TypeInv, PolicyTyped, SnapTyped, Bindings, Policies

LEMMA RebindKept ==
  ASSUME TypeInv, OperatorInv, Rebind PROVE OperatorKept
<1>1. /\ op = "bind"
      /\ UNCHANGED <<disk, loaded, password, kind, before, changed, made, touched, spoilt, guarded>>
  BY DEF Rebind
<1>2. kind \in {"addlan", "auth", "static"} /\ spoilt \in BOOLEAN /\ guarded \in BOOLEAN
  BY <1>1, StepsLaw DEF TypeInv, PolicyTyped, Kinds
<1>3. CASE binding' = NewBinding /\ Ends("done")
  <2>1. kind # "auth" \/ MadeInv'
    BY <1>1, <1>3 DEF MadeInv, OperatorInv, Ends
  <2>2. QED
    BY <1>1, <1>2, <1>3, <2>1, EndKept, NewBindingLaw DEF Ends, Outcomes
<1>4. CASE op' = Handler /\ UNCHANGED <<binding, outcome>>
  BY <1>1, <1>2, <1>4, HandlerKept
<1>5. QED
  BY <1>3, <1>4 DEF Rebind

LEMMA StepFailsKept ==
  ASSUME TypeInv, OperatorInv, StepFails PROVE OperatorKept
<1>1. /\ op \in {"geo", "guard", "reload", "heads", "bind"} /\ kind # "restore" /\ op' = Handler
      /\ loaded' = loaded \/ loaded' = disk
      /\ UNCHANGED <<disk, binding, password, kind, before, changed, made, outcome, touched,
                     spoilt, guarded>>
  BY DEF StepFails
<1>2. QED
  BY <1>1, HandlerKept

-----------------------------------------------------------------------------
(* The handlers.                                                           *)

LEMMA PutBackEffect ==
  ASSUME TypeInv, NEW file \in {"geo", "guard"}, PutBack(file)
  PROVE  /\ disk' \in Configurations /\ disk'.files = disk.files
         /\ disk'.geo = (IF file = "geo" THEN before.geo ELSE disk.geo)
         /\ disk'.guard = (IF file = "guard" THEN before.guard ELSE disk.guard)
<1>1. before[file] \in Policies /\ before["geo"] = before.geo /\ before["guard"] = before.guard
  BY DEF TypeInv, PolicyTyped, SnapTyped
<1>2. disk' = [disk EXCEPT ![file] = before[file]] /\ disk \in Configurations
  BY DEF PutBack, TypeInv, PolicyTyped
<1>3. QED
  BY <1>1, <1>2, FileWritten

LEMMA InstallUndoesKept ==
  ASSUME TypeInv, OperatorInv, InstallUndoes PROVE OperatorKept
<1>1. /\ kind = "install" /\ op \in {"undo_geo", "undo_guard"}
      /\ UNCHANGED <<loaded, binding, password, kind, before, changed, made, touched, spoilt, guarded>>
  BY DEF InstallUndoes, Keeps, UndoStep
<1>2. spoilt \in BOOLEAN /\ guarded \in BOOLEAN /\ binding \in Bindings
  BY DEF TypeInv, PolicyTyped
<1>3. \/ Ends("refused") /\ disk' = disk
      \/ /\ op = "undo_guard" /\ op' = "undo_geo" /\ outcome' = outcome
         /\ IF "guard" \in changed THEN disk.guard = "legacy" /\ PutBack("guard") ELSE disk' = disk
      \/ /\ op = "undo_geo" /\ op' = "undo_reload" /\ outcome' = outcome
         /\ IF "geo" \in changed THEN disk.geo = "legacy" /\ PutBack("geo") ELSE disk' = disk
  <2>1. PICK file \in {"geo", "guard"} :
          /\ op = UndoStep[file]
          /\ IF file \in changed /\ disk[file] # "legacy" THEN Ends("refused") /\ UNCHANGED disk
             ELSE /\ (IF file \in changed THEN PutBack(file) ELSE UNCHANGED disk)
                  /\ op' = (IF file = "guard" THEN "undo_geo" ELSE "undo_reload")
                  /\ UNCHANGED outcome
    BY DEF InstallUndoes
  <2>2. CASE file = "geo"
    BY <2>1, <2>2 DEF UndoStep
  <2>3. CASE file = "guard"
    BY <2>1, <2>3 DEF UndoStep
  <2>4. QED
    BY <2>2, <2>3
<1>4. CASE Ends("refused") /\ disk' = disk
  BY <1>1, <1>2, <1>4, EndKept DEF Ends, Outcomes
<1>5. CASE /\ op = "undo_guard" /\ op' = "undo_geo" /\ outcome' = outcome
           /\ IF "guard" \in changed THEN disk.guard = "legacy" /\ PutBack("guard") ELSE disk' = disk
  <2>1. /\ disk' \in Configurations /\ disk'.files = disk.files /\ disk'.geo = disk.geo
        /\ disk'.guard = (IF "guard" \in changed THEN before.guard ELSE disk.guard)
    BY <1>5, PutBackEffect DEF TypeInv, PolicyTyped
  <2>2. PolicyTyped' /\ op' \in StepsOf(kind')
    BY <1>1, <1>5, <2>1, StepsLaw DEF TypeInv, PolicyTyped, SnapTyped
  <2>3. RunInv'
    BY <1>1, <1>5, <2>1 DEF OperatorInv, RunInv, FilesOfRun, NginxOfRun, SamePolicy, Target, Replaces
  <2>4. QED
    BY <1>1, <1>5, <2>1, <2>2, <2>3
       DEF OperatorKept, OperatorInv, TypeInv, PolicyTyped, ReadInv, InstallInv, AddLanInv, AuthInv,
           StaticInv, RestoreInv, PasswordInv, RestoredInv, BoundInv, MadeInv, AuthGuards, Guards, Fits
<1>6. CASE /\ op = "undo_geo" /\ op' = "undo_reload" /\ outcome' = outcome
           /\ IF "geo" \in changed THEN disk.geo = "legacy" /\ PutBack("geo") ELSE disk' = disk
  <2>1. /\ disk' \in Configurations /\ disk'.files = disk.files /\ disk'.guard = disk.guard
        /\ disk'.geo = (IF "geo" \in changed THEN before.geo ELSE disk.geo)
        /\ "geo" \in changed => disk.geo = "legacy"
    BY <1>6, PutBackEffect DEF TypeInv, PolicyTyped
  <2>2. PolicyTyped' /\ op' \in StepsOf(kind')
    BY <1>1, <1>6, <2>1, StepsLaw DEF TypeInv, PolicyTyped, SnapTyped
  <2>3. RunInv'
    BY <1>1, <1>6, <2>1 DEF OperatorInv, RunInv, FilesOfRun, NginxOfRun, SamePolicy, Target, Replaces
  <2>4. QED
    BY <1>1, <1>6, <2>1, <2>2, <2>3
       DEF OperatorKept, OperatorInv, TypeInv, PolicyTyped, ReadInv, InstallInv, AddLanInv, AuthInv,
           StaticInv, RestoreInv, PasswordInv, RestoredInv, BoundInv, MadeInv, AuthGuards, Guards, Fits
<1>7. QED
  BY <1>3, <1>4, <1>5, <1>6

LEMMA AddLanUndoesKept ==
  ASSUME TypeInv, OperatorInv, AddLanUndoes PROVE OperatorKept
<1>1. /\ kind = "addlan" /\ op = "undo_geo"
      /\ UNCHANGED <<loaded, binding, password, kind, before, changed, made, touched, spoilt, guarded>>
  BY DEF AddLanUndoes, Keeps
<1>2. spoilt \in BOOLEAN /\ guarded \in BOOLEAN /\ binding \in Bindings
  BY DEF TypeInv, PolicyTyped
<1>3. CASE Ends("refused") /\ disk' = disk
  BY <1>1, <1>2, <1>3, EndKept DEF Ends, Outcomes
<1>4. CASE PutBack("geo") /\ op' = "undo_reload" /\ outcome' = outcome
  <2>1. /\ disk' \in Configurations /\ disk'.files = disk.files /\ disk'.guard = disk.guard
        /\ disk'.geo = before.geo
    BY <1>4, PutBackEffect
  <2>2. PolicyTyped' /\ op' \in StepsOf(kind')
    BY <1>1, <1>4, <2>1, StepsLaw DEF TypeInv, PolicyTyped, SnapTyped
  <2>3. RunInv'
    BY <1>1, <1>4, <2>1 DEF OperatorInv, RunInv, FilesOfRun, NginxOfRun, SamePolicy, Target, Replaces
  <2>4. QED
    BY <1>1, <1>4, <2>1, <2>2, <2>3
       DEF OperatorKept, OperatorInv, TypeInv, PolicyTyped, ReadInv, InstallInv, AddLanInv, AuthInv,
           StaticInv, RestoreInv, PasswordInv, RestoredInv, BoundInv, MadeInv, AuthGuards, Guards, Fits
<1>5. QED
  BY <1>3, <1>4 DEF AddLanUndoes

LEMMA AuthUndoesKept ==
  ASSUME TypeInv, OperatorInv, AuthUndoes PROVE OperatorKept
<1>1. /\ kind = "auth" /\ op \in {"undo_geo", "undo_guard", "undo_bind"}
      /\ UNCHANGED <<loaded, password, kind, before, changed, made, touched, spoilt, guarded>>
  BY DEF AuthUndoes, Keeps, UndoStep
<1>2. /\ spoilt \in BOOLEAN /\ guarded \in BOOLEAN /\ binding \in Bindings
      /\ before.binding \in Bindings /\ disk \in Configurations
  BY DEF TypeInv, PolicyTyped, SnapTyped
<1>3. \/ Ends("unconfirmed") /\ disk' = disk /\ binding' = binding
      \/ /\ op = "undo_guard" /\ op' = "undo_geo" /\ outcome' = outcome /\ binding' = binding
         /\ IF "guard" \in changed THEN disk.guard = "auth" /\ PutBack("guard") ELSE disk' = disk
      \/ /\ op = "undo_geo" /\ op' = "undo_bind" /\ outcome' = outcome /\ binding' = binding
         /\ IF "geo" \in changed THEN disk.geo = "auth" /\ PutBack("geo") ELSE disk' = disk
      \/ /\ op = "undo_bind" /\ op' = "undo_reload" /\ outcome' = outcome /\ disk' = disk
         /\ binding' = before.binding
  <2>1. CASE op = "undo_bind" /\ UNCHANGED disk
             /\ IF binding \notin {before.binding, NewBinding}
                THEN Ends("unconfirmed") /\ UNCHANGED binding
                ELSE binding' = before.binding /\ op' = "undo_reload" /\ UNCHANGED outcome
    BY <2>1
  <2>2. ASSUME NEW file \in {"geo", "guard"}, op = UndoStep[file], UNCHANGED binding,
               IF file \in changed /\ disk[file] # "auth" THEN Ends("unconfirmed") /\ UNCHANGED disk
               ELSE /\ (IF file \in changed THEN PutBack(file) ELSE UNCHANGED disk)
                    /\ op' = (IF file = "guard" THEN "undo_geo" ELSE "undo_bind")
                    /\ UNCHANGED outcome
        PROVE  \/ Ends("unconfirmed") /\ disk' = disk /\ binding' = binding
               \/ /\ op = "undo_guard" /\ op' = "undo_geo" /\ outcome' = outcome /\ binding' = binding
                  /\ IF "guard" \in changed THEN disk.guard = "auth" /\ PutBack("guard") ELSE disk' = disk
               \/ /\ op = "undo_geo" /\ op' = "undo_bind" /\ outcome' = outcome /\ binding' = binding
                  /\ IF "geo" \in changed THEN disk.geo = "auth" /\ PutBack("geo") ELSE disk' = disk
    <3>1. CASE file = "geo"
      BY <2>2, <3>1 DEF UndoStep
    <3>2. CASE file = "guard"
      BY <2>2, <3>2 DEF UndoStep
    <3>3. QED
      BY <3>1, <3>2
  <2>3. QED
    BY <2>1, <2>2 DEF AuthUndoes
<1>4. CASE Ends("unconfirmed") /\ disk' = disk /\ binding' = binding
  BY <1>1, <1>2, <1>4, EndKept DEF Ends, Outcomes
<1>5. CASE /\ op = "undo_guard" /\ op' = "undo_geo" /\ outcome' = outcome /\ binding' = binding
           /\ IF "guard" \in changed THEN disk.guard = "auth" /\ PutBack("guard") ELSE disk' = disk
  <2>1. /\ disk' \in Configurations /\ disk'.files = disk.files /\ disk'.geo = disk.geo
        /\ disk'.guard = (IF "guard" \in changed THEN before.guard ELSE disk.guard)
    BY <1>2, <1>5, PutBackEffect
  <2>2. PolicyTyped' /\ op' \in StepsOf(kind')
    BY <1>1, <1>5, <2>1, StepsLaw DEF TypeInv, PolicyTyped, SnapTyped, Steps
  <2>3. RunInv'
    BY <1>1, <1>5, <2>1 DEF OperatorInv, RunInv, FilesOfRun, NginxOfRun, SamePolicy, Target, Replaces
  <2>4. QED
    BY <1>1, <1>5, <2>1, <2>2, <2>3
       DEF OperatorKept, OperatorInv, TypeInv, PolicyTyped, ReadInv, InstallInv, AddLanInv, AuthInv,
           StaticInv, RestoreInv, PasswordInv, RestoredInv, BoundInv, MadeInv, AuthGuards, Guards, Fits
<1>6. CASE /\ op = "undo_geo" /\ op' = "undo_bind" /\ outcome' = outcome /\ binding' = binding
           /\ IF "geo" \in changed THEN disk.geo = "auth" /\ PutBack("geo") ELSE disk' = disk
  <2>1. /\ disk' \in Configurations /\ disk'.files = disk.files /\ disk'.guard = disk.guard
        /\ disk'.geo = (IF "geo" \in changed THEN before.geo ELSE disk.geo)
    BY <1>2, <1>6, PutBackEffect
  <2>2. PolicyTyped' /\ op' \in StepsOf(kind')
    BY <1>1, <1>6, <2>1, StepsLaw DEF TypeInv, PolicyTyped, SnapTyped, Steps
  <2>3. RunInv'
    BY <1>1, <1>6, <2>1 DEF OperatorInv, RunInv, FilesOfRun, NginxOfRun, SamePolicy, Target, Replaces
  <2>4. QED
    BY <1>1, <1>6, <2>1, <2>2, <2>3
       DEF OperatorKept, OperatorInv, TypeInv, PolicyTyped, ReadInv, InstallInv, AddLanInv, AuthInv,
           StaticInv, RestoreInv, PasswordInv, RestoredInv, BoundInv, MadeInv, AuthGuards, Guards, Fits
<1>7. CASE /\ op = "undo_bind" /\ op' = "undo_reload" /\ outcome' = outcome /\ disk' = disk
           /\ binding' = before.binding
  <2>1. PolicyTyped' /\ op' \in StepsOf(kind')
    BY <1>1, <1>2, <1>7, StepsLaw DEF TypeInv, PolicyTyped, SnapTyped, Steps
  <2>2. RunInv'
    BY <1>1, <1>7 DEF OperatorInv, RunInv, FilesOfRun, NginxOfRun, SamePolicy, Target, Replaces
  <2>3. QED
    BY <1>1, <1>7, <2>1, <2>2
       DEF OperatorKept, OperatorInv, TypeInv, PolicyTyped, ReadInv, InstallInv, AddLanInv, AuthInv,
           StaticInv, RestoreInv, PasswordInv, RestoredInv, BoundInv, MadeInv, AuthGuards
<1>8. QED
  BY <1>3, <1>4, <1>5, <1>6, <1>7

LEMMA StaticUndoesKept ==
  ASSUME TypeInv, OperatorInv, StaticUndoes PROVE OperatorKept
<1>1. /\ kind = "static" /\ op \in {"undo_guard", "undo_bind"}
      /\ UNCHANGED <<loaded, password, kind, before, changed, made, touched, spoilt, guarded>>
  BY DEF StaticUndoes, Keeps
<1>2. /\ spoilt \in BOOLEAN /\ guarded \in BOOLEAN /\ binding \in Bindings
      /\ before.binding \in Bindings /\ disk \in Configurations
  BY DEF TypeInv, PolicyTyped, SnapTyped
<1>3. CASE Ends("refused") /\ disk' = disk /\ binding' = binding
  BY <1>1, <1>2, <1>3, EndKept DEF Ends, Outcomes
<1>4. CASE /\ op = "undo_guard" /\ PutBack("guard") /\ op' = "undo_bind" /\ outcome' = outcome
           /\ binding' = binding
  <2>1. /\ disk' \in Configurations /\ disk'.files = disk.files /\ disk'.geo = disk.geo
        /\ disk'.guard = before.guard
    BY <1>4, PutBackEffect
  <2>2. PolicyTyped' /\ op' \in StepsOf(kind')
    BY <1>1, <1>4, <2>1, StepsLaw DEF TypeInv, PolicyTyped, SnapTyped
  <2>3. RunInv'
    BY <1>1, <1>4, <2>1 DEF OperatorInv, RunInv, FilesOfRun, NginxOfRun, SamePolicy, Target, Replaces
  <2>4. QED
    BY <1>1, <1>4, <2>1, <2>2, <2>3
       DEF OperatorKept, OperatorInv, TypeInv, PolicyTyped, ReadInv, InstallInv, AddLanInv, AuthInv,
           StaticInv, RestoreInv, PasswordInv, RestoredInv, BoundInv, MadeInv, AuthGuards, Guards, Fits
<1>5. CASE /\ op = "undo_bind" /\ binding' = before.binding /\ op' = "undo_reload"
           /\ UNCHANGED <<disk, outcome>>
  <2>1. PolicyTyped' /\ op' \in StepsOf(kind')
    BY <1>1, <1>2, <1>5, StepsLaw DEF TypeInv, PolicyTyped, SnapTyped
  <2>2. RunInv'
    BY <1>1, <1>5 DEF OperatorInv, RunInv, FilesOfRun, NginxOfRun, SamePolicy, Target, Replaces
  <2>3. QED
    BY <1>1, <1>5, <2>1, <2>2
       DEF OperatorKept, OperatorInv, TypeInv, PolicyTyped, ReadInv, InstallInv, AddLanInv, AuthInv,
           StaticInv, RestoreInv, PasswordInv, RestoredInv, BoundInv, MadeInv, AuthGuards
<1>6. QED
  BY <1>3, <1>4, <1>5 DEF StaticUndoes

LEMMA RestoreUndoesKept ==
  ASSUME TypeInv, OperatorInv, RestoreUndoes PROVE OperatorKept
<1>1. /\ kind = "restore" /\ op \in {"undo_guard", "undo_geo", "undo_bind"}
      /\ UNCHANGED <<loaded, password, kind, before, changed, made, touched, spoilt, guarded, outcome>>
  BY DEF RestoreUndoes, Keeps
<1>2. binding \in Bindings /\ before.binding \in Bindings /\ disk \in Configurations
  BY DEF TypeInv, PolicyTyped, SnapTyped
<1>3. RunInv'
  BY <1>1 DEF RunInv
<1>4. CASE op = "undo_guard" /\ PutBack("guard") /\ op' = "undo_geo" /\ binding' = binding
  <2>1. /\ disk' \in Configurations /\ disk'.files = disk.files /\ disk'.geo = disk.geo
        /\ disk'.guard = before.guard
    BY <1>4, PutBackEffect
  <2>2. PolicyTyped' /\ op' \in StepsOf(kind')
    BY <1>1, <1>4, <2>1, StepsLaw DEF TypeInv, PolicyTyped, SnapTyped
  <2>3. QED
    BY <1>1, <1>3, <1>4, <2>1, <2>2
       DEF OperatorKept, OperatorInv, TypeInv, PolicyTyped, ReadInv, InstallInv, AddLanInv, AuthInv,
           StaticInv, RestoreInv, PasswordInv, RestoredInv, BoundInv, MadeInv, AuthGuards, Guards, Fits
<1>5. CASE op = "undo_geo" /\ PutBack("geo") /\ op' = "undo_bind" /\ binding' = binding
  <2>1. /\ disk' \in Configurations /\ disk'.files = disk.files /\ disk'.guard = disk.guard
        /\ disk'.geo = before.geo
    BY <1>5, PutBackEffect
  <2>2. PolicyTyped' /\ op' \in StepsOf(kind')
    BY <1>1, <1>5, <2>1, StepsLaw DEF TypeInv, PolicyTyped, SnapTyped
  <2>3. QED
    BY <1>1, <1>3, <1>5, <2>1, <2>2
       DEF OperatorKept, OperatorInv, TypeInv, PolicyTyped, ReadInv, InstallInv, AddLanInv, AuthInv,
           StaticInv, RestoreInv, PasswordInv, RestoredInv, BoundInv, MadeInv, AuthGuards, Guards, Fits
<1>6. CASE op = "undo_bind" /\ binding' = before.binding /\ op' = "undo_reload" /\ disk' = disk
  <2>1. PolicyTyped' /\ op' \in StepsOf(kind')
    BY <1>1, <1>2, <1>6, StepsLaw DEF TypeInv, PolicyTyped, SnapTyped
  <2>2. QED
    BY <1>1, <1>3, <1>6, <2>1
       DEF OperatorKept, OperatorInv, TypeInv, PolicyTyped, ReadInv, InstallInv, AddLanInv, AuthInv,
           StaticInv, RestoreInv, PasswordInv, RestoredInv, BoundInv, MadeInv, AuthGuards
<1>7. QED
  BY <1>4, <1>5, <1>6 DEF RestoreUndoes

LEMMA UndoReloadKept ==
  ASSUME TypeInv, OperatorInv, UndoReload PROVE OperatorKept
<1>1. /\ op = "undo_reload" /\ loaded' = disk
      /\ UNCHANGED <<disk, binding, password, kind, before, changed, made, touched, spoilt, guarded>>
      /\ \/ /\ kind \in {"auth", "restore"} /\ op' = "drop_password"
            /\ outcome' = (IF kind = "auth" THEN "failed" ELSE outcome)
         \/ kind \notin {"auth", "restore"} /\ op' = "idle" /\ outcome' = "failed"
  BY DEF UndoReload, Reload, Ends
<1>2. kind \in {"install", "addlan", "auth", "restore", "static"}
  BY <1>1, StepsLaw DEF TypeInv, PolicyTyped, Kinds
<1>3. PolicyTyped' /\ op' \in StepsOf(kind')
  BY <1>1, <1>2, StepsLaw DEF TypeInv, PolicyTyped, SnapTyped, Outcomes, Steps
<1>4. RunInv'
  BY <1>1, <1>2 DEF OperatorInv, RunInv, FilesOfRun, NginxOfRun, SamePolicy, Target, Replaces
<1>5. RestoredInv' /\ MadeInv'
  BY <1>1, <1>2 DEF OperatorInv, RestoredInv, MadeInv, SamePolicy
<1>6. RestoreInv'
  BY <1>1, <1>2 DEF OperatorInv, RestoreInv, AuthGuards
<1>7. AuthInv'
  BY <1>1, <1>2 DEF OperatorInv, AuthInv, AuthGuards
<1>8. QED
  BY <1>1, <1>2, <1>3, <1>4, <1>5, <1>6, <1>7
     DEF OperatorKept, OperatorInv, TypeInv, PolicyTyped, ReadInv, InstallInv, AddLanInv,
         StaticInv, PasswordInv, BoundInv, AuthGuards

\* The password goes where no policy asks for it.
LEMMA DropPasswordKept ==
  ASSUME TypeInv, OperatorInv, DropPassword PROVE OperatorKept
<1>1. /\ op = "drop_password" /\ op' = "idle" /\ password' = (password /\ ~made)
      /\ UNCHANGED <<disk, loaded, binding, kind, before, changed, made, touched, spoilt, guarded,
                     outcome>>
  BY DEF DropPassword, Ends
<1>2. kind \in {"auth", "restore"} /\ password \in BOOLEAN /\ made \in BOOLEAN
  BY <1>1, StepsLaw DEF TypeInv, PolicyTyped, Kinds
<1>3. PolicyTyped' /\ op' \in StepsOf(kind')
  BY <1>1, <1>2, StepsLaw DEF TypeInv, PolicyTyped, SnapTyped
<1>4. PasswordInv'
  <2>1. ~spoilt /\ made => disk.guard \notin AuthGuards /\ loaded.guard \notin AuthGuards
    BY <1>1, <1>2 DEF OperatorInv, AuthInv, RestoreInv, AuthGuards
  <2>2. QED
    BY <1>1, <1>2, <2>1 DEF OperatorInv, PasswordInv
<1>5. MadeInv' /\ RunInv' /\ RestoredInv'
  BY <1>1 DEF OperatorInv, MadeInv, RunInv, RestoredInv
<1>6. QED
  BY <1>1, <1>2, <1>3, <1>4, <1>5
     DEF OperatorKept, OperatorInv, TypeInv, PolicyTyped, ReadInv, InstallInv, AddLanInv, AuthInv,
         StaticInv, RestoreInv, BoundInv

LEMMA HandlerFailsKept ==
  ASSUME TypeInv, OperatorInv, HandlerFails PROVE OperatorKept
<1>1. /\ op \in {"undo_guard", "undo_geo", "undo_bind", "undo_reload"} /\ spoilt' = TRUE
      /\ UNCHANGED <<disk, loaded, binding, password, kind, before, changed, made, touched, guarded>>
  BY DEF HandlerFails
<1>2. guarded \in BOOLEAN /\ binding \in Bindings /\ spoilt \in BOOLEAN
  BY DEF TypeInv, PolicyTyped
<1>3. CASE Ends("unconfirmed") \/ Ends("failed")
  BY <1>1, <1>2, <1>3, EndKept DEF Ends, Outcomes
<1>4. CASE kind = "auth" /\ op' = "drop_password" /\ outcome' = "failed"
  <2>1. PolicyTyped' /\ op' \in StepsOf(kind')
    BY <1>1, <1>4, StepsLaw DEF TypeInv, PolicyTyped, SnapTyped, Outcomes, Steps
  <2>2. QED
    BY <1>1, <1>4, <2>1
       DEF OperatorKept, OperatorInv, TypeInv, PolicyTyped, ReadInv, InstallInv, AddLanInv, AuthInv,
           StaticInv, RestoreInv, PasswordInv, RestoredInv, BoundInv, MadeInv, RunInv, AuthGuards
<1>5. QED
  BY <1>3, <1>4 DEF HandlerFails

\* restore() begins with what the session has in its memory.
LEMMA BeginRestoreKept ==
  ASSUME TypeInv, OperatorInv, SavedInv, SavedWhole, worker["boot"] \in Recalls,
         BeginRestore(saved.before, saved.activated, saved.made)
  PROVE  OperatorKept /\ kind' = "restore"
<1>1. /\ op = "idle" /\ disk.geo = "auth" /\ disk.guard = "auth"
      /\ binding = [geo |-> "auth", guard |-> "auth"]
      /\ kind' = "restore" /\ before' = saved.before /\ made' = saved.made
      /\ op' = (IF saved.activated THEN "undo_guard" ELSE "drop_password")
      /\ outcome' = "done" /\ changed' = {} /\ touched' = FALSE
      /\ UNCHANGED <<disk, loaded, binding, password, spoilt, guarded>>
  BY DEF BeginRestore
<1>2. /\ saved.activated \in BOOLEAN /\ saved.made \in BOOLEAN /\ SnapTyped(saved.before)
  BY DEF TypeInv, SavedTyped
<1>3. PolicyTyped' /\ op' \in StepsOf(kind')
  BY <1>1, <1>2, StepsLaw DEF TypeInv, PolicyTyped, SnapTyped, Outcomes, Kinds
<1>4. RestoredInv'
  <2>1. ~spoilt => password
    BY <1>1 DEF OperatorInv, PasswordInv, AuthGuards
  <2>2. QED
    BY <1>1, <1>2, <2>1 DEF RestoredInv, SavedInv, SavedWhole
<1>5. RestoreInv'
  <2>1. ~spoilt => password
    BY <1>1 DEF OperatorInv, PasswordInv, AuthGuards
  <2>2. QED
    BY <1>1, <1>2, <2>1 DEF RestoreInv, SavedInv
<1>6. QED
  BY <1>1, <1>3, <1>4, <1>5
     DEF OperatorKept, OperatorInv, TypeInv, PolicyTyped, ReadInv, InstallInv, AddLanInv, AuthInv,
         StaticInv, PasswordInv, BoundInv, MadeInv, RunInv, AuthGuards

LEMMA OperatorStepKept ==
  ASSUME TypeInv, OperatorInv, OperatorStep PROVE OperatorKept
<1>1. CASE BeginInstall
  BY <1>1, BeginKept DEF BeginInstall
<1>2. CASE BeginAddLan
  BY <1>2, BeginKept DEF BeginAddLan
<1>3. CASE BeginAuth
  BY <1>3, BeginKept DEF BeginAuth
<1>4. CASE BeginStatic
  BY <1>4, BeginKept DEF BeginStatic
<1>5. QED
  BY <1>1, <1>2, <1>3, <1>4, MakePasswordKept, RecheckKept, InstallWritesKept, AddLanWritesKept,
     AuthWritesKept, StaticWritesKept, TestAndReloadKept, LocalHeadsKept, RebindKept,
     StepFailsKept, InstallUndoesKept, AddLanUndoesKept, AuthUndoesKept, StaticUndoesKept,
     RestoreUndoesKept, UndoReloadKept, DropPasswordKept, HandlerFailsKept
     DEF OperatorStep

-----------------------------------------------------------------------------
(* Files that come and go in order.                                        *)

LEMMA FirstLaw ==
  ASSUME NEW order, NEW n \in {2, 4}, DOMAIN order = 1..n,
         NEW files, \E i \in 1..n : order[i] \in files
  PROVE  \E i \in 1..n : /\ First(order, files) = order[i] /\ order[i] \in files
                         /\ \A j \in 1..(i-1) : order[j] \notin files
<1>1. \E i \in 1..n : order[i] \in files /\ \A j \in 1..(i-1) : order[j] \notin files
  <2>1. CASE order[1] \in files
    BY <2>1
  <2>2. CASE order[1] \notin files /\ order[2] \in files
    BY <2>2
  <2>3. CASE n = 4 /\ order[1] \notin files /\ order[2] \notin files /\ order[3] \in files
    BY <2>3
  <2>4. CASE n = 4 /\ order[1] \notin files /\ order[2] \notin files /\ order[3] \notin files
             /\ order[4] \in files
    BY <2>4
  <2>5. QED
    BY <2>1, <2>2, <2>3, <2>4
<1>2. QED
  BY <1>1 DEF First

\* The order in which a bootstrap creates and removes four files is put together
\* from two pairs.
LEMMA ConcatPairs ==
  ASSUME NEW a, NEW b, NEW c, NEW d
  PROVE  <<a, b>> \o <<c, d>> = <<a, b, c, d>>
<1> DEFINE S == {a, b, c, d}
           s == <<a, b>>
           t == <<c, d>>
           u == <<a, b, c, d>>
           v == s \o t
<1>1. s \in Seq(S) /\ t \in Seq(S) /\ u \in Seq(S) /\ Len(s) = 2 /\ Len(t) = 2 /\ Len(u) = 4
  OBVIOUS
<1>2. s[1] = a /\ s[2] = b /\ t[1] = c /\ t[2] = d /\ u[1] = a /\ u[2] = b /\ u[3] = c /\ u[4] = d
  OBVIOUS
<1> HIDE DEF S, s, t, u
<1>3. /\ v \in Seq(S) /\ Len(v) = Len(s) + Len(t)
      /\ \A i \in 1 .. Len(s) + Len(t) : v[i] = IF i <= Len(s) THEN s[i] ELSE t[i - Len(s)]
  BY <1>1, ConcatProperties
<1> HIDE DEF v
<1>4. Len(v) = 4 /\ \A i \in 1 .. 4 : v[i] = IF i <= 2 THEN s[i] ELSE t[i - 2]
  BY <1>1, <1>3
<1>5. v[1] = s[1] /\ v[2] = s[2] /\ v[3] = t[1] /\ v[4] = t[2]
  BY <1>4
<1>6. \A i \in 1 .. Len(v) : v[i] = u[i]
  BY <1>2, <1>4, <1>5
<1>7. v = u
  BY <1>1, <1>3, <1>4, <1>6, SeqEqual
<1>8. QED
  BY <1>7 DEF s, t, u, v

LEMMA Orders ==
  /\ CreationOrder("trace") = <<"trace_http", "trace_server", "load_http", "load_server">>
  /\ consent => CreationOrder("boot") = <<"observe_http", "observe_location", "time", "peer">>
  /\ ~consent => CreationOrder("boot") = <<"observe_http", "observe_location">>
  /\ \A u \in BOOLEAN : RemovalOrder("trace", u) = <<"load_server", "load_http", "trace_server", "trace_http">>
  /\ RemovalOrder("boot", TRUE) = <<"peer", "time", "observe_location", "observe_http">>
  /\ RemovalOrder("boot", FALSE) = <<"time", "peer", "observe_location", "observe_http">>
<1>1. /\ CreationOrder("trace") = <<"trace_http", "trace_server", "load_http", "load_server">>
      /\ \A u \in BOOLEAN : RemovalOrder("trace", u) = <<"load_server", "load_http", "trace_server", "trace_http">>
  BY DEF CreationOrder, RemovalOrder
<1>2. <<"observe_http", "observe_location">> \o <<"time", "peer">>
        = <<"observe_http", "observe_location", "time", "peer">>
  BY ConcatPairs
<1>3. <<"observe_http", "observe_location">> \o <<>> = <<"observe_http", "observe_location">>
  OBVIOUS
<1>4. <<"peer", "time">> \o <<"observe_location", "observe_http">>
        = <<"peer", "time", "observe_location", "observe_http">>
  BY ConcatPairs
<1>5. <<"time", "peer">> \o <<"observe_location", "observe_http">>
        = <<"time", "peer", "observe_location", "observe_http">>
  BY ConcatPairs
<1>6. CreationOrder("boot") = <<"observe_http", "observe_location">> \o (IF consent THEN <<"time", "peer">> ELSE <<>>)
  BY DEF CreationOrder
<1>7. \A u \in BOOLEAN : RemovalOrder("boot", u)
         = (IF u THEN <<"peer", "time">> ELSE <<"time", "peer">>) \o <<"observe_location", "observe_http">>
  BY DEF RemovalOrder
<1>8. QED
  BY <1>1, <1>2, <1>3, <1>4, <1>5, <1>6, <1>7

\* A removal takes what uses a file before the file.
LEMMA RemovalLaw ==
  ASSUME NEW k \in Sessions, NEW u \in BOOLEAN, NEW files, files \subseteq FilesOf(k), files # {}
  PROVE  LET f == First(RemovalOrder(k, u), files)
         IN /\ f \in files
            /\ f = "load_http" => "load_server" \notin files
            /\ f = "trace_http" => "trace_server" \notin files
            /\ f = "observe_http" => "observe_location" \notin files
<1> DEFINE o == RemovalOrder(k, u)
<1>1. /\ DOMAIN o = 1..4
      /\ k = "trace" => o[1] = "load_server" /\ o[2] = "load_http" /\ o[3] = "trace_server" /\ o[4] = "trace_http"
      /\ k = "boot" => /\ (o[1] = "peer" /\ o[2] = "time") \/ (o[1] = "time" /\ o[2] = "peer")
                       /\ o[3] = "observe_location" /\ o[4] = "observe_http"
  <2>1. CASE k = "trace"
    <3>1. o = <<"load_server", "load_http", "trace_server", "trace_http">>
      BY <2>1, Orders
    <3>2. QED
      BY <2>1, <3>1
  <2>2. CASE k = "boot" /\ u
    <3>1. u = TRUE
      BY <2>2
    <3>2. o = <<"peer", "time", "observe_location", "observe_http">>
      BY <2>2, <3>1, Orders
    <3>3. k = "boot"
      BY <2>2
    <3> HIDE DEF o
    <3>4. QED
      BY <3>2, <3>3
  <2>3. CASE k = "boot" /\ ~u
    <3>1. o = <<"time", "peer", "observe_location", "observe_http">>
      BY <2>3, Orders
    <3>2. QED
      BY <2>3, <3>1
  <2>4. QED
    BY <2>1, <2>2, <2>3 DEF Sessions
<1> HIDE DEF o
<1>2. \E i \in 1..4 : o[i] \in files
  <2>1. PICK f \in files : TRUE
    OBVIOUS
  <2>2. f \in {o[1], o[2], o[3], o[4]}
    <3>1. CASE k = "trace"
      BY <1>1, <2>1, <3>1 DEF FilesOf, TraceFiles
    <3>2. CASE k = "boot"
      <4>1. f \in {"time", "peer", "observe_location", "observe_http"}
        BY <3>2 DEF FilesOf, BootFiles
      <4>2. QED
        BY <1>1, <3>2, <4>1
    <3>3. QED
      BY <3>1, <3>2 DEF Sessions
  <2>3. 1 \in 1..4 /\ 2 \in 1..4 /\ 3 \in 1..4 /\ 4 \in 1..4
    OBVIOUS
  <2>4. QED
    BY <2>2, <2>3
<1>3. PICK i \in 1..4 : /\ First(o, files) = o[i] /\ o[i] \in files
                        /\ \A j \in 1..(i-1) : o[j] \notin files
  <2>1. 4 \in {2, 4}
    OBVIOUS
  <2>2. QED
    BY <1>1, <1>2, <2>1, FirstLaw
<1>4. /\ i = 2 => o[1] \notin files
      /\ i = 4 => o[3] \notin files
  BY <1>3
<1>5. i = 1 \/ i = 2 \/ i = 3 \/ i = 4
  OBVIOUS
<1>6. LET f == First(o, files)
      IN /\ f \in files
         /\ f = "load_http" => "load_server" \notin files
         /\ f = "trace_http" => "trace_server" \notin files
         /\ f = "observe_http" => "observe_location" \notin files
  <2>1. CASE k = "trace"
    BY <1>1, <1>3, <1>4, <1>5, <2>1
  <2>2. CASE k = "boot"
    BY <1>1, <1>3, <1>4, <1>5, <2>2
  <2>3. QED
    BY <2>1, <2>2 DEF Sessions
<1>7. QED
  BY <1>6 DEF o

\* A creation puts a file after what it uses, and a public peer with consent only.
LEMMA CreationLaw ==
  ASSUME NEW k \in Sessions, consent \in BOOLEAN, NEW files
  PROVE  LET missing == {CreationOrder(k)[i] : i \in DOMAIN CreationOrder(k)} \ files
             f == First(CreationOrder(k), missing)
         IN /\ missing # {} =>
                 /\ f \in FilesOf(k)
                 /\ f = "load_server" => "load_http" \in files
                 /\ f = "trace_server" => "trace_http" \in files
                 /\ f = "observe_location" => "observe_http" \in files
                 /\ f = "peer" => consent
            /\ missing = {} /\ k = "boot" /\ consent => "peer" \in files
<1> DEFINE o == CreationOrder(k)
           n == IF k = "trace" \/ consent THEN 4 ELSE 2
           missing == {o[i] : i \in DOMAIN o} \ files
<1>1. /\ DOMAIN o = 1..n
      /\ k = "trace" => o[1] = "trace_http" /\ o[2] = "trace_server" /\ o[3] = "load_http" /\ o[4] = "load_server"
      /\ k = "boot" => o[1] = "observe_http" /\ o[2] = "observe_location"
      /\ k = "boot" /\ consent => o[3] = "time" /\ o[4] = "peer"
  <2>1. CASE k = "trace"
    <3>1. o = <<"trace_http", "trace_server", "load_http", "load_server">>
      BY <2>1, Orders
    <3>2. QED
      BY <2>1, <3>1
  <2>2. CASE k = "boot" /\ consent
    <3>1. o = <<"observe_http", "observe_location", "time", "peer">>
      BY <2>2, Orders
    <3>2. QED
      BY <2>2, <3>1
  <2>3. CASE k = "boot" /\ ~consent
    <3>1. o = <<"observe_http", "observe_location">>
      BY <2>3, Orders
    <3>2. QED
      BY <2>3, <3>1
  <2>4. QED
    BY <2>1, <2>2, <2>3 DEF Sessions
<1> HIDE DEF o
<1>2. /\ 1 \in DOMAIN o /\ 2 \in DOMAIN o
      /\ k = "trace" \/ consent => 3 \in DOMAIN o /\ 4 \in DOMAIN o
  BY <1>1
<1>3. ASSUME missing # {}
      PROVE  /\ First(o, missing) \in FilesOf(k)
             /\ First(o, missing) = "load_server" => "load_http" \in files
             /\ First(o, missing) = "trace_server" => "trace_http" \in files
             /\ First(o, missing) = "observe_location" => "observe_http" \in files
             /\ First(o, missing) = "peer" => consent
  <2>1. n \in {2, 4}
    OBVIOUS
  <2>2. \E i \in 1..n : o[i] \in missing
    BY <1>1, <1>3
  <2>3. PICK i \in 1..n : /\ First(o, missing) = o[i] /\ o[i] \in missing
                          /\ \A j \in 1..(i-1) : o[j] \notin missing
    <3> HIDE DEF n, missing
    <3>1. QED
      BY <1>1, <2>1, <2>2, FirstLaw
  <2>4. /\ i = 2 => o[1] \in files
        /\ i = 4 => o[3] \in files
    <3>1. i = 2 => o[1] \notin missing
      BY <2>3
    <3>2. i = 4 => o[3] \notin missing
      BY <2>3
    <3>3. i = 4 => k = "trace" \/ consent
      BY <2>3
    <3>4. QED
      BY <1>2, <3>1, <3>2, <3>3
  <2>5. i = 1 \/ i = 2 \/ ((k = "trace" \/ consent) /\ (i = 3 \/ i = 4))
    BY <2>3
  <2>6. CASE k = "trace"
    BY <1>1, <2>3, <2>4, <2>5, <2>6 DEF FilesOf, TraceFiles
  <2>7. CASE k = "boot"
    BY <1>1, <2>3, <2>4, <2>5, <2>7 DEF FilesOf, BootFiles
  <2>8. QED
    BY <2>6, <2>7 DEF Sessions
<1>4. missing = {} /\ k = "boot" /\ consent => "peer" \in files
  BY <1>1, <1>2
<1>5. QED
  BY <1>3, <1>4 DEF o

-----------------------------------------------------------------------------
(* What the others do to the policy.                                        *)

\* Sessions, watchdogs, reloads by other software, deaths and restarts leave
\* the two files alone, and an operator where it is or dead.
PolicyLeft ==
  /\ disk' \in Configurations /\ disk'.geo = disk.geo /\ disk'.guard = disk.guard
  /\ loaded' = loaded \/ loaded' = disk'
  /\ (op' = op /\ outcome' = outcome) \/ (op' = "idle" /\ outcome' = "gone")
  /\ UNCHANGED <<binding, password, kind, before, changed, made, touched, spoilt, guarded>>

LEMMA PolicyLeftKept ==
  ASSUME TypeInv, OperatorInv, PolicyLeft
  PROVE  PolicyInv'
<1>1. /\ disk' \in Configurations /\ disk'.geo = disk.geo /\ disk'.guard = disk.guard
      /\ loaded' = loaded \/ loaded' = disk'
      /\ (op' = op /\ outcome' = outcome) \/ (op' = "idle" /\ outcome' = "gone")
      /\ binding' = binding /\ password' = password /\ kind' = kind /\ before' = before
      /\ changed' = changed /\ made' = made /\ touched' = touched /\ spoilt' = spoilt
      /\ guarded' = guarded
  BY DEF PolicyLeft
<1>2. loaded' \in Configurations
  BY <1>1 DEF TypeInv, PolicyTyped
<1>3. PolicyTyped' /\ op' \in StepsOf(kind')
  BY <1>1, <1>2, StepsLaw DEF TypeInv, PolicyTyped, SnapTyped, Outcomes
<1>4. \/ loaded'.geo = loaded.geo /\ loaded'.guard = loaded.guard
      \/ loaded'.geo = disk.geo /\ loaded'.guard = disk.guard
  BY <1>1
<1>5. RunInv'
  <2>1. CASE op' = "idle"
    BY <2>1 DEF RunInv
  <2>2. CASE op' = op /\ outcome' = outcome
    BY <1>1, <1>4, <2>2 DEF OperatorInv, RunInv, FilesOfRun, NginxOfRun, SamePolicy, Target
  <2>3. QED
    BY <1>1, <2>1, <2>2
<1>6. MadeInv' /\ BoundInv'
  BY <1>1 DEF OperatorInv, MadeInv, BoundInv
<1>7. RestoredInv'
  BY <1>1, <1>4 DEF OperatorInv, RestoredInv, SamePolicy
<1>8. AuthInv'
  BY <1>1, <1>4 DEF OperatorInv, AuthInv, ReadInv, AuthGuards
<1>9. RestoreInv'
  BY <1>1, <1>4 DEF OperatorInv, RestoreInv, AuthGuards
<1>10. disk'.guard \in Guards /\ loaded'.guard \in Guards /\ Fits(disk'.geo, disk'.guard) /\ PasswordInv'
  BY <1>1, <1>4 DEF OperatorInv, Fits, PasswordInv
<1>11. ReadInv' /\ InstallInv' /\ AddLanInv' /\ StaticInv'
  BY <1>1 DEF OperatorInv, ReadInv, InstallInv, AddLanInv, StaticInv
<1>12. QED
  BY <1>3, <1>5, <1>6, <1>7, <1>8, <1>9, <1>10, <1>11 DEF PolicyInv, OperatorInv

LEMMA ForeignWriteKept ==
  ASSUME TypeInv, OperatorInv, RestoringInv, ForeignWrite, Alone
  PROVE  PolicyInv'
<1>1. /\ op # "idle" /\ touched' = TRUE
      /\ UNCHANGED <<loaded, password, op, kind, before, changed, made, outcome, spoilt, guarded>>
      /\ \/ \E file \in {"geo", "guard"} : disk' = [disk EXCEPT ![file] = "foreign"] /\ binding' = binding
         \/ binding' = [geo |-> "foreign", guard |-> "foreign"] /\ disk' = disk
  BY DEF ForeignWrite
<1>2. /\ disk' \in Configurations /\ disk'.files = disk.files
      /\ disk'.geo \in {disk.geo, "foreign"} /\ disk'.guard \in {disk.guard, "foreign"}
      /\ binding' \in Bindings
  <2>1. CASE \E file \in {"geo", "guard"} : disk' = [disk EXCEPT ![file] = "foreign"] /\ binding' = binding
    <3>1. PICK file \in {"geo", "guard"} : disk' = [disk EXCEPT ![file] = "foreign"] /\ binding' = binding
      BY <2>1
    <3>2. "foreign" \in Policies
      BY DEF Policies
    <3>3. disk \in Configurations /\ binding \in Bindings
      BY DEF TypeInv, PolicyTyped
    <3>4. QED
      BY <3>1, <3>2, <3>3, FileWritten
  <2>2. CASE binding' = [geo |-> "foreign", guard |-> "foreign"] /\ disk' = disk
    BY <2>2 DEF TypeInv, PolicyTyped, Bindings, Policies
  <2>3. QED
    BY <1>1, <2>1, <2>2
<1>3. kind # "restore"
  BY <1>1 DEF RestoringInv, Alone, Sessions
<1>4. PolicyTyped' /\ op' \in StepsOf(kind')
  BY <1>1, <1>2 DEF TypeInv, PolicyTyped, SnapTyped, StepsOf
<1>5. QED
  BY <1>1, <1>2, <1>3, <1>4
     DEF PolicyInv, OperatorInv, Guards, Fits, ReadInv, InstallInv, AddLanInv, AuthInv, StaticInv, RestoreInv,
         PasswordInv, RunInv, MadeInv, BoundInv, RestoredInv, AuthGuards

-----------------------------------------------------------------------------
(* What the steps of the sessions do to what the sessions keep.             *)

\* The types that the workers' moves leave to look at.
LEMMA BecomesTyped ==
  ASSUME SessionTyped, NEW k \in Sessions, NEW stage \in WorkerStages, Becomes(k, stage)
  PROVE  /\ worker' \in [Sessions -> WorkerStages]
         /\ worker'[k] = stage /\ \A j \in Sessions : j # k => worker'[j] = worker[j]
BY DEF SessionTyped, Becomes

LEMMA ForgetsTyped ==
  ASSUME SessionTyped, NEW k \in Sessions, NEW whos, Forgets(k, whos)
  PROVE  dropped' \subseteq Sessions \X {"worker", "dog"} /\ missed' \subseteq Sessions \X {"worker", "dog"} /\ stranded' \in BOOLEAN
BY DEF SessionTyped, Forgets

LEMMA GivesUpTyped ==
  ASSUME SessionTyped, NEW k \in Sessions, NEW who \in {"worker", "dog"},
         UNCHANGED gaveUp \/ GivesUp(k, who)
  PROVE  gaveUp' \subseteq Sessions \X {"worker", "dog"}
BY DEF SessionTyped, GivesUp

\* What a bootstrap remembers, while nobody starts, moves or ends.
LEMMA MemoryStays ==
  ASSUME MemoryInv, worker' = worker, saved' = saved,
         kind' = "restore" /\ op' # "idle" => kind = "restore" /\ op # "idle"
  PROVE  MemoryInv'
BY DEF MemoryInv, SavedTyped, SavedInv, SavedWhole, RestoringInv, OneSession, Alive, SnapTyped

\* A worker forgets it when it ends, and is in restore() as long as that runs.
LEMMA MemoryMoves ==
  ASSUME MemoryInv, SessionTyped, NEW k \in Sessions, NEW stage \in WorkerStages \ {"none"},
         Alive(k), Becomes(k, stage), stage \notin Recalls \/ saved' = saved,
         k = "boot" /\ stage \in Recalls => worker["boot"] \in Recalls,
         \/ stage = "restoring" /\ k = "boot"
         \/ kind' # "restore" \/ op' = "idle"
         \/ kind' = kind /\ op' = op /\ (k = "trace" \/ worker[k] # "restoring")
  PROVE  MemoryInv'
<1>1. worker'[k] = stage /\ \A j \in Sessions : j # k => worker'[j] = worker[j]
  BY BecomesTyped
<1>2. worker["trace"] = "none" \/ worker["boot"] = "none"
  BY DEF MemoryInv, OneSession
<1>3. OneSession'
  BY <1>1, <1>2 DEF OneSession, Alive, Sessions
<1>4. RestoringInv'
  BY <1>1, <1>2 DEF MemoryInv, RestoringInv, Alive, Sessions
<1>5. CASE k = "boot" /\ stage \notin Recalls
  BY <1>1, <1>3, <1>4, <1>5 DEF MemoryInv, SavedTyped, SavedInv, SavedWhole
<1>6. CASE k = "trace"
  <2>1. worker'["boot"] = "none"
    BY <1>1, <1>2, <1>6 DEF Alive, Sessions
  <2>2. QED
    BY <1>3, <1>4, <2>1 DEF MemoryInv, SavedTyped, SavedInv, SavedWhole, Recalls, Waits
<1>7. CASE k = "boot" /\ stage \in Recalls
  BY <1>3, <1>4, <1>7 DEF MemoryInv, SavedTyped, SavedInv, SavedWhole, SnapTyped
<1>8. QED
  BY <1>5, <1>6, <1>7 DEF Sessions

\* The files, while nobody moves, ends or opens anything.
LEMMA FilesStay ==
  ASSUME FilesInv, disk'.files = disk.files, loaded' = loaded \/ loaded' = disk',
         UNCHANGED <<now, worker, dog, since, until, consent, closed>>
  PROVE  FilesInv'
BY DEF FilesInv, Layered, TimeInv, PeerInv, Opened, Busy, Waits, Alive, Alarm

\* A worker moves and touches no file.
WorkerMoves(k, stage) ==
  /\ Alive(k) /\ Becomes(k, stage) /\ stage \in WorkerStages \ {"none", "closing"}
  /\ disk' = disk /\ (loaded' = loaded \/ loaded' = disk)
  /\ UNCHANGED <<now, since, consent, closed>>
  /\ until' = until \/ until' = [until EXCEPT !["trace"] = now + Window]
  /\ dog' = dog \/ (stage = "gone" /\ dog' = [dog EXCEPT ![k] = "gone"])
  /\ k = "boot" =>
       /\ stage \in Waits => worker["boot"] \in Waits
       /\ stage \in Opened => worker["boot"] \in Opened
       /\ stage \in {"testing", "proving", "active"} => (consent => "peer" \in disk.files)
       /\ closed => stage \in {"active", "cleaning", "gone"}

LEMMA WorkerMovesFiles ==
  ASSUME FilesInv, SessionTyped, OneSession, NEW k \in Sessions, NEW stage, WorkerMoves(k, stage)
  PROVE  FilesInv'
<1>1. /\ Alive(k) /\ worker'[k] = stage /\ \A j \in Sessions : j # k => worker'[j] = worker[j]
      /\ stage \in WorkerStages /\ stage # "none" /\ stage # "closing"
      /\ disk' = disk /\ (loaded' = loaded \/ loaded' = disk)
      /\ now' = now /\ since' = since /\ consent' = consent /\ closed' = closed
      /\ until'["boot"] = until["boot"]
      /\ dog'["boot"] = dog["boot"] \/ (stage = "gone" /\ k = "boot")
  BY BecomesTyped DEF WorkerMoves, SessionTyped, Sessions
<1>2. Layered'
  BY <1>1 DEF FilesInv, Layered
<1>3. CASE k = "trace"
  BY <1>1, <1>2, <1>3
     DEF FilesInv, TimeInv, PeerInv, Opened, Busy, Waits, Alive, Alarm, Sessions
<1>4. CASE k = "boot"
  <2>1. /\ stage \in Waits => worker["boot"] \in Waits
        /\ stage \in Opened => worker["boot"] \in Opened
        /\ stage \in {"testing", "proving", "active"} => (consent => "peer" \in disk.files)
        /\ closed => stage \in {"active", "cleaning", "gone"}
    BY <1>4 DEF WorkerMoves
  <2>2. TimeInv'
    BY <1>1, <1>4, <2>1 DEF FilesInv, TimeInv, Alive, Alarm, Opened, Busy, Waits
  <2>3. PeerInv'
    BY <1>1, <1>4, <2>1 DEF FilesInv, PeerInv, Alive
  <2>4. QED
    BY <1>2, <2>2, <2>3 DEF FilesInv
<1>5. QED
  BY <1>3, <1>4 DEF Sessions

LEMMA UnchangedLeft ==
  ASSUME PolicyInv, policyUnchanged PROVE PolicyLeft
BY DEF PolicyInv, PolicyTyped, policyUnchanged, originVars, PolicyLeft

\* A step of a worker that touches no file and leaves the policy.
LEMMA MoveKept ==
  ASSUME OriginInv, NEW k \in Sessions, NEW stage, WorkerMoves(k, stage), PolicyLeft, SessionTyped',
         stage # "restoring", stage \notin Recalls \/ saved' = saved,
         k = "trace" \/ worker[k] # "restoring" \/ op' = "idle"
  PROVE  OriginInv'
<1>1. SessionTyped /\ MemoryInv /\ OneSession /\ FilesInv /\ TypeInv /\ OperatorInv
  BY InvParts DEF OriginInv, MemoryInv
<1>2. PolicyInv'
  BY <1>1, PolicyLeftKept
<1>3. MemoryInv'
  <2>1. Alive(k) /\ Becomes(k, stage) /\ stage \in WorkerStages \ {"none"}
    BY DEF WorkerMoves
  <2>2. op' = "idle" \/ (kind' = kind /\ op' = op /\ (k = "trace" \/ worker[k] # "restoring"))
    BY DEF PolicyLeft
  <2>3. k = "boot" /\ stage \in Recalls => worker["boot"] \in Recalls
    BY DEF WorkerMoves, Recalls
  <2>4. QED
    BY <1>1, <2>1, <2>2, <2>3, MemoryMoves
<1>4. FilesInv'
  BY <1>1, WorkerMovesFiles
<1>5. QED
  BY <1>2, <1>3, <1>4 DEF OriginInv

\* The end of a worker that has nothing left to remove.
LEMMA EndsCleanKept ==
  ASSUME OriginInv, NEW k \in Sessions, Alive(k), EndsClean(k), policyUnchanged,
         worker[k] # "restoring" \/ op = "idle"
  PROVE  OriginInv'
<1>1. SessionTyped /\ PolicyInv
  BY DEF OriginInv
<1>2. PolicyLeft
  BY <1>1, UnchangedLeft
<1>3. /\ Becomes(k, "gone") /\ dog' = [dog EXCEPT ![k] = "gone"] /\ Forgets(k, {"dog"})
      /\ response' = [response EXCEPT ![k] = "report"] /\ seen' = {} /\ repaired' = FALSE
      /\ UNCHANGED <<now, since, until, consent, closed, gaveUp>>
      /\ disk' = disk /\ loaded' = loaded /\ op' = op
  BY DEF EndsClean, Gone, Forgotten, Reports, policyUnchanged, originVars
<1>4. SessionTyped'
  <2>1. worker' \in [Sessions -> WorkerStages]
    BY <1>1, <1>3, BecomesTyped DEF WorkerStages
  <2>2. dropped' \subseteq Sessions \X {"worker", "dog"} /\ missed' \subseteq Sessions \X {"worker", "dog"} /\ stranded' \in BOOLEAN
    BY <1>1, <1>3, ForgetsTyped
  <2>3. QED
    BY <1>1, <1>3, <2>1, <2>2 DEF SessionTyped
<1>5. WorkerMoves(k, "gone")
  BY <1>3 DEF WorkerMoves, WorkerStages, Waits, Opened, Busy
<1>6. "gone" \notin Recalls
  BY DEF Recalls, Waits
<1>7. QED
  BY <1>2, <1>3, <1>4, <1>5, <1>6, MoveKept

\* A step that moves a worker and nothing else.
LEMMA OnlyKept ==
  ASSUME OriginInv, NEW k \in Sessions, NEW stage \in WorkerStages \ {"none", "closing", "restoring", "gone"},
         Alive(k), Only(k, stage), worker[k] # "restoring",
         k = "boot" =>
           /\ stage \in Waits => worker["boot"] \in Waits
           /\ stage \in Opened => worker["boot"] \in Opened
           /\ stage \in {"testing", "proving", "active"} => (consent => "peer" \in disk.files)
           /\ closed => stage \in {"active", "cleaning", "gone"}
  PROVE  OriginInv'
<1>1. SessionTyped /\ PolicyInv
  BY DEF OriginInv
<1>2. PolicyLeft
  BY <1>1, UnchangedLeft DEF Only
<1>3. /\ Becomes(k, stage)
      /\ UNCHANGED <<now, dog, since, until, response, consent, saved, seen, repaired, closed,
                     dropped, missed, gaveUp, stranded>>
      /\ disk' = disk /\ loaded' = loaded /\ op' = op
  BY DEF Only, policyUnchanged, originVars
<1>4. SessionTyped'
  <2>1. worker' \in [Sessions -> WorkerStages]
    BY <1>1, <1>3, BecomesTyped
  <2>2. QED
    BY <1>1, <1>3, <2>1 DEF SessionTyped
<1>5. WorkerMoves(k, stage)
  BY <1>3 DEF WorkerMoves
<1>6. QED
  BY <1>2, <1>3, <1>4, <1>5, MoveKept

\* A worker turns to its removal.
LEMMA TurnsKept ==
  ASSUME OriginInv, NEW k \in Sessions, NEW stage \in Cleans, Turns(k, stage),
         Alive(k), worker[k] # "restoring", k = "boot" /\ closed => stage = "cleaning"
  PROVE  OriginInv'
<1>1. SessionTyped /\ PolicyInv
  BY DEF OriginInv
<1>2. PolicyLeft
  BY <1>1, UnchangedLeft DEF Turns
<1>3. /\ Becomes(k, stage) /\ seen' = {} /\ repaired' = FALSE
      /\ UNCHANGED <<now, dog, since, until, response, consent, closed, dropped, missed,
                     gaveUp, stranded>>
      /\ disk' = disk /\ loaded' = loaded /\ op' = op
  BY DEF Turns, Forgotten, policyUnchanged, originVars
<1>4. SessionTyped'
  <2>1. worker' \in [Sessions -> WorkerStages]
    BY <1>1, <1>3, BecomesTyped DEF WorkerStages
  <2>2. QED
    BY <1>1, <1>3, <2>1 DEF SessionTyped
<1>5. WorkerMoves(k, stage)
  BY <1>3 DEF WorkerMoves, WorkerStages, Cleans, Waits, Opened, Busy
<1>6. stage \notin Recalls /\ stage # "restoring"
  BY DEF Recalls, Cleans, Waits
<1>7. QED
  BY <1>2, <1>3, <1>4, <1>5, <1>6, MoveKept

-----------------------------------------------------------------------------
(* The steps of the workers.                                                *)

LEMMA ReportsWatchdogKept ==
  ASSUME OriginInv, TraceReportsWatchdog \/ BootReportsWatchdog PROVE OriginInv'
<1>1. SessionTyped /\ PolicyInv /\ FilesInv
  BY DEF OriginInv
<1>2. PICK k \in Sessions :
        /\ worker[k] = "forked" /\ Becomes(k, "waiting")
        /\ response' = [response EXCEPT ![k] = "report"]
        /\ policyUnchanged
        /\ UNCHANGED <<now, dog, since, until, consent, saved, seen, repaired, closed, dropped, missed, gaveUp, stranded>>
  BY DEF TraceReportsWatchdog, BootReportsWatchdog, Reports, Sessions
<1>3. PolicyLeft /\ disk' = disk /\ loaded' = loaded
  BY <1>1, <1>2, UnchangedLeft DEF policyUnchanged, originVars
<1>4. SessionTyped'
  <2>1. worker' \in [Sessions -> WorkerStages]
    BY <1>1, <1>2, BecomesTyped DEF WorkerStages, Waits
  <2>2. QED
    BY <1>1, <1>2, <2>1 DEF SessionTyped
<1>5. WorkerMoves(k, "waiting")
  BY <1>1, <1>2, <1>3
     DEF WorkerMoves, WorkerStages, Waits, Opened, Busy, Alive, FilesInv, PeerInv
<1>6. QED
  BY <1>2, <1>3, <1>4, <1>5, MoveKept

LEMMA TraceActivatesKept ==
  ASSUME OriginInv, TraceActivates PROVE OriginInv'
<1>1. worker["trace"] = "waiting" /\ Alive("trace") /\ "trace" \in Sessions
  BY DEF TraceActivates, Alive, Sessions
<1>2. CASE Only("trace", "creating")
  BY <1>1, <1>2, OnlyKept DEF WorkerStages, Busy, Sessions
<1>3. CASE EndsClean("trace") /\ policyUnchanged
  BY <1>1, <1>3, EndsCleanKept
<1>4. QED
  BY <1>2, <1>3 DEF TraceActivates

\* The window of a bootstrap opens while its worker has waited no longer than
\* it may, so it ends before the watchdog's alarm.
LEMMA BootActivatesKept ==
  ASSUME OriginInv, BootActivates PROVE OriginInv'
<1>1. /\ worker["boot"] = "waiting" /\ Alive("boot") /\ "boot" \in Sessions /\ policyUnchanged
      /\ SessionTyped /\ PolicyInv /\ MemoryInv /\ FilesInv
  BY DEF BootActivates, Alive, Sessions, OriginInv
<1>2. CASE EndsClean("boot")
  BY <1>1, <1>2, EndsCleanKept
<1>3. CASE /\ Becomes("boot", "creating") /\ until' = [until EXCEPT !["boot"] = now + Window]
           /\ saved' = NoSaved
           /\ UNCHANGED <<now, dog, since, response, consent, seen, repaired, closed, dropped, missed, gaveUp, stranded>>
  <2>1. PolicyLeft /\ disk' = disk /\ loaded' = loaded /\ op' = op /\ kind' = kind
    BY <1>1, UnchangedLeft DEF policyUnchanged, originVars
  <2>2. PolicyInv'
    BY <2>1, PolicyLeftKept, InvParts
  <2>3. /\ worker' \in [Sessions -> WorkerStages] /\ worker'["boot"] = "creating"
        /\ worker'["trace"] = worker["trace"]
    BY <1>1, <1>3, BecomesTyped DEF WorkerStages, Busy, Sessions
  <2>4. now \in Nat /\ Wait \in Nat /\ Window \in Nat /\ since["boot"] \in Nat
    BY <1>1, SessionAssumption DEF SessionTyped
  <2>5. until' \in [Sessions -> Nat] /\ until'["boot"] = now + Window
    BY <1>1, <1>3, <2>4 DEF SessionTyped
  <2>6. SessionTyped'
    BY <1>1, <1>3, <2>3, <2>5 DEF SessionTyped
  <2>7. MemoryInv'
    BY <1>1, <1>3, <2>1, MemoryMoves DEF WorkerStages, Busy, Recalls, Waits
  <2>8. TimeInv'
    BY <1>1, <1>3, <2>3, <2>4, <2>5 DEF FilesInv, TimeInv, Opened, Busy, Waits, Alive, Alarm
  <2>9. PeerInv' /\ Layered'
    BY <1>1, <1>3, <2>1, <2>3 DEF FilesInv, PeerInv, Layered
  <2>10. QED
    BY <2>2, <2>6, <2>7, <2>8, <2>9 DEF OriginInv, FilesInv
<1>4. QED
  BY <1>2, <1>3 DEF BootActivates

LEMMA BootRollsBackKept ==
  ASSUME OriginInv, BootRollsBack PROVE OriginInv'
<1>1. /\ worker["boot"] = "waiting" /\ Alive("boot") /\ "boot" \in Sessions
      /\ SessionTyped /\ MemoryInv /\ FilesInv
  BY DEF BootRollsBack, Alive, Sessions, OriginInv
<1>2. CASE EndsClean("boot") /\ policyUnchanged
  BY <1>1, <1>2, EndsCleanKept
<1>3. CASE /\ BeginRestore(saved.before, saved.activated, saved.made) /\ Becomes("boot", "restoring")
           /\ UNCHANGED <<now, dog, since, until, response, consent, saved, seen, repaired, closed, dropped, missed, gaveUp, stranded>>
  <2>1. OperatorKept
    BY <1>1, <1>3, BeginRestoreKept, InvParts DEF MemoryInv, Recalls, Waits
  <2>2. PolicyInv'
    BY <2>1 DEF OperatorKept, PolicyInv
  <2>3. disk' = disk /\ loaded' = loaded
    BY <1>3 DEF BeginRestore
  <2>4. SessionTyped'
    <3>1. worker' \in [Sessions -> WorkerStages]
      BY <1>1, <1>3, BecomesTyped DEF WorkerStages
    <3>2. QED
      BY <1>1, <1>3, <3>1 DEF SessionTyped
  <2>5. MemoryInv'
    BY <1>1, <1>3, MemoryMoves DEF WorkerStages, Recalls, Waits
  <2>6. WorkerMoves("boot", "restoring")
    BY <1>1, <1>3, <2>3 DEF WorkerMoves, WorkerStages, Waits, Opened, Busy, FilesInv, PeerInv
  <2>7. FilesInv'
    BY <1>1, <2>6, WorkerMovesFiles DEF MemoryInv
  <2>8. QED
    BY <2>2, <2>4, <2>5, <2>7 DEF OriginInv
<1>4. QED
  BY <1>2, <1>3 DEF BootRollsBack

LEMMA EndedKept ==
  ASSUME OriginInv, NEW k \in Sessions, Expires(k) \/ WorkerCleaned(k) PROVE OriginInv'
BY EndsCleanKept DEF Expires, WorkerCleaned, Alive, Cleans

LEMMA BootRolledBackKept ==
  ASSUME OriginInv, BootRolledBack PROVE OriginInv'
BY EndsCleanKept DEF BootRolledBack, Alive, Sessions

\* A file is created after what it uses; the peer's only with consent.
LEMMA CreatesKept ==
  ASSUME OriginInv, NEW k \in Sessions, Creates(k) PROVE OriginInv'
<1> DEFINE missing == {CreationOrder(k)[i] : i \in DOMAIN CreationOrder(k)} \ disk.files
           f == First(CreationOrder(k), missing)
<1>1. /\ worker[k] = "creating" /\ Alive(k)
      /\ SessionTyped /\ PolicyInv /\ MemoryInv /\ FilesInv /\ consent \in BOOLEAN
  BY DEF Creates, Alive, OriginInv, SessionTyped
<1>2. CASE missing = {} /\ Only(k, "testing")
  <2>1. k = "boot" /\ consent => "peer" \in disk.files
    BY <1>1, <1>2, CreationLaw
  <2>2. k = "boot" => ~closed
    BY <1>1 DEF FilesInv, PeerInv
  <2>3. QED
    <3> HIDE DEF missing, f
    <3>1. QED
      BY <1>1, <1>2, <2>1, <2>2, OnlyKept DEF WorkerStages, Opened, Busy, Waits
<1>3. CASE /\ missing # {} /\ disk' = [disk EXCEPT !.files = @ \cup {f}]
           /\ UNCHANGED <<loaded, binding, password, op, kind, before, changed, made, outcome,
                          touched, spoilt, guarded, runs, events, sessionVars>>
  <2>1. /\ f \in FilesOf(k)
        /\ f = "load_server" => "load_http" \in disk.files
        /\ f = "trace_server" => "trace_http" \in disk.files
        /\ f = "observe_location" => "observe_http" \in disk.files
        /\ f = "peer" => consent
    BY <1>1, <1>3, CreationLaw
  <2> HIDE DEF missing, f
  <2>2. disk \in Configurations
    BY <1>1 DEF PolicyInv, PolicyTyped
  <2>3. /\ disk' \in Configurations /\ disk'.geo = disk.geo /\ disk'.guard = disk.guard
        /\ disk'.files = disk.files \cup {f}
    <3>1. f \in TraceFiles \cup BootFiles
      BY <2>1 DEF FilesOf
    <3>2. QED
      BY <1>3, <2>2, <3>1 DEF Configurations
  <2>4. PolicyLeft
    BY <1>3, <2>3 DEF PolicyLeft
  <2>5. PolicyInv'
    BY <2>4, PolicyLeftKept, InvParts
  <2>6. UNCHANGED <<now, worker, dog, since, until, response, consent, saved, seen, repaired,
                    closed, dropped, missed, gaveUp, stranded, loaded, op, kind>>
    BY <1>3 DEF sessionVars
  <2>7. SessionTyped'
    BY <1>1, <2>6 DEF SessionTyped
  <2>8. MemoryInv'
    BY <1>1, <2>6, MemoryStays
  <2>9. Layered'
    BY <1>1, <2>1, <2>3 DEF FilesInv, Layered
  <2>10. TimeInv'
    BY <1>1, <2>6 DEF FilesInv, TimeInv, Opened, Busy, Waits, Alive, Alarm
  <2>11. PeerInv'
    <3>1. CASE k = "boot"
      BY <1>1, <2>1, <2>3, <2>6, <3>1 DEF FilesInv, PeerInv
    <3>2. CASE k = "trace"
      <4>1. f \notin BootFiles /\ f # "peer"
        BY <2>1, <3>2 DEF FilesOf, TraceFiles, BootFiles
      <4>2. BootFiles \cap (disk.files \cup loaded.files) = {} =>
              BootFiles \cap (disk'.files \cup loaded'.files) = {}
        BY <2>3, <2>6, <4>1
      <4>3. "peer" \in disk'.files <=> "peer" \in disk.files
        BY <2>3, <4>1
      <4>4. QED
        BY <1>1, <2>6, <4>2, <4>3 DEF FilesInv, PeerInv
    <3>3. QED
      BY <3>1, <3>2 DEF Sessions
  <2>12. QED
    BY <2>5, <2>7, <2>8, <2>9, <2>10, <2>11 DEF OriginInv, FilesInv
<1>4. QED
  BY <1>2, <1>3 DEF Creates

LEMMA OpensReloadKept ==
  ASSUME OriginInv, NEW k \in Sessions, OpensReload(k) PROVE OriginInv'
<1>1. /\ worker[k] = "testing" /\ Alive(k) /\ loaded' = disk
      /\ UNCHANGED <<disk, binding, password, op, kind, before, changed, made, outcome, touched,
                     spoilt, guarded>>
      /\ Becomes(k, "proving") /\ response' = [response EXCEPT ![k] = "report"]
      /\ UNCHANGED <<now, dog, since, until, consent, saved, seen, repaired, closed, dropped, missed, gaveUp, stranded>>
      /\ SessionTyped /\ PolicyInv /\ FilesInv
  BY DEF OpensReload, Alive, Reload, LoadedOnly, Reports, OriginInv
<1>2. PolicyLeft
  BY <1>1 DEF PolicyInv, PolicyTyped, PolicyLeft
<1>3. SessionTyped'
  <2>1. worker' \in [Sessions -> WorkerStages]
    BY <1>1, BecomesTyped DEF WorkerStages, Busy
  <2>2. QED
    BY <1>1, <2>1 DEF SessionTyped
<1>4. WorkerMoves(k, "proving")
  BY <1>1 DEF WorkerMoves, WorkerStages, Waits, Opened, Busy, FilesInv, PeerInv
<1>5. QED
  BY <1>1, <1>2, <1>3, <1>4, MoveKept

LEMMA TraceProvesKept ==
  ASSUME OriginInv, TraceProves PROVE OriginInv'
<1>1. /\ worker["trace"] = "proving" /\ Alive("trace") /\ "trace" \in Sessions
      /\ Becomes("trace", "active") /\ until' = [until EXCEPT !["trace"] = now + Window]
      /\ policyUnchanged
      /\ UNCHANGED <<now, dog, since, response, consent, saved, seen, repaired, closed, dropped, missed, gaveUp, stranded>>
      /\ SessionTyped /\ PolicyInv
  BY DEF TraceProves, Alive, Sessions, OriginInv
<1>2. PolicyLeft /\ disk' = disk /\ loaded' = loaded
  BY <1>1, UnchangedLeft DEF policyUnchanged, originVars
<1>3. SessionTyped'
  <2>1. worker' \in [Sessions -> WorkerStages]
    BY <1>1, BecomesTyped DEF WorkerStages
  <2>2. now + Window \in Nat
    BY <1>1, SessionAssumption DEF SessionTyped
  <2>3. QED
    BY <1>1, <2>1, <2>2 DEF SessionTyped
<1>4. WorkerMoves("trace", "active")
  BY <1>1, <1>2 DEF WorkerMoves, WorkerStages
<1>5. QED
  BY <1>1, <1>2, <1>3, <1>4, MoveKept

LEMMA BootProvesKept ==
  ASSUME OriginInv, BootProves PROVE OriginInv'
<1>1. /\ worker["boot"] = "proving" /\ Alive("boot") /\ "boot" \in Sessions
      /\ Only("boot", "active") /\ FilesInv
  BY DEF BootProves, Alive, Sessions, OriginInv
<1>2. ~closed /\ (consent => "peer" \in disk.files)
  BY <1>1 DEF FilesInv, PeerInv
<1>3. QED
  BY <1>1, <1>2, OnlyKept DEF WorkerStages, Opened, Busy, Waits

LEMMA OpeningFailsKept ==
  ASSUME OriginInv, NEW k \in Sessions, OpeningFails(k) PROVE OriginInv'
<1>1. /\ worker[k] \in Busy /\ Alive(k) /\ worker[k] # "restoring" /\ Turns(k, "undoing")
      /\ FilesInv
  BY DEF OpeningFails, Alive, Busy, OriginInv
<1>2. k = "boot" => ~closed
  BY <1>1 DEF FilesInv, PeerInv, Busy
<1>3. QED
  BY <1>1, <1>2, TurnsKept DEF Cleans

\* The window ends, or the owner, or the bound box, has done what it was for.
LEMMA WindowEndsKept ==
  ASSUME OriginInv, TraceWindowEnds \/ BootWindowEnds \/ BootVerified \/ BootCloseFails
  PROVE  OriginInv'
<1>1. PICK k \in Sessions : worker[k] \in {"active", "closing"} /\ Turns(k, "cleaning")
  BY DEF TraceWindowEnds, BootWindowEnds, BootVerified, BootCloseFails, Sessions
<1>2. QED
  BY <1>1, TurnsKept DEF Cleans, Alive

\* The trace adds a LAN: an operator begins in its worker.
LEMMA TraceRepairsKept ==
  ASSUME OriginInv, TraceRepairs PROVE OriginInv'
<1>1. /\ worker["trace"] = "active" /\ Alive("trace") /\ "trace" \in Sessions
      /\ BeginAddLan /\ Becomes("trace", "repairing")
      /\ UNCHANGED <<now, dog, since, until, response, consent, saved, seen, repaired, closed, dropped, missed, gaveUp, stranded>>
      /\ SessionTyped /\ MemoryInv /\ FilesInv
  BY DEF TraceRepairs, Alive, Sessions, OriginInv
<1>2. /\ disk' = disk /\ loaded' = loaded /\ kind' = "addlan"
      /\ UNCHANGED <<binding, password, spoilt, guarded>>
  BY <1>1 DEF BeginAddLan, Begins
<1>3. OperatorKept
  BY <1>1, BeginKept, InvParts DEF BeginAddLan
<1>4. PolicyInv'
  BY <1>3 DEF OperatorKept, PolicyInv
<1>5. SessionTyped'
  <2>1. worker' \in [Sessions -> WorkerStages]
    BY <1>1, BecomesTyped DEF WorkerStages
  <2>2. QED
    BY <1>1, <2>1 DEF SessionTyped
<1>6. MemoryInv'
  BY <1>1, <1>2, MemoryMoves DEF WorkerStages
<1>7. WorkerMoves("trace", "repairing")
  BY <1>1, <1>2 DEF WorkerMoves, WorkerStages
<1>8. FilesInv'
  BY <1>1, <1>7, WorkerMovesFiles DEF MemoryInv
<1>9. QED
  BY <1>4, <1>5, <1>6, <1>8 DEF OriginInv

LEMMA TraceRepairedKept ==
  ASSUME OriginInv, TraceRepaired PROVE OriginInv'
<1>1. /\ worker["trace"] = "repairing" /\ Alive("trace") /\ "trace" \in Sessions
      /\ SessionTyped /\ PolicyInv
  BY DEF TraceRepaired, Alive, Sessions, OriginInv
<1>2. CASE Turns("trace", "cleaning")
  BY <1>1, <1>2, TurnsKept DEF Cleans, Sessions
<1>3. CASE /\ Becomes("trace", "active") /\ repaired' = TRUE /\ policyUnchanged
           /\ UNCHANGED <<now, dog, since, until, response, consent, saved, seen, closed, dropped, missed, gaveUp, stranded>>
  <2>1. PolicyLeft /\ disk' = disk /\ loaded' = loaded
    BY <1>1, <1>3, UnchangedLeft DEF policyUnchanged, originVars
  <2>2. SessionTyped'
    <3>1. worker' \in [Sessions -> WorkerStages]
      BY <1>1, <1>3, BecomesTyped DEF WorkerStages
    <3>2. QED
      BY <1>1, <1>3, <3>1 DEF SessionTyped
  <2>3. WorkerMoves("trace", "active")
    BY <1>1, <1>3, <2>1 DEF WorkerMoves, WorkerStages
  <2>4. QED
    BY <1>1, <1>3, <2>1, <2>2, <2>3, MoveKept
<1>4. QED
  BY <1>2, <1>3 DEF TraceRepaired

\* The opening counts as closed at once only where it has never been open.
LEMMA BootSeesTransferKept ==
  ASSUME OriginInv, BootSeesTransfer PROVE OriginInv'
<1>1. /\ worker["boot"] = "active" /\ ~closed /\ Alive("boot") /\ "boot" \in Sessions
      /\ UNCHANGED <<loaded, binding, password, op, kind, before, changed, made, outcome,
                     touched, spoilt, guarded>>
      /\ UNCHANGED <<now, dog, since, until, response, consent, saved, seen, repaired, dropped, missed, gaveUp, stranded>>
      /\ SessionTyped /\ PolicyInv /\ MemoryInv /\ FilesInv
  BY DEF BootSeesTransfer, Alive, Sessions, OriginInv
<1>2. disk \in Configurations
  BY <1>1 DEF PolicyInv, PolicyTyped
<1>3. CASE /\ "peer" \in disk.files /\ disk' = [disk EXCEPT !.files = @ \ {"peer"}]
           /\ Becomes("boot", "closing") /\ closed' = closed
  <2>1. /\ disk' \in Configurations /\ disk'.geo = disk.geo /\ disk'.guard = disk.guard
        /\ disk'.files = disk.files \ {"peer"}
    BY <1>2, <1>3 DEF Configurations
  <2>2. PolicyLeft
    BY <1>1, <2>1 DEF PolicyLeft
  <2>3. PolicyInv'
    BY <2>2, PolicyLeftKept, InvParts
  <2>4. worker' \in [Sessions -> WorkerStages] /\ worker'["boot"] = "closing"
    BY <1>1, <1>3, BecomesTyped DEF WorkerStages
  <2>5. SessionTyped'
    BY <1>1, <1>3, <2>4 DEF SessionTyped
  <2>6. MemoryInv'
    BY <1>1, <1>3, MemoryMoves DEF WorkerStages, Recalls, Waits
  <2>7. Layered'
    BY <1>1, <2>1 DEF FilesInv, Layered
  <2>8. TimeInv'
    BY <1>1, <2>4 DEF FilesInv, TimeInv, Opened, Busy, Waits, Alive, Alarm
  <2>9. PeerInv'
    BY <1>1, <1>3, <2>1, <2>4 DEF FilesInv, PeerInv
  <2>10. QED
    BY <2>3, <2>5, <2>6, <2>7, <2>8, <2>9 DEF OriginInv, FilesInv
<1>4. CASE "peer" \notin disk.files /\ closed' = TRUE /\ UNCHANGED <<disk, worker>>
  <2>1. PolicyLeft
    BY <1>1, <1>2, <1>4 DEF PolicyLeft
  <2>2. PolicyInv'
    BY <2>1, PolicyLeftKept, InvParts
  <2>3. SessionTyped'
    BY <1>1, <1>4 DEF SessionTyped
  <2>4. MemoryInv'
    BY <1>1, <1>4, MemoryStays
  <2>5. Layered' /\ TimeInv'
    BY <1>1, <1>4 DEF FilesInv, Layered, TimeInv, Opened, Busy, Waits, Alive, Alarm
  <2>6. PeerInv'
    BY <1>1, <1>4 DEF FilesInv, PeerInv
  <2>7. QED
    BY <2>2, <2>3, <2>4, <2>5, <2>6 DEF OriginInv, FilesInv
<1>5. QED
  BY <1>3, <1>4 DEF BootSeesTransfer

LEMMA BootClosesKept ==
  ASSUME OriginInv, BootCloses PROVE OriginInv'
<1>1. /\ worker["boot"] = "closing" /\ Alive("boot") /\ "boot" \in Sessions
      /\ loaded' = disk /\ Becomes("boot", "active") /\ closed' = TRUE
      /\ UNCHANGED <<disk, binding, password, op, kind, before, changed, made, outcome,
                     touched, spoilt, guarded>>
      /\ UNCHANGED <<now, dog, since, until, response, consent, saved, seen, repaired, dropped, missed, gaveUp, stranded>>
      /\ SessionTyped /\ PolicyInv /\ MemoryInv /\ FilesInv
  BY DEF BootCloses, Reload, LoadedOnly, Alive, Sessions, OriginInv
<1>2. PolicyLeft
  BY <1>1 DEF PolicyInv, PolicyTyped, PolicyLeft
<1>3. PolicyInv'
  BY <1>2, PolicyLeftKept, InvParts
<1>4. worker' \in [Sessions -> WorkerStages] /\ worker'["boot"] = "active"
  BY <1>1, BecomesTyped DEF WorkerStages
<1>5. SessionTyped'
  BY <1>1, <1>4 DEF SessionTyped
<1>6. MemoryInv'
  BY <1>1, MemoryMoves DEF WorkerStages, Recalls, Waits
<1>7. Layered'
  BY <1>1 DEF FilesInv, Layered
<1>8. TimeInv'
  BY <1>1, <1>4 DEF FilesInv, TimeInv, Opened, Busy, Waits, Alive, Alarm
<1>9. PeerInv'
  BY <1>1, <1>4 DEF FilesInv, PeerInv
<1>10. QED
  BY <1>3, <1>5, <1>6, <1>7, <1>8, <1>9 DEF OriginInv, FilesInv

-----------------------------------------------------------------------------
(* Removing: the worker's, and the watchdog's that has slept long enough.   *)

LEMMA UnlinkEffect ==
  ASSUME disk \in Configurations, NEW k \in Sessions, NEW who, Unlink(k, who), SessionTyped
  PROVE  /\ disk' \in Configurations /\ disk'.geo = disk.geo /\ disk'.guard = disk.guard
         /\ dropped' = dropped \cup {<<k, who>>} /\ missed' \subseteq Sessions \X {"worker", "dog"}
         /\ \E f \in FilesOf(k) :
              /\ disk'.files = disk.files \ {f}
              /\ f = "load_http" => "load_server" \notin disk.files
              /\ f = "trace_http" => "trace_server" \notin disk.files
              /\ f = "observe_http" => "observe_location" \notin disk.files
<1> DEFINE u == who = "worker" /\ worker[k] = "undoing"
           f == First(RemovalOrder(k, u), Left(k))
<1>1. /\ Left(k) # {} /\ disk' = [disk EXCEPT !.files = @ \ {f}]
      /\ dropped' = dropped \cup {<<k, who>>}
  BY DEF Unlink, NextFile
<1>2. Left(k) \subseteq FilesOf(k) /\ u \in BOOLEAN
  BY DEF Left
<1>3. /\ f \in Left(k)
      /\ f = "load_http" => "load_server" \notin Left(k)
      /\ f = "trace_http" => "trace_server" \notin Left(k)
      /\ f = "observe_http" => "observe_location" \notin Left(k)
  BY <1>1, <1>2, RemovalLaw
<1> HIDE DEF u, f
<1>4. /\ disk' \in Configurations /\ disk'.geo = disk.geo /\ disk'.guard = disk.guard
      /\ disk'.files = disk.files \ {f}
  BY <1>1 DEF Configurations
<1>5. /\ f \in FilesOf(k)
      /\ f = "load_http" => "load_server" \notin disk.files
      /\ f = "trace_http" => "trace_server" \notin disk.files
      /\ f = "observe_http" => "observe_location" \notin disk.files
  BY <1>3 DEF Left, FilesOf, TraceFiles, BootFiles, Sessions
<1>6. missed' \subseteq Sessions \X {"worker", "dog"}
  <2>1. PICK late \in SUBSET ({"worker", "dog"} \ {who}) : missed' = missed \cup ({k} \X late)
    BY DEF Unlink
  <2>2. QED
    BY <2>1 DEF SessionTyped
<1>7. QED
  BY <1>1, <1>4, <1>5, <1>6

\* A file goes: not one that another needs, and the peer's after its window.
LEMMA UnlinkKept ==
  ASSUME OriginInv, NEW k \in Sessions, NEW who \in {"worker", "dog"}, Unlink(k, who), FilesOnly,
         RemovalFrame, UNCHANGED <<worker, dog, gaveUp, stranded>>,
         k = "boot" => worker["boot"] \notin {"testing", "proving", "active"}
  PROVE  OriginInv'
<1>1. /\ SessionTyped /\ PolicyInv /\ MemoryInv /\ FilesInv /\ disk \in Configurations
  BY DEF OriginInv, PolicyInv, PolicyTyped
<1>2. /\ UNCHANGED <<loaded, binding, password, op, kind, before, changed, made, outcome,
                     touched, spoilt, guarded>>
      /\ UNCHANGED <<now, since, until, response, consent, closed, saved, seen, repaired, worker, dog, gaveUp, stranded>>
  BY DEF FilesOnly, RemovalFrame, SessionFrame
<1>3. /\ disk' \in Configurations /\ disk'.geo = disk.geo /\ disk'.guard = disk.guard
      /\ dropped' = dropped \cup {<<k, who>>} /\ missed' \subseteq Sessions \X {"worker", "dog"}
  BY <1>1, UnlinkEffect
<1>4. PICK f \in FilesOf(k) :
         /\ disk'.files = disk.files \ {f}
         /\ f = "load_http" => "load_server" \notin disk.files
         /\ f = "trace_http" => "trace_server" \notin disk.files
         /\ f = "observe_http" => "observe_location" \notin disk.files
  BY <1>1, UnlinkEffect
<1>5. PolicyLeft
  BY <1>2, <1>3 DEF PolicyLeft
<1>6. PolicyInv'
  BY <1>5, PolicyLeftKept, InvParts
<1>7. SessionTyped'
  BY <1>1, <1>2, <1>3 DEF SessionTyped
<1>8. MemoryInv'
  BY <1>1, <1>2, MemoryStays
<1>9. Layered'
  BY <1>1, <1>4 DEF FilesInv, Layered
<1>10. TimeInv'
  BY <1>1, <1>2 DEF FilesInv, TimeInv, Opened, Busy, Waits, Alive, Alarm
<1>11. PeerInv'
  <2>1. CASE k = "boot"
    BY <1>1, <1>2, <1>4, <2>1 DEF FilesInv, PeerInv
  <2>2. CASE k = "trace"
    <3>1. f # "peer"
      BY <1>4, <2>2 DEF FilesOf, TraceFiles
    <3>2. QED
      BY <1>1, <1>2, <1>4, <3>1 DEF FilesInv, PeerInv
  <2>3. QED
    BY <2>1, <2>2 DEF Sessions
<1>12. QED
  BY <1>6, <1>7, <1>8, <1>9, <1>10, <1>11 DEF OriginInv, FilesInv

LEMMA RemovalReloadKept ==
  ASSUME OriginInv, NEW k \in Sessions, NEW who, RemovalReload(k, who),
         UNCHANGED <<binding, password, op, kind, before, changed, made, outcome, touched,
                     spoilt, guarded, runs, events>>,
         RemovalFrame, UNCHANGED <<worker, dog, missed, gaveUp, stranded>>
  PROVE  OriginInv'
<1>1. SessionTyped /\ PolicyInv /\ MemoryInv /\ FilesInv /\ disk \in Configurations
  BY DEF OriginInv, PolicyInv, PolicyTyped
<1>2. /\ disk' = disk /\ loaded' = disk /\ dropped' = dropped \ {<<k, who>>}
      /\ UNCHANGED <<now, since, until, response, consent, closed, saved, seen, repaired>>
  BY DEF RemovalReload, Reload, RemovalFrame, SessionFrame
<1>3. PolicyLeft
  BY <1>1, <1>2 DEF PolicyLeft
<1>4. PolicyInv'
  BY <1>3, PolicyLeftKept, InvParts
<1>5. SessionTyped'
  BY <1>1, <1>2 DEF SessionTyped
<1>6. MemoryInv'
  BY <1>1, <1>2, MemoryStays
<1>7. FilesInv'
  BY <1>1, <1>2, FilesStay
<1>8. QED
  BY <1>4, <1>5, <1>6, <1>7 DEF OriginInv

\* The watchdog of a bootstrap wakes after the longest window has ended.
LEMMA DogIsLate ==
  ASSUME SessionTyped, FilesInv, dog["boot"] = "cleaning"
  PROVE  worker["boot"] \notin Opened
<1>1. /\ now \in Nat /\ since["boot"] \in Nat /\ until["boot"] \in Nat
      /\ Wait \in Nat /\ Window \in Nat /\ Slack \in Nat /\ Slack > 0
  BY SessionAssumption DEF SessionTyped, Sessions
<1>2. QED
  BY <1>1 DEF FilesInv, TimeInv, Alive, Alarm, Opened, Busy

LEMMA RemovesKept ==
  ASSUME OriginInv, NEW k \in Sessions, NEW who \in {"worker", "dog"},
         Unlinks(k, who) \/ GoesOn(k, who) \/ RemovesReload(k, who)
  PROVE  OriginInv'
<1>1. CASE Unlinks(k, who)
  <2>1. k = "boot" => worker["boot"] \notin {"testing", "proving", "active"}
    <3>1. CASE who = "dog"
      BY <1>1, <3>1, DogIsLate DEF Unlinks, Removing, OriginInv, Opened, Busy
    <3>2. CASE who = "worker"
      BY <1>1, <3>2 DEF Unlinks, Removing, Cleans
    <3>3. QED
      BY <3>1, <3>2
  <2>2. QED
    BY <1>1, <2>1, UnlinkKept DEF Unlinks
<1>2. CASE GoesOn(k, who)
  <2>1. SessionTyped /\ PolicyInv /\ policyUnchanged /\ missed' = missed \ {<<k, who>>}
    BY <1>2 DEF OriginInv, GoesOn, PassesOver
  <2>2. /\ disk' = disk /\ loaded' = loaded /\ op' = op /\ kind' = kind
        /\ UNCHANGED <<now, since, until, response, consent, closed, saved, seen, repaired>>
        /\ UNCHANGED <<worker, dog, dropped, gaveUp, stranded>>
    BY <1>2, <2>1 DEF GoesOn, RemovalFrame, SessionFrame, policyUnchanged, originVars
  <2>3. PolicyInv'
    BY <2>1, UnchangedLeft, PolicyLeftKept, InvParts
  <2>4. SessionTyped'
    BY <2>1, <2>2 DEF SessionTyped
  <2>5. MemoryInv' /\ FilesInv'
    BY <2>2, MemoryStays, FilesStay DEF OriginInv
  <2>6. QED
    BY <2>3, <2>4, <2>5 DEF OriginInv
<1>3. CASE RemovesReload(k, who)
  BY <1>3, RemovalReloadKept DEF RemovesReload
<1>4. QED
  BY <1>1, <1>2, <1>3

\* What a failing removal, and one that is late, leave as it is.
LEMMA RaisingLeaves ==
  ASSUME Mishap \/ policyUnchanged
  PROVE  UNCHANGED <<disk, loaded, binding, password, op, kind, before, changed, made, outcome,
                     touched, spoilt, guarded>>
BY DEF Mishap, policyUnchanged, originVars

LEMMA DogMovesKept ==
  ASSUME OriginInv, NEW k \in Sessions, DogWakes(k) \/ DogDone(k) \/ (DogRaises(k) /\ (Mishap \/ policyUnchanged))
  PROVE  OriginInv'
<1>1. SessionTyped /\ PolicyInv /\ MemoryInv /\ FilesInv /\ disk \in Configurations
  BY DEF OriginInv, PolicyInv, PolicyTyped
<1>2. /\ UNCHANGED <<disk, loaded, binding, password, op, kind, before, changed, made, outcome,
                     touched, spoilt, guarded>>
      /\ UNCHANGED <<now, since, until, response, consent, closed, saved, seen, repaired, worker>>
  BY RaisingLeaves DEF DogWakes, DogDone, DogRaises, RemovalFrame, SessionFrame
<1>3. \/ dog[k] = "asleep" /\ now >= Alarm(k) /\ dog' = [dog EXCEPT ![k] = "cleaning"]
      \/ dog[k] = "cleaning" /\ dog' = [dog EXCEPT ![k] = "gone"]
  BY DEF DogWakes, DogDone, DogRaises
<1>4. dropped' \subseteq Sessions \X {"worker", "dog"} /\ missed' \subseteq Sessions \X {"worker", "dog"} /\ stranded' \in BOOLEAN
  <2>1. CASE DogWakes(k) \/ DogDone(k)
    BY <1>1, <2>1 DEF DogWakes, DogDone, SessionTyped
  <2>2. CASE DogRaises(k)
    BY <1>1, <2>2, ForgetsTyped DEF DogRaises
  <2>3. QED
    BY <2>1, <2>2
<1>5. PolicyLeft
  BY <1>1, <1>2 DEF PolicyLeft
<1>6. PolicyInv'
  BY <1>5, PolicyLeftKept, InvParts
<1>7. SessionTyped'
  <2>1. gaveUp' \subseteq Sessions \X {"worker", "dog"}
    BY <1>1, GivesUpTyped DEF DogWakes, DogDone, DogRaises
  <2>2. QED
    BY <1>1, <1>2, <1>3, <1>4, <2>1 DEF SessionTyped
<1>8. MemoryInv'
  BY <1>1, <1>2, MemoryStays
<1>9. Layered' /\ PeerInv'
  BY <1>1, <1>2 DEF FilesInv, Layered, PeerInv
<1>10. TimeInv'
  BY <1>1, <1>2, <1>3
     DEF FilesInv, TimeInv, SessionTyped, Opened, Busy, Waits, Alive, Alarm, Sessions
<1>11. QED
  BY <1>6, <1>7, <1>8, <1>9, <1>10 DEF OriginInv, FilesInv

\* A removal that raises, and a worker that dies, with the operator in it.
LEMMA UndoRaisesKept ==
  ASSUME OriginInv, NEW k \in Sessions, UndoRaises(k), Mishap \/ policyUnchanged PROVE OriginInv'
<1>1. /\ worker[k] = "undoing" /\ Alive(k) /\ Becomes(k, "cleaning") /\ Forgets(k, {"worker"})
      /\ UNCHANGED <<disk, loaded, binding, password, op, kind, before, changed, made, outcome,
                     touched, spoilt, guarded>>
      /\ UNCHANGED <<now, since, until, response, consent, closed, saved, seen, repaired, dog, gaveUp>>
      /\ SessionTyped /\ PolicyInv
  BY RaisingLeaves DEF UndoRaises, RemovalFrame, SessionFrame, Alive, OriginInv
<1>2. PolicyLeft
  BY <1>1 DEF PolicyInv, PolicyTyped, PolicyLeft
<1>3. SessionTyped'
  <2>1. worker' \in [Sessions -> WorkerStages]
    BY <1>1, BecomesTyped DEF WorkerStages, Cleans
  <2>2. dropped' \subseteq Sessions \X {"worker", "dog"} /\ missed' \subseteq Sessions \X {"worker", "dog"} /\ stranded' \in BOOLEAN
    BY <1>1, ForgetsTyped
  <2>3. QED
    BY <1>1, <2>1, <2>2 DEF SessionTyped
<1>4. WorkerMoves(k, "cleaning")
  BY <1>1 DEF WorkerMoves, WorkerStages, Waits, Opened, Busy, Cleans
<1>5. QED
  BY <1>1, <1>2, <1>3, <1>4, MoveKept

LEMMA WorkerGoneKept ==
  ASSUME OriginInv, NEW k \in Sessions,
         (CleaningRaises(k) /\ (Mishap \/ policyUnchanged)) \/ WorkerDies(k)
  PROVE  OriginInv'
<1>1. /\ Alive(k) /\ Becomes(k, "gone") /\ Forgets(k, {"worker"}) /\ seen' = {} /\ repaired' = FALSE
      /\ UNCHANGED <<disk, loaded, binding, password, kind, before, changed, made, touched, spoilt, guarded>>
      /\ UNCHANGED <<now, since, until, consent, closed, dog>> /\ GivesUp(k, "worker")
      /\ response' = response \/ response' = [response EXCEPT ![k] = "report"]
      /\ SessionTyped /\ PolicyInv
  BY RaisingLeaves DEF CleaningRaises, WorkerDies, Gone, Forgotten, Reports, SessionFrame, Alive, Cleans, OriginInv
<1>2. \/ op' = op /\ outcome' = outcome /\ (k = "trace" \/ worker[k] # "restoring" \/ op' = "idle")
      \/ op' = "idle" /\ outcome' = "gone"
  <2>1. CASE CleaningRaises(k) /\ (Mishap \/ policyUnchanged)
    BY <2>1, RaisingLeaves DEF CleaningRaises
  <2>2. CASE WorkerDies(k) /\ Owner(k)
    BY <2>2 DEF WorkerDies, Ends
  <2>3. CASE WorkerDies(k) /\ ~Owner(k)
    BY <2>3 DEF WorkerDies, Owner, Sessions
  <2>4. QED
    BY <2>1, <2>2, <2>3
<1>3. PolicyLeft
  BY <1>1, <1>2 DEF PolicyInv, PolicyTyped, PolicyLeft
<1>4. SessionTyped'
  <2>1. worker' \in [Sessions -> WorkerStages]
    BY <1>1, BecomesTyped DEF WorkerStages
  <2>2. dropped' \subseteq Sessions \X {"worker", "dog"} /\ missed' \subseteq Sessions \X {"worker", "dog"} /\ stranded' \in BOOLEAN
    BY <1>1, ForgetsTyped
  <2>3. QED
    BY <1>1, <2>1, <2>2, GivesUpTyped DEF SessionTyped
<1>5. WorkerMoves(k, "gone")
  BY <1>1 DEF WorkerMoves, WorkerStages, Waits, Opened, Busy
<1>6. "gone" \notin Recalls
  BY DEF Recalls, Waits
<1>7. QED
  BY <1>1, <1>2, <1>3, <1>4, <1>5, <1>6, MoveKept

-----------------------------------------------------------------------------
(* Starting, commands, requests, time, and the restart.                     *)

LEMMA ForksEffect ==
  ASSUME SessionTyped, NEW k \in Sessions, Forks(k)
  PROVE  /\ worker["trace"] = "none" /\ worker["boot"] = "none"
         /\ worker' \in [Sessions -> WorkerStages] /\ worker'[k] = "forked"
         /\ \A j \in Sessions : j # k => worker'[j] = "none"
         /\ dog' = [dog EXCEPT ![k] = "asleep"] /\ since' = [since EXCEPT ![k] = now]
         /\ response' = [response EXCEPT ![k] = "report"]
         /\ UNCHANGED <<disk, loaded, binding, password, op, kind, before, changed, made, outcome,
                        touched, spoilt, guarded>>
         /\ UNCHANGED <<now, until, seen, repaired, closed, dropped, missed, gaveUp, stranded>>
<1>1. Alone /\ Becomes(k, "forked")
  BY DEF Forks
<1>2. worker["trace"] = "none" /\ worker["boot"] = "none"
  BY <1>1 DEF Alone, Sessions
<1>3. /\ worker' \in [Sessions -> WorkerStages] /\ worker'[k] = "forked"
      /\ \A j \in Sessions : j # k => worker'[j] = worker[j]
  BY <1>1, BecomesTyped DEF WorkerStages, Waits
<1>4. QED
  BY <1>2, <1>3 DEF Forks, Reports, Sessions

LEMMA StartTraceKept ==
  ASSUME OriginInv, StartTrace PROVE OriginInv'
<1>1. /\ op = "idle" /\ Forks("trace") /\ consent' = consent /\ saved' = saved /\ "trace" \in Sessions
      /\ SessionTyped /\ PolicyInv /\ MemoryInv /\ FilesInv
  BY DEF StartTrace, OriginInv, Sessions
<1>2. /\ worker["boot"] = "none" /\ worker'["boot"] = "none" /\ dog'["boot"] = dog["boot"]
      /\ worker' \in [Sessions -> WorkerStages]
      /\ dog' = [dog EXCEPT !["trace"] = "asleep"] /\ since' = [since EXCEPT !["trace"] = now]
      /\ response' = [response EXCEPT !["trace"] = "report"]
      /\ UNCHANGED <<disk, loaded, binding, password, op, kind, before, changed, made, outcome,
                     touched, spoilt, guarded>>
      /\ UNCHANGED <<now, until, seen, repaired, closed, dropped, missed, gaveUp, stranded>>
  BY <1>1, ForksEffect DEF SessionTyped, Sessions
<1>3. PolicyLeft
  BY <1>1, <1>2 DEF PolicyInv, PolicyTyped, PolicyLeft
<1>4. PolicyInv'
  BY <1>3, PolicyLeftKept, InvParts
<1>5. SessionTyped'
  BY <1>1, <1>2 DEF SessionTyped
<1>6. MemoryInv'
  BY <1>1, <1>2 DEF MemoryInv, SavedTyped, SavedInv, SavedWhole, RestoringInv, OneSession, Alive
<1>7. FilesInv'
  BY <1>1, <1>2
     DEF FilesInv, Layered, TimeInv, PeerInv, Opened, Busy, Waits, Alive
<1>8. QED
  BY <1>4, <1>5, <1>6, <1>7 DEF OriginInv

\* What a bootstrap can restore: what its installation had found, with the
\* password it made, or nothing but the policy that is there.
LEMMA StartBootKept ==
  ASSUME OriginInv, StartBoot PROVE OriginInv'
<1>1. /\ op = "idle" /\ AuthBound /\ password /\ Left("boot") = {} /\ consent' \in BOOLEAN
      /\ Forks("boot") /\ "boot" \in Sessions
      /\ SessionTyped /\ PolicyInv /\ MemoryInv /\ FilesInv
  BY DEF StartBoot, OriginInv, Sessions
<1>2. \/ saved' = [activated |-> FALSE, before |-> Snapshot, made |-> FALSE]
      \/ kind = "auth" /\ outcome = "done" /\ saved' = [activated |-> TRUE, before |-> before, made |-> made]
  BY DEF StartBoot
<1>3. /\ worker["boot"] = "none" /\ worker'["boot"] = "forked" /\ worker'["trace"] = "none"
      /\ worker' \in [Sessions -> WorkerStages]
      /\ dog' = [dog EXCEPT !["boot"] = "asleep"] /\ since' = [since EXCEPT !["boot"] = now]
      /\ response' = [response EXCEPT !["boot"] = "report"]
      /\ UNCHANGED <<disk, loaded, binding, password, op, kind, before, changed, made, outcome,
                     touched, spoilt, guarded>>
      /\ UNCHANGED <<now, until, seen, repaired, closed, dropped, missed, gaveUp, stranded>>
  BY <1>1, ForksEffect DEF Sessions
<1>4. PolicyLeft
  BY <1>1, <1>3 DEF PolicyInv, PolicyTyped, PolicyLeft
<1>5. PolicyInv'
  BY <1>4, PolicyLeftKept, InvParts
<1>6. SessionTyped'
  BY <1>1, <1>3 DEF SessionTyped
<1>7. /\ SnapTyped(Snapshot) /\ Snapshot.geo = "auth" /\ Snapshot.guard = "auth"
      /\ Snapshot.binding = [geo |-> "auth", guard |-> "auth"] /\ Snapshot.password = TRUE
  <2>1. PolicyTyped
    BY <1>1 DEF PolicyInv
  <2>2. disk.geo = "auth" /\ disk.guard = "auth" /\ binding = [geo |-> "auth", guard |-> "auth"]
    BY <1>1 DEF AuthBound, Bound
  <2>3. password = TRUE
    BY <1>1, <2>1 DEF PolicyTyped
  <2>4. QED
    BY <2>1, <2>2, <2>3, SnapshotTyped
<1>8. SavedTyped' /\ SavedInv' /\ SavedWhole'
  <2>1. CASE saved' = [activated |-> FALSE, before |-> Snapshot, made |-> FALSE]
    <3>1. saved'.activated = FALSE /\ saved'.before = Snapshot /\ saved'.made = FALSE
      BY <2>1
    <3>2. SnapTyped(saved'.before)
      BY <1>7, <3>1
    <3>3. QED
      BY <1>7, <3>1, <3>2 DEF SavedTyped, SavedInv, SavedWhole, SnapTyped
  <2>2. CASE /\ kind = "auth" /\ outcome = "done"
             /\ saved' = [activated |-> TRUE, before |-> before, made |-> made]
    <3>1. saved'.activated = TRUE /\ saved'.before = before /\ saved'.made = made
      BY <2>2
    <3>2. before.geo = "legacy" /\ before.guard = "legacy" /\ made = ~before.password
      BY <1>1, <2>2 DEF PolicyInv, OperatorInv, AuthInv, MadeInv
    <3>3. SnapTyped(before) /\ made \in BOOLEAN
      BY <1>1 DEF PolicyInv, PolicyTyped
    <3>4. QED
      BY <3>1, <3>2, <3>3 DEF SavedTyped, SavedInv, SavedWhole, SnapTyped
  <2>3. QED
    BY <1>2, <2>1, <2>2
<1>9. MemoryInv'
  BY <1>1, <1>3, <1>8 DEF MemoryInv, RestoringInv, OneSession
<1>10. Layered'
  BY <1>1, <1>3 DEF FilesInv, Layered
<1>11. TimeInv'
  <2>1. now \in Nat /\ Wait \in Nat /\ dog'["boot"] = "asleep" /\ since'["boot"] = now
    BY <1>1, <1>3, SessionAssumption DEF SessionTyped
  <2>2. QED
    BY <1>3, <2>1 DEF TimeInv, Opened, Busy, Waits, Alive
<1>12. PeerInv'
  <2>1. "peer" \notin disk.files \cup loaded.files /\ ~closed
    BY <1>1, <1>3 DEF FilesInv, PeerInv, BootFiles
  <2>2. QED
    BY <1>3, <2>1 DEF PeerInv
<1>13. QED
  BY <1>5, <1>6, <1>9, <1>10, <1>11, <1>12 DEF OriginInv, FilesInv

\* What leaves the sessions where they are.
LEMMA SessionsStayKept ==
  ASSUME OriginInv, PolicyInv', UNCHANGED sessionVars, disk'.files = disk.files,
         loaded' = loaded \/ loaded' = disk',
         kind' = "restore" /\ op' # "idle" => kind = "restore" /\ op # "idle"
  PROVE  OriginInv'
<1>1. /\ UNCHANGED <<now, worker, dog, since, until, response, consent, saved, seen, repaired,
                     closed, dropped, missed, gaveUp, stranded>>
      /\ SessionTyped /\ MemoryInv /\ FilesInv
  BY DEF sessionVars, OriginInv
<1>2. SessionTyped'
  BY <1>1 DEF SessionTyped
<1>3. MemoryInv'
  BY <1>1, MemoryStays
<1>4. FilesInv'
  BY <1>1, FilesStay
<1>5. QED
  BY <1>2, <1>3, <1>4 DEF OriginInv

LEMMA OperatorMovesKept ==
  ASSUME OriginInv, OperatorMoves PROVE OriginInv'
<1>1. OperatorKept /\ UNCHANGED sessionVars
  BY OperatorStepKept, InvParts DEF OperatorMoves
<1>2. kind' = "restore" /\ op' # "idle" => kind = "restore" /\ op # "idle"
  BY DEF OperatorMoves, OperatorStep, BeginInstall, BeginAddLan, BeginAuth, BeginStatic, Begins,
         MakePassword, Recheck, InstallWrites, AddLanWrites, AuthWrites, StaticWrites,
         TestAndReload, LocalHeads, Rebind, StepFails, InstallUndoes, AddLanUndoes, AuthUndoes,
         StaticUndoes, RestoreUndoes, Keeps, UndoReload, DropPassword, HandlerFails, Ends
<1>3. QED
  BY <1>1, <1>2, SessionsStayKept DEF OperatorKept, PolicyInv

LEMMA ForeignKept ==
  ASSUME OriginInv, UNCHANGED sessionVars, OperatorKilled \/ ForeignReload \/ (ForeignWrite /\ Alone)
  PROVE  OriginInv'
<1>1. PolicyInv /\ MemoryInv
  BY DEF OriginInv
<1>2. CASE OperatorKilled \/ ForeignReload
  <2>1. /\ disk' = disk /\ (loaded' = loaded \/ loaded' = disk) /\ kind' = kind
        /\ (op' = op /\ outcome' = outcome) \/ (op' = "idle" /\ outcome' = "gone")
        /\ UNCHANGED <<binding, password, before, changed, made, touched, spoilt, guarded>>
    BY <1>2 DEF OperatorKilled, ForeignReload, Reload, Ends
  <2>2. PolicyInv'
    BY <1>1, <2>1, PolicyLeftKept, InvParts DEF PolicyLeft, PolicyInv, PolicyTyped
  <2>3. QED
    BY <2>1, <2>2, SessionsStayKept
<1>3. CASE ForeignWrite /\ Alone
  <2>1. PolicyInv'
    BY <1>1, <1>3, ForeignWriteKept, InvParts DEF MemoryInv
  <2>2. disk'.files = disk.files /\ loaded' = loaded /\ op' = op /\ kind' = kind
    <3>1. disk \in Configurations
      BY <1>1 DEF PolicyInv, PolicyTyped
    <3>2. QED
      BY <1>3, <3>1 DEF ForeignWrite, Configurations
  <2>3. QED
    BY <2>1, <2>2, SessionsStayKept
<1>4. QED
  BY <1>2, <1>3

LEMMA OwnerCommandsKept ==
  ASSUME OriginInv, NEW k \in Sessions, OwnerCommands(k) PROVE OriginInv'
<1>1. /\ policyUnchanged /\ SessionTyped /\ PolicyInv /\ MemoryInv /\ FilesInv
      /\ UNCHANGED <<now, worker, dog, since, until, consent, saved, seen, repaired, closed, dropped, missed, gaveUp, stranded>>
  BY DEF OwnerCommands, OriginInv
<1>2. PICK command \in {"activate", "rollback"} : response' = [response EXCEPT ![k] = command]
  BY DEF OwnerCommands, Reports
<1>3. PolicyInv'
  BY <1>1, UnchangedLeft, PolicyLeftKept, InvParts
<1>4. disk' = disk /\ loaded' = loaded /\ op' = op /\ kind' = kind
  BY <1>1 DEF policyUnchanged, originVars
<1>5. SessionTyped'
  BY <1>1, <1>2 DEF SessionTyped
<1>6. MemoryInv'
  BY <1>1, <1>4, MemoryStays
<1>7. FilesInv'
  BY <1>1, <1>4, FilesStay
<1>8. QED
  BY <1>3, <1>5, <1>6, <1>7 DEF OriginInv

LEMMA AsksKept ==
  ASSUME OriginInv, Asks PROVE OriginInv'
<1>1. /\ policyUnchanged /\ SessionTyped /\ PolicyInv /\ MemoryInv /\ FilesInv
      /\ UNCHANGED <<now, worker, dog, since, until, response, consent, saved, repaired, closed, dropped, missed, gaveUp, stranded>>
  BY DEF Asks, OriginInv
<1>2. seen' \subseteq seen \cup {"refusal", "transfer", "check"}
  BY DEF Asks
<1>3. PolicyInv'
  BY <1>1, UnchangedLeft, PolicyLeftKept, InvParts
<1>4. disk' = disk /\ loaded' = loaded /\ op' = op /\ kind' = kind
  BY <1>1 DEF policyUnchanged, originVars
<1>5. seen' \subseteq {"refusal", "transfer", "check"}
  BY <1>1, <1>2 DEF SessionTyped
<1>6. SessionTyped'
  BY <1>1, <1>5 DEF SessionTyped
<1>7. MemoryInv'
  BY <1>1, <1>4, MemoryStays
<1>8. FilesInv'
  BY <1>1, <1>4, FilesStay
<1>9. QED
  BY <1>3, <1>6, <1>7, <1>8 DEF OriginInv

LEMMA TickKept ==
  ASSUME OriginInv, Tick PROVE OriginInv'
<1>1. /\ policyUnchanged /\ SessionTyped /\ PolicyInv /\ MemoryInv /\ FilesInv
      /\ now' = now + 1 /\ InTime("boot")
      /\ UNCHANGED <<worker, dog, since, until, response, consent, saved, seen, repaired, closed, dropped, missed, gaveUp, stranded>>
  BY DEF Tick, OriginInv, Sessions
<1>2. PolicyInv'
  BY <1>1, UnchangedLeft, PolicyLeftKept, InvParts
<1>3. disk' = disk /\ loaded' = loaded /\ op' = op /\ kind' = kind
  BY <1>1 DEF policyUnchanged, originVars
<1>4. SessionTyped'
  BY <1>1 DEF SessionTyped
<1>5. MemoryInv'
  BY <1>1, <1>3, MemoryStays
<1>6. Layered' /\ PeerInv'
  BY <1>1, <1>3 DEF FilesInv, Layered, PeerInv
<1>7. TimeInv'
  <2>1. /\ now \in Nat /\ since["boot"] \in Nat /\ until["boot"] \in Nat
        /\ Wait \in Nat /\ Window \in Nat /\ Slack \in Nat
    BY <1>1, SessionAssumption DEF SessionTyped, Sessions
  <2>2. QED
    BY <1>1, <2>1 DEF FilesInv, TimeInv, InTime, Opened, Busy, Waits, Alive, Alarm
<1>8. QED
  BY <1>2, <1>4, <1>5, <1>6, <1>7 DEF OriginInv, FilesInv

\* The restart of the NAS leaves the loaders of a trace, server after format.
LEMMA RebootKept ==
  ASSUME OriginInv, Reboot PROVE OriginInv'
<1>1. /\ disk' = [disk EXCEPT !.files = @ \ Volatile] /\ loaded' = disk'
      /\ op' = "idle" /\ outcome' = (IF op = "idle" THEN outcome ELSE "gone")
      /\ worker' = [k \in Sessions |-> IF Alive(k) THEN "gone" ELSE worker[k]]
      /\ dog' = [k \in Sessions |-> IF worker[k] = "none" THEN "none" ELSE "gone"]
      /\ dropped' = {} /\ missed' = {} /\ seen' = {} /\ repaired' = FALSE
      /\ UNCHANGED <<binding, password, kind, before, changed, made, touched, spoilt, guarded>>
      /\ UNCHANGED <<now, since, until, response, consent, closed, gaveUp, stranded>>
      /\ SessionTyped /\ PolicyInv /\ MemoryInv /\ FilesInv /\ disk \in Configurations
  BY DEF Reboot, SessionFrame, OriginInv, PolicyInv, PolicyTyped
<1>2. /\ disk' \in Configurations /\ disk'.geo = disk.geo /\ disk'.guard = disk.guard
      /\ disk'.files = disk.files \ Volatile
  BY <1>1 DEF Configurations
<1>3. PolicyLeft
  BY <1>1, <1>2 DEF PolicyLeft
<1>4. PolicyInv'
  BY <1>3, PolicyLeftKept, InvParts
<1>5. \A k \in Sessions : worker'[k] \in {"none", "gone"} /\ (worker'[k] = "none" <=> worker[k] = "none")
  BY <1>1 DEF Alive
<1>6. SessionTyped'
  <2>1. worker' \in [Sessions -> WorkerStages]
    BY <1>1 DEF SessionTyped, WorkerStages
  <2>2. QED
    BY <1>1, <2>1 DEF SessionTyped
<1>7. MemoryInv'
  BY <1>1, <1>5 DEF MemoryInv, SavedTyped, SavedInv, SavedWhole, RestoringInv, OneSession, Recalls, Waits, Sessions
<1>8. Layered'
  BY <1>1, <1>2 DEF FilesInv, Layered, Volatile, TraceFiles, BootFiles
<1>9. TimeInv'
  BY <1>1, <1>5 DEF TimeInv, Alive, Sessions, Waits, Opened, Busy
<1>10. PeerInv'
  <2>1. "peer" \notin disk'.files \cup loaded'.files /\ BootFiles \cap (disk'.files \cup loaded'.files) = {}
    BY <1>1, <1>2 DEF Volatile, TraceFiles, BootFiles
  <2>2. worker["boot"] = "none" => ~closed
    BY <1>1 DEF FilesInv, PeerInv
  <2>3. QED
    BY <1>1, <1>5, <2>1, <2>2 DEF PeerInv, Sessions
<1>11. QED
  BY <1>4, <1>6, <1>7, <1>8, <1>9, <1>10 DEF OriginInv, FilesInv

LEMMA WorkerWorksKept ==
  ASSUME OriginInv, NEW k \in Sessions, WorkerWorks(k) PROVE OriginInv'
BY EndedKept, CreatesKept, OpensReloadKept DEF WorkerWorks

LEMMA NextKept ==
  ASSUME OriginInv, [OriginNext]_vars PROVE OriginInv'
<1>1. CASE UNCHANGED vars
  <2>1. policyUnchanged /\ UNCHANGED sessionVars
    BY <1>1 DEF vars, policyUnchanged
  <2>2. disk' = disk /\ loaded' = loaded /\ op' = op /\ kind' = kind
    BY <2>1 DEF policyUnchanged, originVars
  <2>3. PolicyInv'
    BY <2>1, UnchangedLeft, PolicyLeftKept, InvParts DEF OriginInv
  <2>4. QED
    BY <2>1, <2>2, <2>3, SessionsStayKept
<1>2. CASE \/ OperatorMoves
           \/ OperatorKilled /\ Alone /\ UNCHANGED sessionVars
           \/ ForeignReload /\ UNCHANGED sessionVars
           \/ ForeignWrite /\ Alone /\ UNCHANGED sessionVars
  BY <1>2, OperatorMovesKept, ForeignKept
<1>3. CASE StartTrace \/ StartBoot \/ (\E k \in Sessions : OwnerCommands(k)) \/ Asks \/ Tick \/ Reboot
  BY <1>3, StartTraceKept, StartBootKept, OwnerCommandsKept, AsksKept, TickKept, RebootKept
<1>4. CASE TraceWorks \/ TraceRepairs
  <2>1. CASE TraceWorks
    BY <2>1, ReportsWatchdogKept, TraceActivatesKept, TraceProvesKept, TraceRepairedKept,
       WindowEndsKept, WorkerWorksKept DEF TraceWorks, Sessions
  <2>2. QED
    BY <1>4, <2>1, TraceRepairsKept
<1>5. CASE BootWorks
  BY <1>5, ReportsWatchdogKept, BootActivatesKept, BootRollsBackKept, BootRolledBackKept,
     BootProvesKept, BootSeesTransferKept, BootClosesKept, WindowEndsKept, WorkerWorksKept
     DEF BootWorks, Sessions
<1>6. CASE \E k \in Sessions : Removes(k)
  BY <1>6, RemovesKept, UndoRaisesKept, WorkerGoneKept, DogMovesKept, EndedKept DEF Removes, RaisesLate
<1>7. CASE \E k \in Sessions : SessionFails(k)
  BY <1>7, OpeningFailsKept, UndoRaisesKept, WorkerGoneKept, DogMovesKept DEF SessionFails, RemovalFails
<1>8. QED
  BY <1>1, <1>2, <1>3, <1>4, <1>5, <1>6, <1>7 DEF OriginNext

LEMMA InitInv ==
  ASSUME OriginSessionInit PROVE OriginInv
<1>1. PICK start \in Starts :
        LET policy == CASE start = "bare" -> "none" [] start = "guarded" -> "legacy" [] OTHER -> "auth"
        IN /\ disk = [geo |-> policy, guard |-> policy, files |-> {}]
           /\ binding = [geo |-> policy, guard |-> policy]
           /\ password = (start = "authenticated")
           /\ guarded = (start # "bare")
  BY Zenon DEF OriginSessionInit, OriginInit
<1>2. /\ loaded = disk /\ op = "idle" /\ kind = "none" /\ before = Snapshot /\ changed = {}
      /\ made = FALSE /\ outcome = "none" /\ touched = FALSE /\ spoilt = FALSE
      /\ now = 0 /\ worker = [k \in Sessions |-> "none"] /\ dog = [k \in Sessions |-> "none"]
      /\ since = [k \in Sessions |-> 0] /\ until = [k \in Sessions |-> 0]
      /\ response = [k \in Sessions |-> "none"] /\ consent = FALSE
      /\ seen = {} /\ repaired = FALSE /\ closed = FALSE
      /\ dropped = {} /\ missed = {} /\ gaveUp = {} /\ stranded = FALSE
  BY DEF OriginSessionInit, OriginInit
<1>3. /\ disk.geo \in {"none", "legacy", "auth"} /\ disk.guard = disk.geo /\ disk.files = {}
      /\ disk \in Configurations /\ binding \in Bindings
      /\ disk.guard = "auth" => password
      /\ password \in BOOLEAN /\ guarded \in BOOLEAN
  <2>1. start \in {"bare", "guarded", "authenticated"}
    BY <1>1, OriginAssumption
  <2>2. CASE start = "bare"
    BY <1>1, <2>2 DEF Configurations, Bindings, Policies
  <2>3. CASE start = "guarded"
    BY <1>1, <2>3 DEF Configurations, Bindings, Policies
  <2>4. CASE start = "authenticated"
    BY <1>1, <2>4 DEF Configurations, Bindings, Policies
  <2>5. QED
    BY <2>1, <2>2, <2>3, <2>4
<1>4. PolicyTyped
  <2>1. SnapTyped(Snapshot)
    BY <1>2, <1>3 DEF Snapshot, SnapTyped, Configurations, Bindings
  <2>2. QED
    BY <1>2, <1>3, <2>1 DEF PolicyTyped, Kinds, Outcomes
<1>5. PolicyInv
  BY <1>2, <1>3, <1>4, StepsLaw
     DEF PolicyInv, OperatorInv, Guards, AuthGuards, Fits, ReadInv, InstallInv, AddLanInv, AuthInv,
         StaticInv, RestoreInv, PasswordInv, RunInv, MadeInv, BoundInv, RestoredInv
<1>6. SessionTyped
  BY <1>2 DEF SessionTyped, WorkerStages
<1>7. MemoryInv
  BY <1>2 DEF MemoryInv, SavedTyped, SavedInv, SavedWhole, RestoringInv, OneSession, Recalls, Waits, Sessions
<1>8. FilesInv
  BY <1>2, <1>3 DEF FilesInv, Layered, TimeInv, PeerInv, Alive, Waits, Opened, Busy, Sessions
<1>9. QED
  BY <1>5, <1>6, <1>7, <1>8 DEF OriginInv

LEMMA OriginInvHolds == OriginSpec => []OriginInv
<1>1. OriginSessionInit => OriginInv
  BY InitInv
<1>2. OriginInv /\ [OriginNext]_vars => OriginInv'
  BY NextKept
<1>3. QED
  BY <1>1, <1>2, PTL DEF OriginSpec

-----------------------------------------------------------------------------
(* The theorems.                                                           *)

\* Every variable of the origin's model keeps its type: the policy the
\* operators of src/ops change and the sessions on top of it.
THEOREM SessionsTyped == OriginSpec => []SessionTypeOK
<1>1. OriginInv => SessionTypeOK
  BY InvParts, TypeInvTyped
<1>2. QED
  BY <1>1, OriginInvHolds, PTL

\* Whatever instant nginx is reloaded at, or the NAS restarts, the files that
\* the operators and the sessions have left on the disk are a configuration that
\* loads: create, replace, reversed(files) and the handlers keep the order.
THEOREM DiskAlwaysLoads == OriginSpec => []DiskLoads
<1>1. OriginInv => DiskLoads
  BY DEF OriginInv, PolicyInv, OperatorInv, FilesInv, Fits, AuthGuards, Layered, DiskLoads, Loads
<1>2. QED
  BY <1>1, OriginInvHolds, PTL

LEMMA OtaUrisLaw ==
  /\ Uri("/firmware.bin") = "/firmware.bin"
  /\ \A uri \in OtaUris : Uri(uri) = uri
BY DEF Uri, ImagePaths, ManifestPaths, OtaUris

LEMMA ImageIsClosed == OriginInv => ImageClosed
<1>1. SUFFICES ASSUME OriginInv, guarded, loaded.guard \notin {"none", "foreign"}, loaded.geo # "foreign",
                      NEW user \in Users \ {"right"}, NEW method \in Reads,
                      NEW peer \in Strangers \cup {"field"},
                      Access(loaded, WindowOpen, Request("/firmware.bin", method, peer, user)) = 200
               PROVE  peer = "field" /\ loaded.guard # "legacy" /\ consent /\ WindowOpen /\ ~closed
  BY DEF ImageClosed
<1> DEFINE r == Request("/firmware.bin", method, peer, user)
<1>2. r.uri = "/firmware.bin" /\ r.method = method /\ r.peer = peer /\ r.user = user
  BY OtaUrisLaw DEF Request
<1>3. loaded.guard \in {"legacy", "auth", "static"}
  BY <1>1 DEF OriginInv, PolicyInv, OperatorInv, Guards
<1>4. peer \notin Allowed(loaded)
  BY DEF Allowed, Home, Strangers
<1> HIDE DEF r
<1>5. Access(loaded, WindowOpen, r) = 200
  BY <1>1 DEF r
<1>6. loaded.guard # "legacy"
  BY <1>2, <1>4, <1>5 DEF Access, GuardAnswer
<1> DEFINE peers == IF "peer" \in loaded.files THEN {"field"} ELSE {}
           realm == Realm(Allowed(loaded), peers, "time" \in loaded.files /\ WindowOpen, r)
<1>7. AuthAnswer(realm, {"right"}, r) = 200
  BY <1>3, <1>5, <1>6 DEF Access
<1>8. realm = "off"
  BY <1>2, <1>7 DEF AuthAnswer, OtaUris, Reads
<1>9. peer \in peers /\ WindowOpen
  BY <1>2, <1>4, <1>8 DEF Realm
<1>10. "peer" \in loaded.files /\ peer = "field"
  BY <1>9
<1>11. consent /\ ~closed
  BY <1>1, <1>10 DEF OriginInv, FilesInv, PeerInv
<1>12. QED
  BY <1>6, <1>9, <1>10, <1>11

LEMMA BoxIsServed == OriginInv => BoxServed
<1>1. SUFFICES ASSUME OriginInv, loaded.guard \in {"auth", "static"}, ~spoilt, NEW uri \in OtaUris
               PROVE  Access(loaded, WindowOpen, Request(uri, "GET", "198.51.100.10", "right")) = 200
  BY DEF BoxServed
<1> DEFINE r == Request(uri, "GET", "198.51.100.10", "right")
<1>2. r.uri = uri /\ r.method = "GET" /\ r.user = "right"
  BY OtaUrisLaw DEF Request
<1>3. password
  BY <1>1 DEF OriginInv, PolicyInv, OperatorInv, PasswordInv, AuthGuards
<1> HIDE DEF r
<1>4. \A realm : AuthAnswer(realm, {"right"}, r) = 200
  BY <1>2 DEF AuthAnswer, Reads
<1>5. Access(loaded, WindowOpen, r) = 200
  BY <1>1, <1>3, <1>4 DEF Access
<1>6. QED
  BY <1>5 DEF r

\* Once an installation has ended, no configuration that nginx runs with gives
\* the image to a stranger without the password, but for the one public peer,
\* with the owner's consent, in its window and until its opening is reported
\* closed; and the authenticated policy never refuses the box with its password.
THEOREM AccessIsSound == OriginSpec => []AccessSound
<1>1. OriginInv => AccessSound
  BY ImageIsClosed, BoxIsServed DEF AccessSound
<1>2. QED
  BY <1>1, OriginInvHolds, PTL

\* The ends of a run that nobody wrote into.
LEMMA RecheckWhole ==
  ASSUME TypeInv, OperatorInv, Recheck, op' = "idle", ~touched, ~spoilt PROVE Whole
<1>1. /\ op = "recheck" /\ kind # "auth" /\ outcome' = "refused"
      /\ UNCHANGED <<disk, loaded, binding, password>>
  BY DEF Recheck, Ends
<1>2. kind # "restore"
  BY <1>1, StepsLaw DEF TypeInv
<1>3. changed = {}
  BY <1>1 DEF OperatorInv, ReadInv
<1>4. FilesOfRun /\ NginxOfRun /\ binding = before.binding /\ password = before.password
  BY <1>1, <1>2 DEF OperatorInv, RunInv
<1>5. disk.geo = before.geo /\ disk.guard = before.guard
  BY <1>3, <1>4 DEF FilesOfRun
<1>6. SamePolicy(loaded', disk') \/ SamePolicy(loaded', before.loaded)
  BY <1>1, <1>3, <1>4 DEF NginxOfRun, SamePolicy
<1>7. QED
  BY <1>1, <1>2, <1>4, <1>5, <1>6 DEF Whole

\* The new policy is on the disk, in nginx, and bound unless it is a first one.
LEMMA DoneWhole ==
  ASSUME TypeInv, OperatorInv, LocalHeads \/ Rebind, op' = "idle", ~touched, ~spoilt PROVE Whole
<1>1. /\ op \in {"heads", "bind"} /\ UNCHANGED <<disk, loaded, password>>
  BY DEF LocalHeads, Rebind
<1>2. kind \in {"install", "addlan", "auth", "static"}
  BY <1>1, StepsLaw DEF TypeInv, PolicyTyped, Kinds
<1>3. /\ outcome' = "done"
      /\ op = "heads" => kind = "install"
      /\ op = "bind" => binding' = NewBinding
  BY <1>1, <1>2 DEF LocalHeads, Rebind, Ends, Handler
<1>4. FilesOfRun /\ NginxOfRun
  BY <1>1, <1>2 DEF OperatorInv, RunInv
<1>5. /\ SamePolicy(loaded', disk')
      /\ disk'.guard = IF "guard" \in Replaces(kind) THEN Target(kind, "guard") ELSE before.guard
      /\ disk'.geo = IF "geo" \in Replaces(kind) THEN Target(kind, "geo") ELSE before.geo
  BY <1>1, <1>4 DEF FilesOfRun, NginxOfRun, SamePolicy
<1>6. CASE kind = "install"
  BY <1>3, <1>5, <1>6 DEF Whole, Replaces
<1>7. CASE kind = "addlan"
  <2>1. before.guard = "legacy" /\ before.binding = [geo |-> "legacy", guard |-> "legacy"]
    BY <1>7 DEF OperatorInv, AddLanInv, BoundInv
  <2>2. op = "bind"
    BY <1>1, <1>3, <1>7
  <2>3. binding' = [before.binding EXCEPT !.geo = "lan"]
    BY <1>3, <1>7, <2>2 DEF NewBinding
  <2>4. binding'.guard = "legacy" /\ binding'.geo = "lan"
    BY <2>1, <2>3
  <2>5. disk'.guard = "legacy" /\ disk'.geo = "lan"
    BY <1>5, <1>7, <2>1 DEF Replaces, Target
  <2>6. QED
    BY <1>3, <1>5, <1>7, <2>4, <2>5 DEF Whole
<1>8. CASE kind = "auth"
  <2>1. binding'.guard = "auth" /\ binding'.geo = "auth"
    BY <1>1, <1>3, <1>8 DEF NewBinding
  <2>2. disk'.guard = "auth" /\ disk'.geo = "auth"
    BY <1>5, <1>8 DEF Replaces, Target
  <2>3. QED
    BY <1>3, <1>5, <1>8, <2>1, <2>2 DEF Whole, Target
<1>9. CASE kind = "static"
  <2>1. binding' = [before.binding EXCEPT !.guard = "static"]
    BY <1>1, <1>3, <1>9 DEF NewBinding
  <2>2. before.binding \in Bindings
    BY DEF TypeInv, PolicyTyped, SnapTyped
  <2>3. binding'.guard = "static"
    BY <2>1, <2>2 DEF Bindings
  <2>4. disk'.guard = "static"
    BY <1>5, <1>9 DEF Replaces, Target
  <2>5. QED
    BY <1>3, <1>5, <1>9, <2>3, <2>4 DEF Whole, Target
<1>10. QED
  BY <1>2, <1>6, <1>7, <1>8, <1>9

\* A handler that refuses has nothing to put back.
LEMMA UndoesWhole ==
  ASSUME TypeInv, OperatorInv, InstallUndoes \/ AddLanUndoes \/ AuthUndoes \/ StaticUndoes,
         op # "idle", op' = "idle", ~touched, ~spoilt
  PROVE  Whole
<1>1. UNCHANGED <<loaded, password>>
  BY DEF InstallUndoes, AddLanUndoes, AuthUndoes, StaticUndoes, Keeps
<1>2. kind \in {"install", "addlan", "auth", "static"}
  BY DEF InstallUndoes, AddLanUndoes, AuthUndoes, StaticUndoes
<1>3. FilesOfRun /\ NginxOfRun /\ binding = before.binding /\ (kind # "auth" => password = before.password)
  BY <1>2 DEF OperatorInv, RunInv
<1>4. CASE AuthUndoes
  <2>1. kind = "auth" /\ outcome' = "unconfirmed"
    BY <1>4 DEF AuthUndoes, Ends
  <2>2. QED
    BY <2>1 DEF Whole
<1>5. CASE InstallUndoes
  <2>1. /\ kind = "install"
        /\ \E file \in {"geo", "guard"} :
             op = UndoStep[file] /\ file \in changed /\ disk[file] # "legacy"
    BY <1>5 DEF InstallUndoes, Ends
  <2>2. FALSE
    <3>1. CASE op = "undo_guard" /\ "guard" \in changed /\ disk.guard # "legacy"
      BY <1>3, <2>1, <3>1 DEF FilesOfRun, Target
    <3>2. CASE op = "undo_geo" /\ "geo" \in changed /\ disk.geo # "legacy"
      BY <1>3, <2>1, <3>2 DEF FilesOfRun, Target
    <3>3. QED
      BY <2>1, <3>1, <3>2 DEF UndoStep
  <2>3. QED
    BY <2>2
<1>6. CASE AddLanUndoes
  <2>1. /\ kind = "addlan" /\ op = "undo_geo" /\ disk.geo # "lan" /\ outcome' = "refused"
        /\ disk' = disk /\ binding' = binding
    BY <1>6 DEF AddLanUndoes, Ends
  <2>2. changed = {}
    BY <1>3, <2>1 DEF FilesOfRun, Target, Replaces
  <2>3. disk.geo = before.geo /\ disk.guard = before.guard
    BY <1>3, <2>2 DEF FilesOfRun
  <2>4. SamePolicy(loaded', disk') \/ SamePolicy(loaded', before.loaded)
    BY <1>1, <1>3, <2>1, <2>2 DEF NginxOfRun, SamePolicy
  <2>5. QED
    BY <1>1, <1>3, <2>1, <2>3, <2>4 DEF Whole
<1>7. CASE StaticUndoes
  <2>1. /\ kind = "static" /\ op = "undo_guard" /\ outcome' = "refused"
        /\ disk.guard # "static" \/ binding \notin {before.binding, NewBinding}
        /\ disk' = disk /\ binding' = binding
    BY <1>7 DEF StaticUndoes, Ends
  <2>2. changed = {}
    BY <1>3, <2>1 DEF FilesOfRun, Target, Replaces
  <2>3. disk.geo = before.geo /\ disk.guard = before.guard
    BY <1>3, <2>2 DEF FilesOfRun
  <2>4. SamePolicy(loaded', disk') \/ SamePolicy(loaded', before.loaded)
    BY <1>1, <1>3, <2>1, <2>2 DEF NginxOfRun, SamePolicy
  <2>5. QED
    BY <1>1, <1>3, <2>1, <2>3, <2>4 DEF Whole
<1>8. QED
  BY <1>4, <1>5, <1>6, <1>7

LEMMA UndoReloadWhole ==
  ASSUME TypeInv, OperatorInv, UndoReload, op' = "idle", ~touched, ~spoilt PROVE Whole
<1>1. /\ op = "undo_reload" /\ kind \notin {"auth", "restore"} /\ outcome' = "failed"
      /\ loaded' = disk /\ UNCHANGED <<disk, binding, password>>
  BY DEF UndoReload, Reload, Ends
<1>2. FilesOfRun /\ binding = before.binding /\ password = before.password
  BY <1>1 DEF OperatorInv, RunInv
<1>3. disk.geo = before.geo /\ disk.guard = before.guard
  BY <1>1, <1>2 DEF FilesOfRun
<1>4. QED
  BY <1>1, <1>2, <1>3 DEF Whole, SamePolicy

LEMMA DropWhole ==
  ASSUME TypeInv, OperatorInv, DropPassword, ~touched, ~spoilt PROVE Whole
<1>1. /\ op = "drop_password" /\ outcome' = outcome /\ password' = (password /\ ~made)
      /\ UNCHANGED <<disk, loaded, binding>>
  BY DEF DropPassword, Ends
<1>2. kind \in {"auth", "restore"}
  BY <1>1, StepsLaw DEF TypeInv, PolicyTyped, Kinds
<1>3. password \in BOOLEAN /\ made \in BOOLEAN /\ before.password \in BOOLEAN
  BY DEF TypeInv, PolicyTyped, SnapTyped
<1>4. CASE kind = "auth"
  <2>1. FilesOfRun /\ NginxOfRun /\ binding = before.binding /\ outcome \in {"failed", "refused"}
    BY <1>1, <1>4 DEF OperatorInv, RunInv
  <2>2. disk.geo = before.geo /\ disk.guard = before.guard
    BY <1>1, <2>1 DEF FilesOfRun
  <2>3. SamePolicy(loaded', disk') \/ SamePolicy(loaded', before.loaded)
    BY <1>1, <2>1 DEF NginxOfRun, SamePolicy
  <2>4. password /\ made = ~before.password
    BY <1>1, <1>4 DEF OperatorInv, AuthInv, MadeInv
  <2>5. password' = before.password
    BY <1>1, <1>3, <2>4
  <2>6. QED
    BY <1>1, <1>4, <2>1, <2>2, <2>3, <2>5 DEF Whole
<1>5. CASE kind = "restore"
  <2>1. /\ disk.guard = before.guard /\ disk.geo = before.geo /\ binding = before.binding
        /\ before.guard = "legacy" => SamePolicy(loaded, disk)
        /\ password /\ made = ~before.password
    BY <1>1, <1>5 DEF OperatorInv, RestoredInv
  <2>2. password' = before.password
    BY <1>1, <1>3, <2>1
  <2>3. disk'.guard = "legacy" => SamePolicy(loaded', disk')
    BY <1>1, <2>1 DEF SamePolicy
  <2>4. QED
    BY <1>1, <1>5, <2>1, <2>2, <2>3 DEF Whole
<1>6. QED
  BY <1>2, <1>4, <1>5

LEMMA EndsWhole ==
  ASSUME TypeInv, OperatorInv, OperatorStep, op # "idle", op' = "idle", ~touched, ~spoilt'
  PROVE  Whole
<1>1. ~BeginInstall /\ ~BeginAddLan /\ ~BeginAuth /\ ~BeginStatic /\ ~MakePassword
  BY DEF BeginInstall, BeginAddLan, BeginAuth, BeginStatic, Begins, MakePassword
<1>2. ~InstallWrites /\ ~AddLanWrites /\ ~AuthWrites /\ ~StaticWrites /\ ~TestAndReload /\ ~StepFails
  <2>1. kind \in Kinds /\ (op = "reload" => kind # "restore")
    BY StepsLaw DEF TypeInv, PolicyTyped
  <2>2. kind # "restore" => Handler # "idle"
    BY DEF Handler
  <2>3. QED
    BY <2>1, <2>2 DEF InstallWrites, AddLanWrites, AuthWrites, StaticWrites, Writes, AfterFile, Raises,
       TestAndReload, StepFails
<1>3. ~RestoreUndoes /\ ~HandlerFails
  BY DEF RestoreUndoes, HandlerFails
<1>4. ~spoilt
  <2>1. spoilt' = spoilt
    BY <1>1, <1>2, <1>3
       DEF OperatorStep, Recheck, LocalHeads, Rebind, InstallUndoes, AddLanUndoes, AuthUndoes,
           StaticUndoes, Keeps, UndoReload, DropPassword
  <2>2. QED
    BY <2>1
<1>5. QED
  BY <1>1, <1>2, <1>3, <1>4, RecheckWhole, DoneWhole, UndoesWhole, UndoReloadWhole, DropWhole
     DEF OperatorStep

\* Nobody but the operator ends its run, unless by killing it.
LEMMA OthersEndNothing ==
  ASSUME OriginInv, [OriginNext]_vars, op # "idle", op' = "idle", outcome' # "gone"
  PROVE  OperatorStep
<1>1. policyUnchanged => op' = op
  BY DEF policyUnchanged, originVars
<1>2. ~UNCHANGED vars
  BY DEF vars, originVars
<1>3. ~OperatorKilled /\ ~ForeignReload /\ ~ForeignWrite
  BY DEF OperatorKilled, ForeignReload, ForeignWrite, Ends
<1>4. ~StartTrace /\ ~StartBoot /\ ~Asks /\ ~Tick /\ ~Reboot /\ \A k \in Sessions : ~OwnerCommands(k)
  <2>1. ~StartTrace /\ ~StartBoot
    BY DEF StartTrace, StartBoot
  <2>2. ~Asks
    <3>1. Asks => policyUnchanged
      BY DEF Asks
    <3>2. QED
      BY <1>1, <3>1
  <2>3. ~Tick /\ ~Reboot
    BY <1>1 DEF Tick, Reboot
  <2>4. \A k \in Sessions : ~OwnerCommands(k)
    BY <1>1 DEF OwnerCommands
  <2>5. QED
    BY <2>1, <2>2, <2>3, <2>4
<1>5. \A k \in Sessions : ~WorkerWorks(k)
  BY <1>1 DEF WorkerWorks, Expires, Creates, OpensReload, Only, LoadedOnly
<1>6. ~TraceWorks /\ ~TraceRepairs
  BY <1>1, <1>5
     DEF TraceWorks, TraceReportsWatchdog, TraceActivates, TraceProves, TraceRepaired, TraceWindowEnds,
         TraceRepairs, BeginAddLan, Begins, Only, Turns, Sessions
<1>7. ~BootWorks
  BY <1>1, <1>5
     DEF BootWorks, BootReportsWatchdog, BootActivates, BootRollsBack, BootRolledBack, BootProves,
         BootSeesTransfer, BootCloses, BootCloseFails, BootVerified, BootWindowEnds, Only, Turns, LoadedOnly,
         Sessions
<1>8. \A k \in Sessions : ~Removes(k)
  BY <1>1 DEF Removes, Unlinks, GoesOn, RemovesReload, RaisesLate, WorkerCleaned, DogWakes, DogDone, FilesOnly
<1>9. \A k \in Sessions : ~SessionFails(k)
  BY <1>1 DEF SessionFails, OpeningFails, Turns, RemovalFails, WorkerDies, Mishap, Ends
<1>10. QED
  BY <1>2, <1>3, <1>4, <1>6, <1>7, <1>8, <1>9 DEF OriginNext, OperatorMoves

\* A run that nobody wrote into ends with its own policy on the disk, in nginx
\* and bound by the gateway, or with everything as it found it, the password
\* file included: activate, its handler, restore and the other operators' ends.
THEOREM RunsEndWhole == OriginSpec => RunsAreWhole
<1>1. OriginInv /\ [OriginNext]_vars =>
        [(op # "idle" /\ op' = "idle" /\ ~touched /\ ~spoilt' /\ outcome' # "gone") => Whole]_originVars
  BY InvParts, OthersEndNothing, EndsWhole
<1>2. QED
  BY <1>1, OriginInvHolds, PTL DEF OriginSpec, RunsAreWhole

=============================================================================
