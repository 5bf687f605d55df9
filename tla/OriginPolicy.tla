--------------------------- MODULE OriginPolicy -----------------------------
(***************************************************************************)
(* The operators that change who may read the OTA files from the NAS.  The  *)
(* policy is two nginx files, the HTTP-level one (geo and maps) and the     *)
(* include of the OTA server (guard), a password file, and the binding: the *)
(* digests of the two files in the gateway's configuration.                 *)
(*                                                                         *)
(*   install  install_ota_origin_guard.py    creates both files             *)
(*   addlan   update_ota_origin_guard.py     adds a LAN to the geo          *)
(*   auth     install_authenticated_ota.py   replaces both                  *)
(*   restore  its restore(), for a session that is rolled back              *)
(*   static   repair_ota_static_origin.py    replaces the guard             *)
(*                                                                         *)
(* Each writes file after file, has nginx test and reload, asks for the     *)
(* files locally and rebinds the gateway; when a step fails it puts back    *)
(* what it replaced.  nginx serves what it last loaded.  Other software of  *)
(* the NAS reloads nginx when it likes, and may write the same files; the   *)
(* operator can be killed and the NAS restart between any two steps.  Two   *)
(* of these operators do not run at a time.                                 *)
(*                                                                         *)
(* A file is known by its contents: what an operator renders, or something  *)
(* foreign, which nginx can load.                                           *)
(***************************************************************************)
EXTENDS OriginAccess, FiniteSets, Sequences

CONSTANTS
  Starts,      \* the configurations the NAS may start with
  MaxRuns,     \* bound: runs of the operators
  MaxEvents    \* bound: failing steps, killed processes, restarts, writes by
               \* others, and sessions

ASSUME OriginAssumption ==
  /\ Starts \subseteq {"bare", "guarded", "authenticated"}
  /\ MaxRuns \in Nat /\ MaxEvents \in Nat

VARIABLES
  disk,      \* the files: geo, guard, and those of the sessions
  loaded,    \* what nginx runs with
  binding,   \* the gateway's origin_guard_hashes: the contents they stand for
  password,  \* htpasswd is there
  op,        \* the operator's next step
  kind,      \* which operator it is
  before,    \* what it read at its start, with nginx's configuration then
  changed,   \* the files it has replaced
  made,      \* it created htpasswd
  outcome,   \* how the last run ended
  touched,   \* someone else wrote since its start
  spoilt,    \* history: a step of a handler has failed
  guarded,   \* history: an installation has ended, the image is closed
  runs, events

originVars == <<disk, loaded, binding, password, op, kind, before, changed, made,
                outcome, touched, spoilt, guarded, runs, events>>

Policies == {"none", "legacy", "lan", "auth", "static", "foreign"}
Kinds == {"none", "install", "addlan", "auth", "restore", "static"}
Outcomes == {"none", "done", "failed", "refused", "unconfirmed", "gone"}
Steps == {"idle", "recheck", "geo", "guard", "reload", "heads", "bind", "undo_guard", "undo_geo",
          "undo_bind", "undo_reload", "password", "drop_password"}

\* The files of the two kinds of session, in the order they are created.
TraceFiles == {"trace_http", "trace_server", "load_http", "load_server"}
BootFiles == {"observe_http", "observe_location", "time", "peer"}

\* The steps each operator has.
StepsOf(k) ==
  {"idle"} \cup
  CASE k = "none"    -> {}
    [] k = "install" -> {"recheck", "geo", "guard", "reload", "heads", "undo_guard", "undo_geo", "undo_reload"}
    [] k = "addlan"  -> {"recheck", "geo", "reload", "heads", "bind", "undo_geo", "undo_reload"}
    [] k = "auth"    -> Steps
    [] k = "restore" -> {"undo_guard", "undo_geo", "undo_bind", "undo_reload", "drop_password"}
    [] OTHER         -> {"recheck", "guard", "reload", "heads", "bind", "undo_guard", "undo_bind", "undo_reload"}

\* What an operator replaces with what.
Target(k, file) ==
  CASE k = "install" -> "legacy"
    [] k = "addlan"  -> "lan"
    [] k = "auth"    -> "auth"
    [] k = "static"  -> "static"
    [] OTHER         -> before[file]

-----------------------------------------------------------------------------
(* nginx.                                                                  *)

\* The configuration loads: the guard uses variables that geo defines, and a
\* log is written in a format that is defined.  The loaders bring a trace's
\* runtime files in, geo and guard those of a bootstrap.
Loads(c) ==
  /\ c.guard = "legacy" => c.geo # "none"
  /\ c.guard \in {"auth", "static"} => c.geo \in {"auth", "foreign"}
  /\ {"load_server", "trace_server"} \subseteq c.files => {"load_http", "trace_http"} \subseteq c.files
  /\ (c.guard \in {"auth", "static"} /\ "observe_location" \in c.files) => "observe_http" \in c.files

\* One of the events the model has a bound for.
Happens == events < MaxEvents /\ events' = events + 1

Bound == [geo |-> disk.geo, guard |-> disk.guard]

\* What a request gets under c, when the time entry is valid or not.
Allowed(c) == IF c.geo = "lan" THEN Home \cup {"nas_lan"} ELSE Home
Access(c, valid, r) ==
  CASE c.guard = "legacy" -> GuardAnswer(Allowed(c), r)
    [] c.guard \in {"auth", "static"} ->
         LET peers == IF "peer" \in c.files THEN {"field"} ELSE {}
             realm == Realm(Allowed(c), peers, "time" \in c.files /\ valid, r)
         IN \* auth_basic without its file refuses whoever names himself
            IF r.uri \in OtaUris /\ realm # "off" /\ r.user # "none" /\ ~password THEN 403
            ELSE AuthAnswer(realm, {"right"}, r)
    [] OTHER -> 200

HeadLocal(c) == \A uri \in OtaUris : Access(c, FALSE, Request(uri, "HEAD", "127.0.0.1", "none")) = 200

Reload == Loads(disk) /\ loaded' = disk

\* Other software has nginx reload.
ForeignReload ==
  /\ loaded # disk /\ Reload
  /\ UNCHANGED <<disk, binding, password, op, kind, before, changed, made, outcome,
                 touched, spoilt, guarded, runs, events>>

\* Someone writes one of the files the operators write, or the gateway's, while
\* an operator is between two of its steps.
ForeignWrite ==
  /\ op # "idle" /\ Happens /\ touched' = TRUE
  /\ \/ \E file \in {"geo", "guard"} :
          /\ disk[file] # "foreign"
          /\ disk' = [disk EXCEPT ![file] = "foreign"] /\ UNCHANGED binding
     \/ /\ binding' = [geo |-> "foreign", guard |-> "foreign"] /\ UNCHANGED disk
  /\ UNCHANGED <<loaded, password, op, kind, before, changed, made, outcome, spoilt,
                 guarded, runs>>

Ends(result) == op' = "idle" /\ outcome' = result

\* The operator is killed.
OperatorKilled ==
  /\ op # "idle" /\ Happens
  /\ Ends("gone")
  /\ UNCHANGED <<disk, loaded, binding, password, kind, before, changed, made, touched,
                 spoilt, guarded, runs>>

-----------------------------------------------------------------------------
(* The operators: what they read, validate and read again.                 *)

Snapshot == [geo |-> disk.geo, guard |-> disk.guard, binding |-> binding,
             password |-> password,
             loaded |-> [geo |-> loaded.geo, guard |-> loaded.guard]]

Begins(k, next) ==
  /\ op = "idle" /\ runs < MaxRuns /\ runs' = runs + 1
  /\ kind' = k /\ op' = next /\ before' = Snapshot
  /\ changed' = {} /\ made' = FALSE /\ outcome' = "none"
  /\ touched' = FALSE
  /\ UNCHANGED <<disk, loaded, binding, password, spoilt, guarded, events>>

\* What the private fixtures of the plans try.
GuardFixture == GuardFixturePasses(Home)
LanFixture == GuardFixturePasses(Home \cup {"nas_lan"})
AuthFixtures == \A peers \in {{}, {"field"}} : AuthFixturePasses(Home, peers, FALSE)

\* The plan, a private copy of the whole nginx tree with the candidates, the
\* fixture's cases and the local routes.
BeginInstall ==
  /\ HeadLocal(loaded) /\ GuardFixture
  /\ Begins("install", "recheck")

\* add_lan and the digests: the installed pair is the plan's and is bound.
BeginAddLan ==
  /\ disk.geo = "legacy" /\ disk.guard = "legacy" /\ binding = Bound
  /\ HeadLocal(loaded) /\ LanFixture
  /\ Begins("addlan", "recheck")

\* The legacy pair, bound; no trace is installed and no bootstrap runs.
BeginAuth ==
  /\ disk.geo = "legacy" /\ disk.guard = "legacy" /\ binding = Bound
  /\ "load_http" \notin disk.files /\ disk.files \cap BootFiles = {}
  /\ Begins("auth", "password")

\* A static origin takes the place of the proxy in an authenticated guard.
BeginStatic ==
  /\ disk.guard = "auth" /\ binding.guard = "auth"
  /\ Begins("static", "recheck")

\* htpasswd is made before anything is validated against it.
MakePassword ==
  /\ op = "password"
  /\ password' = TRUE /\ made' = ~password
  /\ op' = "recheck"
  /\ UNCHANGED <<disk, loaded, binding, kind, before, changed, outcome, touched, spoilt,
                 guarded, runs, events>>

\* What was read at the start is read again, right before the first write.
StillAsRead ==
  IF kind = "install" THEN disk.geo = "none" /\ disk.guard = "none"
  ELSE disk.guard = before.guard /\ binding = before.binding
       /\ (kind = "static" \/ disk.geo = before.geo)

Recheck ==
  /\ op = "recheck"
  /\ (kind = "auth" => AuthFixtures)
  /\ IF StillAsRead THEN op' = (IF kind = "static" THEN "guard" ELSE "geo") /\ UNCHANGED outcome
     ELSE IF kind = "auth" THEN op' = "drop_password" /\ outcome' = "refused"
     ELSE Ends("refused")
  /\ UNCHANGED <<disk, loaded, binding, password, kind, before, changed, made, touched,
                 spoilt, guarded, runs, events>>

-----------------------------------------------------------------------------
(* Activation.                                                             *)

Handler == CASE kind = "addlan" -> "undo_geo" [] kind = "restore" -> "idle" [] OTHER -> "undo_guard"

\* Fault: a LAN that has been added is followed by the guard.
AfterFileAlways(file) == IF file = "geo" THEN "guard" ELSE "reload"

AfterFile(file) == IF file = "geo" /\ kind # "addlan" THEN "guard" ELSE "reload"

Writes(file) ==
  /\ disk' = [disk EXCEPT ![file] = Target(kind, file)]
  /\ changed' = changed \cup {file}
  /\ op' = AfterFile(file)

\* A step of the activation that raises, and the step it raises in.
Raises ==
  /\ op' = Handler
  /\ UNCHANGED <<disk, changed>>

\* create: exclusive, so a file that has appeared is an error.
InstallWrites ==
  /\ kind = "install" /\ op \in {"geo", "guard"}
  /\ IF disk[op] = "none" THEN Writes(op) ELSE Raises
  /\ UNCHANGED <<loaded, binding, password, kind, before, made, outcome, touched, spoilt,
                 guarded, runs, events>>

\* replace, which looks at nothing.
AddLanWrites ==
  /\ kind = "addlan" /\ op = "geo" /\ Writes("geo")
  /\ UNCHANGED <<loaded, binding, password, kind, before, made, outcome, touched, spoilt,
                 guarded, runs, events>>

\* activate: each file is compared with what was read, and replaced.  The two
\* are one step: a foreign write between them is not modelled.
AuthWrites ==
  /\ kind = "auth" /\ op \in {"geo", "guard"}
  /\ IF disk[op] = before[op] THEN Writes(op) ELSE Raises
  /\ UNCHANGED <<loaded, binding, password, kind, before, made, outcome, touched, spoilt,
                 guarded, runs, events>>

StaticWrites ==
  /\ kind = "static" /\ op = "guard" /\ Writes("guard")
  /\ UNCHANGED <<loaded, binding, password, kind, before, made, outcome, touched, spoilt,
                 guarded, runs, events>>

\* nginx -t, nginx -s reload.
TestAndReload ==
  /\ op = "reload"
  /\ IF Loads(disk) THEN Reload /\ op' = "heads" ELSE op' = Handler /\ UNCHANGED loaded
  /\ UNCHANGED <<disk, binding, password, kind, before, changed, made, outcome, touched,
                 spoilt, guarded, runs, events>>

\* head_local, live_content: the local routes answer as they did.
LocalHeads ==
  /\ op = "heads"
  /\ IF ~HeadLocal(loaded) THEN op' = Handler /\ UNCHANGED <<outcome, guarded>>
     ELSE IF kind = "install" THEN Ends("done") /\ guarded' = TRUE
     ELSE op' = "bind" /\ UNCHANGED <<outcome, guarded>>
  /\ UNCHANGED <<disk, loaded, binding, password, kind, before, changed, made, touched,
                 spoilt, runs, events>>

\* The binding the gateway gets: the digests of what was written.
NewBinding == IF kind = "static" THEN [before.binding EXCEPT !.guard = "static"]
              ELSE IF kind = "addlan" THEN [before.binding EXCEPT !.geo = "lan"]
              ELSE [geo |-> "auth", guard |-> "auth"]

Rebind ==
  /\ op = "bind"
  /\ IF binding = before.binding THEN binding' = NewBinding /\ Ends("done")
     ELSE op' = Handler /\ UNCHANGED <<binding, outcome>>
  /\ UNCHANGED <<disk, loaded, password, kind, before, changed, made, touched, spoilt,
                 guarded, runs, events>>

\* A write, a command or a request fails; what was not written stays as it was.
\* A create that fails half-way, and leaves a file that the handler does not
\* know, is not modelled.
StepFails ==
  /\ op \in {"geo", "guard", "reload", "heads", "bind"} /\ kind # "restore"
  /\ Happens
  /\ op' = Handler
  /\ loaded' \in {loaded} \cup (IF op = "reload" /\ Loads(disk) THEN {disk} ELSE {})
  /\ UNCHANGED <<disk, binding, password, kind, before, changed, made, outcome, touched,
                 spoilt, guarded, runs>>

-----------------------------------------------------------------------------
(* Handlers: guard before geo, so that what is on the disk always loads.    *)

UndoStep == [geo |-> "undo_geo", guard |-> "undo_guard"]
PutBack(file) == disk' = [disk EXCEPT ![file] = before[file]]
Keeps == UNCHANGED <<loaded, password, kind, before, changed, made, touched, spoilt,
                     guarded, runs, events>>

\* What install created is unlinked, if it still is what it created.
InstallUndoes ==
  /\ kind = "install" /\ Keeps /\ UNCHANGED binding
  /\ \E file \in {"geo", "guard"} :
       /\ op = UndoStep[file]
       /\ IF file \in changed /\ disk[file] # "legacy" THEN Ends("refused") /\ UNCHANGED disk
          ELSE /\ (IF file \in changed THEN PutBack(file) ELSE UNCHANGED disk)
               /\ op' = (IF file = "guard" THEN "undo_geo" ELSE "undo_reload")
               /\ UNCHANGED outcome

\* The geo goes back; the binding was not written yet.
AddLanUndoes ==
  /\ kind = "addlan" /\ op = "undo_geo" /\ Keeps /\ UNCHANGED binding
  /\ IF disk.geo # "lan" THEN Ends("refused") /\ UNCHANGED disk
     ELSE PutBack("geo") /\ op' = "undo_reload" /\ UNCHANGED outcome

\* activate's handler: the replaced files, the binding, and no guess about a
\* file that someone else has changed (RollbackUnconfirmed keeps htpasswd).
\* Compare and replace are one step here too.
AuthUndoes ==
  /\ kind = "auth" /\ Keeps
  /\ \/ \E file \in {"geo", "guard"} :
          /\ op = UndoStep[file] /\ UNCHANGED binding
          /\ IF file \in changed /\ disk[file] # "auth" THEN Ends("unconfirmed") /\ UNCHANGED disk
             ELSE /\ (IF file \in changed THEN PutBack(file) ELSE UNCHANGED disk)
                  /\ op' = (IF file = "guard" THEN "undo_geo" ELSE "undo_bind")
                  /\ UNCHANGED outcome
     \/ /\ op = "undo_bind" /\ UNCHANGED disk
        /\ IF binding \notin {before.binding, NewBinding} THEN Ends("unconfirmed") /\ UNCHANGED binding
           ELSE binding' = before.binding /\ op' = "undo_reload" /\ UNCHANGED outcome

StaticUndoes ==
  /\ kind = "static" /\ Keeps
  /\ \/ /\ op = "undo_guard" /\ UNCHANGED binding
        /\ IF disk.guard # "static" \/ binding \notin {before.binding, NewBinding}
           THEN Ends("refused") /\ UNCHANGED disk
           ELSE PutBack("guard") /\ op' = "undo_bind" /\ UNCHANGED outcome
     \/ /\ op = "undo_bind" /\ binding' = before.binding
        /\ op' = "undo_reload" /\ UNCHANGED <<disk, outcome>>

\* restore(): everything is compared first, then put back in the same order.
BeginRestore(saved, activated, createdPassword) ==
  /\ op = "idle" /\ disk.geo = "auth" /\ disk.guard = "auth"
  /\ binding = [geo |-> "auth", guard |-> "auth"]
  /\ kind' = "restore" /\ before' = saved /\ made' = createdPassword
  /\ op' = (IF activated THEN "undo_guard" ELSE "drop_password")
  /\ outcome' = "done" /\ changed' = {} /\ touched' = FALSE
  /\ UNCHANGED <<disk, loaded, binding, password, spoilt, guarded, runs, events>>

\* Fault: the gateway keeps the digests of the policy that was taken back.
RestoreUndoesFiles ==
  /\ kind = "restore" /\ Keeps /\ UNCHANGED <<outcome, binding>>
  /\ \/ op = "undo_guard" /\ PutBack("guard") /\ op' = "undo_geo"
     \/ op = "undo_geo" /\ PutBack("geo") /\ op' = "undo_reload"

RestoreUndoes ==
  /\ kind = "restore" /\ Keeps /\ UNCHANGED outcome
  /\ \/ op = "undo_guard" /\ PutBack("guard") /\ op' = "undo_geo" /\ UNCHANGED binding
     \/ op = "undo_geo" /\ PutBack("geo") /\ op' = "undo_bind" /\ UNCHANGED binding
     \/ op = "undo_bind" /\ binding' = before.binding /\ op' = "undo_reload" /\ UNCHANGED disk

\* nginx gets the preserved configuration again.
UndoReload ==
  /\ op = "undo_reload" /\ Reload
  /\ IF kind \in {"auth", "restore"}
     THEN op' = "drop_password" /\ outcome' = (IF kind = "auth" THEN "failed" ELSE outcome)
     ELSE Ends("failed")
  /\ UNCHANGED <<disk, binding, password, kind, before, changed, made, touched, spoilt,
                 guarded, runs, events>>

\* execute's finally, or the end of restore: a password this run created goes.
DropPassword ==
  /\ op = "drop_password"
  /\ password' = (password /\ ~made)
  /\ Ends(outcome)
  /\ UNCHANGED <<disk, loaded, binding, kind, before, changed, made, touched, spoilt,
                 guarded, runs, events>>

\* A step of a handler fails: the operator gives up where it is.  Only a reload
\* that fails, of activate's handler, counts as unconfirmed.
HandlerFails ==
  /\ op \in {"undo_guard", "undo_geo", "undo_bind", "undo_reload"}
  /\ Happens /\ spoilt' = TRUE
  /\ IF kind = "auth" /\ op = "undo_reload" THEN Ends("unconfirmed")
     ELSE IF kind = "auth" THEN op' = "drop_password" /\ outcome' = "failed"
     ELSE Ends("failed")
  /\ UNCHANGED <<disk, loaded, binding, password, kind, before, changed, made, touched,
                 guarded, runs>>

-----------------------------------------------------------------------------

OriginInit ==
  /\ \E start \in Starts :
       LET policy == CASE start = "bare" -> "none" [] start = "guarded" -> "legacy" [] OTHER -> "auth"
       IN /\ disk = [geo |-> policy, guard |-> policy, files |-> {}]
          /\ binding = [geo |-> policy, guard |-> policy]
          /\ password = (start = "authenticated")
          /\ guarded = (start # "bare")
          /\ events = IF start = "authenticated" THEN 1 ELSE 0   \* bound: one event less
  /\ loaded = disk /\ op = "idle" /\ kind = "none" /\ before = Snapshot /\ changed = {}
  /\ made = FALSE /\ outcome = "none" /\ touched = FALSE /\ spoilt = FALSE
  /\ runs = 0

OperatorStep ==
  \/ BeginInstall \/ BeginAddLan \/ BeginAuth \/ BeginStatic \/ MakePassword \/ Recheck
  \/ InstallWrites \/ AddLanWrites \/ AuthWrites \/ StaticWrites
  \/ TestAndReload \/ LocalHeads \/ Rebind \/ StepFails
  \/ InstallUndoes \/ AddLanUndoes \/ AuthUndoes \/ StaticUndoes \/ RestoreUndoes
  \/ UndoReload \/ DropPassword \/ HandlerFails

-----------------------------------------------------------------------------
(* What has to hold.                                                       *)

Configurations == [geo : Policies, guard : Policies, files : SUBSET (TraceFiles \cup BootFiles)]
Bindings == [geo : Policies, guard : Policies]

OriginTypeOK ==
  /\ disk \in Configurations /\ loaded \in Configurations
  /\ binding \in Bindings /\ password \in BOOLEAN
  /\ op \in StepsOf(kind) /\ kind \in Kinds /\ outcome \in Outcomes
  /\ before.geo \in Policies /\ before.guard \in Policies /\ before.binding \in Bindings
  /\ before.loaded \in Bindings /\ before.password \in BOOLEAN
  /\ changed \subseteq {"geo", "guard"}
  /\ made \in BOOLEAN /\ touched \in BOOLEAN /\ spoilt \in BOOLEAN /\ guarded \in BOOLEAN

\* Whatever instant nginx is reloaded at, or the NAS restarts, the files on the
\* disk are a configuration that loads: geo before the guard that uses it, and
\* in every handler and cleanup the other way round.
DiskLoads == Loads(disk)

SamePolicy(c, d) == c.geo = d.geo /\ c.guard = d.guard

\* A run that nobody wrote into ends with its own policy on the disk, in nginx
\* and bound by the gateway, or, as long as its handler meets no failure of
\* its own, with everything as it found it, the password file included.  What
\* an operator that was killed has left in nginx is not its concern: restore()
\* reloads only if there was something to put back.
Whole ==
  LET same == /\ disk'.geo = before.geo /\ disk'.guard = before.guard
              /\ binding' = before.binding /\ password' = before.password
  IN IF kind = "restore" THEN same /\ (disk'.guard = "legacy" => SamePolicy(loaded', disk'))
     ELSE /\ outcome' = "done" =>
                /\ disk'.guard = (IF kind = "addlan" THEN "legacy" ELSE Target(kind, "guard"))
                /\ SamePolicy(loaded', disk')
                /\ kind = "install" \/ binding'.guard = disk'.guard
                /\ kind \in {"install", "static"} \/ binding'.geo = disk'.geo
          /\ outcome' \in {"failed", "refused"} =>
                same /\ (SamePolicy(loaded', disk') \/ SamePolicy(loaded', before.loaded))

RunsAreWhole ==
  [][(op # "idle" /\ op' = "idle" /\ ~touched /\ ~spoilt' /\ outcome' # "gone") => Whole]_originVars
=============================================================================
