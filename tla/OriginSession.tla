--------------------------- MODULE OriginSession ----------------------------
(***************************************************************************)
(* The two bounded sessions on top of the policy.  A trace                  *)
(* (observe_ota_origin.py) logs who asks for the OTA files, and may add the *)
(* LAN a box was refused from.  A bootstrap (bootstrap_authenticated_ota.py)*)
(* follows the installation of the authenticated policy: for one window,    *)
(* and with the owner's consent, one public peer gets the image without a   *)
(* password.                                                                *)
(*                                                                         *)
(* Both fork a worker and the worker forks a watchdog.  The worker waits    *)
(* for the owner, who writes his command over the report of the session,    *)
(* creates files one after the other, reloads nginx, proves its capture,    *)
(* observes until the window ends, and removes its files.  The watchdog     *)
(* sleeps through the longest session and removes what it still finds.      *)
(* Worker, watchdog, operators and the rest of the NAS interleave freely.   *)
(*                                                                         *)
(* Time passes in steps.  Creating, proving and observing end before the    *)
(* watchdog's alarm, which is what its 90 seconds are for; removing may     *)
(* take longer and overlap with it.                                         *)
(***************************************************************************)
EXTENDS OriginPolicy

CONSTANTS
  Wait,        \* the worker waits this long for a command (600 s)
  Window,      \* the session's window (300 s)
  Slack        \* what the watchdog adds to the two (90 s)

ASSUME SessionAssumption ==
  {Wait, Window, Slack} \subseteq Nat \ {0}

VARIABLES
  now,
  worker,    \* of each session: what its worker does
  dog,       \* of each session: its watchdog
  since,     \* of each session: when its worker was forked
  until,     \* of each session: when its window ends, 0 before it opens
  response,  \* of each session: what is in its report file
  consent,   \* public_bootstrap_authorized
  saved,     \* what the installation that led to the bootstrap can restore
  seen,      \* what the request logs hold that a worker looks for
  repaired,  \* the trace has added a LAN
  closed,    \* the bootstrap has closed its peer's opening after the transfer
  dropped,   \* who has unlinked a file and not reloaded nginx since
  missed,    \* who has looked for a file that the other then unlinked
  gaveUp,    \* history: who died, or raised in its last removal, with files left
  stranded   \* history: nginx was not reloaded after the last file had gone

sessionVars == <<now, worker, dog, since, until, response, consent, saved, seen, repaired,
                 closed, dropped, missed, gaveUp, stranded>>
vars == <<originVars, sessionVars>>

Sessions == {"trace", "boot"}
Waits == {"forked", "waiting"}
Busy == {"creating", "testing", "proving"}
Cleans == {"undoing", "cleaning"}
WorkerStages == {"none", "repairing", "restoring", "active", "closing", "gone"} \cup Waits \cup Busy \cup Cleans
Alive(k) == worker[k] \notin {"none", "gone"}
Locked(k) == Alive(k) \/ dog[k] \in {"asleep", "cleaning"}
Alarm(k) == since[k] + Wait + Window + Slack

FilesOf(k) == IF k = "trace" THEN TraceFiles ELSE BootFiles
Alone == \A k \in Sessions : worker[k] = "none"
Left(k) == FilesOf(k) \cap disk.files

Becomes(k, stage) == worker' = [worker EXCEPT ![k] = stage]
Reports(k, text) == response' = [response EXCEPT ![k] = text]

-----------------------------------------------------------------------------
(* Files come and go one at a time.                                         *)

\* Fault: the server's loader comes before the format it logs in.
CreationOrderServerFirst(k) ==
  IF k = "trace" THEN <<"load_server", "trace_server", "trace_http", "load_http">>
  ELSE <<"observe_http", "observe_location">> \o (IF consent THEN <<"time", "peer">> ELSE <<>>)

\* start_trace's files; start_session's, the last two with the owner's consent.
CreationOrder(k) ==
  IF k = "trace" THEN <<"trace_http", "trace_server", "load_http", "load_server">>
  ELSE <<"observe_http", "observe_location">> \o (IF consent THEN <<"time", "peer">> ELSE <<>>)

\* reversed(files): all_files lists the peer before the time, written after it.
RemovalOrder(k, undoing) ==
  IF k = "trace" THEN <<"load_server", "load_http", "trace_server", "trace_http">>
  ELSE (IF undoing THEN <<"peer", "time">> ELSE <<"time", "peer">>) \o <<"observe_location", "observe_http">>

First(order, files) ==
  order[CHOOSE i \in DOMAIN order : order[i] \in files /\ \A j \in 1..(i-1) : order[j] \notin files]

Removing(k, who) == IF who = "dog" THEN dog[k] = "cleaning" ELSE worker[k] \in Cleans
NextFile(k, who) == First(RemovalOrder(k, who = "worker" /\ worker[k] = "undoing"), Left(k))

\* remove_exact, up to one unlink, by worker or watchdog.  The other of the two may
\* be at the same file, with exists() behind it and stat() or read_bytes() to come.
Unlink(k, who) ==
  /\ Left(k) # {} /\ <<k, who>> \notin missed
  /\ disk' = [disk EXCEPT !.files = @ \ {NextFile(k, who)}]
  /\ dropped' = dropped \cup {<<k, who>>}
  /\ \E late \in SUBSET ({"worker", "dog"} \ {who}) :
       /\ \A other \in late : Removing(k, other) /\ NextFile(k, other) = NextFile(k, who)
       /\ missed' = missed \cup ({k} \X late)

\* Only a file that goes between read_bytes() and unlink() is passed over.
PassesOver(k, who) == <<k, who>> \in missed /\ missed' = missed \ {<<k, who>>}

\* Its end: nginx is tested and reloaded if this call unlinked anything.
RemovalReload(k, who) ==
  /\ Left(k) = {} /\ <<k, who>> \in dropped /\ <<k, who>> \notin missed
  /\ Reload /\ dropped' = dropped \ {<<k, who>>}
  /\ UNCHANGED disk

Removed(k, who) == Left(k) = {} /\ <<k, who>> \notin dropped \cup missed

\* A call that raises, or whose process dies, forgets what it has done.
Forgets(k, whos) ==
  /\ dropped' = dropped \ ({k} \X whos) /\ missed' = missed \ ({k} \X whos)
  /\ stranded' = (stranded \/ (Left(k) = {} /\ dropped \cap ({k} \X whos) # {}))

\* With files left, that nobody who has given up comes back for.
GivesUp(k, who) == gaveUp' = gaveUp \cup (IF Left(k) = {} THEN {} ELSE {<<k, who>>})

-----------------------------------------------------------------------------
(* Starting, and the owner.                                                 *)

policyUnchanged == UNCHANGED originVars

Forks(k) ==
  /\ Happens /\ Alone   \* bound: one session
  /\ Becomes(k, "forked") /\ dog' = [dog EXCEPT ![k] = "asleep"]
  /\ since' = [since EXCEPT ![k] = now]
  /\ Reports(k, "report")
  /\ UNCHANGED <<disk, loaded, binding, password, op, kind, before, changed, made, outcome,
                 touched, spoilt, guarded, runs>>
  /\ UNCHANGED <<now, until, seen, repaired, closed, dropped, missed, gaveUp, stranded>>

\* The guard as the plan renders it, bound by the gateway, and no loader.
StartTrace ==
  /\ op = "idle" /\ disk.geo = "legacy" /\ disk.guard = "legacy" /\ binding = Bound
  /\ ~Locked("trace") /\ {"load_http", "load_server"} \cap disk.files = {}
  /\ Forks("trace")
  /\ UNCHANGED <<consent, saved>>

AuthBound == disk.geo = "auth" /\ disk.guard = "auth" /\ binding = Bound

\* After execute has activated the policy, or found it active.
StartBoot ==
  /\ op = "idle" /\ AuthBound /\ password
  /\ ~Locked("boot") /\ Left("boot") = {} /\ "load_http" \notin disk.files
  /\ consent' \in BOOLEAN
  /\ saved' \in {[activated |-> FALSE, before |-> Snapshot, made |-> FALSE]}
       \cup (IF kind = "auth" /\ outcome = "done"
             THEN {[activated |-> TRUE, before |-> before, made |-> made]} ELSE {})
  /\ Forks("boot")

\* The owner writes a command over the report.
OwnerCommands(k) ==
  /\ worker[k] \in Waits
  /\ \E command \in {"activate"} \cup (IF k = "boot" THEN {"rollback"} ELSE {}) :
       response[k] # command /\ Reports(k, command)
  /\ policyUnchanged
  /\ UNCHANGED <<now, worker, dog, since, until, consent, saved, seen, repaired, closed, dropped, missed, gaveUp, stranded>>

Only(k, stage) ==
  /\ Becomes(k, stage)
  /\ policyUnchanged
  /\ UNCHANGED <<now, dog, since, until, response, consent, saved, seen, repaired, closed, dropped, missed, gaveUp, stranded>>

\* Once it has forked the watchdog the worker reports again, over whatever the
\* owner has written in the meantime.
TraceReportsWatchdog ==
  /\ worker["trace"] = "forked" /\ Becomes("trace", "waiting") /\ Reports("trace", "report")
  /\ policyUnchanged
  /\ UNCHANGED <<now, dog, since, until, consent, saved, seen, repaired, closed, dropped, missed, gaveUp, stranded>>
BootReportsWatchdog ==
  /\ worker["boot"] = "forked" /\ Becomes("boot", "waiting") /\ Reports("boot", "report")
  /\ policyUnchanged
  /\ UNCHANGED <<now, dog, since, until, consent, saved, seen, repaired, closed, dropped, missed, gaveUp, stranded>>

-----------------------------------------------------------------------------
(* What a worker does with a command.                                       *)

NoSaved == [activated |-> FALSE]

\* What a worker has in its memory goes with it, and nobody looks at its log.
Forgotten == saved' = NoSaved /\ seen' = {} /\ repaired' = FALSE
Gone(k) == Becomes(k, "gone") /\ Forgotten

\* Once it has turned to its removal it acts on neither any more.
Turns(k, stage) ==
  /\ Becomes(k, stage) /\ Forgotten
  /\ policyUnchanged
  /\ UNCHANGED <<now, dog, since, until, response, consent, closed, dropped, missed, gaveUp, stranded>>

\* The end of a worker and its last report.  Everything is removed as far as it
\* knows: it kills the watchdog, in whatever that is doing.
EndsClean(k) ==
  /\ Gone(k) /\ dog' = [dog EXCEPT ![k] = "gone"]
  /\ Forgets(k, {"dog"}) /\ Reports(k, "report")
  /\ UNCHANGED <<now, since, until, consent, closed, gaveUp>>

\* The wait is over, or SIGTERM.
Expires(k) == worker[k] = "waiting" /\ EndsClean(k) /\ policyUnchanged

TraceActivates ==
  /\ worker["trace"] = "waiting" /\ response["trace"] = "activate"
  /\ IF disk.geo = "legacy" /\ disk.guard = "legacy" /\ binding = Bound /\ Left("trace") = {}
     THEN Only("trace", "creating")
     ELSE EndsClean("trace") /\ policyUnchanged

\* verify_policy, the published artifact read locally, and the files' absence;
\* the peer may have gone, or the artifact changed.
BootActivates ==
  /\ worker["boot"] = "waiting" /\ response["boot"] = "activate"
  /\ \/ /\ AuthBound /\ password /\ HeadLocal(loaded) /\ Left("boot") = {}
        /\ Becomes("boot", "creating") /\ until' = [until EXCEPT !["boot"] = now + Window]
        /\ saved' = NoSaved   \* only a worker that waits is told to roll back
        /\ UNCHANGED <<now, dog, since, response, consent, seen, repaired, closed, dropped, missed, gaveUp, stranded>>
     \/ EndsClean("boot")
  /\ policyUnchanged

\* The command to roll back runs restore() in the worker.
BootRollsBack ==
  /\ worker["boot"] = "waiting" /\ response["boot"] = "rollback" /\ op = "idle"
  /\ IF AuthBound
     THEN /\ BeginRestore(saved.before, saved.activated, saved.made)
          /\ Becomes("boot", "restoring")
          /\ UNCHANGED <<now, dog, since, until, response, consent, saved, seen, repaired, closed, dropped, missed, gaveUp, stranded>>
     ELSE EndsClean("boot") /\ policyUnchanged
BootRolledBack ==
  worker["boot"] = "restoring" /\ op = "idle" /\ EndsClean("boot") /\ policyUnchanged

-----------------------------------------------------------------------------
(* Opening.                                                                 *)

\* guard.create, one file at a time.
Creates(k) ==
  LET missing == {CreationOrder(k)[i] : i \in DOMAIN CreationOrder(k)} \ disk.files
  IN /\ worker[k] = "creating"
     /\ IF missing = {} THEN Only(k, "testing")
        ELSE /\ disk' = [disk EXCEPT !.files = @ \cup {First(CreationOrder(k), missing)}]
             /\ UNCHANGED <<loaded, binding, password, op, kind, before, changed, made, outcome,
                            touched, spoilt, guarded, runs, events, sessionVars>>

LoadedOnly == UNCHANGED <<disk, binding, password, op, kind, before, changed, made, outcome,
                          touched, spoilt, guarded, runs, events>>

OpensReload(k) ==
  /\ worker[k] = "testing" /\ Reload /\ LoadedOnly
  /\ Becomes(k, "proving") /\ Reports(k, "report")
  /\ UNCHANGED <<now, dog, since, until, consent, saved, seen, repaired, closed, dropped, missed, gaveUp, stranded>>

Logs(k) == IF k = "trace" THEN TraceFiles \subseteq loaded.files
           ELSE {"observe_http", "observe_location"} \subseteq loaded.files

\* capture_self_check: a request of its own shows up in the log.  The trace's
\* window starts here, the bootstrap's started when it opened.
TraceProves ==
  /\ worker["trace"] = "proving" /\ Logs("trace")
  /\ Becomes("trace", "active") /\ until' = [until EXCEPT !["trace"] = now + Window]
  /\ policyUnchanged
  /\ UNCHANGED <<now, dog, since, response, consent, saved, seen, repaired, closed, dropped, missed, gaveUp, stranded>>
BootProves == worker["boot"] = "proving" /\ Logs("boot") /\ Only("boot", "active")

\* A file that is there already, a test, a reload or a capture that fails.
OpeningFails(k) ==
  worker[k] \in Busy /\ Turns(k, "undoing")

-----------------------------------------------------------------------------
(* Observing.                                                               *)

WindowOpen == now < until["boot"]
Observes(k) == worker[k] \in Busy \cup {"active", "closing", "repairing"}

\* A box asks for a file, and what nginx answers is logged.
Asks ==
  \E r \in {Request(uri, "GET", peer, user) :
              uri \in OtaUris, peer \in {"nas_lan", "field"}, user \in {"none", "right"}} :
    LET peers == IF "peer" \in loaded.files THEN {"field"} ELSE {}
        row == [uri |-> r.uri, method |-> "GET", peer |-> r.peer, user |-> r.user, esp32 |-> TRUE,
                status |-> Access(loaded, WindowOpen, r), whole |-> TRUE,
                realm |-> Realm(Allowed(loaded), peers, "time" \in loaded.files /\ WindowOpen, r)]
    IN /\ seen' = seen
            \cup {what \in {"refusal"} : Logs("trace") /\ Observes("trace") /\ RepairCandidate({row}, {{"nas_lan"}}, Home) # {}}
            \cup {what \in {"transfer"} : Logs("boot") /\ Observes("boot") /\ MatchingTransfer(row)}
            \cup {what \in {"check"} : Logs("boot") /\ Observes("boot") /\ AuthenticatedCheck(row, "field")}
       /\ seen' # seen
       /\ policyUnchanged
       /\ UNCHANGED <<now, worker, dog, since, until, response, consent, saved, repaired, closed, dropped, missed, gaveUp, stranded>>

\* updater.execute, in the worker, with two minutes to go at least.
TraceRepairs ==
  /\ worker["trace"] = "active" /\ "refusal" \in seen /\ ~repaired /\ now + 1 < until["trace"]
  /\ BeginAddLan /\ Becomes("trace", "repairing")
  /\ UNCHANGED <<now, dog, since, until, response, consent, saved, seen, repaired, closed, dropped, missed, gaveUp, stranded>>
TraceRepaired ==
  /\ worker["trace"] = "repairing" /\ op = "idle"
  /\ IF outcome = "done"
     THEN /\ Becomes("trace", "active") /\ repaired' = TRUE /\ policyUnchanged
          /\ UNCHANGED <<now, dog, since, until, response, consent, saved, seen, closed, dropped, missed, gaveUp, stranded>>
     ELSE Turns("trace", "cleaning")

\* remove_peer, once the whole image has been sent: one unlink and a reload.
BootSeesTransfer ==
  /\ worker["boot"] = "active" /\ "transfer" \in seen /\ ~closed
  /\ IF "peer" \in disk.files
     THEN disk' = [disk EXCEPT !.files = @ \ {"peer"}] /\ Becomes("boot", "closing") /\ UNCHANGED closed
     ELSE closed' = TRUE /\ UNCHANGED <<disk, worker>>
  /\ UNCHANGED <<loaded, binding, password, op, kind, before, changed, made, outcome,
                 touched, spoilt, guarded, runs, events>>
  /\ UNCHANGED <<now, dog, since, until, response, consent, saved, seen, repaired, dropped, missed, gaveUp, stranded>>

\* Fault: the peer's opening counts as closed once its file is gone.
BootClosesUnloaded ==
  /\ worker["boot"] = "closing" /\ LoadedOnly /\ UNCHANGED loaded
  /\ Becomes("boot", "active") /\ closed' = TRUE
  /\ UNCHANGED <<now, dog, since, until, response, consent, saved, seen, repaired, dropped, missed, gaveUp, stranded>>

BootCloses ==
  /\ worker["boot"] = "closing" /\ Reload /\ LoadedOnly
  /\ Becomes("boot", "active") /\ closed' = TRUE
  /\ UNCHANGED <<now, dog, since, until, response, consent, saved, seen, repaired, dropped, missed, gaveUp, stranded>>

\* The deadline, SIGTERM, or a read or a report that fails; the bootstrap also
\* ends when the new firmware has asked for the manifest with its password.
TraceWindowEnds == worker["trace"] = "active" /\ Turns("trace", "cleaning")
BootWindowEnds == worker["boot"] = "active" /\ Turns("boot", "cleaning")
BootVerified ==
  worker["boot"] = "active" /\ closed /\ "check" \in seen /\ Turns("boot", "cleaning")
BootCloseFails == worker["boot"] = "closing" /\ Turns("boot", "cleaning")

-----------------------------------------------------------------------------
(* Removing.                                                                *)

SessionFrame == UNCHANGED <<now, since, until, response, consent, closed>>
RemovalFrame == SessionFrame /\ UNCHANGED <<saved, seen, repaired>>
FilesOnly == UNCHANGED <<loaded, binding, password, op, kind, before, changed, made, outcome,
                         touched, spoilt, guarded, runs, events>>
Mishap == /\ Happens
          /\ UNCHANGED <<disk, loaded, binding, password, op, kind, before, changed, made, outcome,
                         touched, spoilt, guarded, runs>>

Unlinks(k, who) ==
  /\ Removing(k, who) /\ Unlink(k, who) /\ FilesOnly
  /\ RemovalFrame /\ UNCHANGED <<worker, dog, gaveUp, stranded>>
GoesOn(k, who) ==
  /\ PassesOver(k, who) /\ policyUnchanged
  /\ RemovalFrame /\ UNCHANGED <<worker, dog, dropped, gaveUp, stranded>>
RemovesReload(k, who) ==
  /\ Removing(k, who) /\ RemovalReload(k, who)
  /\ UNCHANGED <<binding, password, op, kind, before, changed, made, outcome, touched,
                 spoilt, guarded, runs, events>>
  /\ RemovalFrame /\ UNCHANGED <<worker, dog, missed, gaveUp, stranded>>
WorkerCleaned(k) ==
  worker[k] \in Cleans /\ Removed(k, "worker") /\ EndsClean(k) /\ policyUnchanged

\* remove_exact raises: in the undoing of an opening it is called once more, at
\* the end of the worker it is left to the watchdog.
UndoRaises(k) ==
  /\ worker[k] = "undoing" /\ Becomes(k, "cleaning")
  /\ Forgets(k, {"worker"}) /\ RemovalFrame /\ UNCHANGED <<dog, gaveUp>>

\* Fault: the watchdog is killed whether the files are gone or not.
CleaningRaisesForGood(k) ==
  /\ worker[k] = "cleaning" /\ Gone(k) /\ dog' = [dog EXCEPT ![k] = "gone"]
  /\ Forgets(k, {"worker"}) /\ GivesUp(k, "worker") /\ Reports(k, "report")
  /\ UNCHANGED <<now, since, until, consent, closed>>

CleaningRaises(k) ==
  /\ worker[k] = "cleaning" /\ Gone(k) /\ Reports(k, "report")
  /\ Forgets(k, {"worker"}) /\ GivesUp(k, "worker")
  /\ UNCHANGED <<now, dog, since, until, consent, closed>>

DogRaises(k) ==
  /\ dog[k] = "cleaning" /\ dog' = [dog EXCEPT ![k] = "gone"] /\ UNCHANGED worker
  /\ Forgets(k, {"dog"}) /\ GivesUp(k, "dog") /\ RemovalFrame

\* FileNotFoundError from stat() or read_bytes(): the price of being late, and no
\* fault of anything else.
RaisesLate(k) ==
  /\ policyUnchanged
  /\ \/ <<k, "worker">> \in missed /\ (UndoRaises(k) \/ CleaningRaises(k))
     \/ <<k, "dog">> \in missed /\ DogRaises(k)

\* Any other reason: a file that is not what was written, an I/O error, nginx.
RemovalFails(k) == Mishap /\ (UndoRaises(k) \/ CleaningRaises(k) \/ DogRaises(k))

DogWakes(k) ==
  /\ dog[k] = "asleep" /\ now >= Alarm(k) /\ dog' = [dog EXCEPT ![k] = "cleaning"]
  /\ policyUnchanged /\ RemovalFrame /\ UNCHANGED <<worker, dropped, missed, gaveUp, stranded>>
DogDone(k) ==
  /\ dog[k] = "cleaning" /\ Removed(k, "dog") /\ dog' = [dog EXCEPT ![k] = "gone"]
  /\ policyUnchanged /\ RemovalFrame /\ UNCHANGED <<worker, dropped, missed, gaveUp, stranded>>

-----------------------------------------------------------------------------
(* Death, restart and time.                                                 *)

\* The policy operator that runs inside a worker.
Owner(k) == worker[k] = (IF k = "trace" THEN "repairing" ELSE "restoring") /\ op # "idle"

WorkerDies(k) ==
  /\ Alive(k) /\ Happens
  /\ Gone(k) /\ Forgets(k, {"worker"}) /\ GivesUp(k, "worker")
  /\ (IF Owner(k) THEN Ends("gone") ELSE UNCHANGED <<op, outcome>>)
  /\ UNCHANGED <<disk, loaded, binding, password, kind, before, changed, made, touched,
                 spoilt, guarded, runs>>
  /\ SessionFrame /\ UNCHANGED dog

\* The NAS restarts: every process is gone and so is /var/run; nginx starts with
\* what is on the disk, the loaders of a trace included, which find nothing.
Volatile == (TraceFiles \cup BootFiles) \ {"load_http", "load_server"}
Reboot ==
  /\ Happens
  /\ disk' = [disk EXCEPT !.files = @ \ Volatile] /\ loaded' = disk'
  /\ op' = "idle" /\ outcome' = (IF op = "idle" THEN outcome ELSE "gone")
  /\ worker' = [k \in Sessions |-> IF Alive(k) THEN "gone" ELSE worker[k]]
  /\ dog' = [k \in Sessions |-> IF worker[k] = "none" THEN "none" ELSE "gone"]
  /\ dropped' = {} /\ missed' = {} /\ saved' = NoSaved /\ seen' = {} /\ repaired' = FALSE
  /\ UNCHANGED <<binding, password, kind, before, changed, made, touched, spoilt, guarded, runs>>
  /\ SessionFrame /\ UNCHANGED <<gaveUp, stranded>>

\* A wait or a window that is over is noticed before the next step of time, and
\* opening takes less than one, or for a bootstrap no longer than its window.
InTime(k) ==
  /\ worker[k] \in Waits => now < since[k] + Wait
  /\ worker[k] \in {"active", "closing", "repairing"} => now < until[k]
  /\ worker[k] \in Busy => k = "boot" /\ now < until[k]
  /\ dog[k] = "asleep" => now < Alarm(k)
Tick ==
  /\ \E k \in Sessions : now < (IF Locked(k) THEN Alarm(k) ELSE until[k])
  /\ \A k \in Sessions : InTime(k)
  /\ now' = now + 1
  /\ policyUnchanged
  /\ UNCHANGED <<worker, dog, since, until, response, consent, saved, seen, repaired, closed, dropped, missed, gaveUp, stranded>>

-----------------------------------------------------------------------------

OriginSessionInit ==
  /\ OriginInit
  /\ now = 0 /\ worker = [k \in Sessions |-> "none"] /\ dog = worker
  /\ since = [k \in Sessions |-> 0] /\ until = since
  /\ response = [k \in Sessions |-> "none"] /\ consent = FALSE
  /\ saved = NoSaved
  /\ seen = {} /\ repaired = FALSE /\ closed = FALSE
  /\ dropped = {} /\ missed = {} /\ gaveUp = {} /\ stranded = FALSE

\* Workers and watchdogs, failures apart.
Removes(k) ==
  \/ \E who \in {"worker", "dog"} : Unlinks(k, who) \/ GoesOn(k, who) \/ RemovesReload(k, who)
  \/ RaisesLate(k) \/ WorkerCleaned(k) \/ DogWakes(k) \/ DogDone(k)
WorkerWorks(k) == Expires(k) \/ Creates(k) \/ OpensReload(k)
TraceWorks ==
  \/ TraceReportsWatchdog \/ TraceActivates \/ TraceProves \/ TraceRepaired \/ TraceWindowEnds
  \/ WorkerWorks("trace")
BootWorks ==
  \/ BootReportsWatchdog \/ BootActivates \/ BootRollsBack \/ BootRolledBack \/ BootProves
  \/ BootSeesTransfer \/ BootCloses \/ BootCloseFails \/ BootVerified \/ BootWindowEnds
  \/ WorkerWorks("boot")

SessionFails(k) == OpeningFails(k) \/ RemovalFails(k) \/ WorkerDies(k)

\* Bound: an operator beside a session, and not in its worker, meets no failure.
OperatorMoves ==
  /\ OperatorStep /\ (events' = events \/ Alone \/ \E k \in Sessions : Owner(k))
  /\ UNCHANGED sessionVars

OriginNext ==
  \/ OperatorMoves
  \/ OperatorKilled /\ Alone /\ UNCHANGED sessionVars
  \/ ForeignReload /\ UNCHANGED sessionVars
  \/ ForeignWrite /\ Alone /\ UNCHANGED sessionVars
  \/ StartTrace \/ StartBoot \/ (\E k \in Sessions : OwnerCommands(k))
  \/ TraceWorks \/ TraceRepairs \/ BootWorks \/ (\E k \in Sessions : Removes(k))
  \/ (\E k \in Sessions : SessionFails(k))
  \/ Asks \/ Tick \/ Reboot

\* Some process that can go on does go on, or time passes.  Every one of their
\* steps uses up something, so this weakest form is enough.  A process that nginx
\* stops, by refusing what is on the disk, stays where it is.
Progress ==
  \/ Tick
  \/ op # "idle" /\ OperatorMoves
  \/ TraceWorks \/ BootWorks \/ (\E k \in Sessions : Removes(k))
OriginSpec == OriginSessionInit /\ [][OriginNext]_vars /\ WF_vars(Progress)

-----------------------------------------------------------------------------
(* What has to hold.                                                       *)

SessionTypeOK ==
  /\ OriginTypeOK
  /\ now \in Nat
  /\ worker \in [Sessions -> WorkerStages]
  /\ dog \in [Sessions -> {"none", "asleep", "cleaning", "gone"}]
  /\ {since, until} \subseteq [Sessions -> Nat]
  /\ response \in [Sessions -> {"none", "report", "activate", "rollback"}]
  /\ consent \in BOOLEAN /\ seen \subseteq {"refusal", "transfer", "check"}
  /\ repaired \in BOOLEAN /\ closed \in BOOLEAN /\ stranded \in BOOLEAN
  /\ \A who \in {dropped, missed, gaveUp} : who \subseteq Sessions \X {"worker", "dog"}

\* Once an installation has ended, no configuration that nginx runs with, in the
\* middle of any operator, session, undoing or cleanup, gives the image to a
\* stranger without the password.  The public peer gets it only with consent,
\* while the window is open and until its opening is reported closed.
ImageClosed ==
  (guarded /\ loaded.guard \notin {"none", "foreign"} /\ loaded.geo # "foreign") =>
    \A user \in Users \ {"right"}, method \in Reads, peer \in Strangers \cup {"field"} :
      Access(loaded, WindowOpen, Request("/firmware.bin", method, peer, user)) = 200 =>
        peer = "field" /\ loaded.guard # "legacy" /\ consent /\ WindowOpen /\ ~closed

\* And the box with its password is never refused by the authenticated policy,
\* whichever process died or was rolled back: the password file outlives every
\* configuration that asks for it.  A handler that fails half way may drop it.
BoxServed ==
  (loaded.guard \in {"auth", "static"} /\ ~spoilt) =>
    \A uri \in OtaUris :
      Access(loaded, WindowOpen, Request(uri, "GET", "198.51.100.10", "right")) = 200

\* Who gets the image, and who must: both, in every configuration nginx runs with.
AccessSound == ImageClosed /\ BoxServed

\* A session's runtime files leave the disk, and nginx, when its worker fails or
\* dies, when its watchdog does, and when the one is late for the file the other has
\* just unlinked; unless both gave up, after which nothing removes them before the
\* NAS restarts, or a reload was given up after the last file had gone.
SessionsEnd ==
  <>[](\/ \E k \in Sessions : {k} \X {"worker", "dog"} \subseteq gaveUp
       \/ /\ Volatile \cap disk.files = {}
          /\ Volatile \cap loaded.files = {} \/ stranded)
=============================================================================
