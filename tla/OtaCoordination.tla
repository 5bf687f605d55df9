-------------------------- MODULE OtaCoordination ---------------------------
(***************************************************************************)
(* AutoOtaManager between its callers: the MQTT task admits and queues     *)
(* requests for an update (module OwnerRequests and handleCommand),        *)
(* NetworkTask takes them and runs runOtaProcess, loopTask moves the lid   *)
(* and restarts the board once a day, and the controller (module OtaHost)  *)
(* arbitrates.  requestMutex and dataMutex are each held for a whole       *)
(* action; between the reads of one function other tasks may run.          *)
(*                                                                         *)
(* Left open: whether the battery qualifies, whether WiFi is connected and *)
(* when the schedule asks for an automatic update.                         *)
(***************************************************************************)
EXTENDS OwnerRequests, OtaHost

\* A request for an update lives for at least a millisecond.
ASSUME WindowPositive == Window > 0

VARIABLES
    pending,     \* the request record: otaForceRequested and its kind
    deadline,    \* recoveryRequestAt + recoveryRequestTtl
    inProgress,  \* otaInProgress
    net,         \* where NetworkTask is in AutoOtaManager::update
    attempt,     \* the arguments of runOtaProcess
    limit,       \* otaRecoveryAt + 120 s
    call,        \* where the MQTT task is in handleCommand
    forced       \* history: the expiry of the last forced update begun

taskVars  == <<pending, deadline, inProgress, net, attempt, limit, forced>>
coordVars == <<ownerVars, hostVars, taskVars, call>>

NetStages ==
    {"idle", "ready", "claimed", "wanted", "asking", "prepare", "confirmed", "separating",
     "parted", "separated", "held", "flashing", "flashed", "leaving", "ending"}

\* The owner's request behind a forced update: history, the code keeps no id.
\* late is the time handleCommand spent waiting after the admission.
NoOrder == [id |-> "none", expires |-> 0, late |-> 0]
Orders  == {NoOrder} \cup [id : Ids, expires : Times, late : Times]

NoRequest == [kind |-> "none", order |-> NoOrder]
OtaRequests == {NoRequest} \cup [kind : Kinds, order : Orders]

NoCall == [op |-> "none", left |-> 0, asked |-> FALSE]
Calls  == {NoCall} \cup [op : Kinds \cup {"charging"}, left : 1 .. Window, asked : BOOLEAN]

CoordTypeOK ==
    /\ OwnerTypeOK /\ HostTypeOK
    /\ pending \in OtaRequests /\ attempt \in OtaRequests
    /\ deadline \in 0 .. Horizon + Window /\ limit \in 0 .. Horizon + Window
    /\ inProgress \in BOOLEAN
    /\ net \in NetStages
    /\ call \in Calls
    /\ forced \in Times

CoordInit ==
    /\ OwnerInit /\ HostInit
    /\ pending = NoRequest /\ deadline = 0
    /\ inProgress = FALSE /\ net = "idle" /\ attempt = NoRequest /\ limit = 0
    /\ call = NoCall
    /\ forced = 0

Up == mode # "off"

-----------------------------------------------------------------------------
(* The MQTT task: handleCommand *)

\* The gate at work: the task handles one message at a time.
Admitting ==
    /\ Up /\ call = NoCall
    /\ \/ \E r \in Requests, retained, duplicate \in BOOLEAN : Receive(r, retained, duplicate)
       \/ Save \/ SaveFails \/ Expire
    /\ UNCHANGED <<hostVars, taskVars, call>>

\* force_ota and close_for_charging go on with the time that is left.
HandsOver(op) ==
    /\ Admit
    /\ call' = [op |-> op, left |-> request.expires - now, asked |-> FALSE]
    /\ UNCHANGED <<hostVars, taskVars>>

\* trigger_ota asks the gate nothing; a recovery request carries an expiry.
Triggers(kind, left) ==
    /\ Up /\ stage = "idle" /\ call = NoCall
    /\ kind = "recovery" => synced
    /\ call' = [op |-> kind, left |-> left, asked |-> FALSE]
    /\ UNCHANGED <<ownerVars, hostVars, taskVars>>

Returns ==
    /\ call' = NoCall
    /\ IF stage = "run" THEN Finish ELSE UNCHANGED ownerVars

\* startOtaUpdate asks the controller before it takes requestMutex.
Asks ==
    /\ call.op \in Kinds /\ ~call.asked
    /\ MayStart(call.op)
    /\ call' = [call EXCEPT !.asked = TRUE]
    /\ UNCHANGED <<ownerVars, hostVars, taskVars>>

RequestFresh == now < deadline

\* Fault: a request is queued although an update is in progress.
MayQueueBusy(kind) ==
    \/ pending.kind = "none"
    \/ kind \in Maintenance /\ (pending.kind = "normal" \/ ~RequestFresh)

\* Only a maintenance request replaces another, and no fresh one of its sort.
MayQueue(kind) ==
    /\ ~inProgress
    /\ \/ pending.kind = "none"
       \/ kind \in Maintenance /\ (pending.kind = "normal" \/ ~RequestFresh)

OrderOf(c) ==
    IF c.op # "force" THEN NoOrder
    ELSE [id |-> request.id, expires |-> request.expires,
          late |-> now + c.left - request.expires]

Queues ==
    /\ call.op \in Kinds /\ call.asked
    /\ MayQueue(call.op)
    /\ pending' = [kind |-> call.op, order |-> OrderOf(call)]
    /\ deadline' = IF call.op \in Maintenance THEN now + call.left ELSE deadline
    /\ Returns
    /\ UNCHANGED <<hostVars, inProgress, net, attempt, limit, forced>>

\* close_for_charging looks whether an update is queued or in progress.
NoUpdate == pending.kind = "none" /\ ~inProgress

LooksForUpdate ==
    /\ call.op = "charging" /\ ~call.asked
    /\ NoUpdate
    /\ call' = [call EXCEPT !.asked = TRUE]
    /\ UNCHANGED <<ownerVars, hostVars, taskVars>>

RequestsCharging ==
    /\ call.op = "charging" /\ call.asked
    /\ StartsCharging
    /\ Returns
    /\ UNCHANGED <<taskVars>>

\* Turned down: by one of the guards above, or by the battery.
Refuses ==
    /\ call # NoCall
    /\ call.op \in Kinds /\ call.asked => ~MayQueue(call.op)
    /\ Returns
    /\ UNCHANGED <<hostVars, taskVars>>

MqttTask ==
    \/ Admitting
    \/ \E op \in {"force", "charging"} : HandsOver(op)
    \/ Triggers("normal", Window)
    \/ \E left \in 1 .. Window : Triggers("recovery", left)
    \/ Asks \/ Queues \/ LooksForUpdate \/ RequestsCharging \/ Refuses

-----------------------------------------------------------------------------
(* NetworkTask: update and the claims *)

NetStep(from, to) ==
    /\ net = from /\ net' = to
    /\ UNCHANGED <<ownerVars, pending, deadline, call>>

Kept == UNCHANGED <<inProgress, attempt, limit, forced>>

\* update() asks the controller first; the answer may be old when it is used.
LooksReady ==
    /\ Up /\ NetStep("idle", "ready")
    /\ MayStart("normal")
    /\ Kept /\ UNCHANGED hostVars

NothingDue == NetStep("ready", "idle") /\ Kept /\ UNCHANGED hostVars

\* takeManualRequest
TakesManualRequest ==
    /\ Up /\ net \in {"idle", "ready"}
    /\ ~inProgress
    /\ pending.kind # "none"
    /\ pending.kind = "normal" => net = "ready"
    /\ attempt' = pending /\ pending' = NoRequest
    /\ inProgress' = TRUE /\ net' = "claimed"
    /\ UNCHANGED <<ownerVars, hostVars, deadline, limit, forced, call>>

\* claimAutomaticRequest, at the first check after the boot or once a day
ClaimsAutomaticRequest ==
    /\ NetStep("ready", "claimed")
    /\ ~inProgress /\ pending.kind = "none"
    /\ attempt' = [kind |-> "normal", order |-> NoOrder]
    /\ inProgress' = TRUE
    /\ UNCHANGED <<hostVars, limit, forced>>

-----------------------------------------------------------------------------
(* NetworkTask: runOtaProcess *)

OnMaintenance == attempt.kind \in Maintenance

\* recoveryRequestFresh
StillWanted == OnMaintenance => RequestFresh

\* canContinueOta
MayContinue == mode = "ota" /\ (reserved # "none" => now <= limit)

\* Two looks at different things: the request, which takes no lock, and the
\* controller, for which NetworkTask waits as long as loopTask has dataMutex.
\* What the first look found may be old when the second has been taken.
LooksAtRequest(from, to) ==
    /\ NetStep(from, to)
    /\ StillWanted
    /\ Kept /\ UNCHANGED hostVars

LooksAtController(from, to) ==
    /\ NetStep(from, to)
    /\ MayContinue
    /\ Kept /\ UNCHANGED hostVars

\* A maintenance update reserves the controller before it asks for a version,
\* an ordinary one only before it flashes.
Begins ==
    /\ NetStep("wanted", "asking")
    /\ IF OnMaintenance
       THEN /\ BeginOta(attempt.kind)
            /\ limit' = now + Window
            /\ forced' = IF attempt.kind = "force" THEN attempt.order.expires ELSE forced
       ELSE MayStart("normal") /\ UNCHANGED <<hostVars, limit, forced>>
    /\ UNCHANGED <<inProgress, attempt>>

NotAdmitted ==
    /\ \E from \in {"claimed", "wanted"} : NetStep(from, "ending")
    /\ Kept /\ UNCHANGED hostVars

\* Fault: an update that is not needed gives nothing back.
WayOutForgetful == "ending"

\* Whoever holds the controller gives it back.
WayOut == IF OnMaintenance THEN "leaving" ELSE "ending"

\* version.json: a version to install, or none, or no answer.
LearnsVersion(needed) ==
    /\ NetStep("asking", IF needed THEN "prepare" ELSE WayOut)
    /\ Kept /\ UNCHANGED hostVars

Prepares ==
    /\ NetStep("confirmed", "separating")
    /\ IF OnMaintenance THEN MayContinue /\ UNCHANGED hostVars ELSE BeginOta("normal")
    /\ Kept

NotReady ==
    /\ \E from \in {"prepare", "confirmed"} : NetStep(from, WayOut)
    /\ Kept /\ UNCHANGED hostVars

\* After the contacts have separated, and again right before the transfer: the
\* controller first, and then the request.
Rechecks ==
    \/ LooksAtController("separating", "parted") \/ LooksAtRequest("parted", "separated")
    \/ LooksAtController("separated", "held") \/ LooksAtRequest("held", "flashing")

\* A check fails, or the transfer does.
Fails ==
    /\ \E from \in {"separating", "parted", "separated", "held", "flashing"} : NetStep(from, "leaving")
    /\ Kept /\ UNCHANGED hostVars

Flashes == NetStep("flashing", "flashed") /\ Kept /\ UNCHANGED hostVars

\* finishOtaWithoutReboot
GivesBack == NetStep("leaving", "ending") /\ FinishOta /\ Kept

EndsAttempt ==
    /\ NetStep("ending", "idle")
    /\ inProgress' = FALSE /\ attempt' = NoRequest
    /\ UNCHANGED <<hostVars, limit, forced>>

NetworkTask ==
    \/ LooksReady \/ NothingDue \/ TakesManualRequest \/ ClaimsAutomaticRequest
    \/ LooksAtRequest("claimed", "wanted") \/ Begins \/ NotAdmitted
    \/ \E needed \in BOOLEAN : LearnsVersion(needed)
    \/ LooksAtRequest("prepare", "confirmed") \/ Prepares \/ NotReady
    \/ Rechecks \/ Fails \/ Flashes \/ GivesBack \/ EndsAttempt

-----------------------------------------------------------------------------
(* loopTask, restarts and time *)

Lid ==
    /\ HostBoot \/ LidMoves
    /\ UNCHANGED <<ownerVars, taskVars, call>>

\* A flashed image, the daily reboot, a reboot command, the watchdog or a loss
\* of power: at any stage of any task.  PowerManager looks half a second before
\* it restarts, and the reboot command not at all.
Restarts ==
    /\ Up
    /\ Restart /\ HostReset
    /\ pending' = NoRequest /\ deadline' = 0
    /\ inProgress' = FALSE /\ net' = "idle" /\ attempt' = NoRequest /\ limit' = 0
    /\ call' = NoCall
    /\ UNCHANGED forced

Clock ==
    /\ Synchronise \/ Tick
    /\ UNCHANGED <<hostVars, taskVars, call>>

CoordNext == MqttTask \/ NetworkTask \/ Lid \/ Restarts \/ Clock

CoordSpec == CoordInit /\ [][CoordNext]_coordVars

-----------------------------------------------------------------------------
(* Properties *)

\* The stages in which an update has the controller.
Holding ==
    \/ net \in {"separating", "parted", "separated", "held", "flashing", "flashed", "leaving"}
    \/ net \in {"asking", "prepare", "confirmed"} /\ OnMaintenance

Busy == net \notin {"idle", "ready"}

\* The controller is reserved exactly while an update will use it or give it
\* back, on every way through runOtaProcess; no other update is admitted
\* meanwhile, and none is shut out when it is over.  A charging close never
\* meets a queued request or a maintenance update, although close_for_charging
\* looks before it acts.
ControllerExclusive ==
    /\ mode = "ota" <=> Holding
    /\ inProgress <=> Busy
    /\ mode = "charging" => pending.kind = "none" /\ ~OnMaintenance

ForcedBegins == mode # "ota" /\ mode' = "ota" /\ reserved' = "force"

\* A forced update begins for one request of the owner, admitted in this boot
\* and not begun before, in this boot or an earlier one, whatever was queued,
\* replaced, taken or repeated in between (startOtaUpdate, takeManualRequest,
\* runOtaProcess).  It may begin after that request has expired, when
\* tryBeginOta has waited for the controller.
ForcedByOwner ==
    [][ForcedBegins =>
          /\ attempt.order.id \in ran
          /\ attempt.order.expires > forced]_coordVars

Transfers == net = "held" /\ net' = "flashing"

\* But no image is fetched for it any more: the transfer of a forced update
\* starts before the owner's own request expires, but for the time handleCommand
\* waited, however long NetworkTask waited for the controller and the server,
\* and whatever has arrived meanwhile (runOtaProcess, the final re-check).
ForcedInTime ==
    [][Transfers /\ attempt.kind = "force" =>
          /\ attempt.order.expires = forced
          /\ now < attempt.order.expires + attempt.order.late]_coordVars
=============================================================================
