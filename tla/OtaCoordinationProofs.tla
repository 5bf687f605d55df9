----------------------- MODULE OtaCoordinationProofs ------------------------
(***************************************************************************)
(* For every set of ids, window, gate size and horizon: the admission of   *)
(* the owner's requests is newest only, once per id and boot, durable      *)
(* first and in time; the controller is reserved exactly while an update   *)
(* has it; and a forced update begins for one admitted request of the      *)
(* owner, and fetches its image in the time of that request.               *)
(***************************************************************************)
EXTENDS OtaCoordination, TLAPS, FiniteSetTheorems

-----------------------------------------------------------------------------
(* The gate: module OwnerRequests *)

\* The gate has counted the request before it is stored, and the store is
\* ahead of everything admitted.
OwnerInv ==
    /\ stored >= newest
    /\ ran \subseteq accepted
    /\ stage # "idle" => request.id \in accepted
    /\ stage \in {"accepted", "saved"} =>
         /\ request.expires > newest
         /\ request.id \notin ran
         /\ synced /\ request.expires - now <= Window
    /\ stage = "accepted" => watermark = request.expires
    /\ stage \in {"saved", "run"} => stored >= request.expires

LEMMA OwnerStart == OwnerInit => OwnerTypeOK /\ OwnerInv
<1> SUFFICES ASSUME OwnerInit PROVE OwnerTypeOK /\ OwnerInv
  OBVIOUS
<1>1. IsFiniteSet(accepted) /\ Cardinality(accepted) = 0
  BY FS_EmptySet DEF OwnerInit
<1>2. OwnerTypeOK
  <2>1. request \in Requests
    BY DEF OwnerInit
  <2>2. 0 \in Times /\ MaxAccepted \in Nat
    BY OwnerAssumption DEF Times
  <2>3. /\ now \in Times /\ stored \in Times /\ watermark \in Times /\ newest \in Times
        /\ accepted \subseteq Ids /\ ran \subseteq Ids
    BY <2>2 DEF OwnerInit
  <2>4. synced \in BOOLEAN /\ stage \in Stages
    BY DEF OwnerInit, Stages
  <2>5. IsFiniteSet(accepted) /\ Cardinality(accepted) <= MaxAccepted
    BY <1>1, <2>2
  <2> QED BY <2>1, <2>3, <2>4, <2>5, Zenon DEF OwnerTypeOK
<1>3. OwnerInv
  BY DEF OwnerInit, OwnerInv
<1> QED BY <1>2, <1>3

\* A new id leaves room for it in the gate.
LEMMA GateBounded ==
    ASSUME OwnerTypeOK, NEW r \in Requests, ~Full, ~Seen(r)
    PROVE  /\ IsFiniteSet(accepted \cup {r.id})
           /\ Cardinality(accepted \cup {r.id}) <= MaxAccepted
<1>1. IsFiniteSet(accepted) /\ Cardinality(accepted) < MaxAccepted
  <2>1. IsFiniteSet(accepted) /\ Cardinality(accepted) \in Nat
    BY FS_CardinalityType DEF OwnerTypeOK
  <2> QED BY <2>1, OwnerAssumption DEF Full
<1>2. IsFiniteSet(accepted \cup {r.id})
  BY <1>1, FS_AddElement
<1>3. Cardinality(accepted \cup {r.id}) = Cardinality(accepted) + 1
  BY <1>1, FS_AddElement DEF Seen
<1>4. Cardinality(accepted) \in Nat
  BY <1>1, FS_CardinalityType
<1> QED BY <1>1, <1>2, <1>3, <1>4, OwnerAssumption

LEMMA OwnerStep == OwnerTypeOK /\ OwnerInv /\ [OwnerNext]_ownerVars => OwnerTypeOK' /\ OwnerInv'
<1> SUFFICES ASSUME OwnerTypeOK, OwnerInv, [OwnerNext]_ownerVars PROVE OwnerTypeOK' /\ OwnerInv'
  OBVIOUS
<1> USE OwnerAssumption DEF Times, Stages
<1>1. ASSUME NEW r \in Requests, NEW retained \in BOOLEAN, NEW duplicate \in BOOLEAN,
             Receive(r, retained, duplicate)
      PROVE  OwnerTypeOK' /\ OwnerInv'
  <2>0. r.id \in Ids /\ r.expires \in Times
    BY DEF Requests
  <2>1. CASE Accepts(r, retained, duplicate)
    <3>1. /\ accepted' = accepted \cup {r.id} /\ watermark' = r.expires
          /\ request' = r /\ stage' = "accepted"
          /\ UNCHANGED <<now, synced, stored, newest, ran>>
      BY <1>1, <2>1 DEF Receive
    <3>2. r.expires > Restored /\ ~Full /\ Fresh(r) /\ ~Seen(r)
      BY <2>1 DEF Accepts
    <3>3. IsFiniteSet(accepted') /\ Cardinality(accepted') <= MaxAccepted
      BY <3>1, <3>2, GateBounded
    <3>4. OwnerTypeOK'
      BY <2>0, <3>1, <3>3 DEF OwnerTypeOK
    <3>5. r.expires > newest
      BY <2>0, <3>2 DEF Restored, OwnerTypeOK, OwnerInv
    <3>6. r.id \notin ran
      BY <3>2 DEF Seen, OwnerInv
    <3>7. OwnerInv'
      BY <3>1, <3>2, <3>5, <3>6 DEF Fresh, OwnerInv
    <3> QED BY <3>4, <3>7
  <2>2. CASE ~Accepts(r, retained, duplicate)
    <3>1. /\ watermark' = Restored /\ stage = "idle"
          /\ UNCHANGED <<accepted, request, stage, now, synced, stored, newest, ran>>
      BY <1>1, <2>2 DEF Receive
    <3>2. Restored \in Times
      BY DEF Restored, OwnerTypeOK
    <3>3. OwnerTypeOK'
      BY <3>1, <3>2 DEF OwnerTypeOK
    <3>4. OwnerInv'
      BY <3>1 DEF OwnerInv
    <3> QED BY <3>3, <3>4
  <2> QED BY <2>1, <2>2
<1>2. CASE Save
  <2>1. OwnerTypeOK'
    BY <1>2 DEF Save, OwnerTypeOK
  <2>2. request.expires \in Times
    BY DEF OwnerTypeOK, Requests
  <2>3. OwnerInv'
    BY <1>2, <2>2 DEF Save, OwnerTypeOK, OwnerInv
  <2> QED BY <2>1, <2>3
<1>3. CASE SaveFails
  BY <1>3 DEF SaveFails, OwnerTypeOK, OwnerInv
<1>4. CASE Admit
  <2>1. request.expires \in Times /\ request.id \in Ids
    BY DEF OwnerTypeOK, Requests
  <2>2. OwnerTypeOK'
    BY <1>4, <2>1 DEF Admit, OwnerTypeOK
  <2>3. OwnerInv'
    BY <1>4, <2>1 DEF Admit, OwnerTypeOK, OwnerInv
  <2> QED BY <2>2, <2>3
<1>5. CASE Expire
  BY <1>5 DEF Expire, OwnerTypeOK, OwnerInv
<1>6. CASE Finish
  BY <1>6 DEF Finish, OwnerTypeOK, OwnerInv
<1>7. CASE Restart
  <2>1. IsFiniteSet(accepted') /\ Cardinality(accepted') = 0
    BY <1>7, FS_EmptySet DEF Restart
  <2>2. OwnerTypeOK'
    BY <1>7, <2>1 DEF Restart, OwnerTypeOK
  <2>3. OwnerInv'
    BY <1>7 DEF Restart, OwnerInv
  <2> QED BY <2>2, <2>3
<1>8. CASE Synchronise
  BY <1>8 DEF Synchronise, OwnerTypeOK, OwnerInv
<1>9. CASE Tick
  <2>1. OwnerTypeOK'
    BY <1>9 DEF Tick, OwnerTypeOK
  <2>2. request.expires \in Times
    BY DEF OwnerTypeOK, Requests
  <2>3. OwnerInv'
    BY <1>9, <2>2 DEF Tick, OwnerTypeOK, OwnerInv
  <2> QED BY <2>1, <2>3
<1>10. CASE UNCHANGED ownerVars
  BY <1>10 DEF ownerVars, OwnerTypeOK, OwnerInv
<1> QED BY <1>1, <1>2, <1>3, <1>4, <1>5, <1>6, <1>7, <1>8, <1>9, <1>10 DEF OwnerNext

\* The gate and the store never disagree in a way that admits a request twice.
THEOREM OwnerInvariance == OwnerSpec => [](OwnerTypeOK /\ OwnerInv)
<1>1. OwnerInit => OwnerTypeOK /\ OwnerInv
  BY OwnerStart
<1>2. OwnerTypeOK /\ OwnerInv /\ [OwnerNext]_ownerVars => (OwnerTypeOK /\ OwnerInv)'
  BY OwnerStep
<1> QED BY <1>1, <1>2, PTL DEF OwnerSpec

\* The watermark is durable before a request is handed on
\* (acceptStoredOwnerRequest saves before it returns true).
THEOREM WatermarkDurable == OwnerSpec => []DurableFirst
<1>1. OwnerTypeOK /\ OwnerInv => DurableFirst
  BY DEF OwnerInv, DurableFirst
<1> QED BY <1>1, OwnerInvariance, PTL

\* What is known of a request when it is admitted.
LEMMA AdmissionStep ==
    ASSUME OwnerTypeOK, OwnerInv, [OwnerNext]_ownerVars, Admission
    PROVE  /\ request'.expires > newest /\ request'.id \notin ran
           /\ synced /\ request'.expires > now /\ request'.expires - now <= Window
<1>1. Admit
  <2>1. CASE UNCHANGED ownerVars
    BY <2>1 DEF ownerVars, Admission
  <2> QED BY <2>1 DEF OwnerNext, Admission, Receive, Save, SaveFails, Expire, Finish, Restart,
               Synchronise, Tick
<1>2. request' = request /\ stage = "saved" /\ request.expires > now
  BY <1>1 DEF Admit, StillValid
<1> QED BY <1>2 DEF OwnerInv

\* A request is admitted only if it is newer than all that went before, across
\* restarts, lost writes and repeated or reordered messages.
THEOREM AdmitsNewestOnly == OwnerSpec => NewestOnly
<1>1. OwnerTypeOK /\ OwnerInv /\ [OwnerNext]_ownerVars =>
        [Admission => request'.expires > newest]_ownerVars
  BY AdmissionStep
<1> QED BY <1>1, OwnerInvariance, PTL DEF OwnerSpec, NewestOnly

\* An id is admitted at most once in a boot.
THEOREM AdmitsIdOnce == OwnerSpec => IdOncePerBoot
<1>1. OwnerTypeOK /\ OwnerInv /\ [OwnerNext]_ownerVars =>
        [Admission => request'.id \notin ran]_ownerVars
  BY AdmissionStep
<1> QED BY <1>1, OwnerInvariance, PTL DEF OwnerSpec, IdOncePerBoot

\* No request is admitted after its expiry or for longer than the window, even
\* if the write to NVS takes long (the second comparison in admitOwnerCommand).
THEOREM AdmitsInTime == OwnerSpec => RunsInTime
<1>1. OwnerTypeOK /\ OwnerInv /\ [OwnerNext]_ownerVars =>
        [Admission => synced /\ request'.expires > now /\ request'.expires - now <= Window]_ownerVars
  BY AdmissionStep
<1> QED BY <1>1, OwnerInvariance, PTL DEF OwnerSpec, RunsInTime

-----------------------------------------------------------------------------
(* The updates *)

\* A forced request, queued or taken, is one of the owner's that has not been
\* used, is older than any in work, and sets the time limit.
Owed(q) ==
    q.kind = "force" =>
        /\ q.order.id \in ran
        /\ q.order.expires > forced
        /\ q.order.expires <= newest
        /\ stage = "run" => q.order.expires < request.expires
        /\ deadline = q.order.expires + q.order.late

\* And once it has begun, nothing else sets the limit.
Timed(q) ==
    /\ q.order.expires = forced
    /\ deadline = q.order.expires + q.order.late

\* The call of a request that the gate has admitted.
CallInv ==
    /\ call.op \in {"force", "charging"} <=> stage = "run"
    /\ stage = "run" =>
         /\ request.expires <= now + call.left /\ call.left <= request.expires
         /\ request.expires > forced /\ request.expires = newest
         /\ request.id \in ran
    /\ call.op \in Kinds /\ call.asked => mode # "charging"
    /\ call.op = "charging" /\ call.asked => pending.kind = "none" /\ ~OnMaintenance

TaskInv ==
    /\ Busy <=> attempt.kind # "none"
    /\ inProgress => pending = NoRequest
    /\ forced <= newest
    /\ Owed(pending)
    /\ net \in {"claimed", "wanted"} => Owed(attempt)
    /\ Holding /\ attempt.kind = "force" => Timed(attempt)

CoordInv == CoordTypeOK /\ OwnerInv /\ ControllerExclusive /\ CallInv /\ TaskInv

-----------------------------------------------------------------------------
(* The steps of the gate *)

LEMMA CoordStart == CoordInit => CoordInv
<1> SUFFICES ASSUME CoordInit PROVE CoordInv
  OBVIOUS
<1>1. OwnerTypeOK /\ OwnerInv
  BY OwnerStart DEF CoordInit
<1>2. /\ mode = "off" /\ used = FALSE /\ reserved = "none"
      /\ pending = NoRequest /\ attempt = NoRequest /\ call = NoCall
      /\ deadline = 0 /\ limit = 0 /\ forced = 0
      /\ inProgress = FALSE /\ net = "idle" /\ stage = "idle" /\ newest = 0
  BY DEF CoordInit, HostInit, OwnerInit
<1>3. HostTypeOK
  BY <1>2 DEF HostTypeOK, Modes
<1>4. 0 \in Times /\ 0 \in 0 .. Horizon + Window
  BY OwnerAssumption DEF Times
<1>5. pending \in OtaRequests /\ attempt \in OtaRequests /\ call \in Calls /\ net \in NetStages
  BY <1>2 DEF OtaRequests, Calls, NetStages
<1>6. CoordTypeOK
  BY <1>1, <1>2, <1>3, <1>4, <1>5 DEF CoordTypeOK
<1>7. CallInv
  BY <1>2 DEF CallInv, NoCall, Kinds, Maintenance
<1>8. TaskInv /\ ControllerExclusive
  BY <1>2 DEF TaskInv, ControllerExclusive, NoRequest, Busy, Owed, Holding, OnMaintenance
<1> QED BY <1>1, <1>6, <1>7, <1>8 DEF CoordInv

\* Every step is one of the gate, or leaves it alone.
LEMMA GateStep == CoordNext => [OwnerNext]_ownerVars
<1> SUFFICES ASSUME CoordNext PROVE [OwnerNext]_ownerVars
  OBVIOUS
<1>1. ASSUME Returns PROVE [OwnerNext]_ownerVars
  BY <1>1 DEF Returns, OwnerNext
<1>2. CASE MqttTask
  BY <1>1, <1>2 DEF MqttTask, Admitting, HandsOver, Triggers, Asks, Queues, LooksForUpdate,
     RequestsCharging, Refuses, OwnerNext
<1>3. CASE NetworkTask
  BY <1>3 DEF NetworkTask, NetStep, LooksReady, NothingDue, TakesManualRequest,
     ClaimsAutomaticRequest, LooksAtRequest,
     LooksAtController, Begins, NotAdmitted, LearnsVersion, Prepares, NotReady, Rechecks,
     Fails, Flashes, GivesBack, EndsAttempt
<1>4. CASE Lid \/ Restarts \/ Clock
  BY <1>4 DEF Lid, Restarts, Clock, OwnerNext
<1> QED BY <1>2, <1>3, <1>4 DEF CoordNext

LEMMA OwnerKept == CoordInv /\ [CoordNext]_coordVars => OwnerTypeOK' /\ OwnerInv'
BY GateStep, OwnerStep DEF CoordInv, CoordTypeOK, coordVars

-----------------------------------------------------------------------------
(* What every step keeps, besides the invariant of the gate *)

TaskTypes ==
    /\ HostTypeOK
    /\ pending \in OtaRequests /\ attempt \in OtaRequests
    /\ deadline \in 0 .. Horizon + Window /\ limit \in 0 .. Horizon + Window
    /\ inProgress \in BOOLEAN
    /\ net \in NetStages
    /\ call \in Calls
    /\ forced \in Times

Exclusive == ControllerExclusive /\ CallInv /\ TaskInv

\* The gate admits nothing to a call while it looks at a message.
LEMMA AdmittingKeeps ==
    ASSUME CoordInv, Admitting PROVE TaskTypes' /\ Exclusive'
<1>1. TaskTypes'
  BY DEF CoordInv, CoordTypeOK, TaskTypes, Admitting, taskVars, hostVars, HostTypeOK, Calls
<1>2. /\ UNCHANGED <<mode, used, reserved, pending, deadline, inProgress, net, attempt, limit, forced, call>>
      /\ UNCHANGED <<newest, ran>>
      /\ stage # "run" /\ stage' # "run"
      /\ call = NoCall
  BY DEF CoordInv, CallInv, Admitting, taskVars, hostVars, Receive, Save, SaveFails, Expire,
     NoCall
<1>3. Exclusive'
  BY <1>2 DEF CoordInv, Exclusive, ControllerExclusive, CallInv, TaskInv, Owed, Timed, Busy, Holding, OnMaintenance
<1> QED BY <1>1, <1>3

LEMMA RequestTypes ==
    ASSUME NEW q \in OtaRequests
    PROVE  /\ q.kind \in {"none"} \cup Kinds
           /\ q.order \in Orders
           /\ q.order.expires \in Times /\ q.order.late \in Times
<1>1. NoOrder.expires \in Times /\ NoOrder.late \in Times
  BY OwnerAssumption DEF NoOrder, Times
<1>2. q.kind \in {"none"} \cup Kinds /\ q.order \in Orders
  BY DEF OtaRequests, NoRequest, Orders
<1> QED BY <1>1, <1>2 DEF Orders

LEMMA MessagesKeep ==
    ASSUME CoordInv, NEW op \in {"force", "charging"}, HandsOver(op)
    PROVE  TaskTypes' /\ Exclusive'
<1>1. /\ stage = "saved" /\ stage' = "run" /\ request' = request
      /\ request.expires > now /\ request.expires > newest
      /\ newest' = request.expires /\ ran' = ran \cup {request.id}
      /\ now' = now
  BY DEF HandsOver, Admit, StillValid, CoordInv, OwnerInv
<1>2. request.expires - now <= Window /\ request.expires \in Times /\ now \in Times
  BY <1>1 DEF CoordInv, CoordTypeOK, OwnerTypeOK, OwnerInv, Requests
<1>3. call' = [op |-> op, left |-> request.expires - now, asked |-> FALSE]
  BY DEF HandsOver
<1>4. UNCHANGED <<mode, used, reserved, pending, deadline, inProgress, net, attempt, limit, forced>>
  BY DEF HandsOver, hostVars, taskVars
<1>5. call' \in Calls
  <2>1. request.expires - now \in 1 .. Window
    BY <1>1, <1>2, OwnerAssumption DEF Times
  <2> QED BY <1>3, <2>1, Zenon DEF Calls, Kinds, Maintenance
<1>6. TaskTypes'
  BY <1>4, <1>5 DEF CoordInv, CoordTypeOK, TaskTypes, HostTypeOK
<1>7. forced \in Times /\ newest \in Times /\ forced <= newest
  BY DEF CoordInv, CoordTypeOK, TaskInv, OwnerTypeOK
<1>8. CallInv'
  BY <1>1, <1>2, <1>3, <1>4, <1>7, OwnerAssumption DEF CallInv, Kinds, Maintenance, Times
<1>9. ASSUME NEW q \in OtaRequests, Owed(q)
      PROVE  Owed(q)'
  BY <1>1, <1>2, <1>4, <1>7, <1>9, RequestTypes, OwnerAssumption DEF Owed, Times
<1>10. TaskInv'
  BY <1>1, <1>2, <1>4, <1>7, <1>9, OwnerAssumption
     DEF CoordInv, CoordTypeOK, TaskInv, Timed, Busy, Holding, OnMaintenance, Times
<1>11. ControllerExclusive'
  BY <1>4 DEF CoordInv, ControllerExclusive, Holding, Busy, OnMaintenance
<1> QED BY <1>6, <1>8, <1>10, <1>11 DEF Exclusive

LEMMA TriggersKeep ==
    ASSUME CoordInv, NEW kind \in {"normal", "recovery"}, NEW left \in 1 .. Window,
           Triggers(kind, left)
    PROVE  TaskTypes' /\ Exclusive'
<1>1. /\ stage = "idle"
      /\ call' = [op |-> kind, left |-> left, asked |-> FALSE]
      /\ UNCHANGED <<now, stage, request, newest, ran>>
      /\ UNCHANGED <<mode, used, reserved, pending, deadline, inProgress, net, attempt, limit, forced>>
  BY DEF Triggers, ownerVars, hostVars, taskVars
<1>2. call' \in Calls
  BY <1>1, Zenon DEF Calls, Kinds, Maintenance
<1>3. TaskTypes'
  BY <1>1, <1>2 DEF CoordInv, CoordTypeOK, TaskTypes, HostTypeOK
<1>4. Exclusive'
  BY <1>1 DEF CoordInv, Exclusive, ControllerExclusive, CallInv, TaskInv, Owed, Timed, Busy, Holding,
     OnMaintenance
<1> QED BY <1>3, <1>4

LEMMA CallTypes ==
    CoordInv /\ call.op # "none" =>
        /\ call \in [op : Kinds \cup {"charging"}, left : 1 .. Window, asked : BOOLEAN]
        /\ call.op \in Kinds \cup {"charging"}
BY DEF CoordInv, CoordTypeOK, Calls, NoCall

LEMMA AsksKeep ==
    ASSUME CoordInv, Asks \/ LooksForUpdate PROVE TaskTypes' /\ Exclusive'
<1>1. /\ UNCHANGED <<now, stage, request, newest, ran>>
      /\ UNCHANGED <<mode, used, reserved, pending, deadline, inProgress, net, attempt, limit, forced>>
      /\ call' = [call EXCEPT !.asked = TRUE]
      /\ call.op \in Kinds \cup {"charging"} /\ call.op # "none"
      /\ call.op \in Kinds => mode # "charging"
      /\ call.op = "charging" => NoUpdate
  BY DEF Asks, LooksForUpdate, MayStart, ownerVars, hostVars, taskVars, Kinds, Maintenance
<1>2. call \in [op : Kinds \cup {"charging"}, left : 1 .. Window, asked : BOOLEAN]
  BY <1>1, CallTypes
<1>3. call' \in Calls
  BY <1>1, <1>2 DEF Calls
<1>4. call'.op = call.op /\ call'.left = call.left
  BY <1>1, <1>2
<1>5. TaskTypes'
  BY <1>1, <1>3 DEF CoordInv, CoordTypeOK, TaskTypes, HostTypeOK
<1>6. NoUpdate => ~OnMaintenance
  BY DEF CoordInv, NoUpdate, ControllerExclusive, TaskInv, OnMaintenance, Maintenance
<1>7. CallInv'
  BY <1>1, <1>4, <1>6 DEF CoordInv, CallInv, NoUpdate, OnMaintenance
<1>8. TaskInv' /\ ControllerExclusive'
  BY <1>1 DEF CoordInv, ControllerExclusive, TaskInv, Owed, Timed, Busy, Holding, OnMaintenance
<1> QED BY <1>5, <1>7, <1>8 DEF Exclusive

LEMMA ReturnFacts ==
    ASSUME Returns
    PROVE  /\ call' = NoCall /\ stage' # "run"
           /\ UNCHANGED <<now, request, newest, ran>>
BY DEF Returns, Finish, ownerVars

LEMMA QueuesKeep ==
    ASSUME CoordInv, Queues PROVE TaskTypes' /\ Exclusive'
<1>1. /\ call.op \in Kinds /\ call.asked /\ ~inProgress
      /\ pending' = [kind |-> call.op, order |-> OrderOf(call)]
      /\ deadline' = IF call.op \in Maintenance THEN now + call.left ELSE deadline
      /\ UNCHANGED <<mode, used, reserved, inProgress, net, attempt, limit, forced>>
      /\ call' = NoCall /\ stage' # "run"
      /\ UNCHANGED <<now, request, newest, ran>>
  BY ReturnFacts DEF Queues, MayQueue, hostVars
<1>2. call.left \in 1 .. Window /\ now \in Times /\ request.expires \in Times /\ request.id \in Ids
  BY <1>1, CallTypes DEF Kinds, Maintenance, CoordInv, CoordTypeOK, OwnerTypeOK, Requests
<1>3. call.op = "force" =>
        /\ stage = "run"
        /\ request.expires <= now + call.left /\ call.left <= request.expires
        /\ request.expires > forced /\ request.expires = newest
        /\ request.id \in ran
  BY DEF CoordInv, CallInv
<1>4. ASSUME call.op = "force"
      PROVE  /\ OrderOf(call) = [id |-> request.id, expires |-> request.expires,
                                 late |-> now + call.left - request.expires]
             /\ now + call.left - request.expires \in Times
  BY <1>2, <1>3, <1>4, OwnerAssumption DEF OrderOf, Times
<1>5. OrderOf(call) \in Orders
  <2>1. CASE call.op = "force"
    BY <1>2, <1>4, <2>1 DEF Orders
  <2>2. CASE call.op # "force"
    BY <2>2 DEF OrderOf, Orders
  <2> QED BY <2>1, <2>2
<1>6. pending' \in OtaRequests
  BY <1>1, <1>5, Zenon DEF OtaRequests
<1>7. deadline' \in 0 .. Horizon + Window
  BY <1>1, <1>2, OwnerAssumption DEF CoordInv, CoordTypeOK, Times
<1>8. TaskTypes'
  BY <1>1, <1>6, <1>7 DEF CoordInv, CoordTypeOK, TaskTypes, HostTypeOK, Calls
<1>9. Owed(pending)'
  <2> SUFFICES ASSUME call.op = "force" PROVE Owed(pending)'
    BY <1>1 DEF Owed
  <2>1. now + call.left = request.expires + (now + call.left - request.expires)
    BY <1>2, OwnerAssumption DEF Times
  <2>2. newest \in Times
    BY DEF CoordInv, CoordTypeOK, OwnerTypeOK
  <2> QED BY <1>1, <1>2, <1>3, <1>4, <2>1, <2>2, OwnerAssumption DEF Owed, Maintenance, Times
<1>10. net \notin {"claimed", "wanted"} /\ ~Holding /\ ~Busy /\ attempt.kind = "none" /\ mode # "charging"
  BY <1>1 DEF CoordInv, ControllerExclusive, CallInv, TaskInv, Busy, Holding
<1>11. TaskInv'
  BY <1>1, <1>9, <1>10 DEF CoordInv, TaskInv, Busy, Holding
<1>12. CallInv' /\ ControllerExclusive'
  BY <1>1, <1>10 DEF CoordInv, CallInv, ControllerExclusive, NoCall, Kinds, Maintenance, Holding,
     Busy, OnMaintenance
<1> QED BY <1>8, <1>11, <1>12 DEF Exclusive

LEMMA ChargingKeeps ==
    ASSUME CoordInv, RequestsCharging PROVE TaskTypes' /\ Exclusive'
<1>1. /\ call.op = "charging" /\ call.asked
      /\ mode = "shutdown" /\ mode' = "charging"
      /\ UNCHANGED <<used, reserved, pending, deadline, inProgress, net, attempt, limit, forced>>
      /\ call' = NoCall /\ stage' # "run"
      /\ UNCHANGED <<now, request, newest, ran>>
  BY ReturnFacts DEF RequestsCharging, StartsCharging, taskVars
<1>2. TaskTypes'
  BY <1>1 DEF CoordInv, CoordTypeOK, TaskTypes, HostTypeOK, Calls, Modes
<1>3. Exclusive'
  BY <1>1 DEF CoordInv, Exclusive, ControllerExclusive, CallInv, TaskInv, Owed, Timed, Busy, Holding,
     OnMaintenance, NoCall, Kinds, Maintenance
<1> QED BY <1>2, <1>3

LEMMA RefusesKeep ==
    ASSUME CoordInv, Refuses PROVE TaskTypes' /\ Exclusive'
<1>1. /\ UNCHANGED <<mode, used, reserved, pending, deadline, inProgress, net, attempt, limit, forced>>
      /\ call' = NoCall /\ stage' # "run"
      /\ UNCHANGED <<now, request, newest, ran>>
  BY ReturnFacts DEF Refuses, hostVars, taskVars
<1>2. TaskTypes'
  BY <1>1 DEF CoordInv, CoordTypeOK, TaskTypes, HostTypeOK, Calls
<1>3. Exclusive'
  BY <1>1 DEF CoordInv, Exclusive, ControllerExclusive, CallInv, TaskInv, Owed, Timed, Busy, Holding,
     OnMaintenance, NoCall, Kinds, Maintenance
<1> QED BY <1>2, <1>3

\* Where NetworkTask is matters, and whether it is on a maintenance update.
LEMMA WaitingKeeps ==
    ASSUME CoordInv, LooksReady \/ NothingDue PROVE TaskTypes' /\ Exclusive'
<1>1. /\ ~Busy /\ net' \in {"idle", "ready"}
      /\ UNCHANGED <<mode, used, reserved, pending, deadline, inProgress, attempt, limit, forced>>
      /\ UNCHANGED <<now, stage, request, newest, ran, call>>
  BY DEF LooksReady, NothingDue, NetStep, Kept, Busy, hostVars, ownerVars
<1>2. TaskTypes'
  BY <1>1 DEF CoordInv, CoordTypeOK, TaskTypes, HostTypeOK, NetStages
<1>3. Exclusive'
  BY <1>1 DEF CoordInv, Exclusive, ControllerExclusive, CallInv, TaskInv, Owed, Timed, Busy, Holding,
     OnMaintenance
<1> QED BY <1>2, <1>3

LEMMA TakingKeeps ==
    ASSUME CoordInv, TakesManualRequest PROVE TaskTypes' /\ Exclusive'
<1>1. /\ ~Busy /\ net' = "claimed" /\ ~inProgress /\ inProgress' = TRUE
      /\ pending.kind # "none" /\ attempt' = pending /\ pending' = NoRequest
      /\ pending.kind = "normal" => net = "ready"
      /\ UNCHANGED <<mode, used, reserved, deadline, limit, forced>>
      /\ UNCHANGED <<now, stage, request, newest, ran, call>>
  BY DEF TakesManualRequest, Busy, hostVars, ownerVars
<1>2. TaskTypes'
  BY <1>1 DEF CoordInv, CoordTypeOK, TaskTypes, HostTypeOK, NetStages, OtaRequests
<1>3. mode # "ota" /\ mode # "charging"
  BY <1>1 DEF CoordInv, ControllerExclusive, Holding, Busy
<1>4. ControllerExclusive' /\ CallInv'
  BY <1>1, <1>3 DEF CoordInv, ControllerExclusive, CallInv, Busy, Holding, OnMaintenance, NoRequest
<1>5. TaskInv'
  BY <1>1 DEF CoordInv, TaskInv, Owed, Timed, Busy, Holding, NoRequest
<1> QED BY <1>2, <1>4, <1>5 DEF Exclusive

LEMMA ClaimingKeeps ==
    ASSUME CoordInv, ClaimsAutomaticRequest PROVE TaskTypes' /\ Exclusive'
<1>1. /\ ~Busy /\ net' = "claimed" /\ inProgress' = TRUE
      /\ pending.kind = "none"
      /\ attempt' = [kind |-> "normal", order |-> NoOrder]
      /\ UNCHANGED <<mode, used, reserved, pending, deadline, limit, forced>>
      /\ UNCHANGED <<now, stage, request, newest, ran, call>>
  BY DEF ClaimsAutomaticRequest, NetStep, Busy, hostVars, ownerVars
<1>2. attempt' \in OtaRequests
  BY <1>1 DEF OtaRequests, Kinds, Orders
<1>3. pending = NoRequest
  BY <1>1 DEF CoordInv, CoordTypeOK, OtaRequests, Kinds, Maintenance
<1>4. TaskTypes'
  BY <1>1, <1>2 DEF CoordInv, CoordTypeOK, TaskTypes, HostTypeOK, NetStages
<1>5. Exclusive'
  BY <1>1, <1>3 DEF CoordInv, Exclusive, ControllerExclusive, CallInv, TaskInv, Owed, Timed, Busy,
     Holding, OnMaintenance, NoRequest, Maintenance
<1> QED BY <1>4, <1>5

LEMMA BeginsKeeps ==
    ASSUME CoordInv, Begins PROVE TaskTypes' /\ Exclusive'
<1>1. /\ net = "wanted" /\ net' = "asking"
      /\ UNCHANGED <<pending, deadline, inProgress, attempt>>
      /\ UNCHANGED <<now, stage, request, newest, ran, call>>
  BY DEF Begins, NetStep, ownerVars
<1>2. Busy /\ inProgress /\ pending.kind = "none" /\ attempt.kind # "none" /\ mode # "ota"
  BY <1>1 DEF CoordInv, ControllerExclusive, TaskInv, Busy, Holding, NoRequest
<1>3. CASE OnMaintenance
  <2>1. /\ mode \in {"idle", "shutdown"} /\ mode' = "ota" /\ used' \in BOOLEAN
        /\ reserved' \in Maintenance /\ attempt.kind \in Maintenance
        /\ limit' = now + Window
        /\ forced' = IF attempt.kind = "force" THEN attempt.order.expires ELSE forced
    BY <1>3 DEF Begins, BeginOta, MayStart, OnMaintenance, CoordInv, CoordTypeOK, HostTypeOK
  <2>2. now \in Times /\ forced \in Times /\ attempt.order.expires \in Times
    BY RequestTypes DEF CoordInv, CoordTypeOK, OwnerTypeOK
  <2>3. forced' \in Times /\ limit' \in 0 .. Horizon + Window
    BY <2>1, <2>2, OwnerAssumption DEF Times
  <2>4. TaskTypes'
    BY <1>1, <2>1, <2>3 DEF CoordInv, CoordTypeOK, TaskTypes, HostTypeOK, NetStages, Modes
  <2>5. Owed(attempt)
    BY <1>1 DEF CoordInv, TaskInv
  <2>6. forced' <= newest /\ (stage = "run" => request.expires > forced')
    BY <2>1, <2>5 DEF CoordInv, CallInv, TaskInv, Owed, Timed
  <2>7. pending = NoRequest
    BY <1>2 DEF CoordInv, TaskInv
  <2>8. CallInv'
    BY <1>1, <1>2, <1>3, <2>1, <2>6 DEF CoordInv, CallInv, OnMaintenance
  <2>9. TaskInv'
    <3>1. attempt.kind = "force" => Timed(attempt)'
      BY <1>1, <2>1, <2>5 DEF Owed, Timed
    <3> QED BY <1>1, <1>2, <2>6, <2>7, <3>1 DEF CoordInv, TaskInv, Busy, Owed, NoRequest
  <2>10. ControllerExclusive'
    BY <1>1, <1>2, <1>3, <2>1 DEF CoordInv, ControllerExclusive, Busy, Holding, OnMaintenance
  <2> QED BY <2>4, <2>8, <2>9, <2>10 DEF Exclusive
<1>4. CASE ~OnMaintenance
  <2>1. UNCHANGED <<mode, used, reserved, limit, forced>>
    BY <1>4 DEF Begins, hostVars
  <2>2. TaskTypes'
    BY <1>1, <2>1 DEF CoordInv, CoordTypeOK, TaskTypes, HostTypeOK, NetStages
  <2>3. Exclusive'
    BY <1>1, <1>2, <1>4, <2>1 DEF CoordInv, Exclusive, ControllerExclusive, CallInv, TaskInv, Owed, Timed,
       Busy, Holding, OnMaintenance
  <2> QED BY <2>2, <2>3
<1> QED BY <1>3, <1>4

\* Steps between the claim and the end that leave the controller as it is.
LEMMA PassingKeeps ==
    ASSUME CoordInv, NEW from \in NetStages, NEW to \in NetStages,
           NetStep(from, to), Kept, UNCHANGED hostVars,
           Busy, Busy', Holding' <=> Holding, to # "claimed", to = "wanted" => from = "claimed"
    PROVE  TaskTypes' /\ Exclusive'
<1>1. /\ net = from /\ net' = to /\ net' # "claimed" /\ (net' = "wanted" => net = "claimed")
      /\ UNCHANGED <<mode, used, reserved, pending, deadline, inProgress, attempt, limit, forced>>
      /\ UNCHANGED <<now, stage, request, newest, ran, call>>
  BY DEF NetStep, Kept, hostVars, ownerVars
<1>2. TaskTypes'
  BY <1>1 DEF CoordInv, CoordTypeOK, TaskTypes, HostTypeOK
<1>3. ControllerExclusive' /\ CallInv'
  BY <1>1 DEF CoordInv, ControllerExclusive, CallInv, OnMaintenance
<1>4. TaskInv'
  BY <1>1 DEF CoordInv, TaskInv, Owed, Timed
<1> QED BY <1>2, <1>3, <1>4 DEF Exclusive

LEMMA RunningKeeps ==
    ASSUME CoordInv,
           \/ LooksAtRequest("claimed", "wanted") \/ NotAdmitted
           \/ \E needed \in BOOLEAN : LearnsVersion(needed)
           \/ LooksAtRequest("prepare", "confirmed") \/ NotReady
           \/ Rechecks \/ Fails \/ Flashes
    PROVE  TaskTypes' /\ Exclusive'
<1>1. ASSUME NEW from \in {"asking", "prepare", "confirmed"}, NetStep(from, WayOut), Kept,
             UNCHANGED hostVars
      PROVE  TaskTypes' /\ Exclusive'
  <2>1. Busy /\ Busy' /\ (Holding' <=> Holding) /\ WayOut \notin {"claimed", "wanted"}
        /\ WayOut \in NetStages
    BY <1>1 DEF NetStep, WayOut, Busy, Holding, OnMaintenance, Kept, NetStages
  <2>2. from \in NetStages
    BY DEF NetStages
  <2> QED BY <1>1, <2>1, <2>2, PassingKeeps
<1>2. ASSUME NEW from \in {"claimed", "wanted"}, NEW to \in {"wanted", "ending"},
             NetStep(from, to), to = "wanted" => from = "claimed", Kept, UNCHANGED hostVars
      PROVE  TaskTypes' /\ Exclusive'
  <2>1. Busy /\ Busy' /\ (Holding' <=> Holding) /\ {from, to} \subseteq NetStages /\ to # "claimed"
    BY <1>2 DEF NetStep, Busy, Holding, NetStages
  <2> QED BY <1>2, <2>1, PassingKeeps
<1>3. ASSUME NEW from \in {"asking", "prepare"}, NEW to \in {"prepare", "confirmed"},
             NetStep(from, to), Kept, UNCHANGED hostVars
      PROVE  TaskTypes' /\ Exclusive'
  <2>1. Busy /\ Busy' /\ (Holding' <=> Holding) /\ {from, to} \subseteq NetStages
        /\ to \notin {"claimed", "wanted"}
    BY <1>3 DEF NetStep, Kept, Busy, Holding, OnMaintenance, NetStages
  <2> QED BY <1>3, <2>1, PassingKeeps
<1>4. ASSUME NEW from \in {"separating", "parted", "separated", "held", "flashing"},
             NEW to \in {"parted", "separated", "held", "flashing", "leaving", "flashed"},
             NetStep(from, to), Kept, UNCHANGED hostVars
      PROVE  TaskTypes' /\ Exclusive'
  <2>1. Busy /\ Busy' /\ (Holding' <=> Holding) /\ {from, to} \subseteq NetStages
        /\ to \notin {"claimed", "wanted"}
    BY <1>4 DEF NetStep, Busy, Holding, NetStages
  <2> QED BY <1>4, <2>1, PassingKeeps
<1>5. ASSUME LooksAtRequest("claimed", "wanted") \/ NotAdmitted PROVE TaskTypes' /\ Exclusive'
  BY <1>2, <1>5 DEF LooksAtRequest, NotAdmitted
<1>6. ASSUME NEW needed \in BOOLEAN, LearnsVersion(needed) PROVE TaskTypes' /\ Exclusive'
  BY <1>1, <1>3, <1>6 DEF LearnsVersion
<1>7. ASSUME LooksAtRequest("prepare", "confirmed") \/ NotReady PROVE TaskTypes' /\ Exclusive'
  BY <1>1, <1>3, <1>7 DEF LooksAtRequest, NotReady
<1>8. ASSUME Rechecks \/ Fails \/ Flashes PROVE TaskTypes' /\ Exclusive'
  BY <1>4, <1>8 DEF Rechecks, LooksAtRequest, LooksAtController, Fails, Flashes
<1> QED BY <1>5, <1>6, <1>7, <1>8

LEMMA PreparesKeeps ==
    ASSUME CoordInv, Prepares PROVE TaskTypes' /\ Exclusive'
<1>1. /\ net = "confirmed" /\ net' = "separating"
      /\ UNCHANGED <<pending, deadline, inProgress, attempt, limit, forced>>
      /\ UNCHANGED <<now, stage, request, newest, ran, call>>
  BY DEF Prepares, NetStep, Kept, ownerVars
<1>2. /\ mode' = "ota" /\ used' \in BOOLEAN /\ reserved' \in {"none"} \cup Maintenance
  <2>1. CASE OnMaintenance
    BY <2>1 DEF Prepares, MayContinue, hostVars, CoordInv, CoordTypeOK, HostTypeOK
  <2>2. CASE ~OnMaintenance
    BY <2>2 DEF Prepares, BeginOta, CoordInv, CoordTypeOK, HostTypeOK
  <2> QED BY <2>1, <2>2
<1>3. TaskTypes'
  BY <1>1, <1>2 DEF CoordInv, CoordTypeOK, TaskTypes, HostTypeOK, NetStages, Modes
<1>4. Busy /\ inProgress /\ pending = NoRequest
  BY <1>1 DEF CoordInv, ControllerExclusive, TaskInv, Busy
<1>5. TaskInv'
  BY <1>1, <1>4 DEF CoordInv, TaskInv, Owed, Timed, Busy, Holding, OnMaintenance, Maintenance
<1>6. ControllerExclusive' /\ CallInv'
  BY <1>1, <1>2, <1>4 DEF CoordInv, ControllerExclusive, CallInv, Busy, Holding, OnMaintenance
<1> QED BY <1>3, <1>5, <1>6 DEF Exclusive

LEMMA EndingKeeps ==
    ASSUME CoordInv, GivesBack \/ EndsAttempt PROVE TaskTypes' /\ Exclusive'
<1>1. CASE GivesBack
  <2>1. /\ net = "leaving" /\ net' = "ending"
        /\ mode = "ota" /\ mode' \in {"idle", "shutdown"} /\ reserved' = "none" /\ used' = used
        /\ UNCHANGED <<pending, deadline, inProgress, attempt, limit, forced>>
        /\ UNCHANGED <<now, stage, request, newest, ran, call>>
    BY <1>1 DEF GivesBack, FinishOta, NetStep, Kept, ownerVars
  <2>2. TaskTypes'
    BY <2>1 DEF CoordInv, CoordTypeOK, TaskTypes, HostTypeOK, NetStages, Modes
  <2>3. Exclusive'
    BY <2>1 DEF CoordInv, Exclusive, ControllerExclusive, CallInv, TaskInv, Owed, Timed, Busy, Holding,
       OnMaintenance
  <2> QED BY <2>2, <2>3
<1>2. CASE EndsAttempt
  <2>1. /\ net = "ending" /\ net' = "idle" /\ inProgress' = FALSE /\ attempt' = NoRequest
        /\ UNCHANGED <<mode, used, reserved, pending, deadline, limit, forced>>
        /\ UNCHANGED <<now, stage, request, newest, ran, call>>
    BY <1>2 DEF EndsAttempt, NetStep, hostVars, ownerVars
  <2>2. TaskTypes'
    BY <2>1 DEF CoordInv, CoordTypeOK, TaskTypes, HostTypeOK, NetStages, OtaRequests
  <2>3. Exclusive'
    BY <2>1 DEF CoordInv, Exclusive, ControllerExclusive, CallInv, TaskInv, Owed, Timed, Busy, Holding,
       OnMaintenance, NoRequest, Maintenance
  <2> QED BY <2>2, <2>3
<1> QED BY <1>1, <1>2

LEMMA LidKeeps ==
    ASSUME CoordInv, Lid PROVE TaskTypes' /\ Exclusive'
<1>1. /\ mode # "ota" /\ mode' \in {"idle", "busy", "shutdown"}
      /\ UNCHANGED <<used, reserved, pending, deadline, inProgress, net, attempt, limit, forced>>
      /\ UNCHANGED <<now, stage, request, newest, ran, call>>
  BY DEF Lid, HostBoot, LidMoves, taskVars, ownerVars
<1>2. TaskTypes'
  BY <1>1 DEF CoordInv, CoordTypeOK, TaskTypes, HostTypeOK, Modes
<1>3. Exclusive'
  BY <1>1 DEF CoordInv, Exclusive, ControllerExclusive, CallInv, TaskInv, Owed, Timed, Busy, Holding,
     OnMaintenance
<1> QED BY <1>2, <1>3

LEMMA RestartsKeep ==
    ASSUME CoordInv, Restarts PROVE TaskTypes' /\ Exclusive'
<1>1. /\ mode' = "off" /\ used' = FALSE /\ reserved' = "none"
      /\ pending' = NoRequest /\ deadline' = 0 /\ inProgress' = FALSE /\ net' = "idle"
      /\ attempt' = NoRequest /\ limit' = 0 /\ call' = NoCall /\ stage' = "idle"
      /\ UNCHANGED <<forced, newest>>
  BY DEF Restarts, Restart, HostReset
<1>2. 0 \in 0 .. Horizon + Window
  BY OwnerAssumption
<1>3. TaskTypes'
  BY <1>1, <1>2 DEF CoordInv, CoordTypeOK, TaskTypes, HostTypeOK, Modes, OtaRequests, NetStages, Calls
<1>4. Exclusive'
  BY <1>1 DEF CoordInv, Exclusive, ControllerExclusive, CallInv, TaskInv, Owed, Timed, Busy, Holding,
     OnMaintenance, NoRequest, NoCall, Kinds, Maintenance
<1> QED BY <1>3, <1>4

LEMMA ClockKeeps ==
    ASSUME CoordInv, Clock PROVE TaskTypes' /\ Exclusive'
<1>1. /\ UNCHANGED <<mode, used, reserved, pending, deadline, inProgress, net, attempt, limit, forced>>
      /\ UNCHANGED <<stage, request, newest, ran, call>>
      /\ now' \in {now, now + 1}
  BY DEF Clock, Synchronise, Tick, hostVars, taskVars
<1>2. TaskTypes'
  BY <1>1 DEF CoordInv, CoordTypeOK, TaskTypes, HostTypeOK
<1>3. stage = "run" => request.expires <= now' + call.left
  <2> SUFFICES ASSUME stage = "run" PROVE request.expires <= now' + call.left
    OBVIOUS
  <2>1. call.op # "none" /\ request.expires <= now + call.left
    BY DEF CoordInv, CallInv
  <2>2. call.left \in 1 .. Window /\ now \in Times /\ request.expires \in Times
    BY <2>1, CallTypes DEF CoordInv, CoordTypeOK, OwnerTypeOK, Requests
  <2> QED BY <1>1, <2>1, <2>2, OwnerAssumption DEF Times
<1>4. CallInv'
  BY <1>1, <1>3 DEF CoordInv, CallInv, OnMaintenance
<1>5. TaskInv' /\ ControllerExclusive'
  BY <1>1 DEF CoordInv, ControllerExclusive, TaskInv, Owed, Timed, Busy, Holding, OnMaintenance
<1> QED BY <1>2, <1>4, <1>5 DEF Exclusive

-----------------------------------------------------------------------------
(* The invariant of the composition *)

LEMMA MqttTaskKeeps ==
    ASSUME CoordInv, MqttTask PROVE TaskTypes' /\ Exclusive'
<1>1. "normal" \in {"normal", "recovery"} /\ "recovery" \in {"normal", "recovery"}
  OBVIOUS
<1>2. CASE Triggers("normal", Window)
  <2>1. Window \in 1 .. Window
    BY OwnerAssumption, WindowPositive
  <2> QED BY <1>1, <1>2, <2>1, TriggersKeep
<1> QED
  BY <1>1, <1>2, AdmittingKeeps, MessagesKeep, TriggersKeep, AsksKeep, QueuesKeep, ChargingKeeps,
     RefusesKeep DEF MqttTask

LEMMA NetworkTaskKeeps ==
    ASSUME CoordInv, NetworkTask PROVE TaskTypes' /\ Exclusive'
BY WaitingKeeps, TakingKeeps, ClaimingKeeps, BeginsKeeps, RunningKeeps, PreparesKeeps, EndingKeeps
   DEF NetworkTask

LEMMA CoordStep == CoordInv /\ [CoordNext]_coordVars => CoordInv'
<1> SUFFICES ASSUME CoordInv, [CoordNext]_coordVars PROVE CoordInv'
  OBVIOUS
<1>1. OwnerTypeOK' /\ OwnerInv'
  BY OwnerKept
<1>2. CASE UNCHANGED coordVars
  <2>1. /\ UNCHANGED <<mode, used, reserved, pending, deadline, inProgress, net, attempt, limit, forced>>
        /\ UNCHANGED <<now, stage, request, newest, ran, call>>
    BY <1>2 DEF coordVars, taskVars, hostVars, ownerVars
  <2>2. TaskTypes'
    BY <2>1 DEF CoordInv, CoordTypeOK, TaskTypes, HostTypeOK
  <2>3. Exclusive'
    BY <2>1 DEF CoordInv, Exclusive, ControllerExclusive, CallInv, TaskInv, Owed, Timed, Busy, Holding,
       OnMaintenance
  <2> QED BY <2>2, <2>3, <1>1 DEF CoordInv, CoordTypeOK, TaskTypes, Exclusive
<1>3. CASE CoordNext
  <2>1. TaskTypes' /\ Exclusive'
    BY <1>3, MqttTaskKeeps, NetworkTaskKeeps, LidKeeps, RestartsKeep, ClockKeeps DEF CoordNext
  <2> QED BY <2>1, <1>1 DEF CoordInv, CoordTypeOK, TaskTypes, Exclusive
<1> QED BY <1>2, <1>3

\* The gate, the controller and the two tasks fit together (coordVars).
THEOREM CoordInvariance == CoordSpec => []CoordInv
BY CoordStart, CoordStep, PTL DEF CoordSpec

\* Every state of the gate, the queue and the tasks has its type.
THEOREM CoordTyped == CoordSpec => []CoordTypeOK
<1>1. CoordInv => CoordTypeOK
  BY DEF CoordInv
<1> QED BY <1>1, CoordInvariance, PTL

\* The controller is reserved exactly while an update will use it or give it
\* back, and no charging close meets an update (runOtaProcess,
\* close_for_charging).
THEOREM ExclusiveController == CoordSpec => []ControllerExclusive
<1>1. CoordInv => ControllerExclusive
  BY DEF CoordInv
<1> QED BY <1>1, CoordInvariance, PTL

\* With everything around it, the gate is the gate of OwnerRequests: what is
\* proved of its specification holds here (admitOwnerCommand).
THEOREM GateKept == CoordSpec => OwnerSpec
<1>1. CoordInit => OwnerInit
  BY DEF CoordInit
<1>2. [CoordNext]_coordVars => [OwnerNext]_ownerVars
  BY GateStep DEF coordVars
<1> QED BY <1>1, <1>2, PTL DEF CoordSpec, OwnerSpec

\* Every step of the tasks asks of the controller what OtaHost allows: the
\* promise that LidController keeps is used, and nothing beyond it.
THEOREM HostKept == CoordSpec => HostSpec
<1>1. CoordInit => HostInit
  BY DEF CoordInit
<1>2. CoordInv /\ [CoordNext]_coordVars => [HostNext]_hostVars
  <2> SUFFICES ASSUME CoordInv, CoordNext PROVE [HostNext]_hostVars
    BY DEF coordVars
  <2>1. CASE MqttTask
    BY <2>1 DEF MqttTask, Admitting, HandsOver, Triggers, Asks, Queues, LooksForUpdate,
       RequestsCharging, Refuses, HostNext
  <2>2. ASSUME OnMaintenance PROVE attempt.kind \in Kinds
    BY <2>2 DEF OnMaintenance, Kinds
  <2>3. "normal" \in Kinds
    BY DEF Kinds
  <2>4. CASE NetworkTask
    BY <2>2, <2>3, <2>4 DEF NetworkTask, LooksReady, NothingDue, TakesManualRequest,
       ClaimsAutomaticRequest, LooksAtRequest,
     LooksAtController, Begins, NotAdmitted, LearnsVersion, Prepares, NotReady, Rechecks,
       Fails, Flashes, GivesBack, EndsAttempt, HostNext
  <2>5. CASE Lid \/ Restarts \/ Clock
    BY <2>5 DEF Lid, Restarts, Clock, HostNext
  <2> QED BY <2>1, <2>4, <2>5 DEF CoordNext
<1> QED BY <1>1, <1>2, CoordInvariance, PTL DEF CoordSpec, HostSpec

\* A forced update begins for one admitted request of the owner, never twice for
\* one (startOtaUpdate, takeManualRequest, runOtaProcess).
THEOREM ForcedUpdatesAreOwned == CoordSpec => ForcedByOwner
<1>1. CoordInv /\ [CoordNext]_coordVars =>
        [ForcedBegins =>
            /\ attempt.order.id \in ran
            /\ attempt.order.expires > forced]_coordVars
  <2> SUFFICES ASSUME CoordInv, CoordNext, ForcedBegins
               PROVE  /\ attempt.order.id \in ran
                      /\ attempt.order.expires > forced
    BY DEF coordVars
  <2>1. mode # "ota" /\ mode' = "ota" /\ reserved' = "force"
    BY DEF ForcedBegins
  <2>2. Begins \/ Prepares
    <3>1. ~MqttTask
      BY <2>1 DEF MqttTask, Admitting, HandsOver, Triggers, Asks, Queues, LooksForUpdate,
         RequestsCharging, Refuses, StartsCharging, hostVars
    <3>2. ~Lid /\ ~Restarts /\ ~Clock
      BY <2>1 DEF Lid, HostBoot, LidMoves, Restarts, HostReset, Clock, hostVars
    <3>3. NetworkTask => Begins \/ Prepares
      BY <2>1 DEF NetworkTask, LooksReady, NothingDue, TakesManualRequest,
         ClaimsAutomaticRequest, LooksAtRequest, LooksAtController, NotAdmitted, LearnsVersion,
         NotReady, Rechecks, Fails, Flashes, GivesBack, FinishOta, EndsAttempt, hostVars
    <3> QED BY <3>1, <3>2, <3>3 DEF CoordNext
  <2>3. ~Prepares
    BY <2>1 DEF Prepares, BeginOta, MayContinue, hostVars, Maintenance
  <2>4. net = "wanted" /\ attempt.kind = "force"
    BY <2>1, <2>2, <2>3 DEF Begins, NetStep, BeginOta, OnMaintenance, hostVars
  <2> QED BY <2>4 DEF CoordInv, TaskInv, Owed
<1> QED BY <1>1, CoordInvariance, PTL DEF CoordSpec, ForcedByOwner

\* The image of a forced update is fetched in the time of the request it began
\* for: no later request has moved the limit, and the final look is the last
\* thing before the transfer (runOtaProcess).
THEOREM ForcedTransfersInTime == CoordSpec => ForcedInTime
<1>1. CoordInv /\ [CoordNext]_coordVars =>
        [Transfers /\ attempt.kind = "force" =>
            /\ attempt.order.expires = forced
            /\ now < attempt.order.expires + attempt.order.late]_coordVars
  <2> SUFFICES ASSUME CoordInv, CoordNext, Transfers, attempt.kind = "force"
               PROVE  /\ attempt.order.expires = forced
                      /\ now < attempt.order.expires + attempt.order.late
    BY DEF coordVars
  <2>1. net = "held" /\ net' = "flashing"
    BY DEF Transfers
  <2>2. NetworkTask
    BY <2>1 DEF CoordNext, MqttTask, Admitting, HandsOver, Triggers, Asks, Queues, LooksForUpdate,
       RequestsCharging, Refuses, Lid, Restarts, Clock, taskVars
  <2>3. StillWanted
    BY <2>1, <2>2 DEF NetworkTask, NetStep, LooksReady, NothingDue, TakesManualRequest,
       ClaimsAutomaticRequest, LooksAtRequest, LooksAtController, Begins, NotAdmitted,
       LearnsVersion, WayOut, Prepares, NotReady, Rechecks, Fails, Flashes, GivesBack, EndsAttempt
  <2>4. now < deadline
    BY <2>3 DEF StillWanted, RequestFresh, OnMaintenance, Maintenance
  <2>5. Timed(attempt)
    BY <2>1 DEF CoordInv, TaskInv, Holding
  <2> QED BY <2>4, <2>5 DEF Timed
<1> QED BY <1>1, CoordInvariance, PTL DEF CoordSpec, ForcedInTime
=============================================================================
