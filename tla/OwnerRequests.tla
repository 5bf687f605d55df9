--------------------------- MODULE OwnerRequests ----------------------------
(***************************************************************************)
(* The admission of the owner's maintenance requests, close_for_charging   *)
(* and force_ota: a request carries an id and an absolute expiry time, and *)
(* is admitted through OwnerRequestGate, whose watermark is kept in NVS so *)
(* that a restart does not admit it again.                                 *)
(*                                                                         *)
(* The steps of admitOwnerCommand are apart, as the device may restart     *)
(* between any two of them.  m_ownerRequestMutex admits one message at a   *)
(* time.  Requests come from the broker, which may deliver them late, more *)
(* than once and in any order: any request may arrive at any time.  A      *)
(* message for which the NVS cannot be opened or read is rejected and      *)
(* changes nothing, and so is no step.                                     *)
(***************************************************************************)
EXTENDS Integers, FiniteSets

CONSTANTS
    Ids,          \* well-formed request ids; the others never pass the gate
    Window,       \* a request may expire at most this much later (120 s)
    MaxAccepted,  \* size of accepted_ (8)
    Horizon       \* bound: the time at which the model stops

ASSUME OwnerAssumption ==
    /\ Window \in Nat /\ MaxAccepted \in Nat /\ Horizon \in Nat

VARIABLES
    now,        \* the time
    synced,     \* time() has been set: before, it is far below any expiry
    stored,     \* "expiry" in NVS, 0 when there is none
    watermark,  \* watermark_
    accepted,   \* accepted_: its first count_ ids
    request,    \* the message being admitted
    stage,      \* where admitOwnerCommand is with it
    newest,     \* history: the latest expiry admitted in all boots
    ran         \* history: the ids admitted in this boot

ownerVars == <<now, synced, stored, watermark, accepted, request, stage, newest, ran>>

Times == 0 .. Horizon
Requests == [id : Ids, expires : Times]
Stages == {"idle", "accepted", "saved", "run"}

OwnerTypeOK ==
    /\ now \in Times /\ synced \in BOOLEAN
    /\ stored \in Times /\ watermark \in Times /\ newest \in Times
    /\ accepted \subseteq Ids /\ ran \subseteq Ids
    /\ IsFiniteSet(accepted) /\ Cardinality(accepted) <= MaxAccepted
    /\ request \in Requests
    /\ stage \in Stages

OwnerInit ==
    /\ now = 0 /\ synced = FALSE
    /\ stored = 0 /\ watermark = 0 /\ newest = 0
    /\ accepted = {} /\ ran = {}
    /\ request \in {r \in Requests : r.expires = 0}
    /\ stage = "idle"

\* validateRecoveryOtaRequest: the request is fresh.
Fresh(r) == synced /\ r.expires > now /\ r.expires - now <= Window

\* Fault: what a former boot has admitted is not read back.
RestoredNothing == watermark

\* load and restoreWatermark.
Restored == IF stored > watermark THEN stored ELSE watermark

\* Fault: a ninth id is accepted.
FullLate == Cardinality(accepted) > MaxAccepted

Full == Cardinality(accepted) >= MaxAccepted

\* Fault: the ids of this boot are forgotten.
SeenNever(r) == FALSE

Seen(r) == r.id \in accepted

\* OwnerRequestGate.accept
Accepts(r, retained, duplicate) ==
    /\ ~retained /\ ~duplicate
    /\ r.expires > Restored
    /\ ~Full
    /\ Fresh(r)
    /\ ~Seen(r)

\* A message arrives: the stored watermark is loaded and the gate asked.
Receive(r, retained, duplicate) ==
    /\ stage = "idle"
    /\ IF Accepts(r, retained, duplicate)
       THEN /\ accepted' = accepted \cup {r.id}
            /\ watermark' = r.expires
            /\ request' = r /\ stage' = "accepted"
       ELSE /\ watermark' = Restored
            /\ UNCHANGED <<accepted, request, stage>>
    /\ UNCHANGED <<now, synced, stored, newest, ran>>

\* The new watermark becomes durable.
Save ==
    /\ stage = "accepted"
    /\ stored' = watermark /\ stage' = "saved"
    /\ UNCHANGED <<now, synced, watermark, accepted, request, newest, ran>>

\* Fault: a failed write does not stop the request.
SaveFailsUnseen ==
    /\ stage = "accepted" /\ stage' = "saved"
    /\ UNCHANGED <<now, synced, stored, watermark, accepted, request, newest, ran>>

\* The write fails: the request is rejected, but the gate has counted it.
SaveFails ==
    /\ stage = "accepted" /\ stage' = "idle"
    /\ UNCHANGED <<now, synced, stored, watermark, accepted, request, newest, ran>>

\* Fault: the time taken by the write is not looked at.
StillValidUnchecked(r) == TRUE

\* The write may have taken long: the expiry is compared again.
StillValid(r) == r.expires > now

\* The request goes to handleCommand with the time that is left.
Admit ==
    /\ stage = "saved" /\ StillValid(request)
    /\ stage' = "run"
    /\ newest' = IF request.expires > newest THEN request.expires ELSE newest
    /\ ran' = ran \cup {request.id}
    /\ UNCHANGED <<now, synced, stored, watermark, accepted, request>>

Expire ==
    /\ stage = "saved" /\ ~StillValid(request)
    /\ stage' = "idle"
    /\ UNCHANGED <<now, synced, stored, watermark, accepted, request, newest, ran>>

\* handleCommand has returned.
Finish ==
    /\ stage = "run" /\ stage' = "idle"
    /\ UNCHANGED <<now, synced, stored, watermark, accepted, request, newest, ran>>

\* A reset at any point: the NVS is what remains.
Restart ==
    /\ synced' \in BOOLEAN
    /\ watermark' = 0 /\ accepted' = {} /\ ran' = {}
    /\ stage' = "idle"
    /\ UNCHANGED <<now, stored, request, newest>>

Synchronise ==
    /\ ~synced /\ synced' = TRUE
    /\ UNCHANGED <<now, stored, watermark, accepted, request, stage, newest, ran>>

Tick ==
    /\ now < Horizon /\ now' = now + 1
    /\ UNCHANGED <<synced, stored, watermark, accepted, request, stage, newest, ran>>

OwnerNext ==
    \/ \E r \in Requests, retained, duplicate \in BOOLEAN : Receive(r, retained, duplicate)
    \/ Save \/ SaveFails
    \/ Admit \/ Expire \/ Finish
    \/ Restart
    \/ Synchronise \/ Tick

OwnerSpec == OwnerInit /\ [][OwnerNext]_ownerVars

-----------------------------------------------------------------------------
(* Properties *)

Admission == stage # "run" /\ stage' = "run"

\* A request is admitted only if it expires later than every request admitted
\* before, in this boot or an earlier one: none is admitted twice, and a late
\* one never follows a newer one (acceptStoredOwnerRequest).
NewestOnly == [][Admission => request'.expires > newest]_ownerVars

\* Within a boot an id is admitted once, whatever expiry it comes with.
IdOncePerBoot == [][Admission => request'.id \notin ran]_ownerVars

\* Nothing is handed to handleCommand that the NVS could not refuse after a
\* restart: the watermark is durable before the actuation.
DurableFirst ==
    /\ stored >= newest
    /\ stage = "run" => stored >= request.expires

\* A request runs only before its expiry, and never for longer than the window:
\* requestChargingClose gets a time to live between 1 ms and 120 s.
RunsInTime ==
    [][Admission => synced /\ request'.expires > now /\ request'.expires - now <= Window]_ownerVars
=============================================================================
