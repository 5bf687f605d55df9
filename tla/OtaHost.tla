------------------------------ MODULE OtaHost -------------------------------
(***************************************************************************)
(* What AutoOtaManager relies on in the controller: a lid that goes its    *)
(* own way until an update reserves it, and then stays where it is, with   *)
(* every relay isolated, until the update gives it back or the board       *)
(* restarts.  LidController is shown to keep this promise.                 *)
(***************************************************************************)

VARIABLES
    mode,      \* what the controller is doing
    used,      \* otaRecoveryUsed
    reserved   \* which of the reservations of a maintenance update is set

hostVars == <<mode, used, reserved>>

\* "shutdown" is a protection with resting motors, "busy" all that moves or waits.
Modes == {"off", "idle", "busy", "shutdown", "charging", "ota"}
Maintenance == {"recovery", "force"}
Kinds == {"normal"} \cup Maintenance

HostTypeOK ==
    /\ mode \in Modes
    /\ used \in BOOLEAN
    /\ reserved \in {"none"} \cup Maintenance

HostInit == mode = "off" /\ used = FALSE /\ reserved = "none"

HostBoot ==
    /\ mode = "off" /\ mode' \in {"idle", "shutdown"}
    /\ UNCHANGED <<used, reserved>>

HostReset == mode' = "off" /\ used' = FALSE /\ reserved' = "none"

\* update() and the commands for the lid.
LidMoves ==
    /\ mode \in {"idle", "busy", "shutdown", "charging"}
    /\ mode' \in (IF mode = "charging" THEN {"shutdown"} ELSE {"idle", "busy", "shutdown"})
    /\ UNCHANGED <<used, reserved>>

StartsCharging ==
    /\ mode = "shutdown" /\ mode' = "charging"
    /\ UNCHANGED <<used, reserved>>

\* canStartOta, but for the battery: it may refuse any time.
MayStart(kind) ==
    IF kind \in Maintenance THEN ~used /\ mode \in {"idle", "shutdown"} ELSE mode = "idle"

\* tryBeginOta
BeginOta(kind) ==
    /\ MayStart(kind)
    /\ mode' = "ota"
    /\ used' = (used \/ kind \in Maintenance)
    /\ reserved' = IF kind \in Maintenance THEN kind ELSE "none"

\* finishOtaWithoutReboot
FinishOta ==
    /\ mode = "ota" /\ mode' \in {"idle", "shutdown"}
    /\ reserved' = "none"
    /\ UNCHANGED used

HostNext ==
    \/ HostBoot \/ HostReset \/ LidMoves \/ StartsCharging
    \/ \E kind \in Kinds : BeginOta(kind)
    \/ FinishOta

HostSpec == HostInit /\ [][HostNext]_hostVars
=============================================================================
