------------------------------- MODULE HBridge ------------------------------
(***************************************************************************)
(* What the relay interlock promises of the contacts of the H-bridge: a    *)
(* direction contact is never made while the motors are powered, and power *)
(* never meets both directions.  Power may be cut, and a direction let go, *)
(* at any time.                                                            *)
(***************************************************************************)
VARIABLES
    power,    \* the Main contact is closed
    dir       \* the direction contacts that are closed

Closed == {"off", "open", "close", "both"}

BridgeInit == power = FALSE /\ dir = "off"

PowerOn  == dir # "both" /\ power' = TRUE /\ UNCHANGED dir
PowerOff == power' = FALSE /\ UNCHANGED dir
Make     == ~power /\ dir' \in Closed /\ UNCHANGED power
LetGo    == dir' = "off" /\ UNCHANGED power

BridgeNext == PowerOn \/ PowerOff \/ Make \/ LetGo

BridgeSpec == BridgeInit /\ [][BridgeNext]_<<power, dir>>
=============================================================================
