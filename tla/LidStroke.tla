----------------------------- MODULE LidStroke ------------------------------
(***************************************************************************)
(* LidController with one history variable: how long the bridge has driven *)
(* its motors in the present direction without a break.  It is what the    *)
(* code bounds with stateTimer and chargingCloseAt, but those start again  *)
(* at every transition and the motors do not.                              *)
(***************************************************************************)
EXTENDS LidController

VARIABLE driveAge

strokeVars == <<vars, driveAge>>

\* Bound: one unit more than any stroke a property tells apart.
DriveCap == 2 * ActuatorTime + 1

StrokeInit == Init /\ driveAge = 0

Elapses == loopDue' /\ ~loopDue /\ state # "OFF"

StrokeNext ==
    /\ Next
    /\ driveAge' = IF Drive(bridge') = "off" \/ Drive(bridge') # Drive(bridge) THEN 0
                   ELSE IF Elapses THEN Capped(driveAge, DriveCap)
                   ELSE driveAge

StrokeSpec == StrokeInit /\ [][StrokeNext]_strokeVars

\* The motors are never driven in one direction for longer than a stroke.  Only
\* the fail-open stroke may follow an opening stroke without a break: the
\* critical voltage that latches the protection can come at its very end.
StrokeBounded ==
    \/ driveAge <= ActuatorTime
    \/ lowOpen /\ Drive(bridge) = "open" /\ driveAge <= 2 * ActuatorTime
=============================================================================
