--------------------------- MODULE LidController ----------------------------
(***************************************************************************)
(* SmartBoxController: the lid state machine that loopTask drives through  *)
(* update(), the commands other tasks call on it, its OTA reservation and  *)
(* the two markers its state callback keeps in NVS.  dataMutex is held for *)
(* a whole call, so every call is one action.                              *)
(*                                                                         *)
(* Time passes in units of one normal power sample (200 ms).  A timer of   *)
(* the code is the age the code computes from it, kept only up to the      *)
(* limit it is compared with.  Between two units update() runs at least    *)
(* once, and any number of times more.                                     *)
(***************************************************************************)
EXTENDS PowerGate, Bridge

CONSTANTS
    ActuatorTime,        \* config.actuatorTime
    ChargingTime,        \* min(actuatorTime, 3800 ms)
    InrushTime,          \* 500 ms
    WaitTime,            \* config.waitTime
    MaxHoldTime,         \* config.maxHoldTime
    CooldownTime,        \* config.cooldownTime
    DebounceDelay,       \* config.debounceDelay
    BlindTime,           \* 3000 ms
    ClearTime,           \* 10000 ms
    EmergencyTime,       \* config.emergencyRecoveryTime
    MaintenanceTimeout,  \* MAINTENANCE_TIMEOUT_MS
    SlowPeriod,          \* 1000 ms power sampling while isolated
    WarmUp,              \* 120000 ms uptime before a recovery OTA
    TimerCap,            \* bound: the age at which stateTimer stops counting
    Ttls,                \* times to live of charging-close requests
    Readings,            \* power readings that occur
    Currents,            \* motor currents that occur with a voltage
    Commands,            \* requests that occur
    NvsFaults            \* whether opening the Preferences may fail

StallLimit == 3

AllCommands ==
    {"force_open", "force_close", "reset_emergency", "maintenance_start",
     "maintenance_stop", "close_for_charging", "normal", "recovery", "force",
     "power_loss"}

ASSUME LidAssumption ==
    /\ {ActuatorTime, ChargingTime, WaitTime, MaxHoldTime, EmergencyTime,
        MaintenanceTimeout, SlowPeriod, LatchTime, RecoveryTime} \subseteq Nat \ {0}
    /\ {InrushTime, CooldownTime, DebounceDelay, BlindTime, ClearTime, WarmUp} \subseteq Nat
    /\ TimerCap \in Nat
    /\ \A t \in {ActuatorTime, InrushTime + 1, WaitTime, EmergencyTime, MaintenanceTimeout} :
           TimerCap >= t
    /\ ChargingTime <= ActuatorTime
    /\ RecoveryTime > ChargingTime
    /\ NvsFaults \in BOOLEAN
    /\ Ttls \subseteq Nat
    /\ Readings \subseteq Levels
    /\ Currents \subseteq {"idle", "run", "stall"}
    /\ Commands \subseteq AllCommands

VARIABLES
    state,      \* currentState; "OFF" while the board has no power
    timer,      \* age of stateTimer
    holdAge,    \* age of holdStartTime
    stalls,     \* openStallCount or closeStallCount, whichever the state uses
    maint,      \* maintenanceRequested
    cool,       \* age of cooldownTimer, Idle unless isCooldown
    detectAge,  \* age of lastDetectStartTime, Idle when it is 0
    clearAge,   \* age of deadlockClearStartTime, Idle when it is 0
    deadlock,   \* sensorDeadlockFlag
    blind,      \* what is left of the post-close blind time
    bridge,     \* the relays (module Bridge)
    lowOpen,    \* lowBatteryOpening: the fail-open stroke is running
    chg,        \* chargingCloseResult: "RUNNING" iff active, "NONE" iff unused
    chgAge,     \* age of chargingCloseAt
    chgLeft,    \* what is left of the request's time to live
    chgStalls,  \* chargingCloseStalls
    current,    \* motorCurrent: "none" (NAN), "idle" (<= 50 mA), "run", "stall"
    sampleAge,  \* age of lastPowerReading
    uptime,     \* time since boot, up to WarmUp
    otaUsed,    \* otaRecoveryUsed
    reserved,   \* which of the OTA reservations is set
    nvHold,     \* NVS power_hold
    nvOpen,     \* NVS lid_open
    loopDue     \* update() has not run since the last unit of time

fsmVars    == <<state, timer, holdAge, stalls, detectAge, nvHold, nvOpen>>
senseVars  == <<cool, clearAge, deadlock, blind>>
chargeVars == <<chg, chgAge, chgLeft, chgStalls>>
powerVars  == <<gateVars, current, sampleAge>>
otaVars    == <<otaUsed, reserved>>
vars == <<fsmVars, senseVars, maint, bridge, lowOpen, chargeVars, powerVars,
          otaVars, uptime, loopDue>>

StrokeStates == {"OPEN_START", "OPENING", "CLOSE_START", "CLOSING"}
States ==
    StrokeStates \cup {"OFF", "IDLE", "HOLD", "EMERGENCY_STOP", "MAINTENANCE",
                       "BATTERY_LOW_SHUTDOWN", "OTA_UPDATING"}
ChargingResults ==
    {"NONE", "RUNNING", "STROKE_FINISHED", "LOW_VOLTAGE", "SENSOR_FAULT",
     "OVERCURRENT", "EXPIRED", "CANCELLED"}
Distances == {"clear", "edge", "near", "touch"}
Within(dist) == dist \in {"near", "touch"}

TypeOK ==
    /\ GateTypeOK
    /\ state \in States
    /\ timer \in 0 .. TimerCap
    /\ holdAge \in 0 .. MaxHoldTime
    /\ stalls \in 0 .. StallLimit - 1
    /\ maint \in BOOLEAN /\ deadlock \in BOOLEAN /\ lowOpen \in BOOLEAN
    /\ otaUsed \in BOOLEAN /\ nvHold \in BOOLEAN /\ nvOpen \in BOOLEAN /\ loopDue \in BOOLEAN
    /\ cool \in {Idle} \cup 0 .. CooldownTime
    /\ detectAge \in {Idle} \cup 0 .. DebounceDelay
    /\ clearAge \in {Idle} \cup 0 .. ClearTime
    /\ blind \in 0 .. BlindTime
    /\ bridge \in BridgeType
    /\ chg \in ChargingResults
    /\ chgAge \in 0 .. ChargingTime
    /\ chgLeft \in Nat
    /\ chgStalls \in 0 .. StallLimit - 1
    /\ current \in {"none", "idle", "run", "stall"}
    /\ sampleAge \in 0 .. SlowPeriod
    /\ uptime \in 0 .. WarmUp
    /\ reserved \in {"none", "recovery", "force"}

-----------------------------------------------------------------------------
(* Power off and boot *)

\* What a board without power is: every pin floats, only NVS is kept.
PoweredOff ==
    /\ state = "OFF"
    /\ timer = 0 /\ holdAge = 0 /\ stalls = 0 /\ maint = FALSE
    /\ cool = Idle /\ detectAge = Idle /\ clearAge = Idle /\ deadlock = FALSE /\ blind = 0
    /\ bridge = ForcedOff(BootBridge)
    /\ lowOpen = FALSE
    /\ chg = "NONE" /\ chgAge = 0 /\ chgLeft = 0 /\ chgStalls = 0
    /\ GateInit
    /\ current = "none" /\ sampleAge = 0 /\ uptime = 0
    /\ otaUsed = FALSE /\ reserved = "none"
    /\ loopDue = FALSE

Init ==
    /\ PoweredOff
    /\ nvHold \in BOOLEAN
    /\ nvOpen \in BOOLEAN

PowerLoss ==
    /\ "power_loss" \in Commands
    /\ state # "OFF"
    /\ state' = "OFF"
    /\ timer' = 0 /\ holdAge' = 0 /\ stalls' = 0 /\ maint' = FALSE
    /\ cool' = Idle /\ detectAge' = Idle /\ clearAge' = Idle /\ deadlock' = FALSE /\ blind' = 0
    /\ bridge' = ForcedOff(BootBridge)
    /\ lowOpen' = FALSE
    /\ chg' = "NONE" /\ chgAge' = 0 /\ chgLeft' = 0 /\ chgStalls' = 0
    /\ level' = "none" /\ known' = "none" /\ held' = FALSE /\ lowAge' = Idle /\ recAge' = Idle
    /\ current' = "none" /\ sampleAge' = 0 /\ uptime' = 0
    /\ otaUsed' = FALSE /\ reserved' = "none"
    /\ loopDue' = FALSE
    /\ UNCHANGED <<nvHold, nvOpen>>

\* A measurement and the current read with it.
Measure(l, c) ==
    /\ current' = IF l = "fault" THEN "none" ELSE c
    /\ sampleAge' = 0

\* Preferences that cannot be opened: a save is lost, the lid marker reads
\* closed and the protection marker reads held.
Saved(old, new) == IF NvsFaults THEN {old, new} ELSE {new}
LidMarker       == IF NvsFaults THEN {nvOpen, FALSE} ELSE {nvOpen}
HoldMarker      == IF NvsFaults THEN {nvHold, TRUE} ELSE {nvHold}

\* setup() and init(): a logical lid-open or a protection marker starts in
\* isolated protection, anything else in IDLE.
Boot ==
    /\ state = "OFF"
    /\ \E lid \in LidMarker, hold \in HoldMarker, l \in Readings, c \in Currents :
         LET protect == lid \/ hold IN
         /\ state' = IF protect THEN "BATTERY_LOW_SHUTDOWN" ELSE "IDLE"
         /\ bridge' = BootBridge
         /\ level' = l
         /\ known' = KnownAfter(l)
         /\ held' = protect
         /\ lowAge' = IF l = "critical" /\ ~protect THEN 0 ELSE Idle
         /\ recAge' = IF l = "strong" /\ protect THEN 0 ELSE Idle
         /\ Measure(l, c)
    /\ loopDue' = TRUE
    /\ UNCHANGED <<timer, holdAge, stalls, detectAge, nvHold, nvOpen, senseVars, maint,
                   lowOpen, chargeVars, otaVars, uptime>>

-----------------------------------------------------------------------------
(* Shared steps *)

Moving ==
    \/ chg = "RUNNING"
    \/ state \in StrokeStates
    \/ state = "BATTERY_LOW_SHUTDOWN" /\ lowOpen /\ timer < ActuatorTime

\* The markers the state callback of main.cpp saves on the way into s.
SavedHold(s) == IF s = "OTA_UPDATING" THEN nvHold ELSE held'

\* Fault: an opening lid is saved only when it has arrived.
SavedOpenLate(s) ==
    CASE s \in {"HOLD", "BATTERY_LOW_SHUTDOWN"} -> TRUE
      [] s \in {"IDLE", "CLOSING"}              -> FALSE
      [] OTHER                                  -> nvOpen

SavedOpen(s) ==
    CASE s \in {"HOLD", "OPENING", "BATTERY_LOW_SHUTDOWN"} -> TRUE
      [] s \in {"IDLE", "CLOSING"}                         -> FALSE
      [] OTHER                                             -> nvOpen

\* transitionTo, and its callback: every transition but the one into OTA saves
\* the protection marker and the logical lid position.
Enter(s) ==
    /\ state' = s
    /\ timer' = 0
    /\ holdAge' = IF s = "HOLD" THEN 0 ELSE holdAge
    /\ stalls' = 0
    /\ detectAge' = Idle
    /\ nvHold' \in Saved(nvHold, SavedHold(s))
    /\ nvOpen' \in Saved(nvOpen, SavedOpen(s))

Capped(age, cap) == IF age < cap THEN age + 1 ELSE cap

\* Fault: the elapsed time is subtracted without a floor.
LeftUnbounded(rest) == rest - 1

Left(rest) == IF rest = 0 THEN 0 ELSE rest - 1

\* One unit of time.  A timer grows only where the code reads it.
Tick ==
    /\ state # "OFF"
    /\ ~loopDue
    /\ loopDue' = TRUE
    /\ timer' = IF lowOpen \/ state \in {"OPENING", "HOLD", "CLOSING", "EMERGENCY_STOP", "MAINTENANCE"}
                THEN Capped(timer, TimerCap) ELSE timer
    /\ holdAge' = IF state = "HOLD" THEN Capped(holdAge, MaxHoldTime) ELSE holdAge
    /\ cool' = Older(cool, CooldownTime)
    /\ detectAge' = Older(detectAge, DebounceDelay)
    /\ clearAge' = Older(clearAge, ClearTime)
    /\ blind' = Left(blind)
    /\ chgAge' = IF chg = "RUNNING" THEN Capped(chgAge, ChargingTime) ELSE chgAge
    /\ chgLeft' = Left(chgLeft)
    /\ sampleAge' = Capped(sampleAge, SlowPeriod)
    /\ uptime' = Capped(uptime, WarmUp)
    /\ GateElapse
    /\ UNCHANGED <<state, stalls, nvHold, nvOpen, deadlock, maint, bridge, lowOpen,
                   chg, chgStalls, current, otaVars>>

-----------------------------------------------------------------------------
(* update(), first servicePower() *)

\* readSensors() when its period is over: slower while isolated in protection.
SamplePower ==
    IF sampleAge >= (IF held /\ ~Moving THEN SlowPeriod ELSE 1)
    THEN \E l \in Readings, c \in Currents, gap \in BOOLEAN :
            Sample(l, gap) /\ Measure(l, c)
    ELSE UNCHANGED powerVars

\* The shared frame of the parts of update().
UpdateBegins ==
    /\ state # "OFF"
    /\ loopDue' = FALSE
    /\ SamplePower
    /\ UNCHANGED <<otaVars, uptime>>

PowerSafe(l) == l \in {"weak", "strong"}

ChargeStallsAfter ==
    IF chgAge <= InrushTime THEN chgStalls
    ELSE IF current' = "stall" THEN chgStalls + 1 ELSE 0

\* Fault: neither the time to live nor the stroke time ends the stroke.
ChargingProgressEndless ==
    IF ChargeStallsAfter >= StallLimit THEN "OVERCURRENT" ELSE "RUNNING"

ChargingProgress ==
    IF state # "BATTERY_LOW_SHUTDOWN" THEN "CANCELLED"
    ELSE IF chgLeft = 0 THEN "EXPIRED"
    ELSE IF chgAge >= ChargingTime THEN "STROKE_FINISHED"
    ELSE IF ChargeStallsAfter >= StallLimit THEN "OVERCURRENT"
    ELSE "RUNNING"

\* How a running charging close goes on, in the order of the code's tests.
ChargingOutcome ==
    CASE ~Valid(level')                       -> "SENSOR_FAULT"
      [] Valid(level') /\ ~PowerSafe(level')  -> "LOW_VOLTAGE"
      [] PowerSafe(level')                    -> ChargingProgress

ServiceCharging ==
    /\ chg = "RUNNING"
    /\ state # "OFF" /\ loopDue' = FALSE
    /\ \E l \in Readings, c \in Currents, gap \in BOOLEAN :
         \* the sample, then restoreProtection if the stroke stops
         LET due  == sampleAge >= 1
             read == IF due THEN l ELSE level
         IN  /\ level' = read
             /\ known' = IF due THEN KnownAfter(l) ELSE known
             /\ IF due THEN Measure(l, c) ELSE UNCHANGED <<current, sampleAge>>
             /\ chg' = ChargingOutcome
             /\ IF chg' # "RUNNING" THEN Restore
                ELSE IF due THEN Sample(l, gap) ELSE UNCHANGED <<held, lowAge, recAge>>
    /\ chgStalls' = IF chg' = "RUNNING" THEN ChargeStallsAfter ELSE 0
    /\ bridge' = IF chg' = "RUNNING" THEN bridge ELSE ForcedOff(bridge)
    /\ lowOpen' = (lowOpen /\ chg' = "RUNNING")
    /\ UNCHANGED <<fsmVars, senseVars, maint, chgAge, chgLeft, otaVars, uptime>>

\* Fault: the stroke is taken up again whenever the reading allows it.
StillFailingOpenAgain == Valid(level') /\ timer < ActuatorTime

StillFailingOpen == lowOpen /\ Valid(level') /\ timer < ActuatorTime

\* Latched: isolate an OTA, run the one fail-open stroke when the latch has
\* just been set, otherwise keep the protection isolated.
ServiceProtected ==
    /\ chg # "RUNNING"
    /\ UpdateBegins
    /\ held'
    /\ \/ /\ state = "OTA_UPDATING"
          /\ bridge' = ForcedOff(bridge)
          /\ UNCHANGED <<fsmVars, lowOpen>>
       \/ /\ state \notin {"OTA_UPDATING", "BATTERY_LOW_SHUTDOWN"}
          /\ Enter("BATTERY_LOW_SHUTDOWN")
          /\ lowOpen' = (Valid(level') /\ level' # "strong")
          /\ bridge' = IF lowOpen' THEN SetRelays(bridge, TRUE, "open") ELSE ForcedOff(bridge)
       \/ /\ state = "BATTERY_LOW_SHUTDOWN"
          /\ lowOpen' = StillFailingOpen
          /\ bridge' = IF lowOpen' THEN bridge ELSE ForcedOff(bridge)
          /\ UNCHANGED fsmVars
    /\ UNCHANGED <<senseVars, maint, chargeVars>>

\* The latch has been released: forget what was pending and go back to IDLE.
ServiceRecovered ==
    /\ chg # "RUNNING"
    /\ state = "BATTERY_LOW_SHUTDOWN"
    /\ UpdateBegins
    /\ ~held'
    /\ Enter("IDLE")
    /\ bridge' = ForcedOff(bridge)
    /\ lowOpen' = FALSE /\ maint' = FALSE
    /\ deadlock' = FALSE /\ clearAge' = Idle /\ cool' = Idle /\ blind' = BlindTime
    /\ UNCHANGED chargeVars

\* Fault: a denied battery stops the supervision of a running stroke.
ProceedsAdmitted == Admitted(held', known')

\* What is known of the voltage allows a motor, or one is moving already.
Proceeds == Admitted(held', known') \/ Moving

\* Not admitted and not moving, or reserved for an OTA: nothing else runs.
ServiceBlocked ==
    /\ chg # "RUNNING"
    /\ state # "BATTERY_LOW_SHUTDOWN"
    /\ UpdateBegins
    /\ ~held'
    /\ state = "OTA_UPDATING" \/ ~Proceeds
    /\ UNCHANGED <<fsmVars, senseVars, maint, bridge, lowOpen, chargeVars>>

-----------------------------------------------------------------------------
(* update(), then the state machine *)

\* servicePower() let the handler of state s run.
Runs(s) ==
    /\ state = s
    /\ chg # "RUNNING"
    /\ UpdateBegins
    /\ ~held'
    /\ Proceeds
    /\ UNCHANGED <<lowOpen, chargeVars>>

CoolNow == IF cool >= CooldownTime THEN Idle ELSE cool

\* The relays released by setRelayStates(false, false, false).
Released == SetRelays(bridge, FALSE, "off")

\* Sensor self-healing: the flag falls after ClearTime of clear readings.
HealDeadlock(dist) ==
    IF dist # "clear" THEN clearAge' = Idle /\ UNCHANGED deadlock
    ELSE IF ~deadlock THEN UNCHANGED <<clearAge, deadlock>>
    ELSE IF clearAge = Idle THEN clearAge' = 0 /\ UNCHANGED deadlock
    ELSE IF clearAge >= ClearTime THEN clearAge' = Idle /\ deadlock' = FALSE
    ELSE UNCHANGED <<clearAge, deadlock>>

\* Someone stands at the box and nothing suppresses the approach sensor.
Approached(dist) == blind = 0 /\ dist = "near" /\ CoolNow = Idle /\ ~deadlock

UpdateIdle ==
    /\ Runs("IDLE")
    /\ bridge' = Released
    /\ cool' = CoolNow
    /\ \E dist \in Distances :
         /\ HealDeadlock(dist)
         /\ IF Approached(dist) /\ detectAge # Idle /\ detectAge >= DebounceDelay
            THEN Enter("OPEN_START")
            ELSE /\ detectAge' = IF ~Approached(dist) THEN Idle
                                 ELSE IF detectAge = Idle THEN 0 ELSE detectAge
                 /\ UNCHANGED <<state, timer, holdAge, stalls, nvHold, nvOpen>>
    /\ UNCHANGED <<maint, blind>>

UpdateOpenStart ==
    /\ Runs("OPEN_START")
    /\ bridge' = SetRelays(bridge, TRUE, "open")
    /\ Enter("OPENING")
    /\ cool' = CoolNow
    /\ UNCHANGED <<clearAge, deadlock, blind, maint>>

StallsAfter == IF timer > InrushTime /\ current' = "stall" THEN stalls + 1 ELSE 0

\* Fault: the motor is left to the next state.
StalledDriven(s) == UNCHANGED bridge /\ Enter(s)

Stalled(s) == bridge' = ForcedOff(bridge) /\ Enter(s)

UpdateOpening ==
    /\ Runs("OPENING")
    /\ cool' = CoolNow
    /\ IF StallsAfter >= StallLimit
       THEN Stalled("HOLD")
       ELSE IF timer >= ActuatorTime
       THEN bridge' = Released /\ Enter(IF maint THEN "MAINTENANCE" ELSE "HOLD")
       ELSE /\ stalls' = StallsAfter
            /\ UNCHANGED <<bridge, state, timer, holdAge, detectAge, nvHold, nvOpen>>
    /\ UNCHANGED <<clearAge, deadlock, blind, maint>>

\* Fault: measured by the timer that a detected person restarts.
HeldTooLongUnseen == timer >= MaxHoldTime

HeldTooLong == holdAge >= MaxHoldTime

UpdateHold ==
    /\ Runs("HOLD")
    /\ bridge' = Released
    /\ cool' = CoolNow
    /\ IF HeldTooLong
       THEN deadlock' = TRUE /\ Enter("CLOSE_START")
       ELSE /\ UNCHANGED deadlock
            /\ \E dist \in Distances :
                 IF ~Within(dist) /\ timer >= WaitTime
                 THEN Enter("CLOSE_START")
                 ELSE /\ timer' = IF Within(dist) THEN 0 ELSE timer
                      /\ UNCHANGED <<state, holdAge, stalls, detectAge, nvHold, nvOpen>>
    /\ UNCHANGED <<clearAge, blind, maint>>

UpdateCloseStart ==
    /\ Runs("CLOSE_START")
    /\ bridge' = SetRelays(bridge, TRUE, "close")
    /\ Enter("CLOSING")
    /\ cool' = CoolNow
    /\ UNCHANGED <<clearAge, deadlock, blind, maint>>

UpdateClosing ==
    /\ Runs("CLOSING")
    /\ \E dist \in Distances :
         IF StallsAfter >= StallLimit
         THEN Stalled("EMERGENCY_STOP") /\ cool' = CoolNow /\ UNCHANGED blind
         ELSE IF Within(dist) /\ ~deadlock
         THEN /\ bridge' = Released /\ Enter("OPEN_START")
              /\ cool' = CoolNow /\ UNCHANGED blind
         ELSE IF timer >= ActuatorTime
         THEN /\ bridge' = Released /\ Enter("IDLE")
              /\ cool' = 0 /\ blind' = BlindTime
         ELSE /\ stalls' = StallsAfter /\ cool' = CoolNow
              /\ UNCHANGED <<blind, bridge, state, timer, holdAge, detectAge, nvHold, nvOpen>>
    /\ UNCHANGED <<clearAge, deadlock, maint>>

\* The lock expires by itself; someone at the box makes the lid open again.
UpdateEmergency ==
    /\ Runs("EMERGENCY_STOP")
    /\ IF timer < EmergencyTime
       THEN /\ bridge' = ForcedOff(bridge)
            /\ cool' = CoolNow
            /\ UNCHANGED fsmVars
       ELSE /\ bridge' = [ForcedOff(bridge) EXCEPT !.isolated = FALSE]
            /\ cool' = 0
            /\ \E dist \in Distances :
                 Enter(IF Within(dist) /\ ~deadlock THEN "OPEN_START" ELSE "IDLE")
    /\ UNCHANGED <<clearAge, deadlock, blind, maint>>

UpdateMaintenance ==
    /\ Runs("MAINTENANCE")
    /\ bridge' = Released
    /\ cool' = CoolNow
    /\ IF timer >= MaintenanceTimeout
       THEN maint' = FALSE /\ Enter("CLOSE_START")
       ELSE UNCHANGED <<maint, fsmVars>>
    /\ UNCHANGED <<clearAge, deadlock, blind>>

Update ==
    \/ ServiceCharging \/ ServiceProtected \/ ServiceRecovered \/ ServiceBlocked
    \/ UpdateIdle \/ UpdateOpenStart \/ UpdateOpening \/ UpdateHold
    \/ UpdateCloseStart \/ UpdateClosing \/ UpdateEmergency \/ UpdateMaintenance

-----------------------------------------------------------------------------
(* Commands from other tasks *)

\* What a command that moves no relay and takes no measurement leaves alone.
Commanded(cmd) ==
    /\ cmd \in Commands
    /\ UNCHANGED <<gateVars, current, sampleAge, uptime, loopDue>>

Refusing == {"OFF", "OTA_UPDATING", "BATTERY_LOW_SHUTDOWN", "EMERGENCY_STOP"}

\* Fault: a command does not ask for the voltage.
MayMoveUnpowered(already) == state \notin Refusing \cup already

\* Fault: a repeated command starts its stroke again.
MayMoveAgain(already) == Admitted(held, known) /\ state \notin Refusing

\* A movement command is taken, unless it has been taken already.
MayMove(already) == Admitted(held, known) /\ state \notin Refusing \cup already

ForceOpen ==
    /\ Commanded("force_open")
    /\ MayMove({"OPEN_START", "OPENING"})
    /\ deadlock' = FALSE /\ cool' = Idle /\ clearAge' = Idle
    /\ Enter("OPEN_START")
    /\ UNCHANGED <<blind, maint, bridge, lowOpen, chargeVars, otaVars>>

ForceClose ==
    /\ Commanded("force_close")
    /\ MayMove({"CLOSE_START", "CLOSING"})
    /\ maint' = FALSE
    /\ deadlock' = FALSE /\ cool' = Idle /\ clearAge' = Idle
    /\ Enter("CLOSE_START")
    /\ UNCHANGED <<blind, bridge, lowOpen, chargeVars, otaVars>>

\* Sets the state itself: no transition, no callback, no relay call.
ResetEmergency ==
    /\ Commanded("reset_emergency")
    /\ Admitted(held, known)
    /\ state = "EMERGENCY_STOP"
    /\ state' = "IDLE"
    /\ cool' = 0
    /\ bridge' = [bridge EXCEPT !.isolated = FALSE]
    /\ UNCHANGED <<timer, holdAge, stalls, detectAge, nvHold, nvOpen, clearAge, deadlock,
                   blind, maint, lowOpen, chargeVars, otaVars>>

StartMaintenance ==
    /\ Commanded("maintenance_start")
    /\ MayMove({})
    /\ maint' = TRUE
    /\ IF state = "HOLD" THEN Enter("MAINTENANCE")
       ELSE IF state \in {"MAINTENANCE", "OPENING", "OPEN_START"} THEN UNCHANGED fsmVars
       ELSE Enter("OPEN_START")
    /\ UNCHANGED <<senseVars, bridge, lowOpen, chargeVars, otaVars>>

StopMaintenance ==
    /\ Commanded("maintenance_stop")
    /\ state \notin {"OFF", "OTA_UPDATING"}
    /\ maint' = FALSE
    /\ IF state = "MAINTENANCE" THEN Enter("CLOSE_START") ELSE UNCHANGED fsmVars
    /\ UNCHANGED <<senseVars, bridge, lowOpen, chargeVars, otaVars>>

\* The first measurement of requestChargingClose turns the request down.
ChargingRefused(l, c, gap) ==
    /\ Sample(l, gap)
    /\ Measure(l, c)
    /\ ~PowerSafe(l) \/ ~held' \/ c # "idle"
    /\ UNCHANGED <<chargeVars, bridge, lowOpen, maint>>

\* The check after the two contact delays, which take one unit of time.
AfterContacts(l, ttl) ==
    CASE ~Valid(l)                    -> "SENSOR_FAULT"
      [] Valid(l) /\ ~PowerSafe(l)    -> "LOW_VOLTAGE"
      [] PowerSafe(l) /\ ttl = 1      -> "EXPIRED"
      [] OTHER                        -> "RUNNING"

\* Fault: the recovery that was running is not restarted.
RequalifiedNot(l, runs) == held' = TRUE /\ lowAge' = Idle /\ UNCHANGED recAge

\* restoreProtection before the stroke, then the measurement l; again
\* restoreProtection when that stops the stroke.
Requalified(l, runs) ==
    /\ held' = TRUE
    /\ lowAge' = Idle
    /\ recAge' = IF runs /\ l = "strong" THEN 0 ELSE Idle

\* The request is taken: the contacts are moved with Main released, and a
\* second measurement decides whether Main is energised.
ChargingTaken(l, ttl) ==
    /\ level' = l
    /\ known' = IF l = "fault" THEN "admit" ELSE KnownAfter(l)
    /\ chg' = AfterContacts(l, ttl)
    /\ Requalified(l, chg' = "RUNNING")
    /\ bridge' = IF chg' = "RUNNING" THEN SetRelays(bridge, TRUE, "close")
                 ELSE ForcedOff(Switched(bridge, TRUE, "close"))
    /\ chgLeft' = ttl - 1
    /\ chgAge' = 0 /\ chgStalls' = 0
    /\ lowOpen' = FALSE /\ maint' = FALSE

RequestChargingClose ==
    /\ "close_for_charging" \in Commands
    /\ chg = "NONE"
    /\ state = "BATTERY_LOW_SHUTDOWN"
    /\ ~Moving
    /\ \E l \in Readings, c \in Currents, gap \in BOOLEAN :
         \/ ChargingRefused(l, c, gap)
         \/ /\ PowerSafe(l) /\ c = "idle"
            /\ held /\ ~(l = "strong" /\ ~gap /\ recAge >= RecoveryTime)
            /\ \E l2 \in Readings, c2 \in Currents, ttl \in Ttls \ {0} :
                 ChargingTaken(l2, ttl) /\ Measure(l2, c2)
    /\ UNCHANGED <<fsmVars, senseVars, otaVars, uptime, loopDue>>

-----------------------------------------------------------------------------
(* OTA reservation *)

\* canStartOta of the three kinds.  Whether the 30 s of qualification are over
\* is left open: a request that meets the rest may still be refused.
CanStartOta(kind) ==
    CASE kind = "normal" ->
            state = "IDLE" /\ ~held /\ level = "strong"
      [] kind = "recovery" ->
            /\ ~otaUsed /\ uptime >= WarmUp /\ ~Moving
            /\ state \in {"IDLE", "BATTERY_LOW_SHUTDOWN"}
            /\ ~Valid(level) /\ known # "deny"
      [] kind = "force" ->
            /\ ~otaUsed /\ uptime >= WarmUp /\ ~Moving
            /\ state = "IDLE" \/ (state = "BATTERY_LOW_SHUTDOWN" /\ bridge.isolated)
            /\ PowerSafe(level) /\ current = "idle"

TryBeginOta(kind) ==
    /\ Commanded(kind)
    /\ CanStartOta(kind)
    /\ bridge' = ForcedOff(bridge)
    /\ reserved' = IF kind = "normal" THEN "none" ELSE kind
    /\ otaUsed' = (otaUsed \/ kind # "normal")
    /\ Enter("OTA_UPDATING")
    /\ UNCHANGED <<senseVars, maint, lowOpen, chargeVars>>

\* Fault: the end of an update ignores the latch.
AfterOtaIdle == "IDLE"

AfterOta == IF held THEN "BATTERY_LOW_SHUTDOWN" ELSE "IDLE"

\* Every end of an update but the reboot.
FinishOtaWithoutReboot ==
    /\ state = "OTA_UPDATING"
    /\ reserved' = "none"
    /\ bridge' = ForcedOff(bridge)
    /\ lowOpen' = FALSE
    /\ IF held THEN Restore ELSE UNCHANGED <<held, lowAge, recAge>>
    /\ Enter(AfterOta)
    /\ blind' = BlindTime
    /\ UNCHANGED <<cool, clearAge, deadlock, maint, chargeVars, level, known, current,
                   sampleAge, otaUsed, uptime, loopDue>>

Command ==
    \/ ForceOpen \/ ForceClose \/ ResetEmergency
    \/ StartMaintenance \/ StopMaintenance \/ RequestChargingClose
    \/ \E kind \in {"normal", "recovery", "force"} : TryBeginOta(kind)
    \/ FinishOtaWithoutReboot

Next == Boot \/ PowerLoss \/ Tick \/ Update \/ Command

Spec == Init /\ [][Next]_vars

\* loopTask keeps running and time keeps passing; an OTA attempt ends.
FairSpec == Spec /\ WF_vars(Boot) /\ WF_vars(Tick) /\ WF_vars(Update)
                 /\ WF_vars(FinishOtaWithoutReboot)

-----------------------------------------------------------------------------
(* Safety *)

\* A latched protection has taken the lid over: whatever was commanded or
\* moving, the controller is in the protection state, or in an OTA update
\* that it keeps isolated (servicePower, finishOtaWithoutReboot).
HeldMeansShutdown == held => state \in {"BATTERY_LOW_SHUTDOWN", "OTA_UPDATING"}

\* The motors are driven only while the controller believes in a stroke, so
\* that somebody watches its end: in a stroke state, in the fail-open stroke
\* or in a charging close.
DrivenOnlyInStroke ==
    Drive(bridge) # "off" =>
        state \in StrokeStates \/ (state = "BATTERY_LOW_SHUTDOWN" /\ (lowOpen \/ chg = "RUNNING"))

\* While OPENING waits for the stroke to end, the contacts drive open: the
\* cached direction and the isolation flag never make setRelayStates skip the
\* contacts.
OpeningDrivesOpen == state = "OPENING" => Drive(bridge) = "open"

\* The same of CLOSING.  It does not hold: the emergency stop makes the
\* direction pins high-impedance but keeps the cached direction, and clearing
\* relaysIsolated by hand hides that from a close commanded before the next
\* update.  That update, of IDLE, releases Main and with it the cached
\* direction, and a later close drives.
ClosingDrivesClose == state = "CLOSING" => Drive(bridge) = "close"

\* The one charging close runs under the retained latch, in the closing
\* direction and never together with the fail-open stroke.
ChargingUnderProtection ==
    chg = "RUNNING" =>
        held /\ state = "BATTERY_LOW_SHUTDOWN" /\ Drive(bridge) = "close" /\ ~lowOpen

\* An OTA update reserves the controller with every relay isolated and no
\* stroke pending, as canContinueOta asks of it before flashing.
OtaIsolated ==
    state = "OTA_UPDATING" =>
        bridge.isolated /\ ~bridge.main /\ ~bridge.driven /\ ~Moving

\* The controller as AutoOtaManager sees it (module OtaHost).
HostMode ==
    IF chg = "RUNNING" THEN "charging"
    ELSE IF state = "OFF" THEN "off"
    ELSE IF state = "OTA_UPDATING" /\ OtaIsolated THEN "ota"
    ELSE IF state = "IDLE" THEN "idle"
    ELSE IF state = "BATTERY_LOW_SHUTDOWN" /\ ~Moving THEN "shutdown"
    ELSE "busy"

Host == INSTANCE OtaHost WITH mode <- HostMode, used <- otaUsed

\* The controller serves an update as OtaHost promises: reserved only from
\* rest, for maintenance once in a boot, and then isolated and left alone by
\* update(), the latch and every command until it is given back or the board
\* restarts (tryBeginOta, finishOtaWithoutReboot, servicePowerDuringOta).
ServesOta == Host!HostSpec

\* What is in NVS while the protection is latched makes the next boot start
\* protected.  An OTA update saves nothing, see LatchSurvivesReset.
HoldPersisted == held /\ state # "OTA_UPDATING" /\ ~NvsFaults => nvHold \/ nvOpen

\* A reset never forgets a latched protection ("Protection is persisted",
\* wiki/battery_power_management.md).  It does when the latch is set during an
\* OTA update, whose end by reboot saves nothing.
LatchSurvivesReset == held => nvHold \/ nvOpen

\* A lid that was driven open, or is held open, boots protected: no position
\* the controller knows to be open is forgotten by a reset.
OpenLidRemembered ==
    state \in {"OPENING", "HOLD", "MAINTENANCE"} /\ ~NvsFaults => nvOpen

\* Whatever a reset interrupts but an update, it finds in NVS what it needs to
\* start protected (the callback in main.cpp).
MarkersKept == HoldPersisted /\ OpenLidRemembered

-----------------------------------------------------------------------------
(* Actions *)

FailOpenStarts == ~held /\ held' /\ lowOpen'

\* A resting motor starts on known admissible power, on the two strokes that
\* the protection itself allows, or on the end of maintenance by command,
\* which asks nothing of the battery.
AdmittedStart ==
    [][~Moving /\ Moving' =>
          \/ Admitted(held', known')
          \/ FailOpenStarts
          \/ chg' = "RUNNING"
          \/ state = "MAINTENANCE" /\ state' = "CLOSE_START"]_vars

\* The fail-open stroke belongs to the moment the latch is set: nothing that
\* happens under protection, no restart and no update starts it again.
FailOpenOnce == [][lowOpen' /\ ~lowOpen => FailOpenStarts]_vars

-----------------------------------------------------------------------------
(* Liveness *)

\* Every stroke ends, whatever the sensors and the power readings say.
StrokesEnd == Moving ~> ~Moving

\* A lid that waits open or locked does so for a bounded time, unless the
\* battery denies the motor.
WaitsEnd ==
    \A s \in {"HOLD", "MAINTENANCE", "EMERGENCY_STOP"} :
        (state = s) ~> (state # s \/ known = "deny")

\* The charging close ends by itself.
ChargingEnds == (chg = "RUNNING") ~> (chg # "RUNNING")
=============================================================================
