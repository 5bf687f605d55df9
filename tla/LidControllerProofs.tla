------------------------ MODULE LidControllerProofs -------------------------
(***************************************************************************)
(* The type and the safety invariants of LidController for every value of  *)
(* its times, readings and commands.                                       *)
(***************************************************************************)
EXTENDS LidController, TLAPS

(* The type invariant, by the groups of variables that actions share. *)

FsmTyped ==
    /\ state \in States
    /\ timer \in 0 .. TimerCap
    /\ holdAge \in 0 .. MaxHoldTime
    /\ stalls \in 0 .. StallLimit - 1
    /\ detectAge \in {Idle} \cup 0 .. DebounceDelay
    /\ nvHold \in BOOLEAN /\ nvOpen \in BOOLEAN

SenseTyped ==
    /\ cool \in {Idle} \cup 0 .. CooldownTime
    /\ clearAge \in {Idle} \cup 0 .. ClearTime
    /\ blind \in 0 .. BlindTime

ChargeTyped ==
    /\ chg \in ChargingResults
    /\ chgAge \in 0 .. ChargingTime
    /\ chgLeft \in Nat
    /\ chgStalls \in 0 .. StallLimit - 1

PowerTyped ==
    /\ GateTypeOK
    /\ current \in {"none", "idle", "run", "stall"}
    /\ sampleAge \in 0 .. SlowPeriod

FlagsTyped ==
    /\ maint \in BOOLEAN /\ deadlock \in BOOLEAN /\ lowOpen \in BOOLEAN
    /\ otaUsed \in BOOLEAN /\ loopDue \in BOOLEAN

RestTyped ==
    /\ bridge \in BridgeType
    /\ uptime \in 0 .. WarmUp
    /\ reserved \in {"none", "recovery", "force"}

LEMMA TypeParts ==
    TypeOK <=> FsmTyped /\ SenseTyped /\ ChargeTyped /\ PowerTyped /\ FlagsTyped /\ RestTyped
BY DEF TypeOK, FsmTyped, SenseTyped, ChargeTyped, PowerTyped, FlagsTyped, RestTyped

LEMMA TypePartsNext ==
    FsmTyped' /\ SenseTyped' /\ ChargeTyped' /\ PowerTyped' /\ FlagsTyped' /\ RestTyped' => TypeOK'
BY DEF TypeOK, FsmTyped, SenseTyped, ChargeTyped, PowerTyped, FlagsTyped, RestTyped

\* The limits of the timers, one by one.
LEMMA Limits ==
    /\ ActuatorTime \in Nat /\ ChargingTime \in Nat /\ MaxHoldTime \in Nat
    /\ SlowPeriod \in Nat /\ LatchTime \in Nat /\ RecoveryTime \in Nat
    /\ ChargingTime > 0 /\ ActuatorTime > 0 /\ SlowPeriod > 0
    /\ CooldownTime \in Nat /\ DebounceDelay \in Nat /\ BlindTime \in Nat
    /\ ClearTime \in Nat /\ WarmUp \in Nat /\ TimerCap \in Nat /\ TimerCap >= ActuatorTime
<1>1. \A t \in {ActuatorTime, ChargingTime, MaxHoldTime, SlowPeriod, LatchTime, RecoveryTime} :
          t \in Nat /\ t > 0
    BY LidAssumption
<1>2. \A t \in {CooldownTime, DebounceDelay, BlindTime, ClearTime, WarmUp} : t \in Nat
    BY LidAssumption
<1> QED BY <1>1, <1>2, LidAssumption

-----------------------------------------------------------------------------
(* The shared steps *)

\* One measurement keeps the power gate in its type.
LEMMA SampleTyped ==
    ASSUME GateTypeOK, NEW l \in Levels, NEW gap \in BOOLEAN, Sample(l, gap)
    PROVE  GateTypeOK'
<1> USE GateAssumption DEF GateTypeOK, Levels, Idle
<1>1. LowRun(l, gap) \in {Idle} \cup 0 .. LatchTime
    BY DEF LowRun, Run, Valid
<1>2. StrongRun(l, gap) \in {Idle} \cup 0 .. RecoveryTime
    BY DEF StrongRun, Run
<1>3. KnownAfter(l) \in Knowledge
    BY DEF KnownAfter, Knowledge
<1>4. level' = l /\ known' = KnownAfter(l) /\ held' \in BOOLEAN
    BY DEF Sample
<1>5. lowAge' = LowRun(l, gap) /\ recAge' \in {StrongRun(l, gap), Idle}
    BY DEF Sample
<1> QED BY <1>1, <1>2, <1>3, <1>4, <1>5

\* restoreProtection keeps the power gate in its type.
LEMMA RestoreTyped ==
    ASSUME PowerTyped, Restore, UNCHANGED <<level, known, current, sampleAge>>
    PROVE  PowerTyped'
BY GateAssumption DEF PowerTyped, GateTypeOK, Restore

LEMMA ElapseTyped == ASSUME GateTypeOK, GateElapse PROVE GateTypeOK'
BY GateAssumption DEF GateTypeOK, GateElapse, Older, Idle

LEMMA MeasureTyped ==
    ASSUME NEW l \in Readings, NEW c \in Currents, Measure(l, c)
    PROVE  /\ current' \in {"none", "idle", "run", "stall"}
           /\ sampleAge' \in 0 .. SlowPeriod
BY LidAssumption DEF Measure

LEMMA SamplePowerTyped == ASSUME PowerTyped, SamplePower PROVE PowerTyped'
<1>1. ASSUME NEW l \in Readings, NEW c \in Currents, NEW gap \in BOOLEAN,
             Sample(l, gap), Measure(l, c)
      PROVE  PowerTyped'
    BY <1>1, SampleTyped, MeasureTyped, LidAssumption DEF PowerTyped
<1>2. CASE UNCHANGED powerVars
    BY <1>2 DEF PowerTyped, powerVars, gateVars, GateTypeOK
<1> QED BY <1>1, <1>2 DEF SamplePower

\* A transition keeps the state machine's variables in their types.
LEMMA EnterTyped ==
    ASSUME FsmTyped, NEW s \in States, Enter(s), held \in BOOLEAN, held' \in BOOLEAN
    PROVE  FsmTyped'
<1>1. nvHold' \in BOOLEAN
    BY DEF Enter, Saved, SavedHold, FsmTyped
<1>2. nvOpen' \in BOOLEAN
    BY DEF Enter, Saved, SavedOpen, FsmTyped
<1> QED BY <1>1, <1>2, LidAssumption DEF Enter, FsmTyped, Idle, StallLimit

\* The operators of module Bridge keep the bridge in its type.
LEMMA IsolationTyped ==
    ASSUME NEW b \in BridgeType
    PROVE  /\ ForcedOff(b) \in BridgeType
           /\ [ForcedOff(b) EXCEPT !.isolated = FALSE] \in BridgeType
           /\ [b EXCEPT !.isolated = FALSE] \in BridgeType
BY DEF BridgeType, ForcedOff, Dirs

LEMMA SwitchTyped ==
    ASSUME NEW b \in BridgeType, NEW on \in BOOLEAN, NEW d \in Dirs
    PROVE  /\ Switched(b, on, d) \in BridgeType
           /\ SetRelays(b, on, d) \in BridgeType
BY DEF BridgeType, SetRelays, Switched, Redirected, DirChanged, Dirs

LEMMA BootBridgeTyped == BootBridge \in BridgeType /\ ForcedOff(BootBridge) \in BridgeType
<1>1. BootBridge \in BridgeType
    BY DEF BootBridge, BridgeType, Dirs
<1> QED BY <1>1, IsolationTyped

-----------------------------------------------------------------------------
(* Type correctness *)

LEMMA InitTyped == Init => TypeOK
<1> SUFFICES ASSUME Init PROVE TypeOK
    OBVIOUS
<1> USE Limits DEF Init, PoweredOff
<1>1. FsmTyped
    BY DEF FsmTyped, States, StallLimit
<1>2. SenseTyped
    BY DEF SenseTyped, Idle
<1>3. ChargeTyped
    BY DEF ChargeTyped, ChargingResults, StallLimit
<1>4. PowerTyped
    <2>1. held \in BOOLEAN
        BY DEF GateInit
    <2>2. level \in Levels \cup {"none"} /\ known \in Knowledge /\ lowAge = Idle /\ recAge = Idle
        BY DEF GateInit, Levels, Knowledge
    <2>3. current \in {"none", "idle", "run", "stall"} /\ sampleAge \in 0 .. SlowPeriod
        OBVIOUS
    <2> QED BY <2>1, <2>2, <2>3 DEF PowerTyped, GateTypeOK
<1>5. FlagsTyped
    BY DEF FlagsTyped
<1>6. RestTyped
    BY BootBridgeTyped DEF RestTyped
<1> QED BY <1>1, <1>2, <1>3, <1>4, <1>5, <1>6, TypeParts

\* Boot, the loss of power and the passing of time.
LEMMA BootTyped == ASSUME TypeOK, Boot PROVE TypeOK'
<1>t. FsmTyped /\ SenseTyped /\ ChargeTyped /\ PowerTyped /\ FlagsTyped /\ RestTyped
    BY TypeParts
<1>1. FsmTyped'
    BY <1>t DEF Boot, FsmTyped, States
<1>2. SenseTyped'
    BY <1>t DEF Boot, SenseTyped, senseVars
<1>3. ChargeTyped'
    BY <1>t DEF Boot, ChargeTyped, chargeVars
<1>4. PowerTyped'
    <2>1. PICK lid \in LidMarker, hold \in HoldMarker, l \in Readings, c \in Currents :
             /\ level' = l
             /\ known' = KnownAfter(l)
             /\ held' = (lid \/ hold)
             /\ lowAge' \in {0, Idle} /\ recAge' \in {0, Idle}
             /\ Measure(l, c)
        BY DEF Boot
    <2>2. KnownAfter(l) \in Knowledge
        BY <1>t, <2>1, LidAssumption DEF KnownAfter, Knowledge, PowerTyped, GateTypeOK, Levels
    <2>3. held' \in BOOLEAN
        BY <1>t, <2>1 DEF LidMarker, HoldMarker, FsmTyped
    <2>4. level' \in Levels
        BY <2>1, LidAssumption
    <2>5. /\ current' \in {"none", "idle", "run", "stall"}
          /\ sampleAge' \in 0 .. SlowPeriod
        BY <2>1, MeasureTyped
    <2> QED BY <2>1, <2>2, <2>3, <2>4, <2>5, Limits DEF PowerTyped, GateTypeOK, Idle
<1>5. FlagsTyped'
    BY <1>t DEF Boot, FlagsTyped, senseVars, otaVars
<1>6. RestTyped'
    BY <1>t, BootBridgeTyped DEF Boot, RestTyped, otaVars
<1> QED BY <1>1, <1>2, <1>3, <1>4, <1>5, <1>6, TypePartsNext

LEMMA PowerLossTyped == ASSUME TypeOK, PowerLoss PROVE TypeOK'
<1> USE Limits DEF PowerLoss
<1>t. FsmTyped
    BY TypeParts
<1>1. FsmTyped'
    BY <1>t DEF FsmTyped, States, StallLimit
<1>2. SenseTyped'
    BY DEF SenseTyped, Idle
<1>3. ChargeTyped'
    BY DEF ChargeTyped, ChargingResults, StallLimit
<1>4. PowerTyped'
    <2>1. held' \in BOOLEAN
        OBVIOUS
    <2>2. /\ level' \in Levels \cup {"none"} /\ known' \in Knowledge
          /\ lowAge' = Idle /\ recAge' = Idle
        BY DEF Levels, Knowledge
    <2>3. current' \in {"none", "idle", "run", "stall"} /\ sampleAge' \in 0 .. SlowPeriod
        OBVIOUS
    <2> QED BY <2>1, <2>2, <2>3 DEF PowerTyped, GateTypeOK
<1>5. FlagsTyped'
    BY DEF FlagsTyped
<1>6. RestTyped'
    BY BootBridgeTyped DEF RestTyped
<1> QED BY <1>1, <1>2, <1>3, <1>4, <1>5, <1>6, TypePartsNext

LEMMA TickTyped == ASSUME TypeOK, Tick PROVE TypeOK'
<1> USE Limits DEF Tick
<1>t. FsmTyped /\ SenseTyped /\ ChargeTyped /\ PowerTyped /\ FlagsTyped /\ RestTyped
    BY TypeParts
<1>1. FsmTyped'
    BY <1>t DEF FsmTyped, Capped, Older, Idle
<1>2. SenseTyped'
    BY <1>t DEF SenseTyped, Older, Idle, Left
<1>3. ChargeTyped'
    BY <1>t DEF ChargeTyped, Capped, Left
<1>4. PowerTyped'
    BY <1>t, ElapseTyped DEF PowerTyped, Capped
<1>5. FlagsTyped'
    BY <1>t DEF FlagsTyped, otaVars
<1>6. RestTyped'
    BY <1>t DEF RestTyped, Capped, otaVars
<1> QED BY <1>1, <1>2, <1>3, <1>4, <1>5, <1>6, TypePartsNext

-----------------------------------------------------------------------------
(* Type correctness of update() *)

\* What every handler of the state machine has in common.
LEMMA RunsTyped ==
    ASSUME TypeOK, NEW s \in States, Runs(s)
    PROVE  /\ PowerTyped' /\ ChargeTyped'
           /\ held \in BOOLEAN /\ held' \in BOOLEAN
           /\ lowOpen' \in BOOLEAN /\ otaUsed' \in BOOLEAN /\ loopDue' \in BOOLEAN
           /\ uptime' \in 0 .. WarmUp /\ reserved' \in {"none", "recovery", "force"}
<1>t. ChargeTyped /\ PowerTyped /\ FlagsTyped /\ RestTyped
    BY TypeParts
<1>1. PowerTyped'
    BY <1>t, SamplePowerTyped DEF Runs, UpdateBegins
<1>2. ChargeTyped'
    BY <1>t DEF Runs, ChargeTyped, chargeVars
<1>3. held \in BOOLEAN /\ held' \in BOOLEAN
    BY <1>t, <1>1 DEF PowerTyped, GateTypeOK
<1>4. lowOpen' \in BOOLEAN /\ otaUsed' \in BOOLEAN /\ loopDue' \in BOOLEAN
    BY <1>t DEF Runs, UpdateBegins, FlagsTyped, otaVars
<1>5. uptime' \in 0 .. WarmUp /\ reserved' \in {"none", "recovery", "force"}
    BY <1>t DEF Runs, UpdateBegins, RestTyped, otaVars
<1> QED BY <1>1, <1>2, <1>3, <1>4, <1>5

\* What is left to show of a handler.
LEMMA HandlerTyped ==
    ASSUME TypeOK, NEW s \in States, Runs(s),
           FsmTyped', SenseTyped', maint' \in BOOLEAN, deadlock' \in BOOLEAN, bridge' \in BridgeType
    PROVE  TypeOK'
BY RunsTyped, TypePartsNext DEF FlagsTyped, RestTyped

LEMMA CoolTyped == ASSUME SenseTyped PROVE CoolNow \in {Idle} \cup 0 .. CooldownTime
BY DEF SenseTyped, CoolNow

LEMMA ReleasedTyped == ASSUME TypeOK PROVE Released \in BridgeType
BY TypeParts, SwitchTyped DEF RestTyped, Released, Dirs

LEMMA ForcedOffTyped ==
    ASSUME TypeOK
    PROVE  ForcedOff(bridge) \in BridgeType /\ [ForcedOff(bridge) EXCEPT !.isolated = FALSE] \in BridgeType
BY TypeParts, IsolationTyped DEF RestTyped

LEMMA StatesKnown ==
    /\ "OFF" \in States /\ "IDLE" \in States /\ "HOLD" \in States /\ "EMERGENCY_STOP" \in States
    /\ "MAINTENANCE" \in States /\ "BATTERY_LOW_SHUTDOWN" \in States /\ "OTA_UPDATING" \in States
    /\ "OPEN_START" \in States /\ "OPENING" \in States
    /\ "CLOSE_START" \in States /\ "CLOSING" \in States
BY DEF States, StrokeStates

\* The counter of a handler that goes on stays below the limit.
LEMMA StallsTyped ==
    ASSUME TypeOK, StallsAfter < StallLimit
    PROVE  StallsAfter \in 0 .. StallLimit - 1
BY TypeParts DEF FsmTyped, StallsAfter, StallLimit

LEMMA UpdateIdleTyped == ASSUME TypeOK, UpdateIdle PROVE TypeOK'
<1>t. FsmTyped /\ SenseTyped /\ FlagsTyped
    BY TypeParts
<1>r. Runs("IDLE")
    BY DEF UpdateIdle
<1>h. held \in BOOLEAN /\ held' \in BOOLEAN
    BY <1>r, RunsTyped, StatesKnown
<1>1. FsmTyped'
    <2>1. ASSUME Enter("OPEN_START") PROVE FsmTyped'
        BY <1>t, <1>h, <2>1, EnterTyped, StatesKnown
    <2>2. PICK dist \in Distances :
             IF Approached(dist) /\ detectAge # Idle /\ detectAge >= DebounceDelay
             THEN Enter("OPEN_START")
             ELSE /\ detectAge' = IF ~Approached(dist) THEN Idle
                                  ELSE IF detectAge = Idle THEN 0 ELSE detectAge
                  /\ UNCHANGED <<state, timer, holdAge, stalls, nvHold, nvOpen>>
        BY DEF UpdateIdle
    <2>3. ASSUME detectAge' \in {Idle, 0, detectAge},
                 UNCHANGED <<state, timer, holdAge, stalls, nvHold, nvOpen>>
          PROVE  FsmTyped'
        BY <1>t, <2>3, Limits DEF FsmTyped
    <2> QED BY <2>1, <2>2, <2>3
<1>2. SenseTyped' /\ deadlock' \in BOOLEAN
    <2>1. PICK dist \in Distances : HealDeadlock(dist)
        BY DEF UpdateIdle
    <2>2. clearAge' \in {Idle, 0, clearAge} /\ deadlock' \in {FALSE, deadlock}
        BY <2>1 DEF HealDeadlock
    <2>3. cool' = CoolNow /\ blind' = blind
        BY DEF UpdateIdle
    <2>4. SenseTyped'
        BY <1>t, <2>2, <2>3, CoolTyped, Limits DEF SenseTyped
    <2>5. deadlock' \in BOOLEAN
        BY <1>t, <2>2 DEF FlagsTyped
    <2> QED BY <2>4, <2>5
<1>3. maint' \in BOOLEAN /\ bridge' \in BridgeType
    BY <1>t, ReleasedTyped DEF UpdateIdle, FlagsTyped
<1> QED BY <1>r, <1>1, <1>2, <1>3, HandlerTyped, StatesKnown

LEMMA UpdateOpenStartTyped == ASSUME TypeOK, UpdateOpenStart PROVE TypeOK'
<1> USE DEF UpdateOpenStart
<1>t. FsmTyped /\ SenseTyped /\ FlagsTyped /\ RestTyped
    BY TypeParts
<1>r. Runs("OPEN_START")
    OBVIOUS
<1>1. FsmTyped'
    BY <1>t, <1>r, RunsTyped, EnterTyped, StatesKnown
<1>2. SenseTyped'
    BY <1>t, CoolTyped DEF SenseTyped
<1>3. maint' \in BOOLEAN /\ deadlock' \in BOOLEAN
    BY <1>t DEF FlagsTyped
<1>4. bridge' \in BridgeType
    BY <1>t, SwitchTyped DEF RestTyped, Dirs
<1> QED BY <1>r, <1>1, <1>2, <1>3, <1>4, HandlerTyped, StatesKnown

LEMMA UpdateCloseStartTyped == ASSUME TypeOK, UpdateCloseStart PROVE TypeOK'
<1> USE DEF UpdateCloseStart
<1>t. FsmTyped /\ SenseTyped /\ FlagsTyped /\ RestTyped
    BY TypeParts
<1>r. Runs("CLOSE_START")
    OBVIOUS
<1>1. FsmTyped'
    BY <1>t, <1>r, RunsTyped, EnterTyped, StatesKnown
<1>2. SenseTyped'
    BY <1>t, CoolTyped DEF SenseTyped
<1>3. maint' \in BOOLEAN /\ deadlock' \in BOOLEAN
    BY <1>t DEF FlagsTyped
<1>4. bridge' \in BridgeType
    BY <1>t, SwitchTyped DEF RestTyped, Dirs
<1> QED BY <1>r, <1>1, <1>2, <1>3, <1>4, HandlerTyped, StatesKnown

LEMMA UpdateOpeningTyped == ASSUME TypeOK, UpdateOpening PROVE TypeOK'
<1> USE DEF UpdateOpening
<1>t. FsmTyped /\ SenseTyped /\ FlagsTyped /\ RestTyped
    BY TypeParts
<1>r. Runs("OPENING")
    OBVIOUS
<1>h. held \in BOOLEAN /\ held' \in BOOLEAN
    BY <1>r, RunsTyped, StatesKnown
<1>1. FsmTyped' /\ bridge' \in BridgeType
    <2>1. CASE Stalled("HOLD")
        BY <1>t, <1>h, <2>1, EnterTyped, StatesKnown, ForcedOffTyped DEF Stalled
    <2>2. CASE bridge' = Released /\ Enter(IF maint THEN "MAINTENANCE" ELSE "HOLD")
        BY <1>t, <1>h, <2>2, EnterTyped, StatesKnown, ReleasedTyped
    <2>3. CASE /\ StallsAfter < StallLimit
               /\ stalls' = StallsAfter
               /\ UNCHANGED <<bridge, state, timer, holdAge, detectAge, nvHold, nvOpen>>
        BY <1>t, <2>3, StallsTyped DEF FsmTyped, RestTyped
    <2>4. StallsAfter \in Nat
        BY <1>t DEF StallsAfter, FsmTyped, StallLimit
    <2> QED BY <2>1, <2>2, <2>3, <2>4 DEF StallLimit
<1>2. SenseTyped'
    BY <1>t, CoolTyped DEF SenseTyped
<1>3. maint' \in BOOLEAN /\ deadlock' \in BOOLEAN
    BY <1>t DEF FlagsTyped
<1> QED BY <1>r, <1>1, <1>2, <1>3, HandlerTyped, StatesKnown

LEMMA UpdateHoldTyped == ASSUME TypeOK, UpdateHold PROVE TypeOK'
<1> USE DEF UpdateHold
<1>t. FsmTyped /\ SenseTyped /\ FlagsTyped /\ RestTyped
    BY TypeParts
<1>r. Runs("HOLD")
    OBVIOUS
<1>h. held \in BOOLEAN /\ held' \in BOOLEAN
    BY <1>r, RunsTyped, StatesKnown
<1>1. FsmTyped'
    <2>1. CASE Enter("CLOSE_START")
        BY <1>t, <1>h, <2>1, EnterTyped, StatesKnown
    <2>2. CASE /\ timer' \in {0, timer}
               /\ UNCHANGED <<state, holdAge, stalls, detectAge, nvHold, nvOpen>>
        BY <1>t, <2>2, Limits DEF FsmTyped
    <2> QED BY <2>1, <2>2
<1>2. SenseTyped'
    BY <1>t, CoolTyped DEF SenseTyped
<1>3. maint' \in BOOLEAN
    BY <1>t DEF FlagsTyped
<1>4. deadlock' \in BOOLEAN
    BY <1>t DEF FlagsTyped
<1>5. bridge' \in BridgeType
    BY ReleasedTyped
<1> QED BY <1>r, <1>1, <1>2, <1>3, <1>4, <1>5, HandlerTyped, StatesKnown

LEMMA UpdateClosingTyped == ASSUME TypeOK, UpdateClosing PROVE TypeOK'
<1>t. FsmTyped /\ SenseTyped /\ FlagsTyped /\ RestTyped
    BY TypeParts
<1>r. Runs("CLOSING")
    BY DEF UpdateClosing
<1>h. held \in BOOLEAN /\ held' \in BOOLEAN
    BY <1>r, RunsTyped, StatesKnown
<1>1. \/ Stalled("EMERGENCY_STOP") /\ cool' = CoolNow /\ UNCHANGED blind
      \/ /\ bridge' = Released /\ Enter("OPEN_START")
         /\ cool' = CoolNow /\ UNCHANGED blind
      \/ /\ bridge' = Released /\ Enter("IDLE")
         /\ cool' = 0 /\ blind' = BlindTime
      \/ /\ ~(StallsAfter >= StallLimit)
         /\ stalls' = StallsAfter /\ cool' = CoolNow
         /\ UNCHANGED <<blind, bridge, state, timer, holdAge, detectAge, nvHold, nvOpen>>
    BY DEF UpdateClosing
<1>2. FsmTyped' /\ bridge' \in BridgeType
    <2>1. CASE Stalled("EMERGENCY_STOP")
        BY <1>t, <1>h, <2>1, EnterTyped, StatesKnown, ForcedOffTyped DEF Stalled
    <2>2. CASE bridge' = Released /\ (Enter("OPEN_START") \/ Enter("IDLE"))
        BY <1>t, <1>h, <2>2, EnterTyped, StatesKnown, ReleasedTyped
    <2>3. CASE /\ StallsAfter < StallLimit
               /\ stalls' = StallsAfter
               /\ UNCHANGED <<bridge, state, timer, holdAge, detectAge, nvHold, nvOpen>>
        BY <1>t, <2>3, StallsTyped DEF FsmTyped, RestTyped
    <2>4. StallsAfter \in Nat
        BY <1>t DEF StallsAfter, FsmTyped, StallLimit
    <2> QED BY <1>1, <2>1, <2>2, <2>3, <2>4 DEF StallLimit
<1>3. SenseTyped'
    <2>1. cool' \in {0, CoolNow} /\ blind' \in {blind, BlindTime} /\ clearAge' = clearAge
        BY <1>1 DEF UpdateClosing
    <2> QED BY <1>t, <2>1, CoolTyped, Limits DEF SenseTyped
<1>4. maint' \in BOOLEAN /\ deadlock' \in BOOLEAN
    BY <1>t DEF FlagsTyped, UpdateClosing
<1> QED BY <1>r, <1>2, <1>3, <1>4, HandlerTyped, StatesKnown

LEMMA UpdateEmergencyTyped == ASSUME TypeOK, UpdateEmergency PROVE TypeOK'
<1> USE DEF UpdateEmergency
<1>t. FsmTyped /\ SenseTyped /\ FlagsTyped /\ RestTyped
    BY TypeParts
<1>r. Runs("EMERGENCY_STOP")
    OBVIOUS
<1>h. held \in BOOLEAN /\ held' \in BOOLEAN
    BY <1>r, RunsTyped, StatesKnown
<1>1. FsmTyped'
    <2>1. CASE Enter("OPEN_START") \/ Enter("IDLE")
        BY <1>t, <1>h, <2>1, EnterTyped, StatesKnown
    <2>2. CASE UNCHANGED fsmVars
        BY <1>t, <2>2 DEF FsmTyped, fsmVars
    <2> QED BY <2>1, <2>2
<1>2. SenseTyped'
    BY <1>t, CoolTyped, Limits DEF SenseTyped
<1>3. maint' \in BOOLEAN /\ deadlock' \in BOOLEAN
    BY <1>t DEF FlagsTyped
<1>4. bridge' \in BridgeType
    BY ForcedOffTyped
<1> QED BY <1>r, <1>1, <1>2, <1>3, <1>4, HandlerTyped, StatesKnown

LEMMA UpdateMaintenanceTyped == ASSUME TypeOK, UpdateMaintenance PROVE TypeOK'
<1> USE DEF UpdateMaintenance
<1>t. FsmTyped /\ SenseTyped /\ FlagsTyped /\ RestTyped
    BY TypeParts
<1>r. Runs("MAINTENANCE")
    OBVIOUS
<1>h. held \in BOOLEAN /\ held' \in BOOLEAN
    BY <1>r, RunsTyped, StatesKnown
<1>1. FsmTyped'
    <2>1. CASE Enter("CLOSE_START")
        BY <1>t, <1>h, <2>1, EnterTyped, StatesKnown
    <2>2. CASE UNCHANGED fsmVars
        BY <1>t, <2>2 DEF FsmTyped, fsmVars
    <2> QED BY <2>1, <2>2
<1>2. SenseTyped'
    BY <1>t, CoolTyped DEF SenseTyped
<1>3. maint' \in BOOLEAN
    BY <1>t DEF FlagsTyped
<1>4. deadlock' \in BOOLEAN
    BY <1>t DEF FlagsTyped
<1>5. bridge' \in BridgeType
    BY ReleasedTyped
<1> QED BY <1>r, <1>1, <1>2, <1>3, <1>4, <1>5, HandlerTyped, StatesKnown

LEMMA ServiceTyped ==
    ASSUME TypeOK, ServiceProtected \/ ServiceRecovered \/ ServiceBlocked
    PROVE  TypeOK'
<1>t. FsmTyped /\ SenseTyped /\ ChargeTyped /\ PowerTyped /\ FlagsTyped /\ RestTyped
    BY TypeParts
<1>u. UpdateBegins
    BY DEF ServiceProtected, ServiceRecovered, ServiceBlocked
<1>1. PowerTyped'
    BY <1>t, <1>u, SamplePowerTyped DEF UpdateBegins
<1>h. held \in BOOLEAN /\ held' \in BOOLEAN
    BY <1>t, <1>1 DEF PowerTyped, GateTypeOK
<1>2. ChargeTyped'
    BY <1>t DEF ServiceProtected, ServiceRecovered, ServiceBlocked, ChargeTyped, chargeVars
<1>3. FsmTyped'
    <2>1. CASE Enter("BATTERY_LOW_SHUTDOWN") \/ Enter("IDLE")
        BY <1>t, <1>h, <2>1, EnterTyped, StatesKnown
    <2>2. CASE UNCHANGED fsmVars
        BY <1>t, <2>2 DEF FsmTyped, fsmVars
    <2> QED BY <2>1, <2>2 DEF ServiceProtected, ServiceRecovered, ServiceBlocked
<1>4. SenseTyped'
    <2>1. CASE ServiceProtected \/ ServiceBlocked
        BY <1>t, <2>1 DEF ServiceProtected, ServiceBlocked, SenseTyped, senseVars
    <2>2. CASE ServiceRecovered
        BY <1>t, <2>2, Limits DEF ServiceRecovered, SenseTyped
    <2> QED BY <2>1, <2>2
<1>5. FlagsTyped'
    <2>1. otaUsed' \in BOOLEAN /\ loopDue' \in BOOLEAN
        BY <1>t, <1>u DEF UpdateBegins, FlagsTyped, otaVars
    <2>2. maint' \in BOOLEAN /\ deadlock' \in BOOLEAN
        <3>1. CASE ServiceProtected \/ ServiceBlocked
            BY <1>t, <3>1 DEF ServiceProtected, ServiceBlocked, FlagsTyped, senseVars
        <3>2. CASE ServiceRecovered
            BY <3>2 DEF ServiceRecovered
        <3> QED BY <3>1, <3>2
    <2>3. lowOpen' \in BOOLEAN
        <3>1. CASE ServiceProtected
            <4>1. (level' # "strong") \in BOOLEAN /\ Valid(level') \in BOOLEAN
                BY DEF Valid
            <4>2. StillFailingOpen \in BOOLEAN
                BY <1>t DEF StillFailingOpen, FlagsTyped, Valid
            <4> QED BY <1>t, <3>1, <4>1, <4>2 DEF ServiceProtected, FlagsTyped
        <3>2. CASE ServiceRecovered
            BY <3>2 DEF ServiceRecovered
        <3>3. CASE ServiceBlocked
            BY <1>t, <3>3 DEF ServiceBlocked, FlagsTyped
        <3> QED BY <3>1, <3>2, <3>3
    <2> QED BY <2>1, <2>2, <2>3 DEF FlagsTyped
<1>6. RestTyped'
    <2>1. uptime' \in 0 .. WarmUp /\ reserved' \in {"none", "recovery", "force"}
        BY <1>t, <1>u DEF UpdateBegins, RestTyped, otaVars
    <2>2. bridge' \in {bridge, ForcedOff(bridge), SetRelays(bridge, TRUE, "open")}
        BY DEF ServiceProtected, ServiceRecovered, ServiceBlocked
    <2>3. SetRelays(bridge, TRUE, "open") \in BridgeType
        BY <1>t, SwitchTyped DEF RestTyped, Dirs
    <2> QED BY <1>t, <2>1, <2>2, <2>3, ForcedOffTyped DEF RestTyped
<1> QED BY <1>1, <1>2, <1>3, <1>4, <1>5, <1>6, TypePartsNext

LEMMA ServiceChargingTyped == ASSUME TypeOK, ServiceCharging PROVE TypeOK'
<1>t. FsmTyped /\ SenseTyped /\ ChargeTyped /\ PowerTyped /\ FlagsTyped /\ RestTyped
    BY TypeParts
<1>1. FsmTyped' /\ SenseTyped'
    BY <1>t DEF ServiceCharging, FsmTyped, SenseTyped, fsmVars, senseVars
<1>2. ChargeTyped'
    <2>1. chg' = ChargingOutcome
        BY DEF ServiceCharging
    <2>2. chg' \in ChargingResults
        BY <2>1 DEF ChargingOutcome, ChargingProgress, ChargingResults, Valid, PowerSafe
    <2>3. chgStalls' \in 0 .. StallLimit - 1
        <3>1. CASE chg' = "RUNNING"
            <4>1. ChargingProgress = "RUNNING"
                BY <2>1, <3>1 DEF ChargingOutcome, Valid, PowerSafe
            <4>2. ~(ChargeStallsAfter >= StallLimit)
                BY <4>1 DEF ChargingProgress
            <4>3. ChargeStallsAfter \in Nat
                BY <1>t DEF ChargeStallsAfter, ChargeTyped, StallLimit
            <4>4. chgStalls' = ChargeStallsAfter
                BY <3>1 DEF ServiceCharging
            <4> QED BY <4>2, <4>3, <4>4 DEF StallLimit
        <3>2. CASE chg' # "RUNNING"
            BY <3>2 DEF ServiceCharging, StallLimit
        <3> QED BY <3>1, <3>2
    <2> QED BY <1>t, <2>2, <2>3 DEF ServiceCharging, ChargeTyped
<1>3. PowerTyped'
    <2>1. PICK l \in Readings, c \in Currents, gap \in BOOLEAN :
             /\ level' \in {l, level} /\ known' \in {known, KnownAfter(l)}
             /\ Measure(l, c) \/ UNCHANGED <<current, sampleAge>>
             /\ Restore \/ Sample(l, gap) \/ UNCHANGED <<held, lowAge, recAge>>
        BY DEF ServiceCharging
    <2>2. current' \in {"none", "idle", "run", "stall"} /\ sampleAge' \in 0 .. SlowPeriod
        BY <1>t, <2>1, MeasureTyped DEF PowerTyped
    <2>3. l \in Levels
        BY <2>1, LidAssumption
    <2>4. KnownAfter(l) \in Knowledge
        BY <1>t, <2>3 DEF KnownAfter, Knowledge, PowerTyped, GateTypeOK, Levels
    <2>5. level' \in Levels \cup {"none"} /\ known' \in Knowledge
        BY <1>t, <2>1, <2>3, <2>4 DEF PowerTyped, GateTypeOK
    <2>6. CASE Restore
        <3>1. held' \in BOOLEAN
            BY <2>6 DEF Restore
        <3>2. lowAge' = Idle /\ recAge' = Idle
            BY <2>6 DEF Restore
        <3> QED BY <2>2, <2>5, <3>1, <3>2 DEF PowerTyped, GateTypeOK
    <2>7. CASE Sample(l, gap)
        BY <1>t, <2>2, <2>3, <2>7, SampleTyped DEF PowerTyped
    <2>8. CASE UNCHANGED <<held, lowAge, recAge>>
        BY <1>t, <2>2, <2>5, <2>8 DEF PowerTyped, GateTypeOK
    <2> QED BY <2>1, <2>6, <2>7, <2>8
<1>4. FlagsTyped'
    BY <1>t DEF ServiceCharging, FlagsTyped, senseVars, otaVars
<1>5. RestTyped'
    BY <1>t, ForcedOffTyped DEF ServiceCharging, RestTyped, otaVars
<1> QED BY <1>1, <1>2, <1>3, <1>4, <1>5, TypePartsNext

-----------------------------------------------------------------------------
(* Type correctness of the commands and the OTA reservation *)

\* A command that neither measures nor charges: what is left to show of it.
LEMMA CommandTyped ==
    ASSUME TypeOK, NEW cmd, Commanded(cmd), UNCHANGED chargeVars,
           FsmTyped' \/ (\E s \in States : Enter(s)), SenseTyped' \/ UNCHANGED <<cool, clearAge, blind>>,
           maint' \in BOOLEAN, deadlock' \in BOOLEAN, lowOpen' = lowOpen, otaUsed' \in BOOLEAN,
           bridge' \in BridgeType, reserved' \in {"none", "recovery", "force"}
    PROVE  TypeOK'
<1>t. FsmTyped /\ SenseTyped /\ ChargeTyped /\ PowerTyped /\ FlagsTyped /\ RestTyped
    BY TypeParts
<1>1. PowerTyped'
    BY <1>t DEF Commanded, PowerTyped, GateTypeOK, gateVars
<1>h. held \in BOOLEAN /\ held' \in BOOLEAN
    BY <1>t, <1>1 DEF PowerTyped, GateTypeOK
<1>2. FsmTyped'
    BY <1>t, <1>h, EnterTyped
<1>3. SenseTyped'
    BY <1>t DEF SenseTyped
<1>4. ChargeTyped'
    BY <1>t DEF ChargeTyped, chargeVars
<1>5. FlagsTyped'
    BY <1>t DEF Commanded, FlagsTyped
<1>6. RestTyped'
    BY <1>t DEF Commanded, RestTyped
<1> QED BY <1>1, <1>2, <1>3, <1>4, <1>5, <1>6, TypePartsNext

LEMMA ForceTyped == ASSUME TypeOK, ForceOpen \/ ForceClose PROVE TypeOK'
<1>t. SenseTyped /\ FlagsTyped /\ RestTyped
    BY TypeParts
<1>1. SenseTyped'
    BY <1>t DEF ForceOpen, ForceClose, SenseTyped
<1>2. maint' \in BOOLEAN /\ deadlock' \in BOOLEAN /\ otaUsed' \in BOOLEAN
    BY <1>t DEF ForceOpen, ForceClose, FlagsTyped, otaVars
<1>3. bridge' \in BridgeType /\ reserved' \in {"none", "recovery", "force"}
    BY <1>t DEF ForceOpen, ForceClose, RestTyped, otaVars
<1>4. \E s \in States : Enter(s)
    BY StatesKnown DEF ForceOpen, ForceClose
<1>5. /\ UNCHANGED chargeVars /\ lowOpen' = lowOpen
      /\ \E cmd \in {"force_open", "force_close"} : Commanded(cmd)
    BY DEF ForceOpen, ForceClose
<1> QED BY <1>1, <1>2, <1>3, <1>4, <1>5, CommandTyped

LEMMA ResetTyped == ASSUME TypeOK, ResetEmergency PROVE TypeOK'
<1> USE DEF ResetEmergency
<1>t. FsmTyped /\ SenseTyped /\ FlagsTyped /\ RestTyped
    BY TypeParts
<1>1. FsmTyped'
    BY <1>t, StatesKnown DEF FsmTyped
<1>2. SenseTyped'
    BY <1>t, Limits DEF SenseTyped
<1>3. maint' \in BOOLEAN /\ deadlock' \in BOOLEAN /\ otaUsed' \in BOOLEAN
    BY <1>t DEF FlagsTyped, otaVars
<1>4. bridge' \in BridgeType /\ reserved' \in {"none", "recovery", "force"}
    BY <1>t, IsolationTyped DEF RestTyped, otaVars
<1> QED BY <1>1, <1>2, <1>3, <1>4, CommandTyped

LEMMA MaintenanceTyped == ASSUME TypeOK, StartMaintenance \/ StopMaintenance PROVE TypeOK'
<1>t. FsmTyped /\ FlagsTyped /\ RestTyped
    BY TypeParts
<1>1. FsmTyped' \/ (\E s \in States : Enter(s))
    <2>1. CASE UNCHANGED fsmVars
        BY <1>t, <2>1 DEF FsmTyped, fsmVars
    <2>2. CASE \/ Enter("MAINTENANCE") \/ Enter("OPEN_START") \/ Enter("CLOSE_START")
        BY <2>2, StatesKnown
    <2> QED BY <2>1, <2>2 DEF StartMaintenance, StopMaintenance
<1>2. UNCHANGED <<cool, clearAge, blind>>
    BY DEF StartMaintenance, StopMaintenance, senseVars
<1>3. maint' \in BOOLEAN
    BY DEF StartMaintenance, StopMaintenance
<1>4. deadlock' \in BOOLEAN /\ otaUsed' \in BOOLEAN
    BY <1>t DEF StartMaintenance, StopMaintenance, FlagsTyped, otaVars, senseVars
<1>5. bridge' \in BridgeType /\ reserved' \in {"none", "recovery", "force"}
    BY <1>t DEF StartMaintenance, StopMaintenance, RestTyped, otaVars
<1>6. /\ UNCHANGED chargeVars /\ lowOpen' = lowOpen
      /\ \E cmd \in {"maintenance_start", "maintenance_stop"} : Commanded(cmd)
    BY DEF StartMaintenance, StopMaintenance
<1> QED BY <1>1, <1>2, <1>3, <1>4, <1>5, <1>6, CommandTyped

LEMMA TryBeginOtaTyped ==
    ASSUME TypeOK, NEW kind \in {"normal", "recovery", "force"}, TryBeginOta(kind)
    PROVE  TypeOK'
<1> USE DEF TryBeginOta
<1>t. FlagsTyped
    BY TypeParts
<1>1. \E s \in States : Enter(s)
    BY StatesKnown
<1>2. UNCHANGED <<cool, clearAge, blind>> /\ UNCHANGED chargeVars /\ lowOpen' = lowOpen
    BY DEF senseVars
<1>3. maint' \in BOOLEAN /\ deadlock' \in BOOLEAN
    BY <1>t DEF FlagsTyped, senseVars
<1>4. otaUsed' \in BOOLEAN
    BY <1>t DEF FlagsTyped
<1>5. bridge' \in BridgeType
    BY ForcedOffTyped
<1>6. reserved' \in {"none", "recovery", "force"}
    OBVIOUS
<1> QED BY <1>1, <1>2, <1>3, <1>4, <1>5, <1>6, CommandTyped

LEMMA FinishTyped == ASSUME TypeOK, FinishOtaWithoutReboot PROVE TypeOK'
<1>t. FsmTyped /\ SenseTyped /\ ChargeTyped /\ PowerTyped /\ FlagsTyped /\ RestTyped
    BY TypeParts
<1>1. PowerTyped'
    <2>1. CASE Restore
        BY <1>t, <2>1, RestoreTyped DEF FinishOtaWithoutReboot
    <2>2. CASE UNCHANGED <<held, lowAge, recAge>>
        BY <1>t, <2>2 DEF FinishOtaWithoutReboot, PowerTyped, GateTypeOK
    <2> QED BY <2>1, <2>2 DEF FinishOtaWithoutReboot
<1>h. held \in BOOLEAN /\ held' \in BOOLEAN
    BY <1>t, <1>1 DEF PowerTyped, GateTypeOK
<1>2. FsmTyped'
    BY <1>t, <1>h, EnterTyped, StatesKnown DEF FinishOtaWithoutReboot, AfterOta
<1>3. SenseTyped'
    BY <1>t, Limits DEF FinishOtaWithoutReboot, SenseTyped
<1>4. ChargeTyped'
    BY <1>t DEF FinishOtaWithoutReboot, ChargeTyped, chargeVars
<1>5. FlagsTyped'
    BY <1>t DEF FinishOtaWithoutReboot, FlagsTyped
<1>6. RestTyped'
    BY <1>t, ForcedOffTyped DEF FinishOtaWithoutReboot, RestTyped
<1> QED BY <1>1, <1>2, <1>3, <1>4, <1>5, <1>6, TypePartsNext

LEMMA RequestTyped == ASSUME TypeOK, RequestChargingClose PROVE TypeOK'
<1>t. FsmTyped /\ SenseTyped /\ ChargeTyped /\ PowerTyped /\ FlagsTyped /\ RestTyped
    BY TypeParts
<1>1. FsmTyped' /\ SenseTyped'
    BY <1>t DEF RequestChargingClose, FsmTyped, SenseTyped, fsmVars, senseVars
<1>2. deadlock' \in BOOLEAN /\ otaUsed' \in BOOLEAN /\ loopDue' \in BOOLEAN
    BY <1>t DEF RequestChargingClose, FlagsTyped, senseVars, otaVars
<1>3. uptime' \in 0 .. WarmUp /\ reserved' \in {"none", "recovery", "force"}
    BY <1>t DEF RequestChargingClose, RestTyped, otaVars
<1>4. ASSUME NEW l \in Readings, NEW c \in Currents, NEW gap \in BOOLEAN,
             ChargingRefused(l, c, gap)
      PROVE  TypeOK'
    <2> USE <1>4 DEF ChargingRefused
    <2>1. PowerTyped'
        BY <1>t, SampleTyped, MeasureTyped, LidAssumption DEF PowerTyped
    <2>2. ChargeTyped'
        BY <1>t DEF ChargeTyped, chargeVars
    <2>3. FlagsTyped'
        BY <1>t, <1>2 DEF FlagsTyped
    <2>4. RestTyped'
        BY <1>t, <1>3 DEF RestTyped
    <2> QED BY <1>1, <2>1, <2>2, <2>3, <2>4, TypePartsNext
<1>5. ASSUME NEW l \in Readings, NEW c \in Currents, NEW ttl \in Ttls \ {0},
             ChargingTaken(l, ttl), Measure(l, c)
      PROVE  TypeOK'
    <2> USE <1>5
    <2>1. l \in Levels
        BY LidAssumption
    <2>2. level' \in Levels /\ known' \in Knowledge
        BY <1>t, <2>1 DEF ChargingTaken, KnownAfter, Knowledge, PowerTyped, GateTypeOK, Levels
    <2>3. held' \in BOOLEAN
        BY DEF ChargingTaken, Requalified
    <2>4. lowAge' \in {Idle} \cup 0 .. LatchTime /\ recAge' \in {Idle} \cup 0 .. RecoveryTime
        BY Limits DEF ChargingTaken, Requalified
    <2>5. PowerTyped'
        BY <2>2, <2>3, <2>4, MeasureTyped DEF PowerTyped, GateTypeOK
    <2>6. chg' \in ChargingResults
        BY DEF ChargingTaken, AfterContacts, ChargingResults, Valid, PowerSafe
    <2>7. chgLeft' \in Nat
        BY LidAssumption DEF ChargingTaken
    <2>8. ChargeTyped'
        BY <2>6, <2>7, Limits DEF ChargingTaken, ChargeTyped, StallLimit
    <2>9. maint' \in BOOLEAN /\ lowOpen' \in BOOLEAN
        BY DEF ChargingTaken
    <2>10. bridge' \in BridgeType
        <3>1. /\ SetRelays(bridge, TRUE, "close") \in BridgeType
              /\ Switched(bridge, TRUE, "close") \in BridgeType
            BY <1>t, SwitchTyped DEF RestTyped, Dirs
        <3> QED BY <3>1, IsolationTyped DEF ChargingTaken
    <2> QED BY <1>1, <1>2, <1>3, <2>5, <2>8, <2>9, <2>10, TypePartsNext DEF FlagsTyped, RestTyped
<1> QED BY <1>4, <1>5 DEF RequestChargingClose

-----------------------------------------------------------------------------

LEMMA TypeStep == TypeOK /\ [Next]_vars => TypeOK'
<1> SUFFICES ASSUME TypeOK, [Next]_vars PROVE TypeOK'
    OBVIOUS
<1>1. CASE Boot \/ PowerLoss \/ Tick
    BY <1>1, BootTyped, PowerLossTyped, TickTyped
<1>2. CASE Update
    BY <1>2, ServiceChargingTyped, ServiceTyped, UpdateIdleTyped, UpdateOpenStartTyped,
       UpdateOpeningTyped, UpdateHoldTyped, UpdateCloseStartTyped, UpdateClosingTyped,
       UpdateEmergencyTyped, UpdateMaintenanceTyped DEF Update
<1>3. CASE Command
    BY <1>3, ForceTyped, ResetTyped, MaintenanceTyped, RequestTyped, TryBeginOtaTyped,
       FinishTyped DEF Command
<1>4. CASE UNCHANGED vars
    BY <1>4 DEF vars, fsmVars, senseVars, chargeVars, powerVars, otaVars, gateVars, TypeOK,
                GateTypeOK
<1> QED BY <1>1, <1>2, <1>3, <1>4 DEF Next

\* Every variable keeps its type: no timer, counter or result of
\* SmartBoxController leaves its range, whatever the limits are.
THEOREM TypeCorrect == Spec => []TypeOK
BY InitTyped, TypeStep, PTL DEF Spec
=============================================================================
