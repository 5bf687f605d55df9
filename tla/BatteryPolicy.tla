--------------------------- MODULE BatteryPolicy ----------------------------
(***************************************************************************)
(* BatteryPolicy: the protection latch, the graded battery state and the   *)
(* qualified readiness signals, computed from the samples the controller   *)
(* feeds it.  Voltages are tenths of a volt; 0 stands for a measurement    *)
(* that failed, which the code treats as it treats 0 V.                    *)
(*                                                                         *)
(* A timing flag and its start time are one age: Idle while the flag is    *)
(* FALSE, otherwise the time since the start, up to the limit it is        *)
(* compared with.                                                          *)
(***************************************************************************)
EXTENDS Integers

CONSTANTS
    Voltages,       \* the voltages measured
    Cutoff,         \* cutoff_: what sample accepts, above 0 V and below 25 V
    LatchTime,      \* 3 s
    RecoveryTime,   \* kRecoveryMs
    ReadyTime,      \* 30 s of readiness before an OTA
    WarnTime,       \* kLowWarningMs
    StateTime,      \* 15 s before a change of grade
    MaxGap          \* kMaxSampleGapMs

ASSUME PolicyAssumption ==
    /\ Voltages \subseteq Nat
    /\ Cutoff \in 1 .. 249
    /\ {LatchTime, RecoveryTime, ReadyTime, WarnTime, StateTime, MaxGap} \subseteq Nat

\* A recovery takes time: the sample that releases the latch is not its first.
ASSUME RecoveryPositive == RecoveryTime > 0

VARIABLES
    sampled,      \* sampled_
    sampleAge,    \* age of sampleAt_
    voltage,      \* voltage_
    admission,    \* admissionVoltage_, NoVoltage until admissionVoltageKnown_
    latched,      \* latched_
    state,        \* state_
    candidate,    \* candidateState_
    stateAge,     \* stateTiming_ and stateAt_
    lowAge,       \* lowTiming_ and lowAt_
    recAge,       \* recoveryTiming_ and recoveryAt_
    healthyAge,   \* healthyTiming_ and healthyAt_
    forceAge,     \* forceHealthyTiming_ and forceHealthyAt_
    warnAge,      \* lowWarningTiming_ and lowWarningAt_
    brokenFor,    \* history: time since a band of voltages was last left
    gradeFor      \* history: time since state last changed

policyVars == <<sampled, sampleAge, voltage, admission, latched, state, candidate, stateAge,
                lowAge, recAge, healthyAge, forceAge, warnAge>>
historyVars == <<brokenFor, gradeFor>>

Idle == -1
NoVoltage == -1
MostOf(a, b) == IF a > b THEN a ELSE b

WarningVoltage == 110
HighestVoltage == 160
Recovery   == MostOf(120, Cutoff + 7)
ForceFloor == MostOf(117, Cutoff + 4)

Grades == {"NORMAL", "WARNING", "SAVING"}
BatteryStates == Grades \cup {"PROTECTED", "RECOVERING", "SENSOR_FAULT", "UNKNOWN"}

Usable(v) == v > 0 /\ v <= HighestVoltage

\* The bands whose sustained presence a readiness signal or the leaving of a
\* grade stands for.
Bands == {"ready", "force", "warn", "offSaving", "offWarning"}
InBand(b, v) ==
    /\ Usable(v)
    /\ CASE b = "ready"      -> v >= Recovery
         [] b = "force"      -> v >= ForceFloor
         [] b = "warn"       -> v <= WarningVoltage
         [] b = "offSaving"  -> v >= Cutoff + 5
         [] b = "offWarning" -> v >= Cutoff + 8

\* Bound: histories stop counting where no property can tell them apart.
HistoryCap == MostOf(MostOf(WarnTime, ReadyTime), MostOf(LatchTime, StateTime)) + MaxGap + 1

Ages(limit) == {Idle} \cup 0 .. limit

PolicyTypeOK ==
    /\ sampled \in BOOLEAN /\ latched \in BOOLEAN
    /\ sampleAge \in 0 .. MaxGap + 1
    /\ voltage \in Voltages \cup {0}
    /\ admission \in Voltages \cup {NoVoltage}
    /\ state \in BatteryStates /\ candidate \in Grades \cup {"UNKNOWN"}
    /\ stateAge \in Ages(StateTime) /\ lowAge \in Ages(LatchTime)
    /\ recAge \in Ages(RecoveryTime) /\ warnAge \in Ages(WarnTime)
    /\ healthyAge \in Ages(ReadyTime) /\ forceAge \in Ages(ReadyTime)
    /\ brokenFor \in [Bands -> 0 .. HistoryCap]
    /\ gradeFor \in 0 .. HistoryCap

PolicyInit ==
    /\ sampled = FALSE /\ sampleAge = 0
    /\ voltage = 0 /\ admission = NoVoltage
    /\ latched = FALSE
    /\ state = "UNKNOWN" /\ candidate = "UNKNOWN"
    /\ stateAge = Idle /\ lowAge = Idle /\ recAge = Idle
    /\ healthyAge = Idle /\ forceAge = Idle /\ warnAge = Idle
    /\ brokenFor = [b \in Bands |-> 0]
    /\ gradeFor = 0

-----------------------------------------------------------------------------
(* sample *)

\* A gap in the sampling ends every run.
Gap == sampled /\ sampleAge > MaxGap
Kept(age) == IF Gap THEN Idle ELSE age

\* A run of samples in a band goes on, starts, or ends.
Timed(inside, age) ==
    IF ~inside THEN Idle ELSE IF Kept(age) = Idle THEN 0 ELSE age

\* Fault: a protective latch stops the owner's warning from counting.
WarnAgeUnlatched(v) == Timed(v <= WarningVoltage /\ ~latched, warnAge)

WarnAge(v) == Timed(v <= WarningVoltage, warnAge)

\* The critical run is looked at only without a latch, so that it outlives the
\* latch it has set.
LowAge(v) == IF latched THEN Kept(lowAge) ELSE Timed(v <= Cutoff, lowAge)

Latches(v) == ~latched /\ LowAge(v) # Idle /\ LowAge(v) >= LatchTime

\* Fault: the recovery is not qualified over time.
ReleasesAtOnce(v) == latched /\ v >= Recovery

RecoveryAge(v) == Timed(latched /\ v >= Recovery, recAge)

Releases(v) == RecoveryAge(v) # Idle /\ RecoveryAge(v) >= RecoveryTime

\* The grade of a voltage, with a margin before a lower grade is left.
Grade(v) ==
    IF v < Cutoff + 4 THEN "SAVING" ELSE IF v < Cutoff + 7 THEN "WARNING" ELSE "NORMAL"

\* Fault: a lower grade is left without its margin.
DesiredFlapping(s, v) == Grade(v)

Desired(s, v) ==
    CASE s = "SAVING" /\ v < Cutoff + 5                          -> "SAVING"
      [] s = "WARNING" /\ Grade(v) = "NORMAL" /\ v < Cutoff + 8  -> "WARNING"
      [] OTHER                                                   -> Grade(v)

\* A new grade counts after StateTime of samples that ask for it.
Graded(s, age, v) ==
    LET d == Desired(s, v) IN
    \/ /\ s = "UNKNOWN" \/ d = s
       /\ state' = d /\ stateAge' = Idle
       /\ UNCHANGED candidate
    \/ /\ s # "UNKNOWN" /\ d # s
       /\ age = Idle \/ candidate # d
       /\ state' = s /\ stateAge' = 0
       /\ candidate' = d
    \/ /\ s # "UNKNOWN" /\ d # s
       /\ age # Idle /\ candidate = d
       /\ state' = IF age >= StateTime THEN d ELSE s
       /\ stateAge' = IF age >= StateTime THEN Idle ELSE age
       /\ UNCHANGED candidate

\* Fault: a failed measurement leaves the qualified runs alone.
InvalidSampleKept ==
    /\ state' = "SENSOR_FAULT"
    /\ stateAge' = Idle /\ lowAge' = Idle /\ recAge' = Idle
    /\ UNCHANGED <<healthyAge, forceAge, warnAge, latched, candidate>>

InvalidSample ==
    /\ state' = "SENSOR_FAULT"
    /\ stateAge' = Idle /\ lowAge' = Idle /\ recAge' = Idle
    /\ healthyAge' = Idle /\ forceAge' = Idle /\ warnAge' = Idle
    /\ UNCHANGED <<latched, candidate>>

ProtectedState(v) == IF v >= Recovery THEN "RECOVERING" ELSE "PROTECTED"

ValidSample(v) ==
    /\ warnAge' = WarnAge(v)
    /\ forceAge' = Timed(v >= ForceFloor, forceAge)
    /\ healthyAge' = Timed(v >= Recovery, healthyAge)
    /\ lowAge' = LowAge(v)
    /\ latched' = (Latches(v) \/ (latched /\ ~Releases(v)))
    /\ recAge' = IF Releases(v) THEN Idle ELSE RecoveryAge(v)
    /\ LET fault == state = "SENSOR_FAULT"
           s     == IF fault THEN "UNKNOWN" ELSE state
           age   == IF fault \/ latched # latched' THEN Idle ELSE Kept(stateAge)
       IN  IF latched'
           THEN state' = ProtectedState(v) /\ stateAge' = age /\ UNCHANGED candidate
           ELSE Graded(s, age, v)

\* What the samples really were, kept apart from the fields of the code: a band
\* is broken by a sample outside it and by a hole in the sampling.
Remember(v) ==
    /\ brokenFor' = [b \in Bands |-> IF InBand(b, v) THEN brokenFor[b] ELSE 0]
    /\ gradeFor' = IF state' # state THEN 0 ELSE gradeFor

Sample(v) ==
    /\ sampled' = TRUE /\ sampleAge' = 0
    /\ voltage' = v
    /\ admission' = IF v > 0 THEN v ELSE admission
    /\ IF Usable(v) THEN ValidSample(v) ELSE InvalidSample
    /\ Remember(v)

\* restoreProtection: the owner's warning goes on counting.
RestoreProtection ==
    /\ latched' = TRUE
    /\ state' = "PROTECTED"
    /\ stateAge' = Idle /\ lowAge' = Idle /\ recAge' = Idle
    /\ healthyAge' = Idle /\ forceAge' = Idle
    /\ UNCHANGED <<sampled, sampleAge, voltage, admission, candidate, warnAge, brokenFor>>
    /\ gradeFor' = IF state' # state THEN 0 ELSE gradeFor

Aged(age, limit) == IF age # Idle /\ age < limit THEN age + 1 ELSE age

Elapse ==
    /\ sampleAge' = IF sampled THEN Aged(sampleAge, MaxGap + 1) ELSE sampleAge
    /\ stateAge' = Aged(stateAge, StateTime)
    /\ lowAge' = Aged(lowAge, LatchTime)
    /\ recAge' = Aged(recAge, RecoveryTime)
    /\ healthyAge' = Aged(healthyAge, ReadyTime)
    /\ forceAge' = Aged(forceAge, ReadyTime)
    /\ warnAge' = Aged(warnAge, WarnTime)
    /\ brokenFor' = [b \in Bands |-> IF ~sampled \/ sampleAge' > MaxGap THEN 0
                                     ELSE Aged(brokenFor[b], HistoryCap)]
    /\ gradeFor' = Aged(gradeFor, HistoryCap)
    /\ UNCHANGED <<sampled, voltage, admission, latched, state, candidate>>

PolicyNext == (\E v \in Voltages \cup {0} : Sample(v)) \/ RestoreProtection \/ Elapse

PolicySpec == PolicyInit /\ [][PolicyNext]_<<policyVars, historyVars>>

-----------------------------------------------------------------------------
(* snapshot *)

Fresh == Usable(voltage) /\ sampled /\ sampleAge <= MaxGap

ShownState == IF sampled /\ ~Fresh THEN "SENSOR_FAULT" ELSE state

OtaReady == Fresh /\ ~latched /\ healthyAge # Idle /\ healthyAge >= ReadyTime

ForceReady == Fresh /\ forceAge # Idle /\ forceAge >= ReadyTime

LowWarning == Fresh /\ warnAge # Idle /\ voltage <= WarningVoltage /\ warnAge >= WarnTime

ActuationAllowed ==
    ~latched /\ (admission = NoVoltage \/ (admission > Cutoff /\ admission <= HighestVoltage))

-----------------------------------------------------------------------------
(* Properties *)

\* The latch and the admission as PowerGate promises them to the controller.
Level ==
    CASE ~sampled                                       -> "none"
      [] sampled /\ voltage = 0                         -> "fault"
      [] sampled /\ voltage > HighestVoltage            -> "over"
      [] sampled /\ Usable(voltage) /\ voltage <= Cutoff   -> "critical"
      [] sampled /\ Usable(voltage) /\ voltage > Cutoff /\ voltage < Recovery -> "weak"
      [] sampled /\ Usable(voltage) /\ voltage >= Recovery -> "strong"

Known ==
    CASE admission = NoVoltage                                    -> "none"
      [] admission > Cutoff /\ admission <= HighestVoltage        -> "admit"
      [] admission # NoVoltage /\ ~(admission > Cutoff /\ admission <= HighestVoltage) -> "deny"

Gate == INSTANCE PowerGate WITH level <- Level, known <- Known, held <- latched

\* Every behaviour of the policy is one of the power gate that LidController
\* is built on.
ImplementsGate == Gate!GateSpec

\* A readiness signal tells of samples that stayed in their band, without a
\* hole, for the whole time it asks for.
SignalsSustained ==
    /\ OtaReady   => brokenFor["ready"] >= ReadyTime
    /\ ForceReady => brokenFor["force"] >= ReadyTime
    /\ LowWarning => brokenFor["warn"] >= WarnTime

\* The owner is warned of a battery that stays low, through a protective latch
\* and its restoration ("Keep counting through a protective latch").
WarningNotLost == Fresh /\ brokenFor["warn"] > WarnTime + MaxGap => LowWarning

\* The state tells the latch: servicePower recognises a critical voltage by
\* PROTECTED, and only a latched policy says so.
StateTellsLatch ==
    /\ ShownState = "PROTECTED" => latched
    /\ latched => ShownState \in {"PROTECTED", "RECOVERING", "SENSOR_FAULT"}

\* The grade does not flap: it holds for StateTime before it changes directly,
\* and a lower grade is left upwards only after StateTime of samples, without a
\* hole, all beyond its margin.
DwellsThenLeaves ==
    /\ gradeFor >= StateTime
    /\ state = "SAVING" => brokenFor'["offSaving"] >= StateTime
    /\ state = "WARNING" /\ state' = "NORMAL" => brokenFor'["offWarning"] >= StateTime

GradeDwells ==
    [][(state \in Grades /\ state' \in Grades /\ state' # state) => DwellsThenLeaves]_policyVars
=============================================================================
