------------------------ MODULE BatteryPolicyProofs -------------------------
(***************************************************************************)
(* For every set of voltages, every cutoff that a sample accepts and every *)
(* time limit: the signals of the battery policy are qualified, its grade  *)
(* does not flap, and it implements the power gate that LidController is   *)
(* built on.                                                               *)
(***************************************************************************)
EXTENDS BatteryPolicy, TLAPS

\* A run is no longer than its band has lasted; a hole in the sampling is seen
\* at the next sample.
SignalInv ==
    /\ ~sampled => healthyAge = Idle /\ forceAge = Idle /\ warnAge = Idle
    /\ ~sampled \/ Gap => \A b \in Bands : brokenFor[b] = 0
    /\ ~Gap => /\ healthyAge <= brokenFor["ready"]
               /\ forceAge <= brokenFor["force"]
               /\ warnAge <= brokenFor["warn"]

\* The warning starts with the first sample of its band, at most a gap after
\* the band was last left.
WarnInv ==
    /\ warnAge = Idle => brokenFor["warn"] <= sampleAge
    /\ warnAge # Idle =>
         /\ voltage <= WarningVoltage
         /\ brokenFor["warn"] <= warnAge + MaxGap \/ warnAge >= WarnTime

LatchInv ==
    /\ state = "PROTECTED" => latched
    /\ latched => state \in {"PROTECTED", "RECOVERING", "SENSOR_FAULT"}
    /\ recAge # Idle => state = "RECOVERING"

\* A pending change of grade is no older than the grade, nor than the band the
\* samples have to stay in for it.
GradeInv ==
    /\ ~sampled => state \notin Grades
    /\ state \in Grades => stateAge <= gradeFor
    /\ state = "SAVING" /\ ~Gap => stateAge <= brokenFor["offSaving"]
    /\ state = "WARNING" /\ candidate = "NORMAL" /\ ~Gap => stateAge <= brokenFor["offWarning"]

PolicyInv == PolicyTypeOK /\ SignalInv /\ WarnInv /\ LatchInv /\ GradeInv

-----------------------------------------------------------------------------
(* The operators *)

LEMMA Limits ==
    /\ LatchTime \in Nat /\ RecoveryTime \in Nat /\ ReadyTime \in Nat
    /\ WarnTime \in Nat /\ StateTime \in Nat /\ MaxGap \in Nat
    /\ Cutoff \in Nat /\ Recovery \in Nat /\ ForceFloor \in Nat /\ Recovery > Cutoff
    /\ HistoryCap \in Nat /\ HistoryCap >= MaxGap + 1
    /\ HistoryCap >= ReadyTime /\ HistoryCap >= WarnTime + MaxGap + 1 /\ HistoryCap >= StateTime
BY PolicyAssumption DEF Recovery, ForceFloor, HistoryCap, MostOf

LEMMA BandLaw ==
    ASSUME NEW v
    PROVE  /\ InBand("ready", v) <=> Usable(v) /\ v >= Recovery
           /\ InBand("force", v) <=> Usable(v) /\ v >= ForceFloor
           /\ InBand("warn", v) <=> Usable(v) /\ v <= WarningVoltage
           /\ InBand("offSaving", v) <=> Usable(v) /\ v >= Cutoff + 5
           /\ InBand("offWarning", v) <=> Usable(v) /\ v >= Cutoff + 8
BY DEF InBand

LEMMA DesiredIsGrade == ASSUME NEW s, NEW v PROVE Desired(s, v) \in Grades
BY DEF Desired, Grade, Grades

\* A lower grade is left beyond its margin.
LEMMA MarginLaw ==
    ASSUME NEW v \in Nat
    PROVE  /\ Desired("SAVING", v) # "SAVING" => v >= Cutoff + 5
           /\ Desired("WARNING", v) = "NORMAL" => v >= Cutoff + 8
BY Limits DEF Desired, Grade

\* An age grows by one until its limit.
LEMMA AgedLaw ==
    ASSUME NEW limit \in Nat, NEW age \in Ages(limit)
    PROVE  /\ Aged(age, limit) \in Ages(limit)
           /\ Aged(age, limit) = Idle <=> age = Idle
           /\ age # Idle => /\ Aged(age, limit) = (IF age < limit THEN age + 1 ELSE limit)
                            /\ Aged(age, limit) >= age /\ Aged(age, limit) <= age + 1
BY DEF Aged, Ages, Idle

\* A run after a sample: of its type, and either kept, started or ended.
LEMMA TimedLaw ==
    ASSUME NEW limit \in Nat, NEW age \in Ages(limit), NEW inside \in BOOLEAN
    PROVE  /\ Timed(inside, age) \in Ages(limit)
           /\ Kept(age) \in Ages(limit)
           /\ ~inside <=> Timed(inside, age) = Idle
           /\ inside => Timed(inside, age) = (IF Gap \/ age = Idle THEN 0 ELSE age)
BY DEF Timed, Kept, Ages, Idle

\* The change of grade.
LEMMA GradedLaw ==
    ASSUME NEW s \in BatteryStates, NEW age \in Ages(StateTime), NEW v, Graded(s, age, v),
           candidate \in Grades \cup {"UNKNOWN"}
    PROVE  /\ state' = s \/ state' \in Grades
           /\ s = "UNKNOWN" => state' \in Grades
           /\ stateAge' \in Ages(StateTime)
           /\ candidate' \in Grades \cup {"UNKNOWN"}
           /\ state' # s /\ s # "UNKNOWN" =>
                age # Idle /\ age >= StateTime /\ state' = Desired(s, v) /\ candidate = Desired(s, v)
           /\ \/ stateAge' \in {Idle, 0}
              \/ /\ stateAge' = age /\ state' = s
                 /\ Desired(s, v) # s /\ candidate = Desired(s, v) /\ candidate' = candidate
<1>1. Desired(s, v) \in Grades
    BY DesiredIsGrade
<1> QED BY <1>1, Limits DEF Graded, Ages, Idle

-----------------------------------------------------------------------------
(* One sample *)

\* What a sample leaves, whatever the grade does.
SampleLaw(v) ==
    /\ sampled' /\ sampleAge' = 0 /\ voltage' = v /\ ~Gap'
    /\ \A b \in Bands : brokenFor'[b] = (IF InBand(b, v) THEN brokenFor[b] ELSE 0)
    /\ healthyAge' = (IF Usable(v) THEN Timed(v >= Recovery, healthyAge) ELSE Idle)
    /\ forceAge' = (IF Usable(v) THEN Timed(v >= ForceFloor, forceAge) ELSE Idle)
    /\ warnAge' = (IF Usable(v) THEN Timed(v <= WarningVoltage, warnAge) ELSE Idle)

LEMMA SampleEffect ==
    ASSUME PolicyTypeOK, NEW v \in Voltages \cup {0}, Sample(v)
    PROVE  SampleLaw(v) /\ v \in Nat
<1>1. v \in Nat
    <2>1. \A n \in Voltages : n \in Nat
        BY PolicyAssumption
    <2> QED BY <2>1
<1>2. ~Gap'
    BY Limits DEF Sample, Gap
<1>3. \A b \in Bands : brokenFor'[b] = (IF InBand(b, v) THEN brokenFor[b] ELSE 0)
    BY DEF Sample, Remember
<1> QED BY <1>1, <1>2, <1>3 DEF Sample, SampleLaw, ValidSample, InvalidSample, WarnAge

LEMMA TypeStep == PolicyTypeOK /\ [PolicyNext]_<<policyVars, historyVars>> => PolicyTypeOK'
<1> SUFFICES ASSUME PolicyTypeOK, [PolicyNext]_<<policyVars, historyVars>> PROVE PolicyTypeOK'
    OBVIOUS
<1>l. /\ 0 \in Ages(LatchTime) /\ Idle \in Ages(LatchTime)
      /\ Idle \in Ages(RecoveryTime) /\ Idle \in Ages(StateTime)
      /\ Idle \in Ages(ReadyTime) /\ Idle \in Ages(WarnTime)
    BY Limits DEF Ages
<1>t. /\ stateAge \in Ages(StateTime) /\ lowAge \in Ages(LatchTime)
      /\ recAge \in Ages(RecoveryTime) /\ warnAge \in Ages(WarnTime)
      /\ healthyAge \in Ages(ReadyTime) /\ forceAge \in Ages(ReadyTime)
      /\ brokenFor \in [Bands -> 0 .. HistoryCap] /\ gradeFor \in 0 .. HistoryCap
      /\ sampleAge \in 0 .. MaxGap + 1
    BY DEF PolicyTypeOK
<1>1. ASSUME NEW v \in Voltages \cup {0}, Sample(v) PROVE PolicyTypeOK'
    <2>1. v \in Nat
        BY PolicyAssumption
    <2>2. /\ sampled' \in BOOLEAN /\ sampleAge' \in 0 .. MaxGap + 1
          /\ voltage' \in Voltages \cup {0} /\ admission' \in Voltages \cup {NoVoltage}
        BY <1>1, <2>1, Limits DEF Sample, PolicyTypeOK
    <2>3. brokenFor' \in [Bands -> 0 .. HistoryCap] /\ gradeFor' \in 0 .. HistoryCap
        BY <1>1, <1>t, Limits DEF Sample, Remember
    <2>4. CASE Usable(v)
        <3>1. ValidSample(v)
            BY <1>1, <2>4 DEF Sample
        <3>2. /\ warnAge' \in Ages(WarnTime) /\ healthyAge' \in Ages(ReadyTime)
              /\ forceAge' \in Ages(ReadyTime)
            <4>1. /\ (v <= WarningVoltage) \in BOOLEAN /\ (v >= Recovery) \in BOOLEAN
                  /\ (v >= ForceFloor) \in BOOLEAN
                OBVIOUS
            <4> QED BY <3>1, <4>1, <1>t, TimedLaw, Limits DEF ValidSample, WarnAge
        <3>3. lowAge' \in Ages(LatchTime)
            <4>1. (v <= Cutoff) \in BOOLEAN
                OBVIOUS
            <4>2. Timed(v <= Cutoff, lowAge) \in Ages(LatchTime) /\ Kept(lowAge) \in Ages(LatchTime)
                BY <4>1, <1>t, TimedLaw, Limits
            <4> QED BY <3>1, <4>2 DEF ValidSample, LowAge
        <3>4. recAge' \in Ages(RecoveryTime) /\ latched' \in BOOLEAN
            <4>1. (latched /\ v >= Recovery) \in BOOLEAN
                OBVIOUS
            <4>2. RecoveryAge(v) \in Ages(RecoveryTime)
                BY <4>1, <1>t, TimedLaw, Limits DEF RecoveryAge
            <4> QED BY <3>1, <4>2, <1>l DEF ValidSample
        <3> DEFINE s == IF state = "SENSOR_FAULT" THEN "UNKNOWN" ELSE state
                   age == IF state = "SENSOR_FAULT" \/ latched # latched' THEN Idle
                          ELSE Kept(stateAge)
        <3>5. s \in BatteryStates /\ age \in Ages(StateTime)
            BY <1>l, <1>t, TimedLaw, Limits DEF PolicyTypeOK, BatteryStates
        <3>8. /\ state' \in BatteryStates /\ stateAge' \in Ages(StateTime)
              /\ candidate' \in Grades \cup {"UNKNOWN"}
            <4>1. CASE latched'
                BY <3>1, <3>5, <4>1 DEF ValidSample, PolicyTypeOK, ProtectedState, BatteryStates
            <4>2. CASE ~latched'
                <5>1. Graded(s, age, v) /\ candidate \in Grades \cup {"UNKNOWN"}
                    BY <3>1, <4>2 DEF ValidSample, PolicyTypeOK
                <5>2. /\ state' = s \/ state' \in Grades
                      /\ stateAge' \in Ages(StateTime) /\ candidate' \in Grades \cup {"UNKNOWN"}
                    BY <3>5, <5>1, GradedLaw
                <5> QED BY <3>5, <5>2 DEF BatteryStates
            <4> QED BY <4>1, <4>2
        <3> QED BY <2>2, <2>3, <3>2, <3>3, <3>4, <3>8 DEF PolicyTypeOK
    <2>5. CASE ~Usable(v)
        BY <1>1, <1>l, <2>2, <2>3, <2>5 DEF Sample, InvalidSample, PolicyTypeOK, BatteryStates
    <2> QED BY <2>4, <2>5
<1>2. CASE RestoreProtection
    BY <1>2, <1>l, Limits DEF RestoreProtection, PolicyTypeOK, BatteryStates
<1>3. CASE Elapse
    <2>1. /\ stateAge' \in Ages(StateTime) /\ lowAge' \in Ages(LatchTime)
          /\ recAge' \in Ages(RecoveryTime) /\ warnAge' \in Ages(WarnTime)
          /\ healthyAge' \in Ages(ReadyTime) /\ forceAge' \in Ages(ReadyTime)
        BY <1>3, <1>t, AgedLaw, Limits DEF Elapse
    <2>2. \A h \in 0 .. HistoryCap : Aged(h, HistoryCap) \in 0 .. HistoryCap
        BY Limits DEF Aged, Idle
    <2>3. brokenFor' \in [Bands -> 0 .. HistoryCap] /\ gradeFor' \in 0 .. HistoryCap
        BY <1>3, <1>t, <2>2, Limits DEF Elapse
    <2>4. sampleAge' \in 0 .. MaxGap + 1
        BY <1>3, <1>t, Limits DEF Elapse, Aged, Idle
    <2> QED BY <1>3, <2>1, <2>3, <2>4 DEF Elapse, PolicyTypeOK
<1>4. CASE UNCHANGED <<policyVars, historyVars>>
    BY <1>4 DEF PolicyTypeOK, policyVars, historyVars
<1> QED BY <1>1, <1>2, <1>3, <1>4 DEF PolicyNext

-----------------------------------------------------------------------------
(* The steps *)

\* The clock: bands and ages grow together, and a hole empties the bands.
LEMMA ElapseLaw ==
    ASSUME PolicyTypeOK, Elapse
    PROVE  /\ sampled' = sampled /\ sampleAge' \in 0 .. MaxGap + 1
           /\ sampled /\ sampleAge' <= MaxGap =>
                sampleAge' = sampleAge + 1 /\ \A b \in Bands : brokenFor'[b] = Aged(brokenFor[b], HistoryCap)
           /\ ~sampled \/ sampleAge' > MaxGap => \A b \in Bands : brokenFor'[b] = 0
           /\ Gap' <=> sampled /\ sampleAge' > MaxGap
           /\ Gap => Gap'
<1>1. sampleAge \in 0 .. MaxGap + 1 /\ MaxGap \in Nat
    BY Limits DEF PolicyTypeOK
<1>2. sampleAge' = IF sampled /\ sampleAge < MaxGap + 1 THEN sampleAge + 1 ELSE sampleAge
    BY <1>1 DEF Elapse, Aged, Idle
<1>3. \A b \in Bands : brokenFor'[b] = IF ~sampled \/ sampleAge' > MaxGap THEN 0
                                       ELSE Aged(brokenFor[b], HistoryCap)
    BY DEF Elapse
<1>4. UNCHANGED sampled
    BY DEF Elapse
<1> QED BY <1>1, <1>2, <1>3, <1>4 DEF Gap

LEMMA SignalStep ==
    PolicyInv /\ [PolicyNext]_<<policyVars, historyVars>> => SignalInv'
<1> SUFFICES ASSUME PolicyInv, [PolicyNext]_<<policyVars, historyVars>> PROVE SignalInv'
    OBVIOUS
<1>t. /\ PolicyTypeOK /\ SignalInv
      /\ warnAge \in Ages(WarnTime)
      /\ healthyAge \in Ages(ReadyTime) /\ forceAge \in Ages(ReadyTime)
      /\ "ready" \in Bands /\ "force" \in Bands /\ "warn" \in Bands
      /\ \A b \in Bands : brokenFor[b] \in 0 .. HistoryCap
    BY DEF PolicyInv, PolicyTypeOK, Bands
<1>1. ASSUME NEW v \in Voltages \cup {0}, Sample(v) PROVE SignalInv'
    <2>1. SampleLaw(v) /\ v \in Nat
        BY <1>1, <1>t, SampleEffect
    <2>2. /\ (v >= Recovery) \in BOOLEAN /\ (v >= ForceFloor) \in BOOLEAN
          /\ (v <= WarningVoltage) \in BOOLEAN
        OBVIOUS
    <2>3. healthyAge' <= brokenFor'["ready"]
        <3>1. brokenFor'["ready"] = IF Usable(v) /\ v >= Recovery THEN brokenFor["ready"] ELSE 0
            BY <2>1, <1>t, BandLaw DEF SampleLaw
        <3>2. healthyAge' = IF Usable(v) /\ v >= Recovery
                            THEN (IF Gap \/ healthyAge = Idle THEN 0 ELSE healthyAge) ELSE Idle
            BY <2>1, <2>2, <1>t, TimedLaw, Limits DEF SampleLaw
        <3> QED BY <3>1, <3>2, <1>t, Limits DEF SignalInv, Idle
    <2>4. forceAge' <= brokenFor'["force"]
        <3>1. brokenFor'["force"] = IF Usable(v) /\ v >= ForceFloor THEN brokenFor["force"] ELSE 0
            BY <2>1, <1>t, BandLaw DEF SampleLaw
        <3>2. forceAge' = IF Usable(v) /\ v >= ForceFloor
                          THEN (IF Gap \/ forceAge = Idle THEN 0 ELSE forceAge) ELSE Idle
            BY <2>1, <2>2, <1>t, TimedLaw, Limits DEF SampleLaw
        <3> QED BY <3>1, <3>2, <1>t, Limits DEF SignalInv, Idle
    <2>5. warnAge' <= brokenFor'["warn"]
        <3>1. brokenFor'["warn"] = IF Usable(v) /\ v <= WarningVoltage THEN brokenFor["warn"] ELSE 0
            BY <2>1, <1>t, BandLaw DEF SampleLaw
        <3>2. warnAge' = IF Usable(v) /\ v <= WarningVoltage
                         THEN (IF Gap \/ warnAge = Idle THEN 0 ELSE warnAge) ELSE Idle
            BY <2>1, <2>2, <1>t, TimedLaw, Limits DEF SampleLaw
        <3> QED BY <3>1, <3>2, <1>t, Limits DEF SignalInv, Idle
    <2> QED BY <2>1, <2>3, <2>4, <2>5 DEF SampleLaw, SignalInv
<1>2. CASE RestoreProtection
    BY <1>2, <1>t, Limits DEF RestoreProtection, SignalInv, Gap, Idle
<1>3. CASE Elapse
    <2>1. /\ healthyAge' = Aged(healthyAge, ReadyTime) /\ forceAge' = Aged(forceAge, ReadyTime)
          /\ warnAge' = Aged(warnAge, WarnTime)
        BY <1>3 DEF Elapse
    <2>2. CASE ~sampled
        BY <1>3, <1>t, <2>1, <2>2, ElapseLaw, AgedLaw, Limits DEF SignalInv, Idle
    <2>3. CASE sampled /\ Gap'
        BY <1>3, <1>t, <2>3, ElapseLaw DEF SignalInv
    <2>4. CASE sampled /\ ~Gap'
        <3>1. /\ ~Gap /\ sampled'
              /\ \A b \in Bands : brokenFor'[b] = Aged(brokenFor[b], HistoryCap)
            <4>1. sampleAge' <= MaxGap
                BY <1>3, <1>t, <2>4, ElapseLaw, Limits
            <4> QED BY <1>3, <1>t, <2>4, <4>1, ElapseLaw
        <3>2. \A b \in Bands : brokenFor'[b] = IF brokenFor[b] < HistoryCap THEN brokenFor[b] + 1
                                               ELSE HistoryCap
            BY <3>1, <1>t, Limits DEF Aged, Idle
        <3>3. healthyAge' <= brokenFor'["ready"]
            BY <3>1, <3>2, <2>1, <1>t, Limits DEF SignalInv, Ages, Aged, Idle
        <3>4. forceAge' <= brokenFor'["force"]
            BY <3>1, <3>2, <2>1, <1>t, Limits DEF SignalInv, Ages, Aged, Idle
        <3>5. warnAge' <= brokenFor'["warn"]
            BY <3>1, <3>2, <2>1, <1>t, Limits DEF SignalInv, Ages, Aged, Idle
        <3> QED BY <2>4, <3>1, <3>3, <3>4, <3>5 DEF SignalInv
    <2> QED BY <2>2, <2>3, <2>4
<1>4. CASE UNCHANGED <<policyVars, historyVars>>
    BY <1>4, <1>t DEF SignalInv, Gap, policyVars, historyVars
<1> QED BY <1>1, <1>2, <1>3, <1>4 DEF PolicyNext

LEMMA WarnStep ==
    PolicyInv /\ [PolicyNext]_<<policyVars, historyVars>> => WarnInv'
<1> SUFFICES ASSUME PolicyInv, [PolicyNext]_<<policyVars, historyVars>> PROVE WarnInv'
    OBVIOUS
<1>t. /\ PolicyTypeOK /\ SignalInv /\ WarnInv
      /\ warnAge \in Ages(WarnTime) /\ sampleAge \in 0 .. MaxGap + 1
      /\ "warn" \in Bands /\ brokenFor["warn"] \in 0 .. HistoryCap
    BY DEF PolicyInv, PolicyTypeOK, Bands
<1>1. ASSUME NEW v \in Voltages \cup {0}, Sample(v) PROVE WarnInv'
    <2>1. SampleLaw(v) /\ v \in Nat
        BY <1>1, <1>t, SampleEffect
    <2>2. brokenFor'["warn"] = IF Usable(v) /\ v <= WarningVoltage THEN brokenFor["warn"] ELSE 0
        BY <2>1, <1>t, BandLaw DEF SampleLaw
    <2>3. warnAge' = IF Usable(v) /\ v <= WarningVoltage
                     THEN (IF Gap \/ warnAge = Idle THEN 0 ELSE warnAge) ELSE Idle
        <3>1. (v <= WarningVoltage) \in BOOLEAN
            OBVIOUS
        <3> QED BY <2>1, <3>1, <1>t, TimedLaw, Limits DEF SampleLaw
    <2>4. Gap => brokenFor["warn"] = 0
        BY <1>t DEF SignalInv
    <2>5. ~Gap => sampleAge <= MaxGap \/ brokenFor["warn"] = 0
        BY <1>t, Limits DEF SignalInv, Gap
    <2> QED BY <1>t, <2>1, <2>2, <2>3, <2>4, <2>5, Limits DEF SampleLaw, WarnInv, Idle, Ages
<1>2. CASE RestoreProtection
    BY <1>2, <1>t DEF RestoreProtection, WarnInv
<1>3. CASE Elapse
    <2>1. warnAge' = Aged(warnAge, WarnTime) /\ voltage' = voltage
        BY <1>3 DEF Elapse
    <2>2. warnAge' = Idle <=> warnAge = Idle
        BY <1>t, <2>1, AgedLaw, Limits
    <2>3. CASE brokenFor'["warn"] = 0
        BY <1>3, <1>t, <2>1, <2>2, <2>3, ElapseLaw, Limits DEF WarnInv, Ages, Aged, Idle
    <2>4. CASE brokenFor'["warn"] = Aged(brokenFor["warn"], HistoryCap) /\ sampleAge' = sampleAge + 1
        <3>1. brokenFor'["warn"] <= brokenFor["warn"] + 1
            BY <1>t, <2>4, Limits DEF Aged, Idle
        <3>2. brokenFor'["warn"] \in Nat
            BY <1>t, <2>4, Limits DEF Aged, Idle
        <3> QED BY <1>t, <2>1, <2>2, <2>4, <3>1, <3>2, Limits DEF WarnInv, Ages, Aged, Idle
    <2> QED BY <1>3, <1>t, <2>3, <2>4, ElapseLaw, Limits
<1>4. CASE UNCHANGED <<policyVars, historyVars>>
    BY <1>4, <1>t DEF WarnInv, policyVars, historyVars
<1> QED BY <1>1, <1>2, <1>3, <1>4 DEF PolicyNext

\* A release is qualified: it ends a recovery that an earlier sample began.
LEMMA ReleaseLaw ==
    ASSUME PolicyTypeOK, LatchInv, NEW v, Releases(v)
    PROVE  latched /\ state = "RECOVERING" /\ v >= Recovery
<1>1. RecoveryAge(v) # Idle /\ RecoveryAge(v) >= RecoveryTime
    BY DEF Releases
<1>2. latched /\ v >= Recovery
    BY <1>1 DEF RecoveryAge, Timed
<1>3. recAge # Idle
    BY <1>1, <1>2, RecoveryPositive, Limits DEF RecoveryAge, Timed, Kept, Idle
<1> QED BY <1>2, <1>3 DEF LatchInv

LEMMA LatchStep ==
    PolicyInv /\ [PolicyNext]_<<policyVars, historyVars>> => LatchInv'
<1> SUFFICES ASSUME PolicyInv, [PolicyNext]_<<policyVars, historyVars>> PROVE LatchInv'
    OBVIOUS
<1>t. PolicyTypeOK /\ LatchInv
    BY DEF PolicyInv
<1>1. ASSUME NEW v \in Voltages \cup {0}, Sample(v) PROVE LatchInv'
    <2>1. CASE ~Usable(v)
        BY <1>1, <1>t, <2>1 DEF Sample, InvalidSample, LatchInv
    <2>2. CASE Usable(v)
        <3>1. ValidSample(v) /\ v \in Nat
            BY <1>1, <2>2, PolicyAssumption DEF Sample
        <3>2. recAge' # Idle => latched' /\ v >= Recovery
            BY <3>1 DEF ValidSample, RecoveryAge, Timed
        <3>3. CASE latched'
            BY <3>1, <3>2, <3>3 DEF ValidSample, ProtectedState, LatchInv
        <3>4. CASE ~latched'
            <4> DEFINE s == IF state = "SENSOR_FAULT" THEN "UNKNOWN" ELSE state
                       age == IF state = "SENSOR_FAULT" \/ latched # latched' THEN Idle
                              ELSE Kept(stateAge)
            <4>1. Graded(s, age, v)
                BY <3>1, <3>4 DEF ValidSample
            <4>2. s # "PROTECTED"
                BY <3>1, <3>4, <1>t, ReleaseLaw DEF ValidSample, LatchInv
            <4>3. state' = s \/ state' \in Grades
                BY <4>1, DesiredIsGrade DEF Graded
            <4> QED BY <3>2, <3>4, <4>2, <4>3 DEF LatchInv, Grades
        <3> QED BY <3>3, <3>4
    <2> QED BY <2>1, <2>2
<1>2. CASE RestoreProtection
    BY <1>2 DEF RestoreProtection, LatchInv
<1>3. CASE Elapse
    BY <1>3, <1>t, AgedLaw, Limits DEF Elapse, LatchInv, PolicyTypeOK
<1>4. CASE UNCHANGED <<policyVars, historyVars>>
    BY <1>4, <1>t DEF LatchInv, policyVars, historyVars
<1> QED BY <1>1, <1>2, <1>3, <1>4 DEF PolicyNext

\* A change of grade that a sample makes directly, and the age it starts.
LEMMA GradeChange ==
    ASSUME PolicyInv, NEW v \in Voltages \cup {0}, Sample(v), state' \in Grades
    PROVE  GradeInv' /\ (state \in Grades /\ state' # state => DwellsThenLeaves)
<1>t. /\ PolicyTypeOK /\ LatchInv /\ GradeInv
      /\ stateAge \in Ages(StateTime) /\ gradeFor \in Nat /\ gradeFor' \in Nat
      /\ state \in BatteryStates /\ candidate \in Grades \cup {"UNKNOWN"}
      /\ brokenFor["offSaving"] \in Nat /\ brokenFor["offWarning"] \in Nat
    BY Limits DEF PolicyInv, PolicyTypeOK, Sample, Remember, Bands
<1>1. Usable(v)
    BY DEF Sample, InvalidSample, Grades
<1>2. ValidSample(v) /\ Remember(v)
    BY <1>1 DEF Sample
<1>3. ~latched'
    BY <1>2 DEF ValidSample, ProtectedState, Grades
<1> DEFINE s == IF state = "SENSOR_FAULT" THEN "UNKNOWN" ELSE state
           age == IF state = "SENSOR_FAULT" \/ latched # latched' THEN Idle ELSE Kept(stateAge)
           d == Desired(s, v)
<1>4. Graded(s, age, v)
    BY <1>2, <1>3 DEF ValidSample
<1>5. /\ s \in BatteryStates /\ age \in Ages(StateTime) /\ age <= stateAge
      /\ Gap => age = Idle
    BY <1>t, Limits DEF Kept, Ages, Idle, BatteryStates
<1>6. /\ state' # s /\ s # "UNKNOWN" =>
           age # Idle /\ age >= StateTime /\ state' = d /\ candidate = d
      /\ \/ stateAge' \in {Idle, 0}
         \/ stateAge' = age /\ state' = s /\ d # s /\ candidate = d /\ candidate' = candidate
    BY <1>4, <1>5, <1>t, GradedLaw
<1>7. state \in Grades => s = state /\ s # "UNKNOWN" /\ stateAge <= gradeFor
    BY <1>t DEF Grades, GradeInv
<1>8. SampleLaw(v) /\ v \in Nat
    BY <1>t, SampleEffect
<1>9. /\ brokenFor'["offSaving"] = (IF v >= Cutoff + 5 THEN brokenFor["offSaving"] ELSE 0)
      /\ brokenFor'["offWarning"] = (IF v >= Cutoff + 8 THEN brokenFor["offWarning"] ELSE 0)
    BY <1>1, <1>8, BandLaw DEF SampleLaw, Bands
<1>10. s = "SAVING" /\ d # s => v >= Cutoff + 5
    BY <1>8, MarginLaw
<1>11. s = "WARNING" /\ d = "NORMAL" => v >= Cutoff + 8
    BY <1>8, MarginLaw
<1>12. ASSUME state \in Grades, state' # state PROVE DwellsThenLeaves
    <2>1. /\ s = state /\ age # Idle /\ age >= StateTime /\ state' = d /\ candidate = d
          /\ ~Gap /\ stateAge >= StateTime
        BY <1>12, <1>5, <1>6, <1>7, <1>t, Limits DEF Ages, Idle
    <2>2. gradeFor >= StateTime
        BY <2>1, <1>12, <1>7, <1>t, Limits DEF Ages, Idle
    <2>3. state = "SAVING" => brokenFor'["offSaving"] >= StateTime
        BY <2>1, <1>12, <1>t, <1>9, <1>10, Limits DEF GradeInv, Ages, Idle
    <2>4. state = "WARNING" /\ state' = "NORMAL" => brokenFor'["offWarning"] >= StateTime
        BY <2>1, <1>12, <1>t, <1>9, <1>11, Limits DEF GradeInv, Ages, Idle
    <2> QED BY <2>2, <2>3, <2>4 DEF DwellsThenLeaves
<1>13. GradeInv'
    <2>0. sampled' /\ brokenFor'["offSaving"] \in Nat /\ brokenFor'["offWarning"] \in Nat
        BY <1>8, <1>9, <1>t DEF SampleLaw
    <2>1. CASE stateAge' \in {Idle, 0}
        BY <2>0, <2>1, <1>t DEF Idle, GradeInv
    <2>2. CASE /\ stateAge' = age /\ state' = s
               /\ d # s /\ candidate = d /\ candidate' = candidate /\ age # Idle
        <3>1. state' = state /\ state \in Grades /\ s = state
            BY <2>2 DEF Grades
        <3>2. gradeFor' = gradeFor
            BY <3>1, <1>2 DEF Remember
        <3>3. ~Gap /\ stateAge' <= stateAge
            BY <2>2, <1>5
        <3>4. stateAge' <= gradeFor'
            BY <2>2, <3>1, <3>2, <3>3, <1>5, <1>7, <1>t, Limits DEF Ages, Idle
        <3>5. state' = "SAVING" => stateAge' <= brokenFor'["offSaving"]
            BY <2>2, <3>1, <3>3, <1>5, <1>9, <1>10, <1>t, Limits DEF GradeInv, Ages, Idle
        <3>6. state' = "WARNING" /\ candidate' = "NORMAL" => stateAge' <= brokenFor'["offWarning"]
            BY <2>2, <3>1, <3>3, <1>5, <1>9, <1>11, <1>t, Limits DEF GradeInv, Ages, Idle
        <3> QED BY <2>0, <3>4, <3>5, <3>6 DEF GradeInv
    <2> QED BY <1>6, <2>1, <2>2
<1> QED BY <1>12, <1>13

LEMMA GradeStep ==
    PolicyInv /\ [PolicyNext]_<<policyVars, historyVars>> => GradeInv'
<1> SUFFICES ASSUME PolicyInv, [PolicyNext]_<<policyVars, historyVars>> PROVE GradeInv'
    OBVIOUS
<1>t. /\ PolicyTypeOK /\ GradeInv
      /\ stateAge \in Ages(StateTime) /\ gradeFor \in 0 .. HistoryCap
      /\ "offSaving" \in Bands /\ "offWarning" \in Bands
      /\ \A b \in Bands : brokenFor[b] \in 0 .. HistoryCap
    BY DEF PolicyInv, PolicyTypeOK, Bands
<1>1. ASSUME NEW v \in Voltages \cup {0}, Sample(v) PROVE GradeInv'
    <2>1. CASE state' \in Grades
        BY <1>1, <2>1, GradeChange
    <2>2. CASE state' \notin Grades
        BY <2>2 DEF GradeInv, Grades
    <2> QED BY <2>1, <2>2
<1>2. CASE RestoreProtection
    BY <1>2 DEF RestoreProtection, GradeInv, Grades
<1>3. CASE Elapse
    <2>1. /\ stateAge' = Aged(stateAge, StateTime) /\ gradeFor' = Aged(gradeFor, HistoryCap)
          /\ state' = state /\ candidate' = candidate /\ sampled' = sampled
        BY <1>3 DEF Elapse
    <2>2. state \in Grades => stateAge' <= gradeFor'
        BY <1>t, <2>1, Limits DEF GradeInv, Ages, Aged, Idle
    <2>3. CASE ~sampled
        BY <2>1, <2>3, <1>t DEF GradeInv, Grades
    <2>4. CASE sampled /\ Gap'
        BY <2>1, <2>2, <2>4 DEF GradeInv
    <2>5. CASE sampled /\ ~Gap'
        <3>1. /\ ~Gap
              /\ \A b \in Bands : brokenFor'[b] = Aged(brokenFor[b], HistoryCap)
            <4>1. sampleAge' <= MaxGap
                BY <1>3, <1>t, <2>5, ElapseLaw, Limits
            <4> QED BY <1>3, <1>t, <2>5, <4>1, ElapseLaw
        <3>2. \A b \in Bands : brokenFor'[b] = IF brokenFor[b] < HistoryCap THEN brokenFor[b] + 1
                                               ELSE HistoryCap
            BY <3>1, <1>t, Limits DEF Aged, Idle
        <3>3. state = "SAVING" => stateAge' <= brokenFor'["offSaving"]
            BY <3>1, <3>2, <2>1, <1>t, Limits DEF GradeInv, Ages, Aged, Idle
        <3>4. state = "WARNING" /\ candidate = "NORMAL" => stateAge' <= brokenFor'["offWarning"]
            BY <3>1, <3>2, <2>1, <1>t, Limits DEF GradeInv, Ages, Aged, Idle
        <3> QED BY <2>1, <2>2, <2>5, <3>3, <3>4 DEF GradeInv
    <2> QED BY <2>3, <2>4, <2>5
<1>4. CASE UNCHANGED <<policyVars, historyVars>>
    BY <1>4, <1>t DEF GradeInv, Gap, policyVars, historyVars
<1> QED BY <1>1, <1>2, <1>3, <1>4 DEF PolicyNext

-----------------------------------------------------------------------------
(* The theorems *)

LEMMA PolicyStart == PolicyInit => PolicyInv
<1> SUFFICES ASSUME PolicyInit PROVE PolicyInv
    OBVIOUS
<1>1. PolicyTypeOK
    <2>1. /\ stateAge \in Ages(StateTime) /\ lowAge \in Ages(LatchTime)
          /\ recAge \in Ages(RecoveryTime) /\ warnAge \in Ages(WarnTime)
          /\ healthyAge \in Ages(ReadyTime) /\ forceAge \in Ages(ReadyTime)
        BY DEF PolicyInit, Ages
    <2>2. brokenFor \in [Bands -> 0 .. HistoryCap] /\ gradeFor \in 0 .. HistoryCap
        BY Limits DEF PolicyInit
    <2>3. sampled \in BOOLEAN /\ latched \in BOOLEAN
        BY DEF PolicyInit
    <2>5. sampleAge \in 0 .. MaxGap + 1
        BY Limits DEF PolicyInit
    <2>6. voltage \in Voltages \cup {0} /\ admission \in Voltages \cup {NoVoltage}
        BY DEF PolicyInit
    <2>4. state \in BatteryStates /\ state \notin Grades /\ candidate \in Grades \cup {"UNKNOWN"}
        BY DEF PolicyInit, BatteryStates, Grades
    <2> QED BY <2>1, <2>2, <2>3, <2>4, <2>5, <2>6 DEF PolicyTypeOK
<1> QED BY <1>1, Limits DEF PolicyInit, PolicyInv, SignalInv, WarnInv, LatchInv, GradeInv, Gap,
                            Grades, Bands, Idle

THEOREM PolicyInvariance == PolicySpec => []PolicyInv
<1>1. PolicyInv /\ [PolicyNext]_<<policyVars, historyVars>> => PolicyInv'
    BY TypeStep, SignalStep, WarnStep, LatchStep, GradeStep DEF PolicyInv
<1> QED BY PolicyStart, <1>1, PTL DEF PolicySpec

\* Every timer and voltage of the policy stays in its range.
THEOREM PolicyTyped == PolicySpec => []PolicyTypeOK
<1>1. PolicyInv => PolicyTypeOK
    BY DEF PolicyInv
<1> QED BY <1>1, PolicyInvariance, PTL

\* Readiness for an update or a forced one and the owner's warning tell of
\* samples that stayed in their band for the whole time (sample, snapshot).
THEOREM SignalsAreSustained == PolicySpec => []SignalsSustained
<1>1. PolicyInv => SignalsSustained
    <2> SUFFICES ASSUME PolicyInv PROVE SignalsSustained
        OBVIOUS
    <2>1. /\ PolicyTypeOK /\ SignalInv
          /\ warnAge \in Ages(WarnTime) /\ healthyAge \in Ages(ReadyTime)
          /\ forceAge \in Ages(ReadyTime)
          /\ \A b \in Bands : brokenFor[b] \in Nat
        BY Limits DEF PolicyInv, PolicyTypeOK
    <2>2. Fresh => ~Gap
        BY <2>1, Limits DEF Fresh, Gap, PolicyTypeOK
    <2> QED BY <2>1, <2>2, Limits DEF SignalsSustained, OtaReady, ForceReady, LowWarning,
                                     SignalInv, Ages, Idle, Bands
<1> QED BY <1>1, PolicyInvariance, PTL

\* A battery that stays low for the warning time and a gap is warned of, also
\* through a latch and restoreProtection.
THEOREM WarningIsKept == PolicySpec => []WarningNotLost
<1>1. PolicyInv => WarningNotLost
    <2> SUFFICES ASSUME PolicyInv, Fresh, brokenFor["warn"] > WarnTime + MaxGap
                 PROVE  LowWarning
        BY DEF WarningNotLost
    <2>1. /\ WarnInv /\ warnAge \in Ages(WarnTime) /\ sampleAge \in Nat
          /\ brokenFor["warn"] \in Nat
        BY Limits DEF PolicyInv, PolicyTypeOK, Bands
    <2>2. warnAge # Idle
        BY <2>1, Limits DEF WarnInv, Fresh
    <2> QED BY <2>1, <2>2, Limits DEF WarnInv, LowWarning, Ages, Idle
<1> QED BY <1>1, PolicyInvariance, PTL

\* PROTECTED is said of a latched policy only, and a latched policy names no
\* ordinary grade: servicePower may read the latch from the state.
THEOREM StateShowsLatch == PolicySpec => []StateTellsLatch
<1>1. PolicyInv => StateTellsLatch
    BY DEF PolicyInv, LatchInv, StateTellsLatch, ShownState
<1> QED BY <1>1, PolicyInvariance, PTL

\* A grade is held for StateTime before it changes directly to another, and a
\* lower one is left upwards after StateTime of samples beyond its margin.
THEOREM GradesDwell == PolicySpec => GradeDwells
<1>1. PolicyInv /\ [PolicyNext]_<<policyVars, historyVars>> =>
        [(state \in Grades /\ state' \in Grades /\ state' # state) => DwellsThenLeaves]_policyVars
    <2> SUFFICES ASSUME PolicyInv, PolicyNext, state \in Grades, state' \in Grades, state' # state
                 PROVE  DwellsThenLeaves
        BY DEF policyVars
    <2>1. ~RestoreProtection /\ ~Elapse
        BY DEF RestoreProtection, Elapse, Grades
    <2> QED BY <2>1, GradeChange DEF PolicyNext
<1> QED BY <1>1, PolicyInvariance, PTL DEF PolicySpec, GradeDwells

-----------------------------------------------------------------------------
(* The refinement *)

\* The reading that a sample is for the power gate.
Reading(v) ==
    IF v = 0 THEN "fault" ELSE IF v > HighestVoltage THEN "over"
    ELSE IF v <= Cutoff THEN "critical" ELSE IF v < Recovery THEN "weak" ELSE "strong"

LEMMA ReadingLaw ==
    ASSUME NEW v \in Nat
    PROVE  /\ Reading(v) \in Gate!Levels
           /\ Gate!Valid(Reading(v)) <=> Usable(v)
           /\ Usable(v) => /\ Reading(v) = "critical" <=> v <= Cutoff
                           /\ Reading(v) = "strong" <=> v >= Recovery
BY Limits DEF Reading, Gate!Levels, Gate!Valid, Usable, HighestVoltage

\* The gate's view after a sample.
LEMMA ShownReading ==
    ASSUME PolicyTypeOK, NEW v \in Voltages \cup {0}, Sample(v)
    PROVE  Level' = Reading(v) /\ Known' = Gate!KnownAfter(Reading(v))
<1>1. /\ v \in Nat /\ sampled' /\ voltage' = v
      /\ admission' = IF v > 0 THEN v ELSE admission
    BY PolicyAssumption DEF Sample
<1>2. Level' = Reading(v)
    BY <1>1, Limits DEF Level, Reading, Usable, HighestVoltage
<1>3. CASE v = 0
    <2>1. Reading(v) = "fault" /\ admission' = admission
        BY <1>1, <1>3 DEF Reading
    <2>2. Known' = Known
        BY <2>1 DEF Known
    <2> QED BY <1>2, <2>1, <2>2 DEF Gate!KnownAfter
<1>4. CASE v > 0 /\ v > Cutoff /\ v <= HighestVoltage
    <2>1. Reading(v) \in {"weak", "strong"}
        BY <1>1, <1>4, Limits DEF Reading, HighestVoltage
    <2>2. Known' = "admit"
        BY <1>1, <1>4, Limits DEF Known, NoVoltage, HighestVoltage
    <2> QED BY <1>2, <2>1, <2>2 DEF Gate!KnownAfter
<1>5. CASE v > 0 /\ ~(v > Cutoff /\ v <= HighestVoltage)
    <2>1. Reading(v) \in {"over", "critical"}
        BY <1>1, <1>5, Limits DEF Reading, HighestVoltage
    <2>2. Known' = "deny"
        BY <1>1, <1>5, Limits DEF Known, NoVoltage, HighestVoltage
    <2> QED BY <1>2, <2>1, <2>2 DEF Gate!KnownAfter
<1> QED BY <1>1, <1>3, <1>4, <1>5

\* The runs and the latch after a sample are those of the gate.
LEMMA ShownLatch ==
    ASSUME PolicyTypeOK, NEW v \in Voltages \cup {0}, Sample(v)
    PROVE  LET low == Gate!LowRun(Reading(v), Gap)
               rec == Gate!StrongRun(Reading(v), Gap)
               latches == ~latched /\ low # Gate!Idle /\ low >= LatchTime
               releases == rec # Gate!Idle /\ rec >= RecoveryTime
           IN  /\ latched' = (IF latched THEN ~releases ELSE latches)
               /\ lowAge' = low
               /\ recAge' = (IF releases THEN Gate!Idle ELSE rec)
<1>1. v \in Nat /\ Gate!Idle = Idle /\ Gap \in BOOLEAN /\ latched \in BOOLEAN
    BY PolicyAssumption DEF Gate!Idle, Idle, PolicyTypeOK, Gap
<1> DEFINE low == Gate!LowRun(Reading(v), Gap)
           rec == Gate!StrongRun(Reading(v), Gap)
           latches == ~latched /\ low # Gate!Idle /\ low >= LatchTime
           releases == rec # Gate!Idle /\ rec >= RecoveryTime
<1>2. CASE ~Usable(v)
    <2>1. ~Gate!Valid(Reading(v)) /\ Reading(v) \notin {"critical", "strong"}
        BY <1>1, <1>2, ReadingLaw DEF Gate!Valid
    <2>2. low = Idle /\ rec = Idle
        BY <1>1, <2>1 DEF Gate!LowRun, Gate!StrongRun
    <2>3. lowAge' = Idle /\ recAge' = Idle /\ latched' = latched
        BY <1>2 DEF Sample, InvalidSample
    <2> QED BY <1>1, <2>2, <2>3
<1>3. CASE Usable(v)
    <2>0. ValidSample(v)
        BY <1>3 DEF Sample
    <2>1. /\ Gate!Valid(Reading(v))
          /\ Reading(v) = "critical" <=> v <= Cutoff
          /\ Reading(v) = "strong" <=> v >= Recovery
        BY <1>1, <1>3, ReadingLaw
    <2>2. low = LowAge(v)
        BY <1>1, <2>1 DEF Gate!LowRun, Gate!Run, LowAge, Timed, Kept
    <2>3. rec = RecoveryAge(v)
        BY <1>1, <2>1 DEF Gate!StrongRun, Gate!Run, RecoveryAge, Timed, Kept
    <2>4. (releases <=> Releases(v)) /\ (latches <=> Latches(v))
        BY <1>1, <2>2, <2>3 DEF Releases, Latches
    <2>5. latched' = (Latches(v) \/ (latched /\ ~Releases(v))) /\ lowAge' = LowAge(v)
          /\ recAge' = IF Releases(v) THEN Idle ELSE RecoveryAge(v)
        BY <2>0 DEF ValidSample
    <2>6. latched' = (IF latched THEN ~releases ELSE latches)
        <3>1. (Latches(v) \/ (latched /\ ~Releases(v))) <=> IF latched THEN ~releases ELSE latches
            BY <2>4 DEF Latches
        <3>2. latched' <=> IF latched THEN ~releases ELSE latches
            BY <2>5, <3>1
        <3> QED BY <2>5, <3>2, <1>1
    <2> QED BY <1>1, <2>2, <2>3, <2>4, <2>5, <2>6
<1> QED BY <1>2, <1>3

\* Every behaviour of the battery policy is one of the power gate: what
\* LidController is shown to do with the gate, it does with the policy.
THEOREM PolicyServesController == PolicySpec => ImplementsGate
<1>1. PolicyInit => Gate!GateInit
    <2> SUFFICES ASSUME PolicyInit PROVE Gate!GateInit
        OBVIOUS
    <2>1. Level = "none"
        BY DEF PolicyInit, Level
    <2>2. Known = "none"
        BY Limits DEF PolicyInit, Known, NoVoltage, HighestVoltage
    <2> QED BY <2>1, <2>2 DEF PolicyInit, Gate!GateInit, Idle, Gate!Idle
<1>2. PolicyInv /\ [PolicyNext]_<<policyVars, historyVars>> => [Gate!GateNext]_(Gate!gateVars)
    <2> SUFFICES ASSUME PolicyInv, [PolicyNext]_<<policyVars, historyVars>>
                 PROVE  [Gate!GateNext]_(Gate!gateVars)
        OBVIOUS
    <2>t. PolicyTypeOK
        BY DEF PolicyInv
    <2>1. ASSUME NEW v \in Voltages \cup {0}, Sample(v) PROVE Gate!GateNext
        <3>1. v \in Nat /\ Reading(v) \in Gate!Levels /\ Gap \in BOOLEAN
            BY PolicyAssumption, ReadingLaw DEF Gap
        <3>2. Gate!Sample(Reading(v), Gap)
            BY <2>1, <2>t, ShownReading, ShownLatch DEF Gate!Sample
        <3> QED BY <3>1, <3>2 DEF Gate!GateNext
    <2>2. CASE RestoreProtection
        BY <2>2 DEF RestoreProtection, Gate!GateNext, Gate!Restore, Level, Known, Idle, Gate!Idle,
                    Usable
    <2>3. CASE Elapse
        <3>1. /\ Gate!Older(lowAge, LatchTime) = Aged(lowAge, LatchTime)
              /\ Gate!Older(recAge, RecoveryTime) = Aged(recAge, RecoveryTime)
            BY <2>t, Limits DEF PolicyTypeOK, Ages, Aged, Idle, Gate!Older, Gate!Idle
        <3>2. UNCHANGED <<Level, Known, latched>>
            BY <2>3 DEF Elapse, Level, Known, Usable
        <3> QED BY <2>3, <3>1, <3>2 DEF Elapse, Gate!GateElapse, Gate!GateNext
    <2>4. CASE UNCHANGED <<policyVars, historyVars>>
        BY <2>4 DEF policyVars, historyVars, Gate!gateVars, Level, Known, Usable
    <2> QED BY <2>1, <2>2, <2>3, <2>4 DEF PolicyNext
<1> QED BY <1>1, <1>2, PolicyInvariance, PTL DEF PolicySpec, ImplementsGate, Gate!GateSpec
=============================================================================
