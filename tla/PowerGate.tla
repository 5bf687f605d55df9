----------------------------- MODULE PowerGate ------------------------------
(***************************************************************************)
(* What the battery policy promises the lid controller: a protection       *)
(* latch that only a sustained critical voltage sets and only a sustained  *)
(* recovered voltage releases, and the voltage last known, which decides   *)
(* whether a motor may start.  BatteryPolicy implements this module;       *)
(* LidController uses it as its power input.                               *)
(*                                                                         *)
(* A reading is one of                                                     *)
(*   "fault"     the driver returned no valid measurement                  *)
(*   "over"      a voltage above 16 V: known, but not usable               *)
(*   "critical"  at or below the cutoff                                    *)
(*   "weak"      above the cutoff, below the recovery voltage              *)
(*   "strong"    at or above the recovery voltage                          *)
(***************************************************************************)
EXTENDS Integers

CONSTANTS
    LatchTime,      \* critical for this long latches the protection (3 s)
    RecoveryTime    \* strong for this long releases it (300 s)

ASSUME GateAssumption == LatchTime \in Nat /\ RecoveryTime \in Nat

VARIABLES
    level,     \* the last reading, "none" before the first
    known,     \* the last voltage measured: "none", "deny" or "admit"
    held,      \* the protection latch
    lowAge,    \* time since the critical run began, Idle when there is none
    recAge     \* time since the recovery run began, Idle when there is none

gateVars == <<level, known, held, lowAge, recAge>>

Levels == {"fault", "over", "critical", "weak", "strong"}
Valid(l) == l \in {"critical", "weak", "strong"}
Knowledge == {"none", "deny", "admit"}

Idle == -1
Older(age, cap) == IF age = Idle THEN Idle ELSE IF age < cap THEN age + 1 ELSE cap

GateTypeOK ==
    /\ level \in Levels \cup {"none"}
    /\ known \in Knowledge
    /\ held \in BOOLEAN
    /\ lowAge \in {Idle} \cup 0 .. LatchTime
    /\ recAge \in {Idle} \cup 0 .. RecoveryTime

GateInit ==
    /\ level = "none"
    /\ known = "none"
    /\ held = FALSE
    /\ lowAge = Idle
    /\ recAge = Idle

\* A run of one kind of reading: it starts at the first such sample, and a gap
\* in the sampling starts it again.
Run(age, gap) == IF age = Idle \/ gap THEN 0 ELSE age

\* A motor may start on what is known of the voltage.
Admitted(h, k) == ~h /\ k # "deny"

KnownAfter(l) ==
    CASE l = "fault" -> known
      [] l \in {"weak", "strong"} -> "admit"
      [] l \in {"over", "critical"} -> "deny"

\* The critical run: started and cleared only while unlatched, but an invalid
\* reading or a gap always ends it.  Latching and releasing leave it running.
LowRun(l, gap) ==
    CASE ~Valid(l)                -> Idle
      [] Valid(l) /\ held         -> IF gap THEN Idle ELSE lowAge
      [] l = "critical" /\ ~held  -> Run(lowAge, gap)
      [] OTHER                    -> Idle

\* The recovery run exists only under the latch.
StrongRun(l, gap) == IF l = "strong" /\ held THEN Run(recAge, gap) ELSE Idle

\* One measurement: l is the reading, gap tells whether more than 2 s passed
\* since the previous one.
Sample(l, gap) ==
    LET low      == LowRun(l, gap)
        rec      == StrongRun(l, gap)
        latches  == ~held /\ low # Idle /\ low >= LatchTime
        releases == rec # Idle /\ rec >= RecoveryTime
    IN  /\ level' = l
        /\ known' = KnownAfter(l)
        /\ held' = IF held THEN ~releases ELSE latches
        /\ lowAge' = low
        /\ recAge' = IF releases THEN Idle ELSE rec

\* restoreProtection: latch, and qualify the recovery from the start.
Restore ==
    /\ held' = TRUE
    /\ lowAge' = Idle
    /\ recAge' = Idle

GateElapse ==
    /\ lowAge' = Older(lowAge, LatchTime)
    /\ recAge' = Older(recAge, RecoveryTime)
    /\ UNCHANGED <<level, known, held>>

GateNext ==
    \/ \E l \in Levels, gap \in BOOLEAN : Sample(l, gap)
    \/ Restore /\ UNCHANGED <<level, known>>
    \/ GateElapse

GateSpec == GateInit /\ [][GateNext]_gateVars
=============================================================================
