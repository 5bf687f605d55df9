-------------------------- MODULE LidSafetyProofs ---------------------------
(***************************************************************************)
(* The safety invariants of LidController for every value of its           *)
(* constants, from one inductive invariant.                                *)
(***************************************************************************)
EXTENDS LidControllerProofs, LidStroke

(* The inductive invariant.  The listed properties are not inductive by    *)
(* themselves: each rests on where the flags of a stroke may be set, and   *)
(* on how the cached direction and the isolation flag follow the pins.     *)

\* A fail-open stroke belongs to the protection state; an OTA update may find
\* the flag of one that has run its time.
FailOpenInv == lowOpen => state \in {"BATTERY_LOW_SHUTDOWN", "OTA_UPDATING"}

\* A charging close runs under the latch, and has not run for long enough to
\* release it.
ChargingInv ==
    chg = "RUNNING" =>
        /\ state = "BATTERY_LOW_SHUTDOWN" /\ held /\ ~lowOpen
        /\ recAge <= chgAge \/ chgAge >= ChargingTime

\* The pins written are the direction cached, and the cache never makes an
\* opening drive skip floating pins.
CacheInv ==
    /\ bridge.latch = bridge.last
    /\ ~bridge.isolated /\ bridge.last = "open" => bridge.driven
    /\ state \in {"CLOSING", "EMERGENCY_STOP"} => bridge.last = "close"
    /\ state = "BATTERY_LOW_SHUTDOWN" =>
           bridge.isolated \/ bridge.last # "close" \/ chg = "RUNNING"

\* What drives the motors.
DriveInv ==
    /\ bridge.main =>
           \/ state \in StrokeStates
           \/ state = "BATTERY_LOW_SHUTDOWN" /\ (lowOpen \/ chg = "RUNNING")
    /\ state = "OPENING" => bridge.main /\ bridge.driven /\ bridge.last = "open"
    /\ chg = "RUNNING" => bridge.main /\ bridge.driven /\ bridge.last = "close"

OtaInv ==
    state = "OTA_UPDATING" => bridge.isolated /\ ~bridge.main /\ ~bridge.driven

\* What NVS holds of a protected, and of an open, lid.
MarkersInv ==
    ~NvsFaults =>
        /\ state = "BATTERY_LOW_SHUTDOWN" => nvHold \/ nvOpen
        /\ state \in {"OPENING", "HOLD", "MAINTENANCE"} => nvOpen

LidInv ==
    /\ HeldMeansShutdown /\ FailOpenInv /\ ChargingInv
    /\ CacheInv /\ DriveInv /\ OtaInv /\ MarkersInv

-----------------------------------------------------------------------------
(* The shared steps *)

LEMMA ForcedOffFacts ==
    ASSUME NEW b \in BridgeType
    PROVE  /\ ~ForcedOff(b).main /\ ~ForcedOff(b).driven /\ ForcedOff(b).isolated
           /\ ForcedOff(b).latch = b.latch /\ ForcedOff(b).last = b.last
BY DEF BridgeType, ForcedOff

LEMMA ClearedFacts ==
    ASSUME NEW b \in BridgeType
    PROVE  LET c == [b EXCEPT !.isolated = FALSE]
           IN  c.main = b.main /\ c.driven = b.driven /\ c.latch = b.latch /\ c.last = b.last
BY DEF BridgeType

LEMMA SwitchedFacts ==
    ASSUME NEW b \in BridgeType, b.latch = b.last, NEW on \in BOOLEAN, NEW d \in Dirs
    PROVE  /\ Switched(b, on, d).last = d /\ Switched(b, on, d).latch = d
           /\ Switched(b, on, d).isolated = b.isolated
           /\ on /\ (b.last # d \/ b.isolated) => Switched(b, on, d).driven
           /\ b.driven => Switched(b, on, d).driven
BY DEF BridgeType, Switched, Redirected, DirChanged, Dirs

LEMMA SetRelaysFacts ==
    ASSUME NEW b \in BridgeType, b.latch = b.last, NEW on \in BOOLEAN, NEW d \in Dirs
    PROVE  LET r == SetRelays(b, on, d)
           IN  /\ r.main = on /\ r.last = d /\ r.latch = d
               /\ r.isolated = (b.isolated /\ ~on)
               /\ on /\ (b.last # d \/ b.isolated \/ b.driven) => r.driven
<1>1. Switched(b, on, d) \in BridgeType
    BY SwitchTyped
<1>2. LET r == SetRelays(b, on, d)
      IN  /\ r.main = on /\ r.isolated = (Switched(b, on, d).isolated /\ ~on)
          /\ r.last = Switched(b, on, d).last /\ r.latch = Switched(b, on, d).latch
          /\ r.driven = Switched(b, on, d).driven
    BY <1>1 DEF SetRelays, BridgeType
<1> QED BY <1>2, SwitchedFacts

\* With Preferences that can be opened, a transition saves what it means to.
LEMMA EnterSaves ==
    ASSUME NEW s, Enter(s), ~NvsFaults
    PROVE  /\ nvHold' = SavedHold(s)
           /\ nvOpen' = SavedOpen(s)
BY DEF Enter, Saved

LEMMA InitInv == Init => LidInv
<1> SUFFICES ASSUME Init PROVE LidInv
    OBVIOUS
<1> USE DEF Init, PoweredOff
<1>b. /\ ~bridge.main /\ ~bridge.driven /\ bridge.isolated
      /\ bridge.latch = "off" /\ bridge.last = "off"
    BY DEF ForcedOff, BootBridge
<1>1. HeldMeansShutdown /\ FailOpenInv /\ ChargingInv
    BY DEF GateInit, HeldMeansShutdown, FailOpenInv, ChargingInv
<1>2. CacheInv /\ DriveInv /\ OtaInv
    BY <1>b DEF CacheInv, DriveInv, OtaInv
<1>3. MarkersInv
    BY DEF MarkersInv
<1> QED BY <1>1, <1>2, <1>3 DEF LidInv

\* What the invariant says of a state in which a handler runs, and what the
\* handler leaves to be shown.
Handled == {"IDLE", "OPEN_START", "OPENING", "HOLD", "CLOSE_START", "CLOSING",
            "EMERGENCY_STOP", "MAINTENANCE"}

LEMMA HandlerSafe ==
    ASSUME TypeOK, LidInv, NEW s \in Handled, Runs(s),
           state' \in Handled, CacheInv', MarkersInv',
           bridge'.main => state' \in StrokeStates,
           state' = "OPENING" => bridge'.main /\ bridge'.driven /\ bridge'.last = "open"
    PROVE  LidInv'
<1>1. state = s /\ chg # "RUNNING" /\ chg' = chg /\ lowOpen' = lowOpen /\ ~held'
    BY DEF Runs, chargeVars
<1>2. ~lowOpen
    BY <1>1 DEF LidInv, FailOpenInv, Handled
<1>3. HeldMeansShutdown' /\ FailOpenInv' /\ ChargingInv'
    BY <1>1, <1>2 DEF HeldMeansShutdown, FailOpenInv, ChargingInv
<1>4. DriveInv'
    BY <1>1 DEF DriveInv
<1>5. OtaInv'
    BY DEF OtaInv, Handled
<1> QED BY <1>3, <1>4, <1>5 DEF LidInv

LEMMA HandlersSafe ==
    ASSUME TypeOK, LidInv,
           \/ UpdateIdle \/ UpdateOpenStart \/ UpdateOpening \/ UpdateHold
           \/ UpdateCloseStart \/ UpdateClosing \/ UpdateEmergency \/ UpdateMaintenance
    PROVE  LidInv'
<1>t. bridge \in BridgeType
    BY TypeParts DEF RestTyped
<1>i. CacheInv /\ DriveInv /\ MarkersInv
    BY DEF LidInv
<1>l. bridge.latch = bridge.last
    BY <1>i DEF CacheInv
<1>r. /\ ~Released.main /\ Released.last = "off" /\ Released.latch = "off"
    BY <1>t, <1>l, SetRelaysFacts DEF Released, Dirs
<1>f. /\ ~ForcedOff(bridge).main /\ ForcedOff(bridge).isolated
      /\ ForcedOff(bridge).latch = bridge.last /\ ForcedOff(bridge).last = bridge.last
    BY <1>t, <1>l, ForcedOffFacts
<1>1. CASE UpdateIdle
    <2>1. Runs("IDLE") /\ bridge' = Released
        BY <1>1 DEF UpdateIdle
    <2>2. Enter("OPEN_START") \/ UNCHANGED <<state, nvHold, nvOpen>>
        BY <1>1 DEF UpdateIdle
    <2>3. state' \in {"IDLE", "OPEN_START"}
        BY <2>1, <2>2 DEF Enter, Runs
    <2>4. CacheInv'
        BY <1>r, <2>1, <2>3 DEF CacheInv
    <2>5. MarkersInv'
        BY <2>3 DEF MarkersInv
    <2> QED BY <1>r, <2>1, <2>3, <2>4, <2>5, HandlerSafe DEF Handled
<1>2. CASE UpdateOpenStart
    <2>1. Runs("OPEN_START") /\ bridge' = SetRelays(bridge, TRUE, "open") /\ Enter("OPENING")
        BY <1>2 DEF UpdateOpenStart
    <2>2. state' = "OPENING"
        BY <2>1 DEF Enter
    <2>3. bridge'.main /\ bridge'.driven /\ bridge'.last = "open" /\ bridge'.latch = "open"
        BY <1>t, <1>i, <2>1, SetRelaysFacts DEF CacheInv, Dirs
    <2>4. CacheInv'
        BY <2>2, <2>3 DEF CacheInv
    <2>5. MarkersInv'
        BY <2>1, <2>2, EnterSaves DEF MarkersInv, SavedOpen
    <2> QED BY <2>1, <2>2, <2>3, <2>4, <2>5, HandlerSafe DEF Handled, StrokeStates
<1>3. CASE UpdateOpening
    <2>1. Runs("OPENING")
        BY <1>3 DEF UpdateOpening
    <2>2. CASE \/ bridge' = ForcedOff(bridge) /\ Enter("HOLD")
               \/ bridge' = Released /\ (Enter("HOLD") \/ Enter("MAINTENANCE"))
        <3>1. state' \in {"HOLD", "MAINTENANCE"}
            BY <2>2 DEF Enter
        <3>2. CacheInv' /\ ~bridge'.main
            BY <1>r, <1>f, <2>2, <3>1 DEF CacheInv
        <3>s. ~NvsFaults => nvOpen
            BY <1>i, <2>1 DEF MarkersInv, Runs
        <3>m. ASSUME ~NvsFaults PROVE nvOpen'
            <4>1. nvOpen' = SavedOpen("HOLD") \/ nvOpen' = SavedOpen("MAINTENANCE")
                BY <2>2, <3>m, EnterSaves
            <4> QED BY <3>m, <3>s, <4>1 DEF SavedOpen
        <3>3. MarkersInv'
            BY <3>1, <3>m DEF MarkersInv
        <3> QED BY <2>1, <3>1, <3>2, <3>3, HandlerSafe DEF Handled
    <2>3. CASE UNCHANGED <<bridge, state, nvHold, nvOpen>>
        <3>1. state' = "OPENING"
            BY <2>1, <2>3 DEF Runs
        <3>2. CacheInv' /\ MarkersInv'
            BY <1>i, <2>3, <3>1 DEF CacheInv, MarkersInv
        <3> QED BY <1>i, <2>1, <2>3, <3>1, <3>2, HandlerSafe DEF Handled, StrokeStates, DriveInv
    <2> QED BY <1>3, <2>2, <2>3 DEF UpdateOpening, Stalled
<1>4. CASE UpdateHold
    <2>1. Runs("HOLD") /\ bridge' = Released
        BY <1>4 DEF UpdateHold
    <2>2. Enter("CLOSE_START") \/ UNCHANGED <<state, nvHold, nvOpen>>
        BY <1>4 DEF UpdateHold
    <2>s. state = "HOLD"
        BY <2>1 DEF Runs
    <2>3. state' = "CLOSE_START" \/ (state' = "HOLD" /\ nvOpen' = nvOpen)
        BY <2>s, <2>2 DEF Enter
    <2>4. CacheInv'
        BY <1>r, <2>1, <2>3 DEF CacheInv
    <2>5. MarkersInv'
        BY <1>i, <2>s, <2>3 DEF MarkersInv
    <2> QED BY <1>r, <2>1, <2>3, <2>4, <2>5, HandlerSafe DEF Handled
<1>5. CASE UpdateCloseStart
    <2>1. Runs("CLOSE_START") /\ bridge' = SetRelays(bridge, TRUE, "close") /\ Enter("CLOSING")
        BY <1>5 DEF UpdateCloseStart
    <2>2. state' = "CLOSING"
        BY <2>1 DEF Enter
    <2>3. bridge'.main /\ bridge'.last = "close" /\ bridge'.latch = "close"
        BY <1>t, <1>l, <2>1, SetRelaysFacts DEF Dirs
    <2>4. CacheInv' /\ MarkersInv'
        BY <2>2, <2>3 DEF CacheInv, MarkersInv
    <2> QED BY <2>1, <2>2, <2>3, <2>4, HandlerSafe DEF Handled, StrokeStates
<1>6. CASE UpdateClosing
    <2>1. Runs("CLOSING")
        BY <1>6 DEF UpdateClosing
    <2>2. CASE bridge' = ForcedOff(bridge) /\ Enter("EMERGENCY_STOP")
        <3>1. state' = "EMERGENCY_STOP"
            BY <2>2 DEF Enter
        <3>2. CacheInv' /\ MarkersInv' /\ ~bridge'.main
            BY <1>f, <1>i, <2>1, <2>2, <3>1 DEF CacheInv, MarkersInv, Runs
        <3> QED BY <2>1, <3>1, <3>2, HandlerSafe DEF Handled
    <2>3. CASE bridge' = Released /\ (Enter("OPEN_START") \/ Enter("IDLE"))
        <3>1. state' \in {"OPEN_START", "IDLE"}
            BY <2>3 DEF Enter
        <3>2. CacheInv' /\ MarkersInv' /\ ~bridge'.main
            BY <1>r, <2>3, <3>1 DEF CacheInv, MarkersInv
        <3> QED BY <2>1, <3>1, <3>2, HandlerSafe DEF Handled
    <2>4. CASE UNCHANGED <<bridge, state, nvHold, nvOpen>>
        <3>1. state' = "CLOSING"
            BY <2>1, <2>4 DEF Runs
        <3>2. CacheInv' /\ MarkersInv'
            BY <1>i, <2>4, <3>1 DEF CacheInv, MarkersInv
        <3> QED BY <2>1, <3>1, <3>2, HandlerSafe DEF Handled, StrokeStates
    <2> QED BY <1>6, <2>2, <2>3, <2>4 DEF UpdateClosing, Stalled
<1>7. CASE UpdateEmergency
    <2>1. Runs("EMERGENCY_STOP")
        BY <1>7 DEF UpdateEmergency
    <2>2. bridge' \in {ForcedOff(bridge), [ForcedOff(bridge) EXCEPT !.isolated = FALSE]}
        BY <1>7 DEF UpdateEmergency
    <2>3. state' \in {"EMERGENCY_STOP", "OPEN_START", "IDLE"}
        BY <1>7, <2>1 DEF UpdateEmergency, Enter, Runs, fsmVars
    <2>4. ~bridge'.main /\ bridge'.latch = "close" /\ bridge'.last = "close"
        BY <1>t, <1>f, <1>i, <2>1, <2>2, ClearedFacts, ForcedOffTyped DEF CacheInv, Runs
    <2>5. CacheInv' /\ MarkersInv'
        BY <2>3, <2>4 DEF CacheInv, MarkersInv
    <2> QED BY <2>1, <2>3, <2>4, <2>5, HandlerSafe DEF Handled
<1>8. CASE UpdateMaintenance
    <2>1. Runs("MAINTENANCE") /\ bridge' = Released
        BY <1>8 DEF UpdateMaintenance
    <2>2. Enter("CLOSE_START") \/ UNCHANGED fsmVars
        BY <1>8 DEF UpdateMaintenance
    <2>s. state = "MAINTENANCE"
        BY <2>1 DEF Runs
    <2>3. state' = "CLOSE_START" \/ (state' = "MAINTENANCE" /\ nvOpen' = nvOpen)
        BY <2>s, <2>2 DEF Enter, fsmVars
    <2>4. CacheInv'
        BY <1>r, <2>1, <2>3 DEF CacheInv
    <2>5. MarkersInv'
        BY <1>i, <2>s, <2>3 DEF MarkersInv
    <2> QED BY <1>r, <2>1, <2>3, <2>4, <2>5, HandlerSafe DEF Handled
<1> QED BY <1>1, <1>2, <1>3, <1>4, <1>5, <1>6, <1>7, <1>8

-----------------------------------------------------------------------------
(* Boot, time and the power service *)

LEMMA BootSafe == ASSUME TypeOK, LidInv, Boot PROVE LidInv'
<1>1. PICK lid \in LidMarker, hold \in HoldMarker :
         /\ state' = IF lid \/ hold THEN "BATTERY_LOW_SHUTDOWN" ELSE "IDLE"
         /\ held' = (lid \/ hold)
    BY DEF Boot
<1>2. /\ bridge' = BootBridge /\ nvHold' = nvHold /\ nvOpen' = nvOpen
      /\ lowOpen' = lowOpen /\ chg' = chg /\ state = "OFF"
    BY DEF Boot, chargeVars
<1>3. ~lowOpen /\ chg # "RUNNING"
    BY <1>2 DEF LidInv, FailOpenInv, ChargingInv
<1>4. HeldMeansShutdown' /\ FailOpenInv' /\ ChargingInv'
    BY <1>1, <1>2, <1>3 DEF HeldMeansShutdown, FailOpenInv, ChargingInv
<1>5. CacheInv' /\ DriveInv' /\ OtaInv'
    BY <1>1, <1>2, <1>3 DEF CacheInv, DriveInv, OtaInv, BootBridge
<1>6. MarkersInv'
    <2>1. ASSUME ~NvsFaults, lid \/ hold PROVE nvHold' \/ nvOpen'
        <3>1. lid = nvOpen /\ hold = nvHold
            BY <1>1, <2>1 DEF LidMarker, HoldMarker
        <3> QED BY <1>2, <2>1, <3>1
    <2> QED BY <1>1, <2>1 DEF MarkersInv
<1> QED BY <1>4, <1>5, <1>6 DEF LidInv

LEMMA PowerLossSafe == ASSUME TypeOK, LidInv, PowerLoss PROVE LidInv'
<1> USE DEF PowerLoss
<1>b. ~bridge'.main /\ bridge'.isolated /\ bridge'.latch = "off" /\ bridge'.last = "off"
    BY DEF ForcedOff, BootBridge
<1>1. HeldMeansShutdown' /\ FailOpenInv' /\ ChargingInv'
    BY DEF HeldMeansShutdown, FailOpenInv, ChargingInv
<1>2. CacheInv' /\ DriveInv' /\ OtaInv' /\ MarkersInv'
    BY <1>b DEF CacheInv, DriveInv, OtaInv, MarkersInv
<1> QED BY <1>1, <1>2 DEF LidInv

\* Time alone changes only ages; the recovery of a charging close is no older
\* than its stroke.
LEMMA TickSafe == ASSUME TypeOK, LidInv, Tick PROVE LidInv'
<1>1. UNCHANGED <<state, held, lowOpen, chg, bridge, nvHold, nvOpen>>
    BY DEF Tick, GateElapse
<1>2. HeldMeansShutdown' /\ FailOpenInv' /\ OtaInv' /\ MarkersInv'
    BY <1>1 DEF LidInv, HeldMeansShutdown, FailOpenInv, OtaInv, MarkersInv
<1>3. CacheInv' /\ DriveInv'
    BY <1>1 DEF LidInv, CacheInv, DriveInv
<1>4. ChargingInv'
    <2>1. recAge \in {Idle} \cup 0 .. RecoveryTime /\ chgAge \in 0 .. ChargingTime
        BY TypeParts DEF PowerTyped, GateTypeOK, ChargeTyped
    <2>2. chg = "RUNNING" => recAge <= chgAge \/ chgAge >= ChargingTime
        BY DEF LidInv, ChargingInv
    <2>3. recAge' = Older(recAge, RecoveryTime)
          /\ (chg = "RUNNING" => chgAge' = Capped(chgAge, ChargingTime))
        BY DEF Tick, GateElapse
    <2>4. chg = "RUNNING" => recAge' <= chgAge' \/ chgAge' >= ChargingTime
        BY <2>1, <2>2, <2>3, Limits DEF Older, Capped, Idle
    <2> QED BY <1>1, <2>4 DEF LidInv, ChargingInv
<1> QED BY <1>2, <1>3, <1>4 DEF LidInv

LEMMA ServiceSafe ==
    ASSUME TypeOK, LidInv, ServiceProtected \/ ServiceRecovered \/ ServiceBlocked
    PROVE  LidInv'
<1>t. bridge \in BridgeType
    BY TypeParts DEF RestTyped
<1>l. bridge.latch = bridge.last
    BY DEF LidInv, CacheInv
<1>f. /\ ~ForcedOff(bridge).main /\ ~ForcedOff(bridge).driven /\ ForcedOff(bridge).isolated
      /\ ForcedOff(bridge).latch = bridge.last /\ ForcedOff(bridge).last = bridge.last
    BY <1>t, <1>l, ForcedOffFacts
<1>c. chg # "RUNNING" /\ chg' = chg /\ state # "OFF"
    BY DEF ServiceProtected, ServiceRecovered, ServiceBlocked, chargeVars, UpdateBegins
<1>1. CASE ServiceProtected
    <2>h. held'
        BY <1>1 DEF ServiceProtected
    <2>1. CASE /\ state = "OTA_UPDATING" /\ bridge' = ForcedOff(bridge)
               /\ UNCHANGED <<fsmVars, lowOpen>>
        BY <1>c, <1>f, <2>1 DEF LidInv, HeldMeansShutdown, FailOpenInv, ChargingInv, CacheInv,
                              DriveInv, OtaInv, MarkersInv, fsmVars, StrokeStates
    <2>2. CASE /\ Enter("BATTERY_LOW_SHUTDOWN")
               /\ bridge' = IF lowOpen' THEN SetRelays(bridge, TRUE, "open") ELSE ForcedOff(bridge)
        <3>1. state' = "BATTERY_LOW_SHUTDOWN"
            BY <2>2 DEF Enter
        <3>2. lowOpen' => /\ bridge'.main /\ ~bridge'.isolated /\ bridge'.driven
                          /\ bridge'.last = "open" /\ bridge'.latch = "open"
            BY <1>t, <1>l, <2>2, SetRelaysFacts DEF Dirs, LidInv, CacheInv
        <3>3. CacheInv' /\ DriveInv' /\ OtaInv'
            BY <1>c, <1>f, <2>2, <3>1, <3>2 DEF CacheInv, DriveInv, OtaInv
        <3>4. MarkersInv'
            <4>1. ASSUME ~NvsFaults PROVE nvOpen'
                BY <2>2, <4>1, EnterSaves DEF SavedOpen
            <4> QED BY <3>1, <4>1 DEF MarkersInv
        <3>5. HeldMeansShutdown' /\ FailOpenInv' /\ ChargingInv'
            BY <1>c, <3>1 DEF HeldMeansShutdown, FailOpenInv, ChargingInv
        <3> QED BY <3>3, <3>4, <3>5 DEF LidInv
    <2>3. CASE /\ state = "BATTERY_LOW_SHUTDOWN" /\ lowOpen' = StillFailingOpen
               /\ bridge' = IF lowOpen' THEN bridge ELSE ForcedOff(bridge)
               /\ UNCHANGED fsmVars
        <3>1. state' = state /\ nvHold' = nvHold /\ nvOpen' = nvOpen
            BY <2>3 DEF fsmVars
        <3>2. lowOpen' => lowOpen
            BY <2>3 DEF StillFailingOpen
        <3>3. CacheInv' /\ DriveInv' /\ OtaInv'
            <4>1. CASE lowOpen'
                BY <1>c, <2>3, <3>1, <3>2, <4>1 DEF LidInv, CacheInv, DriveInv, OtaInv
            <4>2. CASE ~lowOpen'
                BY <1>c, <1>f, <2>3, <3>1, <4>2 DEF CacheInv, DriveInv, OtaInv
            <4> QED BY <4>1, <4>2
        <3>4. MarkersInv'
            BY <3>1 DEF LidInv, MarkersInv
        <3>5. HeldMeansShutdown' /\ FailOpenInv' /\ ChargingInv'
            BY <1>c, <2>3, <3>1 DEF HeldMeansShutdown, FailOpenInv, ChargingInv
        <3> QED BY <3>3, <3>4, <3>5 DEF LidInv
    <2> QED BY <1>1, <2>1, <2>2, <2>3 DEF ServiceProtected
<1>2. CASE ServiceRecovered
    <2>1. state' = "IDLE" /\ bridge' = ForcedOff(bridge) /\ ~lowOpen' /\ ~held'
        BY <1>2 DEF ServiceRecovered, Enter
    <2>2. HeldMeansShutdown' /\ FailOpenInv' /\ ChargingInv' /\ OtaInv' /\ MarkersInv'
        BY <1>c, <2>1 DEF HeldMeansShutdown, FailOpenInv, ChargingInv, OtaInv, MarkersInv
    <2>3. CacheInv' /\ DriveInv'
        BY <1>c, <1>f, <2>1 DEF CacheInv, DriveInv
    <2> QED BY <2>2, <2>3 DEF LidInv
<1>3. CASE ServiceBlocked
    <2>1. /\ UNCHANGED <<state, bridge, lowOpen, nvHold, nvOpen>> /\ ~held'
        BY <1>3 DEF ServiceBlocked, fsmVars
    <2>2. HeldMeansShutdown' /\ FailOpenInv' /\ ChargingInv' /\ OtaInv' /\ MarkersInv'
        BY <1>c, <2>1 DEF LidInv, HeldMeansShutdown, FailOpenInv, ChargingInv, OtaInv, MarkersInv
    <2>3. CacheInv' /\ DriveInv'
        BY <1>c, <2>1 DEF LidInv, CacheInv, DriveInv
    <2> QED BY <2>2, <2>3 DEF LidInv
<1> QED BY <1>1, <1>2, <1>3

\* While the charging close runs, no sample releases the latch: the recovery
\* it qualifies began with the stroke and takes longer than the stroke may.
LEMMA ServiceChargingSafe == ASSUME TypeOK, LidInv, ServiceCharging PROVE LidInv'
<1>t. bridge \in BridgeType
    BY TypeParts DEF RestTyped
<1>i. /\ state = "BATTERY_LOW_SHUTDOWN" /\ held /\ ~lowOpen
      /\ recAge <= chgAge \/ chgAge >= ChargingTime
      /\ bridge.main /\ bridge.driven /\ bridge.last = "close" /\ bridge.latch = bridge.last
    BY DEF ServiceCharging, LidInv, ChargingInv, DriveInv, CacheInv
<1>u. UNCHANGED <<state, nvHold, nvOpen, chgAge>>
    BY DEF ServiceCharging, fsmVars
<1>l. ~lowOpen'
    BY <1>i DEF ServiceCharging
<1>1. HeldMeansShutdown' /\ FailOpenInv' /\ OtaInv'
    BY <1>i, <1>u, <1>l DEF HeldMeansShutdown, FailOpenInv, OtaInv
<1>2. MarkersInv'
    BY <1>u DEF LidInv, MarkersInv
<1>3. CASE chg' = "RUNNING"
    <2>1. bridge' = bridge
        BY <1>3 DEF ServiceCharging
    <2>2. CacheInv' /\ DriveInv'
        BY <1>3, <1>i, <1>u, <2>1 DEF CacheInv, DriveInv
    <2>3. chgAge < ChargingTime /\ recAge <= chgAge
        <3>1. ChargingOutcome = "RUNNING"
            BY <1>3 DEF ServiceCharging
        <3>2. ~(chgAge >= ChargingTime)
            BY <3>1 DEF ChargingOutcome, ChargingProgress, Valid, PowerSafe
        <3>3. chgAge \in 0 .. ChargingTime
            BY TypeParts DEF ChargeTyped
        <3> QED BY <1>i, <3>2, <3>3, Limits
    <2>4. held' /\ recAge' <= chgAge'
        <3>1. PICK l \in Readings, gap \in BOOLEAN :
                 Sample(l, gap) \/ UNCHANGED <<held, lowAge, recAge>>
            BY <1>3 DEF ServiceCharging
        <3>2. CASE Sample(l, gap)
            <4>1. recAge \in {Idle} \cup 0 .. RecoveryTime /\ chgAge \in 0 .. ChargingTime
                BY TypeParts DEF PowerTyped, GateTypeOK, ChargeTyped
            <4>2. StrongRun(l, gap) \in {Idle, 0, recAge}
                BY DEF StrongRun, Run
            <4>3. ~(StrongRun(l, gap) >= RecoveryTime)
                BY <2>3, <4>1, <4>2, Limits, LidAssumption DEF Idle
            <4>4. held'
                BY <1>i, <3>2, <4>3 DEF Sample
            <4>5. recAge' = StrongRun(l, gap)
                BY <3>2, <4>3 DEF Sample
            <4> QED BY <1>u, <2>3, <4>1, <4>2, <4>4, <4>5 DEF Idle
        <3>3. CASE UNCHANGED <<held, lowAge, recAge>>
            BY <1>i, <1>u, <2>3, <3>3
        <3> QED BY <3>1, <3>2, <3>3
    <2>5. ChargingInv'
        BY <1>i, <1>u, <1>l, <2>4 DEF ChargingInv
    <2> QED BY <1>1, <1>2, <2>2, <2>5 DEF LidInv
<1>4. CASE chg' # "RUNNING"
    <2>1. bridge' = ForcedOff(bridge)
        BY <1>4 DEF ServiceCharging
    <2>2. CacheInv' /\ DriveInv'
        BY <1>4, <1>i, <1>t, <1>u, <2>1, ForcedOffFacts DEF CacheInv, DriveInv
    <2>3. ChargingInv'
        BY <1>4 DEF ChargingInv
    <2> QED BY <1>1, <1>2, <2>2, <2>3 DEF LidInv
<1> QED BY <1>3, <1>4

-----------------------------------------------------------------------------
(* Commands and the OTA reservation *)

\* A command that leaves the power, the bridge and the strokes under
\* protection alone: what is left to show of it.
LEMMA CommandSafe ==
    ASSUME TypeOK, LidInv, UNCHANGED <<held, lowOpen, chg, chgAge, recAge, bridge>>,
           state \notin {"OTA_UPDATING", "BATTERY_LOW_SHUTDOWN", "EMERGENCY_STOP", "OFF"},
           \/ state' \in {"OPEN_START", "CLOSE_START"}
           \/ state' = "MAINTENANCE" /\ state = "HOLD" /\ nvOpen' \in {nvOpen, TRUE}
           \/ UNCHANGED <<state, nvHold, nvOpen>>
    PROVE  LidInv'
<1>1. ~held /\ chg # "RUNNING" /\ ~lowOpen
    BY DEF LidInv, HeldMeansShutdown, ChargingInv, FailOpenInv
<1>2. HeldMeansShutdown' /\ FailOpenInv' /\ ChargingInv' /\ OtaInv'
    BY <1>1 DEF HeldMeansShutdown, FailOpenInv, ChargingInv, OtaInv
<1>3. CacheInv'
    BY DEF LidInv, CacheInv
<1>4. DriveInv'
    BY <1>1 DEF LidInv, DriveInv, StrokeStates
<1>5. MarkersInv'
    BY DEF LidInv, MarkersInv
<1> QED BY <1>2, <1>3, <1>4, <1>5 DEF LidInv

LEMMA CommandedKeeps ==
    ASSUME NEW cmd, Commanded(cmd)
    PROVE  held' = held /\ recAge' = recAge /\ known' = known
BY DEF Commanded, gateVars

LEMMA MovementSafe ==
    ASSUME TypeOK, LidInv, ForceOpen \/ ForceClose \/ StartMaintenance
    PROVE  LidInv'
<1>1. UNCHANGED <<held, recAge>>
    BY CommandedKeeps DEF ForceOpen, ForceClose, StartMaintenance
<1>2. UNCHANGED <<lowOpen, chg, chgAge, bridge>>
    BY DEF ForceOpen, ForceClose, StartMaintenance, chargeVars
<1>3. state \notin {"OTA_UPDATING", "BATTERY_LOW_SHUTDOWN", "EMERGENCY_STOP", "OFF"}
    BY DEF ForceOpen, ForceClose, StartMaintenance, MayMove, Refusing
<1>4. CASE Enter("OPEN_START") \/ Enter("CLOSE_START")
    BY <1>1, <1>2, <1>3, <1>4, CommandSafe DEF Enter
<1>5. CASE UNCHANGED fsmVars
    BY <1>1, <1>2, <1>3, <1>5, CommandSafe DEF fsmVars
<1>6. CASE state = "HOLD" /\ Enter("MAINTENANCE")
    <2>1. nvOpen' \in {nvOpen, TRUE} /\ state' = "MAINTENANCE"
        BY <1>6 DEF Enter, Saved, SavedOpen
    <2> QED BY <1>1, <1>2, <1>3, <1>6, <2>1, CommandSafe
<1> QED BY <1>4, <1>5, <1>6 DEF ForceOpen, ForceClose, StartMaintenance

LEMMA StopMaintenanceSafe == ASSUME TypeOK, LidInv, StopMaintenance PROVE LidInv'
<1>1. UNCHANGED <<held, recAge>>
    BY CommandedKeeps DEF StopMaintenance
<1>2. UNCHANGED <<lowOpen, chg, chgAge, bridge>>
    BY DEF StopMaintenance, chargeVars
<1>3. CASE state = "MAINTENANCE" /\ Enter("CLOSE_START")
    BY <1>1, <1>2, <1>3, CommandSafe DEF Enter
<1>4. CASE UNCHANGED fsmVars
    <2>1. UNCHANGED <<state, nvHold, nvOpen>>
        BY <1>4 DEF fsmVars
    <2>2. HeldMeansShutdown' /\ FailOpenInv' /\ ChargingInv' /\ OtaInv' /\ MarkersInv'
        BY <1>1, <1>2, <2>1 DEF LidInv, HeldMeansShutdown, FailOpenInv, ChargingInv, OtaInv,
                              MarkersInv
    <2>3. CacheInv' /\ DriveInv'
        BY <1>2, <2>1 DEF LidInv, CacheInv, DriveInv
    <2> QED BY <2>2, <2>3 DEF LidInv
<1> QED BY <1>3, <1>4 DEF StopMaintenance

LEMMA ResetSafe == ASSUME TypeOK, LidInv, ResetEmergency PROVE LidInv'
<1>1. UNCHANGED <<held, recAge>>
    BY CommandedKeeps DEF ResetEmergency
<1>2. UNCHANGED <<lowOpen, chg, chgAge>> /\ state' = "IDLE" /\ state = "EMERGENCY_STOP"
    BY DEF ResetEmergency, chargeVars
<1>3. ~held /\ chg # "RUNNING" /\ ~lowOpen /\ ~bridge.main
    BY <1>2 DEF LidInv, HeldMeansShutdown, ChargingInv, FailOpenInv, DriveInv, StrokeStates
<1>4. /\ bridge'.last = "close" /\ bridge'.latch = "close" /\ ~bridge'.main
    BY <1>2, <1>3, TypeParts, ClearedFacts DEF ResetEmergency, RestTyped, LidInv, CacheInv
<1>5. HeldMeansShutdown' /\ FailOpenInv' /\ ChargingInv' /\ OtaInv' /\ MarkersInv'
    BY <1>1, <1>2, <1>3 DEF HeldMeansShutdown, FailOpenInv, ChargingInv, OtaInv, MarkersInv
<1>6. CacheInv' /\ DriveInv'
    BY <1>2, <1>3, <1>4 DEF CacheInv, DriveInv
<1> QED BY <1>5, <1>6 DEF LidInv

LEMMA TryBeginOtaSafe ==
    ASSUME TypeOK, LidInv, NEW kind \in {"normal", "recovery", "force"}, TryBeginOta(kind)
    PROVE  LidInv'
<1>t. bridge \in BridgeType
    BY TypeParts DEF RestTyped
<1>1. UNCHANGED <<held, recAge>>
    BY CommandedKeeps DEF TryBeginOta
<1>2. /\ UNCHANGED <<lowOpen, chg, chgAge>> /\ state' = "OTA_UPDATING"
      /\ bridge' = ForcedOff(bridge)
    BY DEF TryBeginOta, chargeVars, Enter
<1>3. chg # "RUNNING"
    BY DEF TryBeginOta, CanStartOta, Moving, LidInv, ChargingInv
<1>4. HeldMeansShutdown' /\ FailOpenInv' /\ ChargingInv' /\ MarkersInv'
    BY <1>2, <1>3 DEF HeldMeansShutdown, FailOpenInv, ChargingInv, MarkersInv
<1>5. CacheInv' /\ DriveInv' /\ OtaInv'
    BY <1>t, <1>2, <1>3, ForcedOffFacts DEF LidInv, CacheInv, DriveInv, OtaInv
<1> QED BY <1>4, <1>5 DEF LidInv

LEMMA FinishSafe == ASSUME TypeOK, LidInv, FinishOtaWithoutReboot PROVE LidInv'
<1>t. bridge \in BridgeType /\ held \in BOOLEAN
    BY TypeParts DEF RestTyped, PowerTyped, GateTypeOK
<1>1. /\ ~lowOpen' /\ chg' = chg /\ bridge' = ForcedOff(bridge) /\ state = "OTA_UPDATING"
    BY DEF FinishOtaWithoutReboot, chargeVars
<1>2. held' = held
    BY <1>t DEF FinishOtaWithoutReboot, Restore
<1>3. chg # "RUNNING"
    BY <1>1 DEF LidInv, ChargingInv
<1>4. state' = AfterOta
    BY DEF FinishOtaWithoutReboot, Enter
<1>5. HeldMeansShutdown' /\ FailOpenInv' /\ ChargingInv'
    BY <1>1, <1>2, <1>3, <1>4 DEF HeldMeansShutdown, FailOpenInv, ChargingInv, AfterOta
<1>6. CacheInv' /\ DriveInv' /\ OtaInv'
    BY <1>t, <1>1, <1>3, <1>4, ForcedOffFacts DEF LidInv, CacheInv, DriveInv, OtaInv, AfterOta
<1>7. MarkersInv'
    <2>1. CASE held
        <3>1. ASSUME ~NvsFaults PROVE nvOpen'
            BY <2>1, <3>1, EnterSaves DEF FinishOtaWithoutReboot, AfterOta, SavedOpen
        <3> QED BY <3>1 DEF MarkersInv
    <2>2. CASE ~held
        BY <1>4, <2>2 DEF MarkersInv, AfterOta
    <2> QED BY <2>1, <2>2
<1> QED BY <1>5, <1>6, <1>7 DEF LidInv

LEMMA RequestSafe == ASSUME TypeOK, LidInv, RequestChargingClose PROVE LidInv'
<1>t. bridge \in BridgeType
    BY TypeParts DEF RestTyped
<1>1. /\ UNCHANGED <<state, nvHold, nvOpen>> /\ state = "BATTERY_LOW_SHUTDOWN"
      /\ chg = "NONE"
    BY DEF RequestChargingClose, fsmVars
<1>2. MarkersInv' /\ HeldMeansShutdown' /\ FailOpenInv' /\ OtaInv'
    BY <1>1 DEF LidInv, MarkersInv, HeldMeansShutdown, FailOpenInv, OtaInv
<1>3. ASSUME NEW l \in Readings, NEW c \in Currents, NEW gap \in BOOLEAN,
             ChargingRefused(l, c, gap)
      PROVE  LidInv'
    <2>1. UNCHANGED <<chg, bridge, lowOpen>>
        BY <1>3 DEF ChargingRefused, chargeVars
    <2>2. ChargingInv' /\ CacheInv' /\ DriveInv'
        BY <1>1, <2>1 DEF LidInv, ChargingInv, CacheInv, DriveInv
    <2> QED BY <1>2, <2>2 DEF LidInv
<1>4. ASSUME NEW l \in Readings, NEW ttl \in Ttls \ {0}, ChargingTaken(l, ttl)
      PROVE  LidInv'
    <2> DEFINE contacts == Switched(bridge, TRUE, "close")
               drive    == SetRelays(bridge, TRUE, "close")
    <2>l. bridge.latch = bridge.last
        BY DEF LidInv, CacheInv
    <2>c. /\ contacts \in BridgeType
          /\ contacts.last = "close" /\ contacts.latch = "close"
        BY <1>t, <2>l, SwitchedFacts, SwitchTyped DEF Dirs
    <2>d. /\ drive.main /\ drive.last = "close" /\ drive.latch = "close" /\ drive.driven
          /\ ~drive.isolated
        BY <1>t, <1>1, <2>l, SetRelaysFacts DEF Dirs, LidInv, CacheInv
    <2>1. ~lowOpen'
        BY <1>4 DEF ChargingTaken
    <2>2. CASE chg' = "RUNNING"
        <3>1. bridge' = drive /\ held' /\ recAge' \in {0, Idle} /\ chgAge' = 0
            BY <1>4, <2>2 DEF ChargingTaken, Requalified
        <3>2. ChargingInv'
            BY <1>1, <2>1, <3>1 DEF ChargingInv, Idle
        <3>3. CacheInv' /\ DriveInv'
            BY <1>1, <2>d, <2>2, <3>1 DEF CacheInv, DriveInv
        <3> QED BY <1>2, <3>2, <3>3 DEF LidInv
    <2>3. CASE chg' # "RUNNING"
        <3>1. bridge' = ForcedOff(contacts)
            BY <1>4, <2>3 DEF ChargingTaken
        <3>2. ChargingInv' /\ CacheInv' /\ DriveInv'
            BY <1>1, <2>c, <2>3, <3>1, ForcedOffFacts DEF ChargingInv, CacheInv, DriveInv
        <3> QED BY <1>2, <3>2 DEF LidInv
    <2> QED BY <2>2, <2>3
<1> QED BY <1>3, <1>4 DEF RequestChargingClose

-----------------------------------------------------------------------------

LEMMA SafeStep == TypeOK /\ LidInv /\ [Next]_vars => LidInv'
<1> SUFFICES ASSUME TypeOK, LidInv, [Next]_vars PROVE LidInv'
    OBVIOUS
<1>1. CASE Boot \/ PowerLoss \/ Tick
    BY <1>1, BootSafe, PowerLossSafe, TickSafe
<1>2. CASE Update
    BY <1>2, ServiceChargingSafe, ServiceSafe, HandlersSafe DEF Update
<1>3. CASE Command
    BY <1>3, MovementSafe, StopMaintenanceSafe, ResetSafe, RequestSafe, TryBeginOtaSafe,
       FinishSafe DEF Command
<1>4. CASE UNCHANGED vars
    BY <1>4 DEF vars, fsmVars, chargeVars, powerVars, gateVars, LidInv, HeldMeansShutdown,
                FailOpenInv, ChargingInv, CacheInv, DriveInv, OtaInv, MarkersInv
<1> QED BY <1>1, <1>2, <1>3, <1>4 DEF Next

\* The inductive invariant holds of every reachable state.
THEOREM Invariance == Spec => [](TypeOK /\ LidInv)
<1>1. Init => TypeOK /\ LidInv
    BY InitTyped, InitInv
<1>2. TypeOK /\ LidInv /\ [Next]_vars => TypeOK' /\ LidInv'
    BY TypeStep, SafeStep
<1> QED BY <1>1, <1>2, PTL DEF Spec

\* A latched battery protection has the controller in its protection state, or
\* in an OTA update that it keeps isolated (servicePower).
THEOREM HeldShutsDown == Spec => []HeldMeansShutdown
<1>1. LidInv => HeldMeansShutdown
    BY DEF LidInv
<1> QED BY <1>1, Invariance, PTL

\* The motors turn only in a state of which update() watches the end.
THEOREM DrivenInStroke == Spec => []DrivenOnlyInStroke
<1>1. LidInv => DrivenOnlyInStroke
    BY DEF LidInv, DriveInv, DrivenOnlyInStroke, Drive
<1> QED BY <1>1, Invariance, PTL

\* OPENING drives the motors in the opening direction: what setRelayStates
\* remembers never makes it leave floating pins floating.
THEOREM OpeningOpens == Spec => []OpeningDrivesOpen
<1>1. LidInv => OpeningDrivesOpen
    BY DEF LidInv, DriveInv, CacheInv, OpeningDrivesOpen, Drive
<1> QED BY <1>1, Invariance, PTL

\* An OTA update has every relay isolated and no stroke pending.
THEOREM OtaIsIsolated == Spec => []OtaIsolated
<1>1. LidInv => OtaIsolated
    BY DEF LidInv, OtaInv, ChargingInv, OtaIsolated, Moving, StrokeStates
<1> QED BY <1>1, Invariance, PTL

\* The charging close keeps the protection latched, in the protection state,
\* and drives in the closing direction alone.
THEOREM ChargingKeepsProtection == Spec => []ChargingUnderProtection
<1>1. LidInv => ChargingUnderProtection
    BY DEF LidInv, ChargingInv, DriveInv, CacheInv, ChargingUnderProtection, Drive
<1> QED BY <1>1, Invariance, PTL

\* With Preferences that can be opened, a reset out of any state but an OTA
\* update finds a latched protection in NVS.
THEOREM ProtectionPersists == Spec => []HoldPersisted
<1>1. LidInv => HoldPersisted
    <2> SUFFICES ASSUME LidInv, held, state # "OTA_UPDATING", ~NvsFaults
                 PROVE  nvHold \/ nvOpen
        BY DEF HoldPersisted
    <2>1. state = "BATTERY_LOW_SHUTDOWN"
        BY DEF LidInv, HeldMeansShutdown
    <2> QED BY <2>1 DEF LidInv, MarkersInv
<1> QED BY <1>1, Invariance, PTL

\* With Preferences that can be opened, a lid that was driven open or is held
\* open is remembered: the next boot starts protected, not in IDLE.
THEOREM OpenLidIsRemembered == Spec => []OpenLidRemembered
<1>1. LidInv => OpenLidRemembered
    BY DEF LidInv, MarkersInv, OpenLidRemembered
<1> QED BY <1>1, Invariance, PTL

\* Together: a reset finds in NVS what it must know of the latch and the lid.
THEOREM MarkersAreKept == Spec => []MarkersKept
BY ProtectionPersists, OpenLidIsRemembered, PTL DEF MarkersKept

-----------------------------------------------------------------------------
(* What a step may do *)

Admits ==
    ~Moving /\ Moving' =>
        \/ Admitted(held', known')
        \/ FailOpenStarts
        \/ chg' = "RUNNING"
        \/ state = "MAINTENANCE" /\ state' = "CLOSE_START"

FailsOpenOnce == lowOpen' /\ ~lowOpen => FailOpenStarts

\* A command that is taken knows the voltage to be admissible, or ends
\* maintenance.
LEMMA CommandAdmits ==
    ASSUME TypeOK, LidInv, Command
    PROVE  Admits /\ FailsOpenOnce
<1> USE DEF Admits, FailsOpenOnce
<1>1. CASE ForceOpen \/ ForceClose \/ StartMaintenance
    <2>1. /\ UNCHANGED <<held, known>> /\ Admitted(held, known) /\ lowOpen' = lowOpen
        BY <1>1, CommandedKeeps DEF ForceOpen, ForceClose, StartMaintenance, MayMove
    <2> QED BY <2>1
<1>2. CASE StopMaintenance
    <2>1. UNCHANGED <<lowOpen, chg>>
        BY <1>2 DEF StopMaintenance, chargeVars
    <2>2. CASE state = "MAINTENANCE" /\ Enter("CLOSE_START")
        BY <2>1, <2>2 DEF Enter
    <2>3. CASE UNCHANGED fsmVars
        BY <2>1, <2>3 DEF fsmVars, Moving
    <2> QED BY <1>2, <2>2, <2>3 DEF StopMaintenance
<1>3. CASE ResetEmergency
    <2>1. UNCHANGED <<lowOpen, chg>> /\ state' = "IDLE"
        BY <1>3 DEF ResetEmergency, chargeVars
    <2> QED BY <2>1 DEF Moving, StrokeStates
<1>4. CASE RequestChargingClose
    <2>1. UNCHANGED <<state, timer>>
        BY <1>4 DEF RequestChargingClose, fsmVars
    <2>2. CASE \E l \in Readings, c \in Currents, gap \in BOOLEAN : ChargingRefused(l, c, gap)
        BY <2>1, <2>2 DEF ChargingRefused, chargeVars, Moving
    <2>3. CASE \E l \in Readings, ttl \in Ttls \ {0} : ChargingTaken(l, ttl)
        <3>1. ~lowOpen'
            BY <2>3 DEF ChargingTaken
        <3>2. state' = "BATTERY_LOW_SHUTDOWN"
            BY <1>4, <2>1 DEF RequestChargingClose
        <3> QED BY <3>1, <3>2 DEF Moving, StrokeStates
    <2> QED BY <1>4, <2>2, <2>3 DEF RequestChargingClose
<1>5. ASSUME NEW kind \in {"normal", "recovery", "force"}, TryBeginOta(kind)
      PROVE  Admits /\ FailsOpenOnce
    <2>1. UNCHANGED <<lowOpen, chg>> /\ state' = "OTA_UPDATING"
        BY <1>5 DEF TryBeginOta, chargeVars, Enter
    <2> QED BY <2>1 DEF Moving, StrokeStates
<1>6. CASE FinishOtaWithoutReboot
    <2>1. ~lowOpen' /\ chg' = chg /\ state' \in {"IDLE", "BATTERY_LOW_SHUTDOWN"}
        BY <1>6 DEF FinishOtaWithoutReboot, chargeVars, Enter, AfterOta
    <2> QED BY <2>1 DEF Moving, StrokeStates
<1> QED BY <1>1, <1>2, <1>3, <1>4, <1>5, <1>6 DEF Command

\* update() starts a motor only from a handler that servicePower let run, or
\* as the fail-open stroke of the moment the latch is set.
LEMMA UpdateAdmits ==
    ASSUME TypeOK, LidInv, Update
    PROVE  Admits /\ FailsOpenOnce
<1> USE DEF Admits, FailsOpenOnce
<1>1. CASE ServiceCharging
    <2>1. Moving
        BY <1>1 DEF ServiceCharging, Moving
    <2>2. ~lowOpen'
        BY <1>1 DEF ServiceCharging, LidInv, ChargingInv
    <2> QED BY <2>1, <2>2
<1>2. CASE ServiceProtected
    <2>1. chg # "RUNNING" /\ chg' = chg /\ held' /\ state # "OFF"
        BY <1>2 DEF ServiceProtected, chargeVars, UpdateBegins
    <2>2. CASE state = "OTA_UPDATING" /\ UNCHANGED <<fsmVars, lowOpen>>
        BY <2>1, <2>2 DEF fsmVars, Moving, StrokeStates
    <2>3. CASE /\ state \notin {"OTA_UPDATING", "BATTERY_LOW_SHUTDOWN"}
               /\ Enter("BATTERY_LOW_SHUTDOWN")
        <3>1. ~held
            BY <2>3 DEF LidInv, HeldMeansShutdown
        <3>2. state' = "BATTERY_LOW_SHUTDOWN"
            BY <2>3 DEF Enter
        <3> QED BY <2>1, <3>1, <3>2 DEF Moving, FailOpenStarts, StrokeStates
    <2>4. CASE /\ state = "BATTERY_LOW_SHUTDOWN" /\ lowOpen' = StillFailingOpen
               /\ UNCHANGED fsmVars
        BY <2>1, <2>4 DEF fsmVars, Moving, StillFailingOpen, StrokeStates
    <2> QED BY <1>2, <2>2, <2>3, <2>4 DEF ServiceProtected
<1>3. CASE ServiceRecovered
    <2>1. ~lowOpen' /\ chg' = chg /\ state' = "IDLE" /\ chg # "RUNNING"
        BY <1>3 DEF ServiceRecovered, chargeVars, Enter
    <2> QED BY <2>1 DEF Moving, StrokeStates
<1>4. CASE ServiceBlocked
    BY <1>4 DEF ServiceBlocked, fsmVars, chargeVars, Moving
<1>5. ASSUME NEW s \in Handled, Runs(s) PROVE Admits /\ FailsOpenOnce
    BY <1>5 DEF Runs, Proceeds
<1> QED BY <1>1, <1>2, <1>3, <1>4, <1>5
        DEF Update, UpdateIdle, UpdateOpenStart, UpdateOpening, UpdateHold, UpdateCloseStart,
            UpdateClosing, UpdateEmergency, UpdateMaintenance, Handled

LEMMA StepAdmits == TypeOK /\ LidInv /\ [Next]_vars => Admits /\ FailsOpenOnce
<1> SUFFICES ASSUME TypeOK, LidInv, [Next]_vars PROVE Admits /\ FailsOpenOnce
    OBVIOUS
<1> USE DEF Admits, FailsOpenOnce
<1>1. CASE Boot
    <2>1. ~lowOpen /\ chg # "RUNNING" /\ UNCHANGED <<lowOpen, chg>>
        BY <1>1 DEF Boot, chargeVars, LidInv, FailOpenInv, ChargingInv
    <2>2. state' \in {"IDLE", "BATTERY_LOW_SHUTDOWN"}
        BY <1>1 DEF Boot
    <2> QED BY <2>1, <2>2 DEF Moving, StrokeStates
<1>2. CASE PowerLoss
    <2>1. ~lowOpen' /\ chg' = "NONE" /\ state' = "OFF"
        BY <1>2 DEF PowerLoss
    <2> QED BY <2>1 DEF Moving, StrokeStates
<1>3. CASE Tick
    <2>1. UNCHANGED <<lowOpen, chg, state>>
        BY <1>3 DEF Tick
    <2>2. timer' \in {timer, Capped(timer, TimerCap)}
        BY <1>3 DEF Tick
    <2>3. timer' \in Nat /\ timer \in Nat /\ timer' >= timer
        BY <2>2, TypeParts, Limits DEF FsmTyped, Capped
    <2> QED BY <2>1, <2>3, Limits DEF Moving
<1>4. CASE Update
    BY <1>4, UpdateAdmits
<1>5. CASE Command
    BY <1>5, CommandAdmits
<1>6. CASE UNCHANGED vars
    BY <1>6 DEF vars, fsmVars, chargeVars, Moving
<1> QED BY <1>1, <1>2, <1>3, <1>4, <1>5, <1>6 DEF Next

\* A resting motor starts on known admissible power, on the two strokes of the
\* protection, or on the end of maintenance by command.
THEOREM StartsAdmitted == Spec => AdmittedStart
<1>1. TypeOK /\ LidInv /\ [Next]_vars =>
          [~Moving /\ Moving' =>
               \/ Admitted(held', known')
               \/ FailOpenStarts
               \/ chg' = "RUNNING"
               \/ state = "MAINTENANCE" /\ state' = "CLOSE_START"]_vars
    BY StepAdmits DEF Admits
<1> QED BY <1>1, Invariance, PTL DEF Spec, AdmittedStart

\* Only the moment the latch is set starts the fail-open stroke.
THEOREM FailsOpenOnlyOnce == Spec => FailOpenOnce
<1>1. TypeOK /\ LidInv /\ [Next]_vars => [lowOpen' /\ ~lowOpen => FailOpenStarts]_vars
    BY StepAdmits DEF FailsOpenOnce
<1> QED BY <1>1, Invariance, PTL DEF Spec, FailOpenOnce
-----------------------------------------------------------------------------
(* The controller as AutoOtaManager sees it *)

Modal ==
    /\ HostMode = "charging" <=> chg = "RUNNING"
    /\ HostMode = "off" <=> state = "OFF"
    /\ HostMode = "ota" <=> state = "OTA_UPDATING"
    /\ HostMode = "idle" <=> state = "IDLE"
    /\ HostMode = "shutdown" <=> state = "BATTERY_LOW_SHUTDOWN" /\ ~Moving
    /\ HostMode \in {"off", "idle", "busy", "shutdown", "charging", "ota"}

LEMMA Modes == LidInv => Modal
BY DEF LidInv, ChargingInv, OtaInv, Modal, HostMode, OtaIsolated, Moving, StrokeStates

LEMMA ModesNext == LidInv' => Modal'
BY DEF LidInv, ChargingInv, OtaInv, Modal, HostMode, OtaIsolated, Moving, StrokeStates

\* A lid that is neither reserved, off nor closing for a charge goes anywhere
\* but there.
LEMMA LidGoesOn ==
    ASSUME Modal, Modal', UNCHANGED otaVars,
           chg # "RUNNING", chg' # "RUNNING",
           state \notin {"OFF", "OTA_UPDATING"}, state' \notin {"OFF", "OTA_UPDATING"}
    PROVE  Host!LidMoves
BY DEF Modal, Host!LidMoves, otaVars

\* Nothing of what AutoOtaManager sees is touched.
LEMMA LidWaits ==
    ASSUME Modal, Modal', UNCHANGED <<otaVars, chg, state>>,
           \/ state \in {"OFF", "OTA_UPDATING"}
           \/ chg = "RUNNING"
    PROVE  UNCHANGED Host!hostVars
BY DEF Modal, Host!hostVars, otaVars

LEMMA LidMayWait ==
    ASSUME Modal, Modal', UNCHANGED <<otaVars, chg, state>>
    PROVE  Host!LidMoves \/ UNCHANGED Host!hostVars
BY LidGoesOn, LidWaits

LEMMA UpdateServes ==
    ASSUME LidInv, LidInv', Update
    PROVE  Host!LidMoves \/ UNCHANGED Host!hostVars
<1>m. Modal /\ Modal'
    BY Modes, ModesNext
<1>o. UNCHANGED otaVars
    BY DEF Update, ServiceCharging, ServiceProtected, ServiceRecovered, ServiceBlocked,
       UpdateIdle, UpdateOpenStart, UpdateOpening, UpdateHold, UpdateCloseStart, UpdateClosing,
       UpdateEmergency, UpdateMaintenance, Runs, UpdateBegins, otaVars
<1>1. CASE ServiceCharging
    <2>1. /\ chg = "RUNNING" /\ state' = state /\ state = "BATTERY_LOW_SHUTDOWN"
          /\ lowOpen' = FALSE
        BY <1>1 DEF ServiceCharging, fsmVars, LidInv, ChargingInv
    <2>2. CASE chg' = "RUNNING"
        BY <1>m, <1>o, <2>1, <2>2, LidWaits
    <2>3. CASE chg' # "RUNNING"
        <3>1. HostMode' = "shutdown"
            BY <1>m, <2>1, <2>3 DEF Modal, Moving, StrokeStates
        <3> QED BY <1>m, <1>o, <2>1, <3>1 DEF Modal, Host!LidMoves, otaVars
    <2> QED BY <2>2, <2>3
<1>2. CASE ServiceProtected
    <2>1. chg' = chg /\ chg # "RUNNING" /\ state # "OFF"
        BY <1>2 DEF ServiceProtected, chargeVars, UpdateBegins
    <2>2. state' = state \/ (state # "OTA_UPDATING" /\ state' = "BATTERY_LOW_SHUTDOWN")
        BY <1>2 DEF ServiceProtected, fsmVars, Enter
    <2> QED BY <1>m, <1>o, <2>1, <2>2, LidMayWait, LidGoesOn
<1>3. CASE ServiceRecovered
    <2>1. /\ chg' = chg /\ chg # "RUNNING" /\ state = "BATTERY_LOW_SHUTDOWN" /\ state' = "IDLE"
        BY <1>3 DEF ServiceRecovered, chargeVars, Enter
    <2> QED BY <1>m, <1>o, <2>1, LidGoesOn
<1>4. CASE ServiceBlocked
    <2>1. UNCHANGED <<chg, state>>
        BY <1>4 DEF ServiceBlocked, chargeVars, fsmVars
    <2> QED BY <1>m, <1>o, <2>1, LidMayWait
<1>5. ASSUME NEW s \in Handled, Runs(s), state' \in Handled
      PROVE  Host!LidMoves \/ UNCHANGED Host!hostVars
    <2>1. chg' = chg /\ chg # "RUNNING" /\ state = s
        BY <1>5 DEF Runs, chargeVars
    <2> QED BY <1>m, <1>o, <1>5, <2>1, LidGoesOn DEF Handled
<1>6. ASSUME UpdateIdle \/ UpdateOpenStart \/ UpdateOpening \/ UpdateHold
             \/ UpdateCloseStart \/ UpdateClosing \/ UpdateEmergency \/ UpdateMaintenance
      PROVE  \E s \in Handled : Runs(s) /\ state' \in Handled
    <2> USE DEF Enter, Runs, Handled, fsmVars, Stalled
    <2>1. CASE UpdateIdle
        BY <2>1 DEF UpdateIdle
    <2>2. CASE UpdateOpenStart
        BY <2>2 DEF UpdateOpenStart
    <2>3. CASE UpdateOpening
        BY <2>3 DEF UpdateOpening
    <2>4. CASE UpdateHold
        BY <2>4 DEF UpdateHold
    <2>5. CASE UpdateCloseStart
        BY <2>5 DEF UpdateCloseStart
    <2>6. CASE UpdateClosing
        BY <2>6 DEF UpdateClosing
    <2>7. CASE UpdateEmergency
        BY <2>7 DEF UpdateEmergency
    <2>8. CASE UpdateMaintenance
        BY <2>8 DEF UpdateMaintenance
    <2> QED BY <1>6, <2>1, <2>2, <2>3, <2>4, <2>5, <2>6, <2>7, <2>8
<1> QED BY <1>1, <1>2, <1>3, <1>4, <1>5, <1>6 DEF Update

LEMMA CommandServes ==
    ASSUME LidInv, LidInv', Command
    PROVE  [Host!HostNext]_(Host!hostVars)
<1>m. Modal /\ Modal'
    BY Modes, ModesNext
<1>c. state # "BATTERY_LOW_SHUTDOWN" => chg # "RUNNING"
    BY DEF LidInv, ChargingInv
<1>1. CASE ForceOpen \/ ForceClose \/ StartMaintenance
    <2>1. UNCHANGED <<otaVars, chg>>
        BY <1>1 DEF ForceOpen, ForceClose, StartMaintenance, chargeVars
    <2>2. state \notin Refusing /\ (state' = state \/ state' \in {"OPEN_START", "CLOSE_START", "MAINTENANCE"})
        BY <1>1 DEF ForceOpen, ForceClose, StartMaintenance, MayMove, Enter, fsmVars
    <2>3. Host!LidMoves
        BY <1>m, <1>c, <2>1, <2>2, LidGoesOn DEF Refusing
    <2> QED BY <2>3 DEF Host!HostNext
<1>2. CASE ResetEmergency
    <2>1. UNCHANGED <<otaVars, chg>> /\ state = "EMERGENCY_STOP" /\ state' = "IDLE"
        BY <1>2 DEF ResetEmergency, chargeVars
    <2>2. Host!LidMoves
        BY <1>m, <1>c, <2>1, LidGoesOn
    <2> QED BY <2>2 DEF Host!HostNext
<1>3. CASE StopMaintenance
    <2>1. UNCHANGED <<otaVars, chg>>
        BY <1>3 DEF StopMaintenance, chargeVars
    <2>2. state' = state \/ (state = "MAINTENANCE" /\ state' = "CLOSE_START")
        BY <1>3 DEF StopMaintenance, Enter, fsmVars
    <2>3. Host!LidMoves \/ UNCHANGED Host!hostVars
        BY <1>m, <1>c, <2>1, <2>2, LidGoesOn, LidMayWait
    <2> QED BY <2>3 DEF Host!HostNext
<1>4. CASE RequestChargingClose
    <2>1. UNCHANGED <<otaVars, state, timer>> /\ state = "BATTERY_LOW_SHUTDOWN" /\ chg = "NONE" /\ ~Moving
        BY <1>4 DEF RequestChargingClose, fsmVars
    <2>2. \/ UNCHANGED <<chg, lowOpen>>
          \/ ~lowOpen'
        BY <1>4 DEF RequestChargingClose, ChargingRefused, ChargingTaken, chargeVars
    <2>3. chg' # "RUNNING" => ~Moving'
        BY <2>1, <2>2 DEF Moving, StrokeStates
    <2>4. HostMode = "shutdown" /\ HostMode' \in {"shutdown", "charging"}
        BY <1>m, <2>1, <2>3 DEF Modal
    <2>5. Host!StartsCharging \/ UNCHANGED Host!hostVars
        BY <2>1, <2>4 DEF Host!StartsCharging, Host!hostVars, otaVars
    <2> QED BY <2>5 DEF Host!HostNext
<1>5. ASSUME NEW kind \in {"normal", "recovery", "force"}, TryBeginOta(kind)
      PROVE  Host!HostNext
    <2>1. /\ state' = "OTA_UPDATING"
          /\ reserved' = IF kind = "normal" THEN "none" ELSE kind
          /\ otaUsed' = (otaUsed \/ kind # "normal")
        BY <1>5 DEF TryBeginOta, Enter
    <2>2. IF kind = "normal" THEN state = "IDLE"
          ELSE ~otaUsed /\ ~Moving /\ state \in {"IDLE", "BATTERY_LOW_SHUTDOWN"}
        BY <1>5 DEF TryBeginOta, CanStartOta
    <2>3. Host!MayStart(kind)
        BY <1>m, <2>2 DEF Modal, Host!MayStart, Host!Maintenance
    <2>4. Host!BeginOta(kind)
        BY <1>m, <2>1, <2>3 DEF Modal, Host!BeginOta, Host!Maintenance
    <2> QED BY <2>4 DEF Host!HostNext, Host!Kinds, Host!Maintenance
<1>6. CASE FinishOtaWithoutReboot
    <2>1. /\ state = "OTA_UPDATING" /\ state' \in {"IDLE", "BATTERY_LOW_SHUTDOWN"}
          /\ reserved' = "none" /\ otaUsed' = otaUsed /\ chg' = chg /\ ~lowOpen'
        BY <1>6 DEF FinishOtaWithoutReboot, Enter, AfterOta, chargeVars
    <2>2. ~Moving'
        BY <1>c, <2>1 DEF Moving, StrokeStates
    <2>3. Host!FinishOta
        BY <1>m, <2>1, <2>2 DEF Modal, Host!FinishOta
    <2> QED BY <2>3 DEF Host!HostNext
<1> QED BY <1>1, <1>2, <1>3, <1>4, <1>5, <1>6 DEF Command

LEMMA StepServes ==
    LidInv /\ LidInv' /\ [Next]_vars => [Host!HostNext]_(Host!hostVars)
<1> SUFFICES ASSUME LidInv, LidInv', [Next]_vars PROVE [Host!HostNext]_(Host!hostVars)
    OBVIOUS
<1>m. Modal /\ Modal'
    BY Modes, ModesNext
<1>1. CASE Boot
    <2>1. state = "OFF" /\ state' \in {"IDLE", "BATTERY_LOW_SHUTDOWN"} /\ UNCHANGED <<otaVars, chg, lowOpen>>
        BY <1>1 DEF Boot, chargeVars
    <2>2. chg # "RUNNING" /\ ~lowOpen
        BY <2>1 DEF LidInv, ChargingInv, FailOpenInv
    <2>3. ~Moving'
        BY <2>1, <2>2 DEF Moving, StrokeStates
    <2>4. Host!HostBoot
        BY <1>m, <2>1, <2>3 DEF Modal, Host!HostBoot, otaVars
    <2> QED BY <2>4 DEF Host!HostNext
<1>2. CASE PowerLoss
    <2>1. Host!HostReset
        BY <1>m, <1>2 DEF PowerLoss, Modal, Host!HostReset
    <2> QED BY <2>1 DEF Host!HostNext
<1>3. CASE Tick
    <2>1. UNCHANGED <<otaVars, chg, state>>
        BY <1>3 DEF Tick
    <2> QED BY <1>m, <2>1, LidMayWait DEF Host!HostNext
<1>4. CASE Update
    BY <1>4, UpdateServes DEF Host!HostNext
<1>5. CASE Command
    BY <1>5, CommandServes
<1>6. CASE UNCHANGED vars
    <2>1. UNCHANGED <<otaVars, chg, state>>
        BY <1>6 DEF vars, fsmVars, chargeVars
    <2> QED BY <1>m, <2>1, LidMayWait DEF Host!HostNext
<1> QED BY <1>1, <1>2, <1>3, <1>4, <1>5, <1>6 DEF Next

\* The controller keeps the promise of OtaHost, on which the coordination of
\* updates rests (tryBeginOta, finishOtaWithoutReboot, servicePower).
THEOREM OtaServed == Spec => ServesOta
<1>1. Init => Host!HostInit
    BY DEF Init, PoweredOff, Host!HostInit, HostMode
<1>2. TypeOK /\ LidInv /\ [Next]_vars => [Host!HostNext]_(Host!hostVars)
    BY SafeStep, StepServes
<1> QED BY <1>1, <1>2, Invariance, PTL DEF Spec, ServesOta, Host!HostSpec

-----------------------------------------------------------------------------
(* How long the motors are driven in one direction *)

\* The commands that turn a closing lid, and the one that turns an opening lid,
\* do not both occur.  With both, each stroke can be begun again in the other
\* direction before update() has reversed the contacts.
TurnsOneWay ==
    "force_close" \in Commands => Commands \cap {"force_open", "maintenance_start"} = {}

\* A limited age that update() has looked at since it last grew.
Watched(age, limit) == age <= limit /\ (~loopDue => age < limit)

\* Which timer bounds the drive: none of them in the states that have just been
\* commanded, where the next update() reverses or ends the drive.
StrokeWatched ==
    \/ /\ state = "OPEN_START" /\ Drive(bridge) = "close" /\ "force_close" \notin Commands
       /\ Watched(driveAge, ActuatorTime)
    \/ /\ state = "CLOSE_START" /\ Drive(bridge) = "open" /\ "force_close" \in Commands
       /\ Watched(driveAge, ActuatorTime)
    \/ /\ state \in {"OPENING", "CLOSING"}
       /\ driveAge <= timer /\ Watched(timer, ActuatorTime)
    \/ /\ state = "BATTERY_LOW_SHUTDOWN" /\ chg = "RUNNING"
       /\ driveAge <= chgAge /\ Watched(chgAge, ChargingTime)
    \/ /\ state = "BATTERY_LOW_SHUTDOWN" /\ chg # "RUNNING"
       /\ lowOpen /\ Drive(bridge) = "open"
       /\ driveAge <= ActuatorTime + timer /\ Watched(timer, ActuatorTime)

StrokeInv ==
    /\ driveAge \in Nat
    /\ Drive(bridge) = "off" => driveAge = 0
    /\ Drive(bridge) # "off" => StrokeWatched

\* What bounds an age bounds the age of the drive.
LEMMA WatchedBounds == TypeOK /\ StrokeInv => StrokeBounded
<1> SUFFICES ASSUME TypeOK, StrokeInv PROVE StrokeBounded
    OBVIOUS
<1>1. timer \in Nat /\ chgAge \in Nat /\ driveAge \in Nat
    BY TypeParts DEF FsmTyped, ChargeTyped, StrokeInv
<1>2. ActuatorTime \in Nat /\ ChargingTime \in Nat /\ ChargingTime <= ActuatorTime
    BY Limits, LidAssumption
<1>3. CASE Drive(bridge) = "off"
    BY <1>2, <1>3 DEF StrokeInv, StrokeBounded
<1>4. CASE StrokeWatched
    BY <1>1, <1>2, <1>4 DEF StrokeWatched, Watched, StrokeBounded
<1> QED BY <1>3, <1>4 DEF StrokeInv

\* Which way the motors can turn in the states of a stroke, and in the others.
LEMMA Directions ==
    ASSUME TypeOK, LidInv, StrokeInv
    PROVE  /\ Drive(bridge) \in Dirs
           /\ state = "OPENING" => Drive(bridge) = "open"
           /\ state = "CLOSING" => Drive(bridge) \in {"off", "close"}
           /\ chg = "RUNNING" => Drive(bridge) = "close" /\ state = "BATTERY_LOW_SHUTDOWN"
           /\ state = "OPEN_START" => Drive(bridge) \in {"off", "close"}
           /\ state = "CLOSE_START" => Drive(bridge) \in {"off", "open"}
           /\ state \notin StrokeStates \cup {"BATTERY_LOW_SHUTDOWN"} => Drive(bridge) = "off"
<1>t. bridge \in BridgeType
    BY TypeParts DEF RestTyped
<1>1. bridge.latch = bridge.last
    BY DEF LidInv, CacheInv
<1>2. Drive(bridge) \in Dirs /\ (~bridge.main => Drive(bridge) = "off")
    BY <1>t DEF BridgeType, Drive, Dirs
<1>3. state = "OPENING" => Drive(bridge) = "open"
    BY <1>1 DEF LidInv, DriveInv, Drive
<1>4. state = "CLOSING" => Drive(bridge) \in {"off", "close"}
    BY <1>1 DEF LidInv, CacheInv, Drive
<1>5. chg = "RUNNING" => Drive(bridge) = "close" /\ state = "BATTERY_LOW_SHUTDOWN"
    BY <1>1 DEF LidInv, ChargingInv, DriveInv, Drive
<1>6. /\ state = "OPEN_START" => Drive(bridge) \in {"off", "close"}
      /\ state = "CLOSE_START" => Drive(bridge) \in {"off", "open"}
    BY DEF StrokeInv, StrokeWatched
<1>7. state \notin StrokeStates \cup {"BATTERY_LOW_SHUTDOWN"} => Drive(bridge) = "off"
    BY <1>2 DEF LidInv, DriveInv
<1> QED BY <1>2, <1>3, <1>4, <1>5, <1>6, <1>7

\* The history variable in a step that is not a unit of time.
AgeKept ==
    driveAge' = IF Drive(bridge') = "off" \/ Drive(bridge') # Drive(bridge) THEN 0 ELSE driveAge

LEMMA NoTime ==
    ASSUME StrokeNext, ~Elapses
    PROVE  AgeKept
BY DEF StrokeNext, AgeKept

\* A step that ends in a drive that is off.
LEMMA StepsOff ==
    ASSUME AgeKept, Drive(bridge') = "off"
    PROVE  StrokeInv'
BY DEF AgeKept, StrokeInv

\* A step that changes the direction, or that goes on with the drive.
LEMMA AgeAfter ==
    ASSUME StrokeInv, AgeKept
    PROVE  /\ driveAge' \in Nat
           /\ driveAge' <= driveAge
           /\ Drive(bridge') # Drive(bridge) => driveAge' = 0
           /\ Drive(bridge') = "off" => driveAge' = 0
BY DEF AgeKept, StrokeInv

\* A command that neither touches the bridge nor the protected strokes.
LEMMA DriveOff ==
    ASSUME NEW b, ~b.main
    PROVE  Drive(b) = "off"
BY DEF Drive

LEMMA HandlersWatched ==
    ASSUME TypeOK, LidInv, StrokeInv, AgeKept,
           \/ UpdateIdle \/ UpdateOpenStart \/ UpdateOpening \/ UpdateHold
           \/ UpdateCloseStart \/ UpdateClosing \/ UpdateEmergency \/ UpdateMaintenance
    PROVE  StrokeInv'
<1>t. bridge \in BridgeType /\ bridge.latch = bridge.last /\ timer \in Nat
    BY TypeParts DEF RestTyped, FsmTyped, LidInv, CacheInv
<1>r. ~Released.main
    BY <1>t, SetRelaysFacts DEF Released, Dirs
<1>f. ~ForcedOff(bridge).main /\ ~[ForcedOff(bridge) EXCEPT !.isolated = FALSE].main
    BY <1>t, ForcedOffFacts, ForcedOffTyped, ClearedFacts
<1>o. ASSUME bridge' \in {Released, ForcedOff(bridge), [ForcedOff(bridge) EXCEPT !.isolated = FALSE]}
      PROVE  StrokeInv'
    <2>1. ~bridge'.main
        BY <1>r, <1>f, <1>o
    <2> QED BY <2>1, DriveOff, StepsOff
<1>a. /\ driveAge' \in Nat /\ driveAge' <= driveAge /\ driveAge \in Nat
      /\ Drive(bridge') # Drive(bridge) => driveAge' = 0
      /\ Drive(bridge') = "off" => driveAge' = 0
    BY AgeAfter DEF StrokeInv
<1>l. ActuatorTime \in Nat /\ ActuatorTime > 0
    BY Limits
\* A stroke that starts: the contacts are reversed, or were at rest.
<1>s. ASSUME Drive(bridge') # Drive(bridge) \/ Drive(bridge') = "off",
             state' \in {"OPENING", "CLOSING"}, timer' = 0, ~loopDue'
      PROVE  StrokeInv'
    BY <1>a, <1>l, <1>s DEF StrokeInv, StrokeWatched, Watched
\* A stroke that goes on: its time is not over.
<1>g. ASSUME state \in {"OPENING", "CLOSING"}, ~(timer >= ActuatorTime), ~loopDue',
             UNCHANGED <<bridge, state, timer>>
      PROVE  StrokeInv'
    <2>1. Drive(bridge') = Drive(bridge)
        BY <1>g
    <2>2. Drive(bridge) # "off" => driveAge <= timer
        BY <1>g DEF StrokeInv, StrokeWatched
    <2> QED BY <1>a, <1>l, <1>t, <1>g, <2>1, <2>2 DEF StrokeInv, StrokeWatched, Watched
<1>1. CASE UpdateOpenStart
    <2>1. /\ state = "OPEN_START" /\ ~loopDue'
          /\ bridge' = SetRelays(bridge, TRUE, "open") /\ Enter("OPENING")
        BY <1>1 DEF UpdateOpenStart, Runs, UpdateBegins
    <2>2. Drive(bridge) \in {"off", "close"}
        BY <2>1, Directions
    <2>3. Drive(bridge') \in {"off", "open"}
        BY <1>t, <2>1, SetRelaysFacts DEF Drive, Dirs
    <2> QED BY <1>s, <2>1, <2>2, <2>3 DEF Enter
<1>2. CASE UpdateCloseStart
    <2>1. /\ state = "CLOSE_START" /\ ~loopDue'
          /\ bridge' = SetRelays(bridge, TRUE, "close") /\ Enter("CLOSING")
        BY <1>2 DEF UpdateCloseStart, Runs, UpdateBegins
    <2>2. Drive(bridge) \in {"off", "open"}
        BY <2>1, Directions
    <2>3. Drive(bridge') \in {"off", "close"}
        BY <1>t, <2>1, SetRelaysFacts DEF Drive, Dirs
    <2> QED BY <1>s, <2>1, <2>2, <2>3 DEF Enter
<1>3. CASE UpdateOpening
    <2>1. state = "OPENING" /\ ~loopDue'
        BY <1>3 DEF UpdateOpening, Runs, UpdateBegins
    <2>2. \/ bridge' \in {Released, ForcedOff(bridge)}
          \/ ~(timer >= ActuatorTime) /\ UNCHANGED <<bridge, state, timer>>
        BY <1>3 DEF UpdateOpening, Stalled
    <2> QED BY <1>o, <1>g, <2>1, <2>2
<1>4. CASE UpdateClosing
    <2>1. state = "CLOSING" /\ ~loopDue'
        BY <1>4 DEF UpdateClosing, Runs, UpdateBegins
    <2>2. \/ bridge' \in {Released, ForcedOff(bridge)}
          \/ ~(timer >= ActuatorTime) /\ UNCHANGED <<bridge, state, timer>>
        BY <1>4 DEF UpdateClosing, Stalled
    <2> QED BY <1>o, <1>g, <2>1, <2>2
<1>5. CASE UpdateIdle \/ UpdateHold \/ UpdateEmergency \/ UpdateMaintenance
    BY <1>o, <1>5 DEF UpdateIdle, UpdateHold, UpdateEmergency, UpdateMaintenance
<1> QED BY <1>1, <1>2, <1>3, <1>4, <1>5

\* What servicePower leaves running is inside its time: the fail-open stroke,
\* which may take over the drive of the opening stroke it interrupts.
LEMMA ServiceWatched ==
    ASSUME TypeOK, LidInv, StrokeInv, AgeKept,
           ServiceProtected \/ ServiceRecovered \/ ServiceBlocked
    PROVE  StrokeInv'
<1>t. bridge \in BridgeType /\ bridge.latch = bridge.last /\ timer \in Nat
    BY TypeParts DEF RestTyped, FsmTyped, LidInv, CacheInv
<1>o. ASSUME bridge' = ForcedOff(bridge) PROVE StrokeInv'
    BY <1>t, <1>o, ForcedOffFacts, DriveOff, StepsOff
<1>a. /\ driveAge' \in Nat /\ driveAge' <= driveAge /\ driveAge \in Nat
      /\ Drive(bridge') # Drive(bridge) => driveAge' = 0
      /\ Drive(bridge') = "off" => driveAge' = 0
    BY AgeAfter DEF StrokeInv
<1>l. ActuatorTime \in Nat /\ ActuatorTime > 0
    BY Limits
<1>1. CASE ServiceProtected
    <2>c. chg # "RUNNING" /\ chg' = chg /\ ~loopDue'
        BY <1>1 DEF ServiceProtected, chargeVars, UpdateBegins
    <2>1. CASE /\ state \notin {"OTA_UPDATING", "BATTERY_LOW_SHUTDOWN"}
               /\ Enter("BATTERY_LOW_SHUTDOWN") /\ lowOpen'
               /\ bridge' = SetRelays(bridge, TRUE, "open")
        <3>1. state' = "BATTERY_LOW_SHUTDOWN" /\ timer' = 0
            BY <2>1 DEF Enter
        <3>2. Drive(bridge') \in {"off", "open"}
            BY <1>t, <2>1, SetRelaysFacts DEF Drive, Dirs
        <3>3. driveAge' <= ActuatorTime
            <4>1. CASE Drive(bridge) = "open"
                <5>1. StrokeWatched
                    BY <4>1 DEF StrokeInv
                <5>2. driveAge <= ActuatorTime
                    BY <1>a, <1>l, <1>t, <2>1, <5>1 DEF StrokeWatched, Watched
                <5> QED BY <1>a, <1>l, <5>2
            <4>2. CASE Drive(bridge) # "open"
                BY <1>a, <1>l, <3>2, <4>2
            <4> QED BY <4>1, <4>2
        <3>4. Drive(bridge') = "open" => StrokeWatched'
            <4>1. driveAge' <= ActuatorTime + timer' /\ timer' <= ActuatorTime /\ timer' < ActuatorTime
                BY <1>a, <1>l, <3>1, <3>3
            <4> QED BY <2>c, <2>1, <3>1, <4>1 DEF StrokeWatched, Watched
        <3> QED BY <1>a, <3>2, <3>4 DEF StrokeInv
    <2>2. CASE /\ state = "BATTERY_LOW_SHUTDOWN" /\ lowOpen' /\ StillFailingOpen
               /\ bridge' = bridge /\ UNCHANGED fsmVars
        <3>1. lowOpen /\ timer < ActuatorTime /\ UNCHANGED <<state, timer>>
            BY <1>l, <1>t, <2>2 DEF StillFailingOpen, fsmVars
        <3>2. Drive(bridge') = Drive(bridge)
            BY <2>2
        <3>3. Drive(bridge) # "off" => Drive(bridge) = "open" /\ driveAge <= ActuatorTime + timer
            BY <2>2, <2>c DEF StrokeInv, StrokeWatched
        <3>4. Drive(bridge) # "off" => driveAge' <= ActuatorTime + timer'
            BY <1>a, <1>l, <1>t, <3>1, <3>3
        <3>5. Drive(bridge') # "off" => StrokeWatched'
            BY <1>l, <1>t, <2>c, <2>2, <3>1, <3>2, <3>3, <3>4 DEF StrokeWatched, Watched
        <3> QED BY <1>a, <3>5 DEF StrokeInv
    <2>3. CASE lowOpen'
        <3>1. ASSUME lowOpen' = StillFailingOpen PROVE StillFailingOpen
            BY <2>3, <3>1 DEF StillFailingOpen
        <3> QED BY <1>1, <1>o, <2>1, <2>2, <2>3, <3>1 DEF ServiceProtected
    <2>4. CASE ~lowOpen'
        BY <1>1, <1>o, <2>4 DEF ServiceProtected
    <2> QED BY <2>3, <2>4
<1>2. CASE ServiceRecovered
    BY <1>o, <1>2 DEF ServiceRecovered
<1>3. CASE ServiceBlocked
    <2>1. state \notin StrokeStates \cup {"BATTERY_LOW_SHUTDOWN"} /\ bridge' = bridge
        <3>1. state = "OTA_UPDATING" \/ ~Moving
            BY <1>3 DEF ServiceBlocked, Proceeds
        <3> QED BY <1>3, <3>1 DEF ServiceBlocked, Moving, StrokeStates
    <2>2. Drive(bridge') = "off"
        BY <2>1, Directions
    <2> QED BY <2>2, StepsOff
<1> QED BY <1>1, <1>2, <1>3

LEMMA ChargingWatched ==
    ASSUME TypeOK, LidInv, StrokeInv, AgeKept, ServiceCharging
    PROVE  StrokeInv'
<1>t. bridge \in BridgeType /\ bridge.latch = bridge.last /\ chgAge \in Nat
    BY TypeParts DEF RestTyped, ChargeTyped, LidInv, CacheInv
<1>a. /\ driveAge' \in Nat /\ driveAge' <= driveAge /\ driveAge \in Nat
      /\ Drive(bridge') = "off" => driveAge' = 0
    BY AgeAfter DEF StrokeInv
<1>l. ChargingTime \in Nat
    BY Limits
<1>1. CASE chg' = "RUNNING"
    <2>1. /\ UNCHANGED <<bridge, state, chgAge>> /\ ~loopDue' /\ chg = "RUNNING"
          /\ ChargingOutcome = "RUNNING"
        BY <1>1 DEF ServiceCharging, fsmVars
    <2>2. ~(chgAge >= ChargingTime)
        BY <2>1 DEF ChargingOutcome, ChargingProgress, Valid, PowerSafe
    <2>3. state = "BATTERY_LOW_SHUTDOWN" /\ Drive(bridge) = "close"
        BY <2>1, Directions
    <2>4. driveAge <= chgAge
        BY <2>1, <2>3 DEF StrokeInv, StrokeWatched
    <2>5. Drive(bridge') = "close"
        BY <2>1, <2>3
    <2> QED BY <1>1, <1>a, <1>l, <1>t, <2>1, <2>2, <2>3, <2>4, <2>5
            DEF StrokeInv, StrokeWatched, Watched
<1>2. CASE chg' # "RUNNING"
    <2>1. bridge' = ForcedOff(bridge)
        BY <1>2 DEF ServiceCharging
    <2> QED BY <1>t, <2>1, ForcedOffFacts, DriveOff, StepsOff
<1> QED BY <1>1, <1>2

\* Nothing of what bounds the drive is touched.
LEMMA Unstirred ==
    ASSUME StrokeInv, AgeKept, UNCHANGED <<bridge, state, timer, chg, chgAge, lowOpen, loopDue>>
    PROVE  StrokeInv'
<1>1. Drive(bridge') = Drive(bridge)
    OBVIOUS
<1>2. driveAge' = driveAge
    BY <1>1 DEF AgeKept, StrokeInv
<1> QED BY <1>1, <1>2 DEF StrokeInv, StrokeWatched, Watched

\* A command that turns the lid: what still drives the motors keeps the age its
\* timer had bounded, and the next update() reverses it.
LEMMA TurnWatched ==
    ASSUME TypeOK, LidInv, StrokeInv, AgeKept, UNCHANGED <<bridge, loopDue>>,
           \/ /\ state \notin {"OPEN_START", "OPENING", "BATTERY_LOW_SHUTDOWN"}
              /\ state' = "OPEN_START" /\ "force_close" \notin Commands
           \/ /\ state \notin {"CLOSE_START", "CLOSING", "BATTERY_LOW_SHUTDOWN"}
              /\ state' = "CLOSE_START" /\ "force_close" \in Commands
    PROVE  StrokeInv'
<1>t. timer \in Nat /\ ActuatorTime \in Nat
    BY TypeParts, Limits DEF FsmTyped
<1>a. driveAge' \in Nat /\ driveAge' <= driveAge /\ driveAge \in Nat
    BY AgeAfter DEF StrokeInv
<1>1. Drive(bridge') = Drive(bridge)
    OBVIOUS
<1>2. CASE Drive(bridge) = "off"
    BY <1>1, <1>2, StepsOff
<1>3. CASE Drive(bridge) # "off"
    <2>1. state \in {"OPENING", "CLOSING"} /\ driveAge <= timer /\ Watched(timer, ActuatorTime)
        BY <1>3 DEF StrokeInv, StrokeWatched
    <2>2. Watched(driveAge, ActuatorTime)'
        BY <1>t, <1>a, <2>1 DEF Watched
    <2>3. \/ state' = "OPEN_START" /\ Drive(bridge') = "close" /\ "force_close" \notin Commands
          \/ state' = "CLOSE_START" /\ Drive(bridge') = "open" /\ "force_close" \in Commands
        BY <1>1, <1>3, <2>1, Directions
    <2> QED BY <1>1, <1>3, <1>a, <2>2, <2>3 DEF StrokeInv, StrokeWatched
<1> QED BY <1>2, <1>3

\* The charging close starts with the contacts at rest or reversed.
LEMMA RequestWatched ==
    ASSUME TypeOK, LidInv, StrokeInv, AgeKept, RequestChargingClose
    PROVE  StrokeInv'
<1>t. bridge \in BridgeType /\ bridge.latch = bridge.last
    BY TypeParts DEF RestTyped, LidInv, CacheInv
<1>1. /\ UNCHANGED <<state, timer, loopDue>> /\ state = "BATTERY_LOW_SHUTDOWN"
      /\ chg = "NONE"
    BY DEF RequestChargingClose, fsmVars
<1>2. CASE \E l \in Readings, c \in Currents, gap \in BOOLEAN : ChargingRefused(l, c, gap)
    BY <1>1, <1>2, Unstirred DEF ChargingRefused, chargeVars
<1>3. ASSUME NEW l \in Readings, NEW ttl \in Ttls \ {0}, ChargingTaken(l, ttl)
      PROVE  StrokeInv'
    <2>1. CASE chg' = "RUNNING"
        <3>1. bridge' = SetRelays(bridge, TRUE, "close") /\ chgAge' = 0
            BY <1>3, <2>1 DEF ChargingTaken
        <3>2. Drive(bridge') \in {"off", "close"}
            BY <1>t, <3>1, SetRelaysFacts DEF Drive, Dirs
        <3>3. Drive(bridge) \in {"off", "open"}
            BY <1>1 DEF StrokeInv, StrokeWatched
        <3>4. driveAge' = 0
            BY <3>2, <3>3 DEF AgeKept
        <3>5. Watched(chgAge, ChargingTime)' /\ driveAge' <= chgAge'
            BY <3>1, <3>4, Limits DEF Watched
        <3> QED BY <1>1, <2>1, <3>4, <3>5 DEF StrokeInv, StrokeWatched
    <2>2. CASE chg' # "RUNNING"
        <3>1. bridge' = ForcedOff(Switched(bridge, TRUE, "close"))
            BY <1>3, <2>2 DEF ChargingTaken
        <3>2. ~bridge'.main
            BY <1>t, <3>1, SwitchTyped, ForcedOffFacts DEF Dirs
        <3> QED BY <3>2, DriveOff, StepsOff
    <2> QED BY <2>1, <2>2
<1> QED BY <1>2, <1>3 DEF RequestChargingClose

LEMMA CommandsWatched ==
    ASSUME TurnsOneWay, TypeOK, LidInv, StrokeInv, AgeKept, Command
    PROVE  StrokeInv'
<1>t. bridge \in BridgeType
    BY TypeParts DEF RestTyped
<1>1. CASE ForceOpen
    <2>1. /\ state \notin {"OPEN_START", "OPENING", "BATTERY_LOW_SHUTDOWN"} /\ state' = "OPEN_START"
          /\ "force_open" \in Commands /\ UNCHANGED <<bridge, loopDue>>
        BY <1>1 DEF ForceOpen, MayMove, Refusing, Enter, Commanded
    <2>2. "force_close" \notin Commands
        BY <2>1 DEF TurnsOneWay
    <2> QED BY <2>1, <2>2, TurnWatched
<1>2. CASE ForceClose
    <2>1. /\ state \notin {"CLOSE_START", "CLOSING", "BATTERY_LOW_SHUTDOWN"} /\ state' = "CLOSE_START"
          /\ "force_close" \in Commands /\ UNCHANGED <<bridge, loopDue>>
        BY <1>2 DEF ForceClose, MayMove, Refusing, Enter, Commanded
    <2> QED BY <2>1, TurnWatched
<1>3. CASE StartMaintenance
    <2>1. /\ "maintenance_start" \in Commands /\ state # "BATTERY_LOW_SHUTDOWN"
          /\ UNCHANGED <<bridge, loopDue, chg, chgAge, lowOpen>>
        BY <1>3 DEF StartMaintenance, Commanded, MayMove, Refusing, chargeVars
    <2>2. "force_close" \notin Commands
        BY <2>1 DEF TurnsOneWay
    <2>3. CASE state = "HOLD"
        <3>1. Drive(bridge) = "off"
            BY <2>3, Directions DEF StrokeStates
        <3>2. Drive(bridge') = "off"
            BY <2>1, <3>1
        <3> QED BY <3>2, StepsOff
    <2>4. CASE UNCHANGED fsmVars
        BY <2>1, <2>4, Unstirred DEF fsmVars
    <2>5. CASE state \notin {"OPEN_START", "OPENING"} /\ Enter("OPEN_START")
        BY <2>1, <2>2, <2>5, TurnWatched DEF Enter
    <2> QED BY <1>3, <2>3, <2>4, <2>5 DEF StartMaintenance
<1>4. CASE StopMaintenance
    <2>1. UNCHANGED <<bridge, loopDue, chg, chgAge, lowOpen>>
        BY <1>4 DEF StopMaintenance, Commanded, chargeVars
    <2>2. CASE state = "MAINTENANCE"
        <3>1. Drive(bridge) = "off"
            BY <2>2, Directions DEF StrokeStates
        <3>2. Drive(bridge') = "off"
            BY <2>1, <3>1
        <3> QED BY <3>2, StepsOff
    <2>3. CASE UNCHANGED fsmVars
        BY <2>1, <2>3, Unstirred DEF fsmVars
    <2> QED BY <1>4, <2>2, <2>3 DEF StopMaintenance
<1>5. CASE ResetEmergency
    <2>1. state = "EMERGENCY_STOP" /\ bridge' = [bridge EXCEPT !.isolated = FALSE]
        BY <1>5 DEF ResetEmergency
    <2>2. ~bridge.main
        BY <2>1 DEF LidInv, DriveInv, StrokeStates
    <2>3. ~bridge'.main
        BY <1>t, <2>1, <2>2, ClearedFacts
    <2> QED BY <2>3, DriveOff, StepsOff
<1>6. CASE RequestChargingClose
    BY <1>6, RequestWatched
<1>7. ASSUME bridge' = ForcedOff(bridge) PROVE StrokeInv'
    BY <1>t, <1>7, ForcedOffFacts, DriveOff, StepsOff
<1>8. ASSUME NEW kind \in {"normal", "recovery", "force"}, TryBeginOta(kind)
      PROVE  StrokeInv'
    BY <1>7, <1>8 DEF TryBeginOta
<1>9. CASE FinishOtaWithoutReboot
    BY <1>7, <1>9 DEF FinishOtaWithoutReboot
<1> QED BY <1>1, <1>2, <1>3, <1>4, <1>5, <1>6, <1>8, <1>9 DEF Command

\* A unit of time ages the drive no more than the timer that bounds it, and no
\* such timer had already reached its limit.
LEMMA TickWatched ==
    ASSUME TypeOK, LidInv, StrokeInv, StrokeNext, Tick
    PROVE  StrokeInv'
<1>t. /\ timer \in 0 .. TimerCap /\ chgAge \in 0 .. ChargingTime /\ driveAge \in Nat
      /\ ActuatorTime \in Nat /\ ChargingTime \in Nat /\ TimerCap \in Nat
      /\ TimerCap >= ActuatorTime
    BY TypeParts, Limits DEF FsmTyped, ChargeTyped, StrokeInv
<1>1. /\ UNCHANGED <<bridge, state, chg, lowOpen>> /\ ~loopDue /\ loopDue'
      /\ lowOpen \/ state \in {"OPENING", "CLOSING"} => timer' = Capped(timer, TimerCap)
      /\ chg = "RUNNING" => chgAge' = Capped(chgAge, ChargingTime)
    BY DEF Tick
<1>2. Drive(bridge') = Drive(bridge)
    BY <1>1
<1>3. IF Drive(bridge) = "off" THEN driveAge' = 0 ELSE driveAge' = Capped(driveAge, DriveCap)
    BY <1>1, <1>2 DEF StrokeNext, Tick, Elapses
<1>4. driveAge' \in Nat /\ driveAge' <= driveAge + 1
    BY <1>t, <1>3 DEF Capped, DriveCap
<1>5. ASSUME Drive(bridge) # "off" PROVE StrokeWatched'
    <2>1. CASE /\ state = "OPEN_START" /\ Drive(bridge) = "close" /\ "force_close" \notin Commands
               /\ Watched(driveAge, ActuatorTime)
        <3>1. driveAge' <= ActuatorTime
            BY <1>t, <1>1, <1>4, <2>1 DEF Watched
        <3> QED BY <1>1, <1>2, <2>1, <3>1 DEF StrokeWatched, Watched
    <2>2. CASE /\ state = "CLOSE_START" /\ Drive(bridge) = "open" /\ "force_close" \in Commands
               /\ Watched(driveAge, ActuatorTime)
        <3>1. driveAge' <= ActuatorTime
            BY <1>t, <1>1, <1>4, <2>2 DEF Watched
        <3> QED BY <1>1, <1>2, <2>2, <3>1 DEF StrokeWatched, Watched
    <2>3. CASE /\ state \in {"OPENING", "CLOSING"}
               /\ driveAge <= timer /\ Watched(timer, ActuatorTime)
        <3>1. timer' = timer + 1 /\ timer' <= ActuatorTime /\ driveAge' <= timer'
            BY <1>t, <1>1, <1>4, <2>3 DEF Watched, Capped
        <3> QED BY <1>1, <2>3, <3>1 DEF StrokeWatched, Watched
    <2>4. CASE /\ state = "BATTERY_LOW_SHUTDOWN" /\ chg = "RUNNING"
               /\ driveAge <= chgAge /\ Watched(chgAge, ChargingTime)
        <3>1. chgAge' = chgAge + 1 /\ chgAge' <= ChargingTime /\ driveAge' <= chgAge'
            BY <1>t, <1>1, <1>4, <2>4 DEF Watched, Capped
        <3> QED BY <1>1, <2>4, <3>1 DEF StrokeWatched, Watched
    <2>5. CASE /\ state = "BATTERY_LOW_SHUTDOWN" /\ chg # "RUNNING"
               /\ lowOpen /\ Drive(bridge) = "open"
               /\ driveAge <= ActuatorTime + timer /\ Watched(timer, ActuatorTime)
        <3>1. /\ timer' = timer + 1 /\ timer' <= ActuatorTime
              /\ driveAge' <= ActuatorTime + timer'
            BY <1>t, <1>1, <1>4, <2>5 DEF Watched, Capped
        <3> QED BY <1>1, <1>2, <2>5, <3>1 DEF StrokeWatched, Watched
    <2> QED BY <1>5, <2>1, <2>2, <2>3, <2>4, <2>5 DEF StrokeInv, StrokeWatched
<1> QED BY <1>2, <1>3, <1>4, <1>5 DEF StrokeInv

LEMMA StrokeStep ==
    TurnsOneWay /\ TypeOK /\ LidInv /\ StrokeInv /\ [StrokeNext]_strokeVars => StrokeInv'
<1> SUFFICES ASSUME TurnsOneWay, TypeOK, LidInv, StrokeInv, [StrokeNext]_strokeVars
             PROVE  StrokeInv'
    OBVIOUS
<1>1. CASE UNCHANGED strokeVars
    <2>1. UNCHANGED <<bridge, state, timer, chg, chgAge, lowOpen, loopDue, driveAge>>
        BY <1>1 DEF strokeVars, vars, fsmVars, chargeVars
    <2>2. AgeKept
        BY <2>1 DEF AgeKept, StrokeInv
    <2> QED BY <2>1, <2>2, Unstirred
<1>2. ASSUME StrokeNext, Tick PROVE StrokeInv'
    BY <1>2, TickWatched
<1>3. ASSUME StrokeNext, Boot PROVE StrokeInv'
    <2>1. ~bridge'.main /\ state = "OFF"
        BY <1>3 DEF Boot, BootBridge
    <2> QED BY <1>3, <2>1, NoTime, DriveOff, StepsOff DEF Elapses
<1>4. ASSUME StrokeNext, PowerLoss PROVE StrokeInv'
    <2>1. ~bridge'.main /\ ~loopDue'
        BY <1>4 DEF PowerLoss, ForcedOff, BootBridge
    <2> QED BY <1>4, <2>1, NoTime, DriveOff, StepsOff DEF Elapses
<1>5. ASSUME StrokeNext, Update PROVE StrokeInv'
    <2>1. ~loopDue'
        BY <1>5 DEF Update, ServiceCharging, ServiceProtected, ServiceRecovered, ServiceBlocked,
           UpdateIdle, UpdateOpenStart, UpdateOpening, UpdateHold, UpdateCloseStart,
           UpdateClosing, UpdateEmergency, UpdateMaintenance, Runs, UpdateBegins
    <2>2. AgeKept
        BY <1>5, <2>1, NoTime DEF Elapses
    <2> QED BY <1>5, <2>2, HandlersWatched, ServiceWatched, ChargingWatched DEF Update
<1>6. ASSUME StrokeNext, Command PROVE StrokeInv'
    <2>1. loopDue' = loopDue
        BY <1>6 DEF Command, ForceOpen, ForceClose, ResetEmergency, StartMaintenance,
           StopMaintenance, RequestChargingClose, TryBeginOta, FinishOtaWithoutReboot, Commanded
    <2>2. AgeKept
        BY <1>6, <2>1, NoTime DEF Elapses
    <2> QED BY <1>6, <2>2, CommandsWatched
<1>7. CASE StrokeNext
    BY <1>2, <1>3, <1>4, <1>5, <1>6, <1>7 DEF StrokeNext, Next
<1> QED BY <1>1, <1>7

\* The motors are never driven in one direction for longer than a stroke, or
\* than an opening stroke and the fail-open stroke that follows it, whatever
\* the times, the readings and the persons at the box, as long as the commands
\* do not turn the lid both ways (update, forceOpen, forceClose,
\* startMaintenance, requestChargingClose).
THEOREM StrokesBounded ==
    ASSUME TurnsOneWay PROVE StrokeSpec => []StrokeBounded
<1>1. StrokeInit => TypeOK /\ LidInv /\ StrokeInv
    <2> SUFFICES ASSUME StrokeInit PROVE TypeOK /\ LidInv /\ StrokeInv
        OBVIOUS
    <2>1. TypeOK /\ LidInv
        BY InitTyped, InitInv DEF StrokeInit
    <2>2. ~bridge.main /\ driveAge = 0
        BY DEF StrokeInit, Init, PoweredOff, ForcedOff, BootBridge
    <2> QED BY <2>1, <2>2, DriveOff DEF StrokeInv
<1>2. [StrokeNext]_strokeVars => [Next]_vars
    BY DEF StrokeNext, strokeVars
<1>3. TypeOK /\ LidInv /\ StrokeInv /\ [StrokeNext]_strokeVars => TypeOK' /\ LidInv' /\ StrokeInv'
    BY <1>2, TypeStep, SafeStep, StrokeStep
<1>4. TypeOK /\ StrokeInv => StrokeBounded
    BY WatchedBounds
<1> QED BY <1>1, <1>3, <1>4, PTL DEF StrokeSpec
=============================================================================
