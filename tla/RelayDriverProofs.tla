------------------------- MODULE RelayDriverProofs --------------------------
(***************************************************************************)
(* For every sequence of calls, every delay of a contact and every reset:  *)
(* the interlock of the H-bridge, and that each call ends as module Bridge *)
(* says.                                                                   *)
(***************************************************************************)
EXTENDS RelayDriver, TLAPS

IInv == RelayTypeOK /\ InterlockInv

LEMMA InitIInv == RelayInit => IInv
<1> SUFFICES ASSUME RelayInit PROVE IInv
    OBVIOUS
<1> USE DEF RelayInit, Relays
<1>1. RelayTypeOK
    BY DEF RelayTypeOK, Labels, InitLabels, Dirs, BridgeType, BootBridge
<1>2. InterlockInv
    BY DEF InterlockInv, ColdLabels, MainInputLabels, InitLabels, MainHot, BothClosed, Coil, DirPins
<1> QED BY <1>1, <1>2 DEF IInv

\* The operators of module Bridge stay in their type.
LEMMA BridgeTyped ==
    ASSUME NEW b \in BridgeType, NEW on \in BOOLEAN, NEW d \in Dirs
    PROVE  /\ ForcedOff(b) \in BridgeType
           /\ SetRelays(b, on, d) \in BridgeType
           /\ [b EXCEPT !.isolated = FALSE] \in BridgeType
BY DEF BridgeType, ForcedOff, SetRelays, Switched, Redirected, DirChanged, Dirs

\* What the controller asks for: a drive always has a direction.
LEMMA RequestShape ==
    ASSUME NEW r \in Requests
    PROVE  r.on \in BOOLEAN /\ r.dir \in Dirs /\ (r.on => r.dir # "off")
<1>1. CASE r = [on |-> TRUE, dir |-> "open"]
    BY <1>1 DEF Dirs
<1>2. CASE r = [on |-> TRUE, dir |-> "close"]
    BY <1>2 DEF Dirs
<1>3. CASE r = [on |-> FALSE, dir |-> "off"]
    BY <1>3 DEF Dirs
<1> QED BY <1>1, <1>2, <1>3 DEF Requests

LEMMA TypeStep == RelayTypeOK /\ [RelayNext]_rvars => RelayTypeOK'
<1> SUFFICES ASSUME RelayTypeOK, [RelayNext]_rvars PROVE RelayTypeOK'
    OBVIOUS
<1> USE DEF RelayTypeOK, Labels, SetLabels, ForceLabels, InitLabels, Relays
<1>1. ASSUME NEW r \in Requests, CallSetRelayStates(r) PROVE RelayTypeOK'
    <2>1. r.on \in BOOLEAN /\ r.dir \in Dirs
        BY RequestShape
    <2>2. expected' \in BridgeType
        BY <1>1, <2>1, BridgeTyped DEF CallSetRelayStates
    <2> QED BY <1>1, <2>2 DEF CallSetRelayStates
<1>2. CASE CallForceAllRelaysOff
    <2>1. expected' \in BridgeType
        BY <1>2, BridgeTyped DEF CallForceAllRelaysOff, Dirs
    <2> QED BY <1>2, <2>1 DEF CallForceAllRelaysOff
<1>3. CASE ClearIsolation
    <2>1. expected' \in BridgeType
        BY <1>3, BridgeTyped DEF ClearIsolation, Dirs
    <2> QED BY <1>3, <2>1 DEF ClearIsolation
<1>4. CASE Reset
    BY <1>4 DEF Reset, Dirs, BootBridge, BridgeType
<1>5. ASSUME NEW r \in Relays, Follow(r) PROVE RelayTypeOK'
    BY <1>5 DEF Follow, Coil
<1>6. CASE Redirect
    <2>1. req.dir \in Dirs /\ \A p \in Relays : LevelFor(p) \in {"low", "high"}
        BY RequestShape DEF LevelFor
    <2> QED BY <1>6, <2>1 DEF Redirect, SetMode, WritePin, Delay
<1>7. CASE Check
    <2>1. ForcedOff(expected) \in BridgeType
        BY BridgeTyped DEF Dirs
    <2> QED BY <1>7, <2>1 DEF Check
<1>8. CASE SwitchMain \/ ForceOff \/ Start \/ InitPins
    BY <1>8 DEF SwitchMain, ForceOff, Start, InitPins, SetMode, WritePin, Delay
<1>9. CASE UNCHANGED rvars
    BY <1>9 DEF rvars
<1> QED BY <1>1, <1>2, <1>3, <1>4, <1>5, <1>6, <1>7, <1>8, <1>9 DEF RelayNext, Step

LEMMA InterlockStep == IInv /\ [RelayNext]_rvars => InterlockInv'
<1> SUFFICES ASSUME IInv, [RelayNext]_rvars PROVE InterlockInv'
    OBVIOUS
<1>t. RelayTypeOK /\ InterlockInv
    BY DEF IInv
<1> USE DEF InterlockInv, ColdLabels, MainInputLabels, MainHot, BothClosed, DirPins, Coil
<1>1. ASSUME NEW r \in Requests, CallSetRelayStates(r) PROVE InterlockInv'
    BY <1>1, <1>t DEF CallSetRelayStates, Changed, Requests, RelayTypeOK, InitLabels, LevelFor
<1>2. CASE CallForceAllRelaysOff
    BY <1>2, <1>t DEF CallForceAllRelaysOff, InitLabels, LevelFor
<1>3. CASE ClearIsolation
    BY <1>3, <1>t DEF ClearIsolation, InitLabels, LevelFor
<1>4. CASE Reset
    BY <1>4, <1>t DEF Reset, InitLabels, LevelFor, Relays, RelayTypeOK
<1>5. ASSUME NEW r \in Relays, Follow(r) PROVE InterlockInv'
    BY <1>5, <1>t DEF Follow, Relays, RelayTypeOK, InitLabels, LevelFor
<1>6. CASE Redirect
    <2> USE DEF SetMode, WritePin, Delay, InitLabels, Relays, RelayTypeOK
    <2>1. CASE pc \in {"release", "separate"}
        BY <1>6, <1>t, <2>1 DEF Redirect, Settled, LevelFor
    <2>2. CASE pc \in {"neutral A", "neutral B", "restore A", "restore B"}
        BY <1>6, <1>t, <2>2 DEF Redirect, LevelFor
    <2>3. CASE pc \in {"select A", "select B"}
        BY <1>6, <1>t, <2>3 DEF Redirect, LevelFor
    <2>4. CASE pc = "settle"
        BY <1>6, <1>t, <2>4 DEF Redirect, Settled, LevelFor
    <2> QED BY <1>6, <2>1, <2>2, <2>3, <2>4 DEF Redirect
<1>7. CASE Check
    BY <1>7, <1>t DEF Check, InitLabels, LevelFor
<1>8. CASE SwitchMain
    <2>1. req.on => req.dir # "off"
        BY <1>t, RequestShape DEF RelayTypeOK
    <2> QED BY <1>8, <1>t, <2>1 DEF SwitchMain, SetMode, WritePin, InitLabels, LevelFor, Relays,
                                    RelayTypeOK
<1>9. CASE ForceOff
    BY <1>9, <1>t DEF ForceOff, SetMode, InitLabels, LevelFor, Relays, RelayTypeOK
<1>10. CASE Start
    BY <1>10, <1>t DEF Start, Delay, Settled, InitLabels, LevelFor, Relays, RelayTypeOK
<1>11. CASE InitPins
    BY <1>11, <1>t DEF InitPins, SetMode, WritePin, InitLabels, LevelFor, Relays, RelayTypeOK
<1>12. CASE UNCHANGED rvars
    BY <1>12, <1>t DEF rvars, InitLabels, LevelFor
<1> QED BY <1>1, <1>2, <1>3, <1>4, <1>5, <1>6, <1>7, <1>8, <1>9, <1>10, <1>11, <1>12
        DEF RelayNext, Step

\* Every reachable state of the driver is typed and satisfies the inductive
\* invariant of the interlock.
THEOREM DriverInvariant == RelaySpec => [](RelayTypeOK /\ InterlockInv)
<1>1. IInv /\ [RelayNext]_rvars => IInv'
    BY TypeStep, InterlockStep DEF IInv
<1> QED BY InitIInv, <1>1, PTL DEF RelaySpec, IInv

\* The interlock: for every order of calls and resets and every delay of a
\* contact, no direction contact is made under power and power never meets
\* both directions (setRelayStates, forceAllRelaysOff, init).
THEOREM InterlockHolds == RelaySpec => ContactsInterlocked
<1>1. RelayInit => Contacts!BridgeInit
    BY DEF RelayInit, Contacts!BridgeInit, Engaged, Relays
<1>2. IInv /\ [RelayNext]_rvars => [Contacts!BridgeNext]_<<contact["main"], Engaged>>
    <2> SUFFICES ASSUME IInv, [RelayNext]_rvars
                 PROVE  [Contacts!BridgeNext]_<<contact["main"], Engaged>>
        OBVIOUS
    <2>t. RelayTypeOK /\ InterlockInv
        BY DEF IInv
    <2> USE DEF Contacts!BridgeNext
    <2>1. CASE \E r \in Relays : Follow(r)
        <3>1. PICK r \in Relays : Follow(r)
            BY <2>1
        <3>2. contact' = [contact EXCEPT ![r] = Coil(r)] /\ contact[r] # Coil(r)
            BY <3>1 DEF Follow
        <3>3. contact \in [Relays -> BOOLEAN] /\ Coil(r) \in BOOLEAN
            BY <2>t DEF RelayTypeOK, Coil
        <3>4. CASE r = "main"
            <4>1. Engaged' = Engaged
                BY <3>2, <3>3, <3>4 DEF Engaged, Relays
            <4>2. CASE Coil("main")
                <5>1. ~BothClosed
                    BY <2>t, <4>2 DEF InterlockInv, MainHot, Coil
                <5>2. Engaged # "both"
                    BY <5>1 DEF Engaged, BothClosed
                <5>3. contact["main"]'
                    BY <3>2, <3>3, <3>4, <4>2 DEF Relays
                <5> QED BY <4>1, <5>2, <5>3 DEF Contacts!PowerOn
            <4>3. CASE ~Coil("main")
                <5>1. ~contact["main"]'
                    BY <3>2, <3>3, <3>4, <4>3 DEF Relays
                <5> QED BY <4>1, <5>1, <3>3, <3>2 DEF Contacts!PowerOff, Relays
            <4> QED BY <4>2, <4>3
        <3>5. CASE r # "main"
            <4>1. contact["main"]' = contact["main"]
                BY <3>2, <3>3, <3>5 DEF Relays
            <4>2. CASE contact["main"]
                <5>1. pc \notin ColdLabels /\ ~BothClosed
                    BY <2>t, <4>2 DEF InterlockInv, MainHot
                <5>2. r \in DirPins /\ ~Coil(r)
                    BY <2>t, <5>1, <3>2, <3>3, <3>5 DEF InterlockInv, DirPins, Relays
                <5>3. Engaged' = "off"
                    BY <3>2, <3>3, <5>1, <5>2 DEF Engaged, DirPins, BothClosed, Relays
                <5> QED BY <4>1, <5>3 DEF Contacts!LetGo
            <4>3. CASE ~contact["main"]
                <5>1. Engaged' \in Contacts!Closed
                    BY DEF Engaged, Contacts!Closed
                <5> QED BY <4>1, <4>3, <5>1 DEF Contacts!Make
            <4> QED BY <4>2, <4>3
        <3> QED BY <3>4, <3>5
    <2>2. CASE UNCHANGED contact
        BY <2>2 DEF Engaged
    <2>3. (\E r \in Relays : Follow(r)) \/ UNCHANGED contact
        BY DEF RelayNext, Step, CallSetRelayStates, CallForceAllRelaysOff, ClearIsolation, Reset,
               Redirect, Check, SwitchMain, ForceOff, Start, InitPins, SetMode, WritePin, Delay,
               rvars
    <2> QED BY <2>1, <2>2, <2>3
<1>3. RelaySpec => []IInv
    BY DriverInvariant, PTL DEF IInv
<1> QED BY <1>1, <1>2, <1>3, PTL DEF RelaySpec, ContactsInterlocked, Contacts!BridgeSpec

-----------------------------------------------------------------------------
(* What the driver owes module Bridge in the middle of a call *)

PinsView ==
    IF latch["open"] = "low" THEN "open" ELSE IF latch["close"] = "low" THEN "close" ELSE "off"

Outputs(b) == \A p \in DirPins : b <=> mode[p] = "output"

IdleView ==
    pc = "idle" =>
        /\ expected.main <=> Coil("main")
        /\ Outputs(expected.driven)
        /\ expected.latch = PinsView /\ expected.last = last
        /\ expected.isolated <=> isolated

\* The direction contacts are being moved: the cache is already promised.
RedirectLabels ==
    {"release", "separate", "neutral A", "neutral B", "restore A", "restore B",
     "select A", "select B", "settle"}

SetView ==
    pc \in SetLabels =>
        /\ expected.main <=> req.on
        /\ expected.isolated <=> isolated /\ ~req.on
        /\ pc \in RedirectLabels => expected.latch = req.dir /\ expected.last = req.dir
        /\ pc \notin RedirectLabels =>
             /\ Outputs(expected.driven)
             /\ expected.latch = PinsView /\ expected.last = last
        /\ pc \in {"release", "separate", "neutral A", "neutral B"} =>
             (mode["open"] = "output" <=> mode["close"] = "output")
        /\ pc \in {"release", "separate", "neutral A", "neutral B"} /\ ~req.on =>
             Outputs(expected.driven)
        /\ pc \in {"release", "separate", "neutral A", "neutral B"} /\ req.on => expected.driven
        /\ pc \in {"restore A", "restore B"} => req.on /\ expected.driven
        /\ pc = "restore B" => mode["open"] = "output"
        /\ pc \in {"select A", "select B", "settle"} => Outputs(expected.driven)
        /\ pc = "main on" => mode["main"] = "output"
        /\ pc = "main off" => ~req.on

ForceView ==
    pc \in ForceLabels =>
        /\ ~expected.main /\ ~expected.driven /\ expected.isolated
        /\ expected.latch = PinsView /\ expected.last = last
        /\ pc \in {"force A", "force B"} => mode["main"] # "output"
        /\ pc = "force B" => mode["open"] # "output"

InitView ==
    pc \in InitLabels =>
        /\ expected = BootBridge /\ ~isolated
        /\ pc \in {"init B", "high A", "high B"} => mode["open"] = "output"
        /\ pc \in {"high A", "high B"} => mode["close"] = "output"

ViewInv == IdleView /\ SetView /\ ForceView /\ InitView

\* What a call promises, field by field.
LEMMA Promised ==
    ASSUME NEW b \in BridgeType, NEW on \in BOOLEAN, NEW d \in Dirs
    PROVE  LET s == SetRelays(b, on, d)
               moves == d # b.last \/ (on /\ b.isolated) IN
           /\ s.main <=> on
           /\ s.isolated <=> b.isolated /\ ~on
           /\ s.driven <=> b.driven \/ (moves /\ on)
           /\ s.latch = (IF moves THEN d ELSE b.latch)
           /\ s.last = (IF moves THEN d ELSE b.last)
BY DEF BridgeType, SetRelays, Switched, Redirected, DirChanged, Dirs

LEMMA PromisedOff ==
    ASSUME NEW b \in BridgeType
    PROVE  LET s == ForcedOff(b) IN
           ~s.main /\ ~s.driven /\ s.isolated /\ s.latch = b.latch /\ s.last = b.last
BY DEF BridgeType, ForcedOff

\* Between the calls the driver owes what module Bridge says it has.
LEMMA ViewAtReturn == RelayTypeOK => (IdleView <=> BridgeIsView)
<1> SUFFICES ASSUME RelayTypeOK PROVE IdleView <=> BridgeIsView
    OBVIOUS
<1>1. /\ expected.main \in BOOLEAN /\ expected.driven \in BOOLEAN
      /\ expected.isolated \in BOOLEAN /\ isolated \in BOOLEAN /\ Coil("main") \in BOOLEAN
    BY DEF RelayTypeOK, BridgeType, Coil
<1>2. /\ expected.main = Coil("main") <=> (expected.main <=> Coil("main"))
      /\ expected.isolated = isolated <=> (expected.isolated <=> isolated)
    BY <1>1, Zenon
<1>3. (\A p \in DirPins : expected.driven = (mode[p] = "output")) <=> Outputs(expected.driven)
    BY <1>1, Zenon DEF Outputs
<1>4. PinsView = CASE latch["open"] = "low"                           -> "open"
                   [] latch["open"] # "low" /\ latch["close"] = "low" -> "close"
                   [] OTHER                                           -> "off"
    BY DEF PinsView
<1> QED BY <1>2, <1>3, <1>4 DEF IdleView, BridgeIsView

\* What a pin write changes.
LEMMA ModeWritten ==
    ASSUME RelayTypeOK, NEW pin \in Relays, NEW m, mode' = [mode EXCEPT ![pin] = m],
           UNCHANGED latch
    PROVE  /\ mode'[pin] = m /\ \A r \in Relays : r # pin => mode'[r] = mode[r]
           /\ PinsView' = PinsView
BY DEF RelayTypeOK, PinsView

LEMMA LevelWritten ==
    ASSUME RelayTypeOK, NEW pin \in Relays, NEW v, latch' = [latch EXCEPT ![pin] = v]
    PROVE  latch'[pin] = v /\ \A r \in Relays : r # pin => latch'[r] = latch[r]
BY DEF RelayTypeOK

LEMMA ViewStart == RelayInit => ViewInv
BY DEF RelayInit, ViewInv, IdleView, SetView, ForceView, InitView, SetLabels, ForceLabels,
       InitLabels

LEMMA ViewStep == IInv /\ ViewInv /\ [RelayNext]_rvars => ViewInv'
<1> SUFFICES ASSUME IInv, ViewInv, [RelayNext]_rvars PROVE ViewInv'
    OBVIOUS
<1>t. /\ RelayTypeOK /\ InterlockInv
      /\ IdleView /\ SetView /\ ForceView /\ InitView
    BY DEF IInv, ViewInv
<1>q. req.on \in BOOLEAN /\ req.dir \in Dirs /\ (req.on => req.dir # "off")
    BY <1>t, RequestShape DEF RelayTypeOK
<1>b. expected \in BridgeType
    BY <1>t DEF RelayTypeOK
<1> USE DEF ViewInv, IdleView, SetView, ForceView, InitView, Outputs, Coil, DirPins,
            RedirectLabels, SetLabels, ForceLabels, InitLabels
<1>1. ASSUME NEW r \in Requests, CallSetRelayStates(r) PROVE ViewInv'
    <2>1. r.on \in BOOLEAN /\ r.dir \in Dirs
        BY RequestShape
    <2>2. pc = "idle" /\ expected' = SetRelays(expected, r.on, r.dir) /\ req' = r
          /\ pc' = (IF Changed(r) THEN "release" ELSE "check")
          /\ UNCHANGED <<mode, latch, contact, last, isolated>>
        BY <1>1 DEF CallSetRelayStates
    <2>3. PinsView' = PinsView
        BY <2>2 DEF PinsView
    <2> DEFINE moves == r.dir # expected.last \/ (r.on /\ expected.isolated)
    <2>4. /\ expected'.main <=> r.on
          /\ expected'.isolated <=> expected.isolated /\ ~r.on
          /\ expected'.driven <=> expected.driven \/ (moves /\ r.on)
          /\ expected'.latch = (IF moves THEN r.dir ELSE expected.latch)
          /\ expected'.last = (IF moves THEN r.dir ELSE expected.last)
        BY <2>1, <2>2, <1>b, Promised
    <2>5. Changed(r) <=> moves
        BY <1>t, <2>2 DEF Changed
    <2> QED BY <1>t, <2>1, <2>2, <2>3, <2>4, <2>5
<1>2. CASE CallForceAllRelaysOff
    <2>1. /\ ~expected'.main /\ ~expected'.driven /\ expected'.isolated
          /\ expected'.latch = expected.latch /\ expected'.last = expected.last
        BY <1>2, <1>b, PromisedOff DEF CallForceAllRelaysOff
    <2>2. PinsView' = PinsView
        BY <1>2 DEF PinsView, CallForceAllRelaysOff
    <2> QED BY <1>2, <1>t, <2>1, <2>2 DEF CallForceAllRelaysOff
<1>3. CASE ClearIsolation
    <2>1. /\ ~expected'.isolated /\ expected'.main = expected.main
          /\ expected'.driven = expected.driven
          /\ expected'.latch = expected.latch /\ expected'.last = expected.last
        BY <1>3, <1>b DEF ClearIsolation, BridgeType
    <2>2. PinsView' = PinsView
        BY <1>3 DEF PinsView, ClearIsolation
    <2> QED BY <1>3, <1>t, <2>1, <2>2 DEF ClearIsolation
<1>4. CASE Reset
    BY <1>4 DEF Reset, Relays
<1>5. ASSUME NEW r \in Relays, Follow(r) PROVE ViewInv'
    BY <1>5, <1>t DEF Follow, PinsView
<1>6. CASE Redirect
    <2>m. "main" \in Relays /\ "open" \in Relays /\ "close" \in Relays
        BY DEF Relays
    <2> USE DEF SetMode, WritePin, Delay
    <2>1. CASE pc = "release"
        <3>1. /\ pc' = "separate" /\ mode' = [mode EXCEPT !["main"] = "input"]
              /\ UNCHANGED <<latch, last, isolated, req, expected>>
            BY <1>6, <2>1 DEF Redirect
        <3>2. mode'["open"] = mode["open"] /\ mode'["close"] = mode["close"]
            BY <1>t, <2>m, <3>1, ModeWritten
        <3> QED BY <1>t, <2>1, <3>1, <3>2
    <2>2. CASE pc = "separate"
        <3>1. pc' = "neutral A" /\ UNCHANGED <<mode, latch, last, isolated, req, expected>>
            BY <1>6, <2>2 DEF Redirect
        <3> QED BY <1>t, <2>2, <3>1
    <2>3. CASE pc = "neutral A"
        <3>1. pc' = "neutral B" /\ UNCHANGED <<mode, last, isolated, req, expected>>
            BY <1>6, <2>3 DEF Redirect
        <3> QED BY <1>t, <2>3, <3>1
    <2>4. CASE pc = "neutral B"
        <3>1. /\ pc' = (IF req.on THEN "restore A" ELSE "select A")
              /\ UNCHANGED <<mode, last, isolated, req, expected>>
            BY <1>6, <2>4 DEF Redirect
        <3>2. CASE req.on
            BY <1>t, <2>4, <3>1, <3>2
        <3>3. CASE ~req.on
            BY <1>t, <2>4, <3>1, <3>3
        <3> QED BY <3>2, <3>3
    <2>5. CASE pc = "restore A"
        <3>1. /\ pc' = "restore B" /\ mode' = [mode EXCEPT !["open"] = "output"]
              /\ UNCHANGED <<latch, last, isolated, req, expected>>
            BY <1>6, <2>5 DEF Redirect
        <3>2. mode'["open"] = "output"
            BY <1>t, <2>m, <3>1, ModeWritten
        <3> QED BY <1>t, <2>5, <3>1, <3>2
    <2>6. CASE pc = "restore B"
        <3>1. /\ pc' = "select A" /\ mode' = [mode EXCEPT !["close"] = "output"]
              /\ UNCHANGED <<latch, last, isolated, req, expected>>
            BY <1>6, <2>6 DEF Redirect
        <3>2. mode'["open"] = mode["open"] /\ mode'["close"] = "output"
            BY <1>t, <2>m, <3>1, ModeWritten
        <3> QED BY <1>t, <2>6, <3>1, <3>2
    <2>7. CASE pc \in {"select A", "select B"}
        <3>1. pc' \in {"select B", "settle"} /\ UNCHANGED <<mode, last, isolated, req, expected>>
            BY <1>6, <2>7 DEF Redirect
        <3> QED BY <1>t, <2>7, <3>1
    <2>8. CASE pc = "settle"
        <3>1. PinsView = req.dir
            BY <1>t, <1>q, <2>8 DEF InterlockInv, LevelFor, Dirs, PinsView
        <3>2. /\ pc' = "check" /\ last' = req.dir
              /\ UNCHANGED <<mode, latch, isolated, req, expected>>
            BY <1>6, <2>8 DEF Redirect
        <3>3. PinsView' = PinsView
            BY <3>2 DEF PinsView
        <3> QED BY <1>t, <2>8, <3>1, <3>2, <3>3
    <2> QED BY <1>6, <2>1, <2>2, <2>3, <2>4, <2>5, <2>6, <2>7, <2>8 DEF Redirect
<1>7. CASE Check
    <2>1. PinsView' = PinsView
        BY <1>7 DEF Check, PinsView
    <2>2. CASE UNCHANGED expected /\ pc' = (IF req.on THEN "main pin" ELSE "main off")
        <3>1. pc = "check" /\ UNCHANGED <<mode, last, isolated, req>>
            BY <1>7 DEF Check
        <3>2. CASE req.on
            BY <1>t, <2>1, <2>2, <3>1, <3>2
        <3>3. CASE ~req.on
            BY <1>t, <2>1, <2>2, <3>1, <3>3
        <3> QED BY <3>2, <3>3
    <2>3. CASE expected' = ForcedOff(expected) /\ pc' = "force main"
        <3>1. /\ ~expected'.main /\ ~expected'.driven /\ expected'.isolated
              /\ expected'.latch = expected.latch /\ expected'.last = expected.last
            BY <1>b, <2>3, PromisedOff
        <3> QED BY <1>7, <1>t, <2>1, <2>3, <3>1 DEF Check
    <2> QED BY <1>7, <2>2, <2>3 DEF Check
<1>8. CASE SwitchMain
    <2>m. "main" \in Relays /\ "open" \in Relays /\ "close" \in Relays
        BY DEF Relays
    <2> USE DEF SetMode, WritePin
    <2>1. CASE pc \in {"main pin", "main off"}
        <3>1. /\ pc = "main pin" => pc' = "main on" /\ mode' = [mode EXCEPT !["main"] = "output"]
              /\ pc = "main off" => pc' = "idle" /\ mode' = [mode EXCEPT !["main"] = "input"]
              /\ UNCHANGED <<latch, last, isolated, req, expected>>
            BY <1>8, <2>1 DEF SwitchMain
        <3>2. /\ mode'["open"] = mode["open"] /\ mode'["close"] = mode["close"] /\ PinsView' = PinsView
              /\ pc = "main pin" => mode'["main"] = "output"
              /\ pc = "main off" => mode'["main"] = "input"
            BY <1>t, <2>1, <2>m, <3>1, ModeWritten
        <3> QED BY <1>t, <2>1, <3>1, <3>2
    <2>2. CASE pc = "main on"
        <3>1. /\ pc' = "idle" /\ latch' = [latch EXCEPT !["main"] = "low"] /\ ~isolated'
              /\ UNCHANGED <<mode, last, req, expected>>
            BY <1>8, <2>2 DEF SwitchMain
        <3>2. latch'["main"] = "low" /\ latch'["open"] = latch["open"] /\ latch'["close"] = latch["close"]
            BY <1>t, <2>m, <3>1, LevelWritten
        <3>3. PinsView' = PinsView /\ req.on
            BY <1>t, <2>2, <3>2 DEF PinsView, InterlockInv
        <3> QED BY <1>t, <2>2, <3>1, <3>2, <3>3
    <2> QED BY <1>8, <2>1, <2>2 DEF SwitchMain
<1>9. CASE ForceOff
    <2>m. "main" \in Relays /\ "open" \in Relays /\ "close" \in Relays
        BY DEF Relays
    <2> USE DEF SetMode
    <2>1. CASE pc = "force main"
        <3>1. /\ pc' = "force A" /\ mode' = [mode EXCEPT !["main"] = "input"]
              /\ UNCHANGED <<latch, last, isolated, req, expected>>
            BY <1>9, <2>1 DEF ForceOff
        <3>2. mode'["main"] = "input" /\ PinsView' = PinsView
            BY <1>t, <2>m, <3>1, ModeWritten
        <3> QED BY <1>t, <2>1, <3>1, <3>2
    <2>2. CASE pc = "force A"
        <3>1. /\ pc' = "force B" /\ mode' = [mode EXCEPT !["open"] = "input"]
              /\ UNCHANGED <<latch, last, isolated, req, expected>>
            BY <1>9, <2>2 DEF ForceOff
        <3>2. mode'["open"] = "input" /\ mode'["main"] = mode["main"] /\ PinsView' = PinsView
            BY <1>t, <2>m, <3>1, ModeWritten
        <3> QED BY <1>t, <2>2, <3>1, <3>2
    <2>3. CASE pc = "force B"
        <3>1. /\ pc' = "idle" /\ mode' = [mode EXCEPT !["close"] = "input"] /\ isolated'
              /\ UNCHANGED <<latch, last, req, expected>>
            BY <1>9, <2>3 DEF ForceOff
        <3>2. mode'["close"] = "input" /\ mode'["main"] = mode["main"] /\ mode'["open"] = mode["open"] /\ PinsView' = PinsView
            BY <1>t, <2>m, <3>1, ModeWritten
        <3> QED BY <1>t, <2>3, <3>1, <3>2
    <2> QED BY <1>9, <2>1, <2>2, <2>3 DEF ForceOff
<1>10. CASE Start
    BY <1>10, <1>t DEF Start, Delay
<1>11. CASE InitPins
    <2>m. "main" \in Relays /\ "open" \in Relays /\ "close" \in Relays
        BY DEF Relays
    <2>b. pc' \in InitLabels \cup {"idle"} /\ UNCHANGED <<last, isolated, req, expected>>
        BY <1>11 DEF InitPins, SetMode, WritePin
    <2>c. expected = BootBridge /\ ~isolated /\ last = "off" /\ mode["main"] # "output"
        BY <1>11, <1>t DEF InitPins, SetMode, WritePin, InterlockInv, MainInputLabels, ColdLabels
    <2> USE DEF SetMode, WritePin, BootBridge
    <2>1. CASE pc \in {"init main", "pull A", "pull B"}
        <3>1. pc' \in {"pull A", "pull B", "init A"}
            BY <1>11, <2>1 DEF InitPins
        <3> QED BY <2>b, <2>c, <3>1
    <2>2. CASE pc = "init A"
        <3>1. pc' = "init B" /\ mode' = [mode EXCEPT !["open"] = "output"] /\ UNCHANGED latch
            BY <1>11, <2>2 DEF InitPins
        <3>2. mode'["open"] = "output"
            BY <1>t, <2>m, <3>1, ModeWritten
        <3> QED BY <2>b, <2>c, <3>1, <3>2
    <2>3. CASE pc = "init B"
        <3>1. pc' = "high A" /\ mode' = [mode EXCEPT !["close"] = "output"] /\ UNCHANGED latch
            BY <1>11, <2>3 DEF InitPins
        <3>2. mode'["close"] = "output" /\ mode'["open"] = mode["open"]
            BY <1>t, <2>m, <3>1, ModeWritten
        <3> QED BY <1>t, <2>3, <2>b, <2>c, <3>1, <3>2
    <2>4. CASE pc = "high A"
        <3>1. pc' = "high B" /\ UNCHANGED mode
            BY <1>11, <2>4 DEF InitPins
        <3> QED BY <1>t, <2>4, <2>b, <2>c, <3>1
    <2>5. CASE pc = "high B"
        <3>1. pc' = "idle" /\ latch' = [latch EXCEPT !["close"] = "high"] /\ UNCHANGED mode
            BY <1>11, <2>5 DEF InitPins
        <3>2. latch'["close"] = "high" /\ latch'["open"] = "high"
            BY <1>t, <2>m, <2>5, <3>1, LevelWritten DEF InterlockInv
        <3>3. PinsView' = "off"
            BY <3>2 DEF PinsView
        <3> QED BY <1>t, <2>5, <2>b, <2>c, <3>1, <3>3
    <2> QED BY <1>11, <2>1, <2>2, <2>3, <2>4, <2>5 DEF InitPins
<1>12. CASE UNCHANGED rvars
    BY <1>12, <1>t DEF rvars, PinsView
<1> QED BY <1>1, <1>2, <1>3, <1>4, <1>5, <1>6, <1>7, <1>8, <1>9, <1>10, <1>11, <1>12
        DEF RelayNext, Step

\* Every call of setRelayStates, forceAllRelaysOff and init that returns leaves
\* the pins, the cached direction and the isolation flag as module Bridge, from
\* which LidController is built, says: after any sequence of calls and resets.
THEOREM BridgeDescribesDriver == RelaySpec => []BridgeIsView
<1>1. RelaySpec => []IInv
    BY DriverInvariant, PTL DEF IInv
<1>2. IInv /\ ViewInv => BridgeIsView
    BY ViewAtReturn DEF ViewInv, IInv
<1> QED BY ViewStart, ViewStep, <1>1, <1>2, PTL DEF RelaySpec
=============================================================================
