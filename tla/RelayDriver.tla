---------------------------- MODULE RelayDriver -----------------------------
(***************************************************************************)
(* setRelayStates, forceAllRelaysOff and init, pin write by pin write, and *)
(* the three relays behind the pins.  A coil is energised by an output pin *)
(* driven LOW; its contact follows some time later, but within the 100 ms  *)
(* for which the code waits.  The board may reset between any two writes.  *)
(*                                                                         *)
(* The calls are serialised by dataMutex: one runs at a time.              *)
(***************************************************************************)
EXTENDS Bridge

VARIABLES
    mode,      \* pinMode of each relay pin
    latch,     \* level last written to each relay pin
    contact,   \* contact of each relay
    last,      \* lastDirOpen / lastDirClose
    isolated,  \* relaysIsolated
    pc,        \* the next statement of the running call
    req,       \* the arguments of the running setRelayStates
    expected   \* history: the bridge as module Bridge has it at the next return

pins == <<mode, latch>>
rvars == <<mode, latch, contact, last, isolated, pc, req, expected>>

Relays == {"main", "open", "close"}
DirPins == {"open", "close"}

\* The calls of the controller: drive in a direction, or everything released.
Requests == {[on |-> TRUE, dir |-> "open"], [on |-> TRUE, dir |-> "close"],
             [on |-> FALSE, dir |-> "off"]}

SetLabels   == {"release", "separate", "neutral A", "neutral B", "restore A", "restore B",
                "select A", "select B", "settle", "check", "main pin", "main on", "main off"}
ForceLabels == {"force main", "force A", "force B"}
InitLabels  == {"reset", "init main", "pull A", "pull B", "init A", "init B", "high A", "high B"}
Labels      == {"idle"} \cup SetLabels \cup ForceLabels \cup InitLabels

RelayTypeOK ==
    /\ mode \in [Relays -> {"input", "pullup", "output"}]
    /\ latch \in [Relays -> {"low", "high"}]
    /\ contact \in [Relays -> BOOLEAN]
    /\ last \in Dirs
    /\ isolated \in BOOLEAN
    /\ pc \in Labels
    /\ req \in Requests
    /\ expected \in BridgeType

\* The relays are active-low.
Coil(r) == mode[r] = "output" /\ latch[r] = "low"
Settled == \A r \in Relays : contact[r] = Coil(r)

\* A contact that no longer agrees with its coil moves.
Follow(r) ==
    /\ contact[r] # Coil(r)
    /\ contact' = [contact EXCEPT ![r] = Coil(r)]
    /\ UNCHANGED <<mode, latch, last, isolated, pc, req, expected>>

-----------------------------------------------------------------------------
(* The statements *)

SetMode(from, to, pin, m) ==
    /\ pc = from /\ pc' = to
    /\ mode' = [mode EXCEPT ![pin] = m]
    /\ UNCHANGED <<latch, contact, last, req, expected>>

WritePin(from, to, pin, v) ==
    /\ pc = from /\ pc' = to
    /\ latch' = [latch EXCEPT ![pin] = v]
    /\ UNCHANGED <<mode, contact, last, req, expected>>

\* Fault: the wait is too short for a contact to move.
DelayTooShort(from, to) == pc = from /\ pc' = to

\* delayMs(100) is longer than any contact takes.
Delay(from, to) == pc = from /\ pc' = to /\ Settled

-----------------------------------------------------------------------------
(* setRelayStates *)

\* Fault: an isolation since the last movement is not seen.
ChangedCached(r) == r.dir # last

Changed(r) == r.dir # last \/ (r.on /\ isolated)

CallSetRelayStates(r) ==
    /\ pc = "idle"
    /\ req' = r
    /\ pc' = IF Changed(r) THEN "release" ELSE "check"
    /\ expected' = SetRelays(expected, r.on, r.dir)
    /\ UNCHANGED <<mode, latch, contact, last, isolated>>

LevelFor(pin) == IF req.dir = pin THEN "low" ELSE "high"

\* Main off, wait, neutral, outputs again for a drive, direction, wait.
Redirect ==
    \/ SetMode("release", "separate", "main", "input") /\ UNCHANGED isolated
    \/ Delay("separate", "neutral A")
       /\ UNCHANGED <<mode, latch, contact, last, isolated, req, expected>>
    \/ WritePin("neutral A", "neutral B", "open", "high") /\ UNCHANGED isolated
    \/ WritePin("neutral B", IF req.on THEN "restore A" ELSE "select A", "close", "high")
       /\ UNCHANGED isolated
    \/ SetMode("restore A", "restore B", "open", "output") /\ UNCHANGED isolated
    \/ SetMode("restore B", "select A", "close", "output") /\ UNCHANGED isolated
    \/ WritePin("select A", "select B", "open", LevelFor("open")) /\ UNCHANGED isolated
    \/ WritePin("select B", "settle", "close", LevelFor("close")) /\ UNCHANGED isolated
    \/ Delay("settle", "check") /\ last' = req.dir
       /\ UNCHANGED <<mode, latch, contact, isolated, req, expected>>

\* The check of a charging close may turn a closing call into an isolation.
Check ==
    /\ pc = "check"
    /\ \/ /\ pc' = IF req.on THEN "main pin" ELSE "main off"
          /\ UNCHANGED expected
       \/ /\ req = [on |-> TRUE, dir |-> "close"]
          /\ pc' = "force main"
          /\ expected' = ForcedOff(expected)
    /\ UNCHANGED <<mode, latch, contact, last, isolated, req>>

SwitchMain ==
    \/ SetMode("main pin", "main on", "main", "output") /\ UNCHANGED isolated
    \/ WritePin("main on", "idle", "main", "low") /\ isolated' = FALSE
    \/ SetMode("main off", "idle", "main", "input") /\ UNCHANGED isolated

-----------------------------------------------------------------------------
(* forceAllRelaysOff, the reset and init *)

CallForceAllRelaysOff ==
    /\ pc = "idle"
    /\ pc' = "force main"
    /\ expected' = ForcedOff(expected)
    /\ UNCHANGED <<mode, latch, contact, last, isolated, req>>

ForceOff ==
    \/ SetMode("force main", "force A", "main", "input") /\ UNCHANGED isolated
    \/ SetMode("force A", "force B", "open", "input") /\ UNCHANGED isolated
    \/ SetMode("force B", "idle", "close", "input") /\ isolated' = TRUE

\* The emergency stop ends: resetEmergency and update() clear the flag alone.
ClearIsolation ==
    /\ pc = "idle"
    /\ ~Coil("main")
    /\ isolated' = FALSE
    /\ expected' = [expected EXCEPT !.isolated = FALSE]
    /\ UNCHANGED <<mode, latch, contact, last, pc, req>>

\* Power loss, panic or watchdog: the pins float, the output registers hold
\* anything, the memory of the program is gone.
Reset ==
    /\ pc' = "reset"
    /\ mode' = [r \in Relays |-> "input"]
    /\ latch' \in [Relays -> {"low", "high"}]
    /\ last' = "off" /\ isolated' = FALSE
    /\ expected' = BootBridge
    /\ UNCHANGED <<contact, req>>

\* Booting takes longer than the contacts do.
Start ==
    Delay("reset", "init main")
    /\ UNCHANGED <<mode, latch, contact, last, isolated, req, expected>>

InitPins ==
    /\ \/ SetMode("init main", "pull A", "main", "input")
       \/ SetMode("pull A", "pull B", "open", "pullup")
       \/ SetMode("pull B", "init A", "close", "pullup")
       \/ SetMode("init A", "init B", "open", "output")
       \/ SetMode("init B", "high A", "close", "output")
       \/ WritePin("high A", "high B", "open", "high")
       \/ WritePin("high B", "idle", "close", "high")
    /\ UNCHANGED isolated

RelayInit ==
    /\ mode = [r \in Relays |-> "input"]
    /\ latch \in [Relays -> {"low", "high"}]
    /\ contact = [r \in Relays |-> FALSE]
    /\ last = "off" /\ isolated = FALSE
    /\ pc = "reset"
    /\ req \in Requests
    /\ expected = BootBridge

Step == Redirect \/ Check \/ SwitchMain \/ ForceOff \/ Start \/ InitPins

RelayNext ==
    \/ \E r \in Requests : CallSetRelayStates(r)
    \/ CallForceAllRelaysOff
    \/ ClearIsolation
    \/ Reset
    \/ \E r \in Relays : Follow(r)
    \/ Step

RelaySpec == RelayInit /\ [][RelayNext]_rvars

-----------------------------------------------------------------------------
(* Properties *)

\* The contacts as module HBridge sees them.
Engaged ==
    CASE contact["open"] /\ contact["close"]   -> "both"
      [] contact["open"] /\ ~contact["close"]  -> "open"
      [] ~contact["open"] /\ contact["close"]  -> "close"
      [] OTHER                                 -> "off"

Contacts == INSTANCE HBridge WITH power <- contact["main"], dir <- Engaged

\* The interlock: whatever is called in whatever order, and wherever a reset
\* falls, the contacts behave as HBridge promises.
ContactsInterlocked == Contacts!BridgeSpec

\* Every call leaves the pins and the cached fields as the operators of module
\* Bridge say, from which LidController is built.
BridgeIsView ==
    pc = "idle" =>
        /\ expected.main = Coil("main")
        /\ \A p \in DirPins : expected.driven = (mode[p] = "output")
        /\ expected.latch = CASE latch["open"] = "low"                              -> "open"
                              [] latch["open"] # "low" /\ latch["close"] = "low" -> "close"
                              [] OTHER                                            -> "off"
        /\ expected.last = last
        /\ expected.isolated = isolated

-----------------------------------------------------------------------------
(* Why the interlock holds *)

\* The statements that touch the direction pins, but for the isolation.
ColdLabels ==
    {"neutral A", "neutral B", "restore A", "restore B", "select A", "select B", "settle",
     "init main", "pull A", "pull B", "init A", "init B", "high A", "high B"}

\* Main has been made an input and not an output since.
MainInputLabels == ColdLabels \cup {"separate", "reset", "force A", "force B"}

BothClosed == contact["open"] /\ contact["close"]

MainHot == mode["main"] = "output" \/ contact["main"]

\* Every motion of a direction contact towards closed ends inside a cold
\* stretch, so that outside of it no coil waits for its contact.
InterlockInv ==
    /\ pc \in MainInputLabels => mode["main"] # "output"
    /\ pc \in ColdLabels => ~contact["main"]
    /\ pc \notin ColdLabels => \A d \in DirPins : Coil(d) => contact[d]
    /\ pc \notin ColdLabels /\ last # "off" => ~BothClosed
    /\ MainHot => ~BothClosed
    /\ pc \in InitLabels => last = "off"
    /\ pc \in {"check", "main pin", "main on", "main off"} => last = req.dir
    /\ pc \in {"main pin", "main on"} => req.on
    /\ pc \in {"select B", "settle"} => latch["open"] = LevelFor("open")
    /\ pc = "settle" => latch["close"] = LevelFor("close")
    /\ pc = "high B" => latch["open"] = "high"
=============================================================================
