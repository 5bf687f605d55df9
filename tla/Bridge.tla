------------------------------- MODULE Bridge -------------------------------
(***************************************************************************)
(* The three-relay H-bridge of the lid as the controller leaves it when    *)
(* setRelayStates, forceAllRelaysOff or init has returned: the GPIO pins   *)
(* and the three cached fields they are kept with.  RelayDriver models the *)
(* same functions pin write by pin write and shows that these operators    *)
(* describe where they end.                                                *)
(*                                                                         *)
(*   main      the Main relay pin is OUTPUT LOW (energised)                *)
(*   driven    the two direction pins are OUTPUT (FALSE: high impedance)   *)
(*   latch     the direction written to the direction pins                 *)
(*   last      lastDirOpen / lastDirClose                                  *)
(*   isolated  relaysIsolated                                              *)
(***************************************************************************)

Dirs == {"off", "open", "close"}

BridgeType ==
    [main : BOOLEAN, driven : BOOLEAN, latch : Dirs, last : Dirs, isolated : BOOLEAN]

\* Pins after init(): Main released, both directions driven HIGH (neutral).
BootBridge ==
    [main |-> FALSE, driven |-> TRUE, latch |-> "off", last |-> "off", isolated |-> FALSE]

\* Fault: only Main is isolated.
MainOff(b) == [b EXCEPT !.main = FALSE, !.isolated = TRUE]

\* forceAllRelaysOff: every pin high-impedance, the direction cache kept.
ForcedOff(b) == [b EXCEPT !.main = FALSE, !.driven = FALSE, !.isolated = TRUE]

\* Fault: an isolation since the last movement is not seen.
DirCached(b, on, d) == d # b.last

\* setRelayStates reverses the contacts only for a direction other than the
\* cached one, or to drive again after an isolation it still knows about.
DirChanged(b, on, d) == d # b.last \/ (on /\ b.isolated)

\* Main off, 100 ms, neutral preload, direction, 100 ms: the contacts are moved
\* with Main released, and the pins become outputs again only for a drive.
Redirected(b, on, d) ==
    [b EXCEPT !.main = FALSE, !.driven = on \/ @, !.latch = d, !.last = d]

Switched(b, on, d) == IF DirChanged(b, on, d) THEN Redirected(b, on, d) ELSE b

SetRelays(b, on, d) ==
    [Switched(b, on, d) EXCEPT !.main = on, !.isolated = @ /\ ~on]

\* The two motors turn only through an energised Main contact and a driven
\* direction pin.
Drive(b) == IF b.main /\ b.driven THEN b.latch ELSE "off"
=============================================================================
