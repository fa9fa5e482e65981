--------------------------- MODULE MCWaylandCapture ---------------------------
(***************************************************************************)
(* Instances of WaylandCapture for TLC.                                    *)
(***************************************************************************)
EXTENDS WaylandCapture, TLC

TwoEdges == {"left", "right"}

Only(kinds) == [k \in EnvironmentKind |-> IF k \in DOMAIN kinds THEN kinds[k] ELSE 0]

\* Three captures in a row, one of them used; locks that the compositor takes
\* away; a peer's pointer that comes in and a user who touches the device.
Captures == Only("outward" :> 3 @@ "input" :> 1)
Unlocks == Only("outward" :> 3 @@ "unlock" :> 2)
Enters == Only("outward" :> 2 @@ "enter" :> 1 @@ "touch" :> 1)
AllScenarios == {Captures, Unlocks, Enters}
OnlyUnlocks == {Unlocks}
OnlyEnters == {Enters}
=============================================================================
