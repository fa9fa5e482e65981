--------------------------- MODULE MCCursorSession ---------------------------
(***************************************************************************)
(* Instances of CursorSession for TLC.                                     *)
(***************************************************************************)
EXTENDS CursorSession, TLC

Pair == {1, 2}
TwoEdges == {"left", "right"}
Sides == ("left" :> "right") @@ ("right" :> "left")

Only(kinds) == [k \in EnvironmentKind |-> IF k \in DOMAIN kinds THEN kinds[k] ELSE 0]

\* Pushes from both sides; keys or movements until the borrowed device is
\* touched; then what the network, a restart and an unpairing add to one push.
Crosses == Only("push" :> 2)
Types == Only("push" :> 1 @@ "key" :> 1 @@ "touch" :> 1)
Moves == Only("push" :> 1 @@ "move" :> 1 @@ "touch" :> 1)
Losses == Only("push" :> 1 @@ "touch" :> 1 @@ "lose" :> 1)
Overtakes == Only("push" :> 1 @@ "move" :> 1 @@ "touch" :> 1 @@ "overtake" :> 1)
Cuts == Only("push" :> 1 @@ "cut" :> 1)
Restarts == Only("push" :> 1 @@ "restart" :> 1)
Unpairs == Only("push" :> 1 @@ "unpair" :> 1)
AllScenarios == {Crosses, Types, Moves, Losses, Overtakes, Cuts, Restarts, Unpairs}

TwoPushes == {Only("push" :> 2)}
LostDatagram == {Only("push" :> 1 @@ "lose" :> 1)}
PushesAgain == {Only("push" :> 2 @@ "move" :> 2)}
=============================================================================
