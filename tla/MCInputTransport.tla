-------------------------- MODULE MCInputTransport --------------------------
(***************************************************************************)
(* Instances of InputTransport for TLC.                                    *)
(***************************************************************************)
EXTENDS InputTransport, TLC

Only(kinds) == [k \in EnvironmentKind |-> IF k \in DOMAIN kinds THEN kinds[k] ELSE 0]

Window == Only("send" :> 3 @@ "duplicate" :> 1)
Losses == Only("send" :> 2 @@ "fail" :> 1 @@ "lose" :> 1)
Restarts == Only("send" :> 1 @@ "restart" :> 1 @@ "lose" :> 1)
Moves == Only("send" :> 1 @@ "roam" :> 1 @@ "fail" :> 1)
Unpairs == Only("send" :> 2 @@ "unpair" :> 1)
AllScenarios == {Window, Losses, Restarts, Moves, Unpairs}

OneFailure == {Only("send" :> 3 @@ "fail" :> 1)}
MovesAndLoses == {Only("send" :> 1 @@ "roam" :> 1 @@ "fail" :> 1 @@ "lose" :> 1)}
=============================================================================
