------------------------------ MODULE MCDialling ------------------------------
(***************************************************************************)
(* Instances of Dialling for TLC.                                          *)
(***************************************************************************)
EXTENDS Dialling, TLC

Pair == {1, 2}
ThreeSlots == 1..3

Only(kinds) == [k \in EnvironmentKind |-> IF k \in DOMAIN kinds THEN kinds[k] ELSE 0]

\* Connections and dials that fail as the dialler starts again; an acceptor that
\* starts again; a loss of power; strangers; an unpairing.
Losses == Only("lost" :> 2 @@ "fail" :> 1 @@ "restartDialler" :> 2)
Restarts == Only("lost" :> 1 @@ "restartDialler" :> 1 @@ "restartAcceptor" :> 1)
Power == Only("lost" :> 1 @@ "power" :> 1)
Strangers == Only("lost" :> 1 @@ "stranger" :> 1 @@ "restartDialler" :> 1)
Unpairs == Only("lost" :> 1 @@ "unpair" :> 2 @@ "fail" :> 1)
AllScenarios == {Losses, Restarts, Power, Strangers, Unpairs}

AcceptorRestarts == {Only("restartAcceptor" :> 1)}
PowerLosses == {Only("power" :> 1)}
OneStranger == {Only("stranger" :> 1)}
OneUnpairing == {Only("unpair" :> 1)}
=============================================================================
