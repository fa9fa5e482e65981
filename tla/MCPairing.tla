------------------------------- MODULE MCPairing -------------------------------
(***************************************************************************)
(* Instances of Pairing for TLC.                                           *)
(***************************************************************************)
EXTENDS Pairing, TLC

Devices == 1..3
PairOfDevices == 1..2

Only(kinds) == [k \in UserKind |-> IF k \in DOMAIN kinds THEN kinds[k] ELSE 0]

\* Three windows and a fourth; two windows beside a daemon.
Windows == Only("open" :> 4)
Beside == Only("open" :> 3 @@ "daemon" :> 1 @@ "copy" :> 1 @@ "unpair" :> 1)
AllScenarios == {Windows, Beside}

TwoWindows == {Only("open" :> 2)}
OneDaemon == {Only("open" :> 2 @@ "daemon" :> 1 @@ "copy" :> 1)}
=============================================================================
