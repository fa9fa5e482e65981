--------------------------- MODULE MCConfigRename ---------------------------
(***************************************************************************)
(* ConfigRename for TLC: one device alone is enough.                       *)
(***************************************************************************)
EXTENDS ConfigRename, TLC

One == {1}
NoReach == {}
CopyCrash ==
  {[k \in EnvironmentKind |-> CASE k = "copy" -> 2 [] k = "crash" -> 1 [] OTHER -> 0]}
=============================================================================
