---------------------------- MODULE MCConnection ----------------------------
(***************************************************************************)
(* Instances of Connection for TLC: messages larger than what TCP buffers. *)
(***************************************************************************)
EXTENDS Connection, TLC

\* Hello and Ping are of one record, events and transfer messages of two.
Large == {2}
NothingOrLarge == {0, 2}
TwoAndOne == "left" :> 2 @@ "right" :> 1
OneEach == "left" :> 1 @@ "right" :> 1
=============================================================================
