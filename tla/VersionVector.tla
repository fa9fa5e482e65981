--------------------------- MODULE VersionVector ---------------------------
(***************************************************************************)
(* The version-vector clocks of src/ordering.rs: the data type the daemon  *)
(* orders clipboard events with.  A BTreeMap<DeviceId, u64> that has no    *)
(* entry for a device is read as 0 there by every operation, so a vector   *)
(* is a total function here.  DeviceIds are strings the code compares with *)
(* `<`; naturals stand for them.                                           *)
(***************************************************************************)
EXTENDS Naturals

CONSTANT Device        \* the DeviceIds, ordered as the code orders them

ASSUME DeviceAssumption == Device \subseteq Nat

VV == [Device -> Nat]

Zero == [d \in Device |-> 0]

\* VersionVector::increment: one more event of device d.
increment(v, d) == [v EXCEPT ![d] = @ + 1]

\* Mutant: the other vector is not taken in.
mergeNothing(v, w) == v

\* VersionVector::merge: the pointwise maximum.
merge(v, w) == [d \in Device |-> IF v[d] < w[d] THEN w[d] ELSE v[d]]

\* The `less` and `greater` flags VersionVector::relation accumulates.
HasLess(v, w)    == \E d \in Device : v[d] < w[d]
HasGreater(v, w) == \E d \in Device : v[d] > w[d]

\* VersionVector::relation: how v stands to w.
relation(v, w) ==
  CASE HasLess(v, w) /\ HasGreater(v, w)   -> "Concurrent"
    [] HasLess(v, w) /\ ~HasGreater(v, w)  -> "Before"
    [] ~HasLess(v, w) /\ HasGreater(v, w)  -> "After"
    [] ~HasLess(v, w) /\ ~HasGreater(v, w) -> "Equal"

\* The order that relation() decides: everything v knows, w knows.
Leq(v, w) == \A d \in Device : v[d] <= w[d]

\* Mutant: concurrent events never replace each other.
BeatsCausally(e, old) == relation(e.clock, old.clock) = "After"

(***************************************************************************)
(* The ordering of clipboard events (daemon.rs, the `wins` closure): an    *)
(* event replaces another when it comes causally after it, or is           *)
(* concurrent with it and comes from a device with a greater id.           *)
(***************************************************************************)
Beats(e, old) ==
  LET r == relation(e.clock, old.clock)
  IN r = "After" \/ (r = "Concurrent" /\ e.origin > old.origin)
=============================================================================
