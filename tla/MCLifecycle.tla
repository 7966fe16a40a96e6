---------------------------- MODULE MCLifecycle -----------------------------
(***************************************************************************)
(* Instances of Lifecycle for TLC.                                         *)
(***************************************************************************)
EXTENDS Lifecycle, TLC

\* Slots of the pool and concurrent requests are interchangeable.
Symmetry == Permutations(Workers) \cup Permutations(Requests)
=============================================================================
