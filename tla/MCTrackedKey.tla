---------------------------- MODULE MCTrackedKey ----------------------------
(* TrackedKey for TLC. *)
EXTENDS TrackedKey, TLC

(* Threads, items and values are interchangeable. *)
Symmetry == Permutations(Threads) \cup Permutations(Items) \cup Permutations(Values)

=============================================================================
