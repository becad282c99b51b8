----------------------------- MODULE MCWaitSync -----------------------------
(* WaitSync for TLC. *)
EXTENDS WaitSync, TLC

(* The waiters are interchangeable in every safety property. *)
Symmetry == Permutations(Waiters)

=============================================================================
