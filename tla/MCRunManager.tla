---------------------------- MODULE MCRunManager ----------------------------
(* RunManager on a small instance. *)
EXTENDS RunManager, TLC

Symmetry == Permutations(Mission) \cup Permutations(Worker)
=============================================================================
