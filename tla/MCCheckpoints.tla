---------------------------- MODULE MCCheckpoints ----------------------------
(* An instance of Checkpoints for TLC: the goroutines, which are alike. *)
EXTENDS Checkpoints

CONSTANTS j1, j2

Symm == Permutations(Jobs)
=============================================================================
