---------------------------- MODULE MCEntropyPool ----------------------------
(* Small instances of EntropyPool for TLC. *)
EXTENDS EntropyPool, TLC

Symmetry == Permutations(Tasks)
=============================================================================
