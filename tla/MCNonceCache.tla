---------------------------- MODULE MCNonceCache ----------------------------
(* Small instances of NonceCache for TLC. *)
EXTENDS NonceCache, TLC

Symmetry == Permutations(Nonces) \cup Permutations(Callers)
=============================================================================
