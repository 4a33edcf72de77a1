-------------------------- MODULE MCRefreshSession --------------------------
(* Small instances of RefreshSession for TLC.                              *)
EXTENDS RefreshSessionInvariant, TLC

Symmetry == Permutations(Users) \cup Permutations(Tokens) \cup Permutations(Conns)
=============================================================================
