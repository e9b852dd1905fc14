---------------------------- MODULE MCRemoteFree ----------------------------
(* Model-checking instance of RemoteFree. *)
EXTENDS RemoteFree, TLC

Symmetry == Permutations(Producers) \cup Permutations(Blocks)
=============================================================================
