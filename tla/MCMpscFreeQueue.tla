-------------------------- MODULE MCMpscFreeQueue --------------------------
(* Model-checking instance of MpscFreeQueue. *)
EXTENDS MpscFreeQueue, TLC

Symmetry == Permutations(Producers) \cup Permutations(Items)
=============================================================================
