---------------------------- MODULE MCVaReserve ----------------------------
(* Model-checking instance of VaReserve. *)
EXTENDS VaReserve, TLC

Symmetry == Permutations(Threads)
=============================================================================
