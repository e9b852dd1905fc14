---------------------------- MODULE MCOorSheets ----------------------------
(* Model-checking instance of OorSheets. *)
EXTENDS OorSheets, TLC

Symmetry == Permutations(Arenas)
=============================================================================
