----------------------------- MODULE MCTlsfList -----------------------------
(* Model-checking instance of TlsfList. *)
EXTENDS TlsfList
=============================================================================
