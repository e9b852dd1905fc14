------------------------------- MODULE MCTier -------------------------------
(* Model-checking instances of Tier: three sheets, the second one larger. *)
EXTENDS Tier

UnequalSheets == <<<<2>>, <<1, 2>>, <<2>>>>
=============================================================================
