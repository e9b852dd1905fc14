---------------------------- MODULE MCPublicApi -----------------------------
(* Model-checking instance of PublicApi. *)
EXTENDS PublicApi

\* Callers that follow the documentation; aligned_free needs a clearing build.
SafeWays == [z \in BOOLEAN |-> {"dealloc", "free", "aligned_dealloc"} \cup (IF z THEN {"aligned_free"} ELSE {})]
=============================================================================
