------------------------------- MODULE MCHealth -------------------------------
(* The pool and /health for TLC: interchangeable embed requests. *)
EXTENDS Health, TLC

Symmetry == Permutations(EmbedRequests)

=============================================================================
