----------------------------- MODULE MCEngineCache -----------------------------
(***************************************************************************)
(* Compute capabilities are interchangeable: every assignment of them to   *)
(* the hosts is an initial state, and none is named by an action.          *)
(***************************************************************************)
EXTENDS EngineCache, TLC

Symmetry == Permutations(Sms)
=============================================================================
