------------------------------- MODULE MCServer -------------------------------
(* Server for TLC: clients are interchangeable in the safety runs. *)
EXTENDS Server, TLC

Symmetry == Permutations(Clients)

=============================================================================
