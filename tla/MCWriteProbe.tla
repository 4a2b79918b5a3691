------------------------------ MODULE MCWriteProbe ------------------------------
(***************************************************************************)
(* WriteProbe for TLC: containers are interchangeable, every subset of     *)
(* them may be warm-up-only.                                               *)
(***************************************************************************)
EXTENDS WriteProbe, TLC

Symmetry == Permutations(Containers)
=============================================================================
