------------------------------ MODULE MCSetup ------------------------------
(* Instances of Setup for TLC. *)
EXTENDS Setup, TLC

CONSTANTS p1, p2, p3

Symmetry == Permutations(Procs)
=============================================================================
