----------------------------- MODULE MCInspect -----------------------------
(* Instances of Inspect for TLC. *)
EXTENDS Inspect, TLC

CONSTANTS c1, c2, c3

Symmetry == Permutations({c1, c2, c3})
=============================================================================
