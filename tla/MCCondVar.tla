----------------------------- MODULE MCCondVar -----------------------------
(* Instances of CondVar for TLC. *)
EXTENDS CondVar, TLC

CONSTANTS c1, c2, c3, p1, p2
=============================================================================
