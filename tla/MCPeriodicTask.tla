--------------------------- MODULE MCPeriodicTask ---------------------------
(* Instances of PeriodicTask for TLC. *)
EXTENDS PeriodicTask

PeriodChoices == {-1, 3}
=============================================================================
