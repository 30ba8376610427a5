---------------------------- MODULE MCGlobalLock ----------------------------
(* Instances of GlobalLock for TLC: two processes of two threads each and  *)
(* one kernel thread.                                                      *)
EXTENDS GlobalLock, TLC

CONSTANTS a1, a2, b1, b2, k1, pa, pb

Spaces ==
    [t \in Threads |-> CASE t \in {a1, a2} -> pa [] t \in {b1, b2} -> pb [] OTHER -> Kernel]
=============================================================================
