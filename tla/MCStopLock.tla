----------------------------- MODULE MCStopLock -----------------------------
(* Instances of StopLock for TLC. *)
EXTENDS StopLock, TLC

CONSTANTS p1, p2

\* Every kind of lock of both back-ends.
EveryLock == {"sem", "mutex", "rwlock"} \X {"posix", "rtai"}
=============================================================================
