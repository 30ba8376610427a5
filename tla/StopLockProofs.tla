--------------------------- MODULE StopLockProofs ---------------------------
(***************************************************************************)
(* How long the waits of StopLock last, for any number of threads, any     *)
(* delay of the stop loop, any time limits and any scheduling latency.     *)
(***************************************************************************)
EXTENDS StopLock, FiniteSetTheorems, TLAPS

\* What a wait with a stop condition has lasted for since the condition holds
\* and what is left until its deadline are together at most one delay.  The
\* deadline moves only at the head of the loop, when nothing is left of the
\* last one and the condition does not hold.
HeedInv ==
    \A p \in Threads : pc[p] \in Heeding =>
        /\ since[p] + left[p] <= Delay
        /\ pc[p] = "check" => left[p] <= 0
        /\ ~stop => since[p] = 0

\* What a timed wait has lasted for and what is left of it make max_wait.
LimitInv == \A p \in Threads : pc[p] \in Limited => since[p] + left[p] = limit[p]

\* A thread is late by Slack at most.
LateInv == \A p \in Threads : Timing(p) => left[p] >= -Slack

\* Nothing was counted where no time is.
CountInv == \A p \in Threads : ~Timing(p) => since[p] = 0

StopInv == TypeOK /\ HeedInv /\ LimitInv /\ LateInv /\ CountInv

LEMMA ModesAreNaturals == All \in Nat /\ Modes \subseteq Nat
BY FS_CardinalityType, StopLockAssumption DEF All, Modes

LEMMA StopInvInit == Init => StopInv
<1> SUFFICES ASSUME Init PROVE StopInv
  OBVIOUS
<1> USE StopLockAssumption
<1>1. 1 \in Modes
  BY DEF Modes
<1>2. lock \in Locks /\ value \in Nat
  <2>1. Primitive \in {"sem", "mutex", "rwlock"}
    BY DEF Init, Primitive
  <2>2. lock \in Locks
    BY DEF Init
  <2>3. ASSUME NEW n \in 0 .. MaxValue PROVE n \in Nat
    OBVIOUS
  <2>4. CASE Primitive = "sem"
    BY <2>2, <2>3, <2>4 DEF Init
  <2>5. CASE Primitive = "mutex"
    BY <2>2, <2>5 DEF Init
  <2>6. CASE Primitive = "rwlock"
    BY <2>2, <2>6, ModesAreNaturals DEF Init
  <2> QED
    BY <2>1, <2>4, <2>5, <2>6
<1>3. need \in [Threads -> Modes] /\ held \in [Threads -> Modes \cup {0}]
  BY <1>1 DEF Init
<1>4. Longest \in Nat
  BY DEF Longest
<1>5. since \in [Threads -> 0 .. Longest] /\ limit \in [Threads -> 0 .. MaxWait]
  BY <1>4 DEF Init
<1>6. TypeOK
  <2>1. left \in [Threads -> Int] /\ signals \in 0 .. MaxSignals
    BY DEF Init
  <2>2. stop \in BOOLEAN /\ pc \in [Threads -> {"idle"}] /\ ret \in [Threads -> {"none"}]
    BY DEF Init
  <2> QED
    BY <1>2, <1>3, <1>5, <2>1, <2>2 DEF TypeOK
<1> QED
  BY <1>6 DEF Init, StopInv, HeedInv, LimitInv, LateInv, CountInv, Timing, Heeding, Limited

\* A wait may begin in any state, with its deadline at most its limit away.
LEMMA BeginKeeps ==
    ASSUME StopInv, NEW p \in Threads, NEW k \in Modes, NEW s, NEW d \in Nat,
           Begin(p, k, s, d), limit' \in [Threads -> 0 .. MaxWait],
           \A q \in Threads : q # p => limit'[q] = limit[q],
           \/ s = "check" /\ d = 0
           \/ s = "block" /\ d <= Delay
           \/ s = "timed" /\ d = limit'[p]
           \/ s = "forever"
    PROVE  StopInv'
<1> USE StopLockAssumption
<1>0. Modes' = Modes /\ need' \in [Threads -> Modes]
  BY DEF StopInv, TypeOK, Begin, Modes, Primitive
<1>1. TypeOK'
  BY <1>0 DEF StopInv, TypeOK, Begin, Heeding, Limited, Unlimited
<1>2. since[p] = 0
  BY DEF StopInv, CountInv, Begin, Timing, Heeding, Limited
<1>3. HeedInv'
  BY <1>2 DEF StopInv, HeedInv, TypeOK, Begin, Heeding
<1>4. LimitInv'
  BY <1>2 DEF StopInv, LimitInv, TypeOK, Begin, Limited
<1>5. LateInv' /\ CountInv'
  BY <1>2 DEF StopInv, LateInv, CountInv, TypeOK, Begin, Timing, Heeding, Limited
<1> QED
  BY <1>1, <1>3, <1>4, <1>5 DEF StopInv

\* A wait may end in any state, with or without the permits.
LEMMA ReturnKeeps ==
    ASSUME StopInv, NEW p \in Threads, NEW r,
           r \in {"ok", "ECANCELED", "ETIMEDOUT", "EBUSY", "EINTR"}, Return(p, r),
           lock' = lock, stop' = stop, signals' \in 0 .. MaxSignals,
           value' \in Nat, held' \in [Threads -> Modes \cup {0}]
    PROVE  StopInv'
<1> USE StopLockAssumption
<1>0. Modes' = Modes /\ 1 \in Modes /\ Longest \in Nat
  BY DEF Modes, Primitive, Longest
<1>1. TypeOK'
  <2>1. TypeOK
    BY DEF StopInv
  <2>2. /\ need' \in [Threads -> Modes] /\ limit' \in [Threads -> 0 .. MaxWait]
        /\ since' \in [Threads -> 0 .. Longest] /\ left' \in [Threads -> Int]
    BY <1>0, <2>1 DEF TypeOK, Return
  <2> QED
    BY <1>0, <2>1, <2>2 DEF TypeOK, Return
<1>2. HeedInv' /\ LimitInv'
  BY DEF StopInv, HeedInv, LimitInv, TypeOK, Return, Heeding, Limited
<1>3. LateInv' /\ CountInv'
  BY DEF StopInv, LateInv, CountInv, TypeOK, Return, Timing, Heeding, Limited
<1> QED
  BY <1>1, <1>2, <1>3 DEF StopInv

\* Taking permits leaves a natural number of them.
LEMMA TakePermitsType ==
    ASSUME StopInv, NEW p \in Threads, NEW k \in Modes, TakePermits(p, k)
    PROVE  value' \in Nat /\ held' \in [Threads -> Modes \cup {0}]
BY ModesAreNaturals DEF StopInv, TypeOK, TakePermits

LEMMA StopInvNext == StopInv /\ [Next]_vars => StopInv'
<1> SUFFICES ASSUME StopInv, [Next]_vars PROVE StopInv'
  OBVIOUS
<1> USE StopLockAssumption
<1>0. TypeOK /\ HeedInv /\ LimitInv /\ LateInv /\ CountInv
  BY DEF StopInv
<1>1. ASSUME NEW p \in Threads, NEW k \in Modes, LockfPosix(p, k) PROVE StopInv'
  BY <1>0, <1>1, BeginKeeps DEF LockfPosix, TypeOK
<1>2. ASSUME NEW p \in Threads, NEW k \in Modes, LockfRtai(p, k) PROVE StopInv'
  BY <1>0, <1>2, BeginKeeps DEF LockfRtai, TypeOK
<1>3. ASSUME NEW p \in Threads, NEW k \in Modes, Lock(p, k) PROVE StopInv'
  BY <1>0, <1>3, BeginKeeps DEF Lock, TypeOK
<1>4. ASSUME NEW p \in Threads, NEW k \in Modes, TryLock(p, k) PROVE StopInv'
  <2>1. \/ TakePermits(p, k) /\ Return(p, "ok")
        \/ Return(p, "EBUSY") /\ UNCHANGED <<value, held>>
    BY <1>4 DEF TryLock
  <2>2. value' \in Nat /\ held' \in [Threads -> Modes \cup {0}]
    BY <1>0, <2>1, TakePermitsType DEF TypeOK
  <2> QED
    BY <1>0, <1>4, <2>1, <2>2, ReturnKeeps DEF TryLock, TypeOK
<1>5. ASSUME NEW p \in Threads, NEW k \in Modes, NEW w \in 0 .. MaxWait, TimedLock(p, k, w)
      PROVE  StopInv'
  <2>1. limit' \in [Threads -> 0 .. MaxWait] /\ limit'[p] = w
    BY <1>0, <1>5 DEF TimedLock, TypeOK
  <2>2. \A q \in Threads : q # p => limit'[q] = limit[q]
    BY <1>0, <1>5 DEF TimedLock, TypeOK
  <2> QED
    BY <1>5, <2>1, <2>2, BeginKeeps DEF TimedLock
<1>6. ASSUME NEW p \in Threads, Take(p) PROVE StopInv'
  <2>1. need[p] \in Modes
    BY <1>0 DEF TypeOK
  <2>2. value' \in Nat /\ held' \in [Threads -> Modes \cup {0}]
    BY <1>6, <2>1, TakePermitsType DEF Take
  <2> QED
    BY <1>0, <1>6, <2>2, ReturnKeeps DEF Take, TypeOK
<1>7. ASSUME NEW p \in Threads, CheckPosix(p) PROVE StopInv'
  <2>1. CASE stop
    BY <1>0, <1>7, <2>1, ReturnKeeps DEF CheckPosix, TypeOK
  <2>2. CASE ~stop
    <3>1. TypeOK'
      BY <1>0, <1>7, <2>2 DEF CheckPosix, Continue, TypeOK, Modes, Primitive, Heeding
    <3>2. HeedInv' /\ LimitInv'
      BY <1>0, <1>7, <2>2 DEF CheckPosix, Continue, TypeOK, HeedInv, LimitInv, Heeding, Limited
    <3>3. LateInv' /\ CountInv'
      BY <1>0, <1>7, <2>2 DEF CheckPosix, Continue, TypeOK, LateInv, CountInv, Timing, Heeding, Limited
    <3> QED
      BY <3>1, <3>2, <3>3 DEF StopInv
  <2> QED
    BY <2>1, <2>2
<1>8. ASSUME NEW p \in Threads, CheckRtai(p) PROVE StopInv'
  <2>1. CASE stop
    BY <1>0, <1>8, <2>1, ReturnKeeps DEF CheckRtai, TypeOK
  <2>2. CASE ~stop
    <3>1. TypeOK'
      BY <1>0, <1>8, <2>2 DEF CheckRtai, Continue, TypeOK, Modes, Primitive, Heeding
    <3>2. HeedInv' /\ LimitInv'
      BY <1>0, <1>8, <2>2 DEF CheckRtai, Continue, TypeOK, HeedInv, LimitInv, Heeding, Limited
    <3>3. LateInv' /\ CountInv'
      BY <1>0, <1>8, <2>2 DEF CheckRtai, Continue, TypeOK, LateInv, CountInv, Timing, Heeding, Limited
    <3> QED
      BY <3>1, <3>2, <3>3 DEF StopInv
  <2> QED
    BY <2>1, <2>2
<1>9. ASSUME NEW p \in Threads, TimeOut(p) PROVE StopInv'
  <2>1. CASE pc[p] = "timed"
    BY <1>0, <1>9, <2>1, ReturnKeeps DEF TimeOut, TypeOK
  <2>2. CASE pc[p] = "block"
    <3>1. TypeOK'
      BY <1>0, <1>9, <2>2 DEF TimeOut, Continue, TypeOK, Modes, Primitive, Heeding
    <3>2. HeedInv' /\ LimitInv'
      BY <1>0, <1>9, <2>2 DEF TimeOut, Continue, TypeOK, HeedInv, LimitInv, Heeding, Limited
    <3>3. LateInv' /\ CountInv'
      BY <1>0, <1>9, <2>2 DEF TimeOut, Continue, TypeOK, LateInv, CountInv, Timing, Heeding, Limited
    <3> QED
      BY <3>1, <3>2, <3>3 DEF StopInv
  <2> QED
    BY <1>9, <2>1, <2>2 DEF TimeOut
<1>10. ASSUME NEW p \in Threads, Interrupt(p) PROVE StopInv'
  <2>1. signals' \in 0 .. MaxSignals
    BY <1>0, <1>10 DEF Interrupt, TypeOK
  <2>2. CASE pc[p] = "block"
    BY <1>0, <1>10, <2>1, <2>2, ReturnKeeps DEF Interrupt, TypeOK
  <2>3. CASE pc[p] = "timed" \/ pc[p] = "forever"
    <3>1. TypeOK'
      BY <1>0, <1>10, <2>1, <2>3
      DEF Interrupt, Continue, TypeOK, Modes, Primitive, Limited, Unlimited
    <3>2. HeedInv' /\ LimitInv'
      BY <1>0, <1>10, <2>3 DEF Interrupt, Continue, TypeOK, HeedInv, LimitInv, Heeding, Limited
    <3>3. LateInv' /\ CountInv'
      BY <1>0, <1>10, <2>3
      DEF Interrupt, Continue, TypeOK, LateInv, CountInv, Timing, Heeding, Limited
    <3> QED
      BY <3>1, <3>2, <3>3 DEF StopInv
  <2> QED
    BY <1>10, <2>2, <2>3 DEF Interrupt
<1>11. ASSUME NEW p \in Threads, Retry(p) PROVE StopInv'
  <2>1. TypeOK'
    BY <1>0, <1>11 DEF Retry, Continue, TypeOK, Modes, Primitive, Limited, Unlimited
  <2>2. HeedInv' /\ LimitInv'
    BY <1>0, <1>11 DEF Retry, Continue, TypeOK, HeedInv, LimitInv, Heeding, Limited
  <2>3. LateInv' /\ CountInv'
    BY <1>0, <1>11 DEF Retry, Continue, TypeOK, LateInv, CountInv, Timing, Heeding, Limited
  <2> QED
    BY <2>1, <2>2, <2>3 DEF StopInv
<1>12. ASSUME NEW p \in Threads, Unlock(p) PROVE StopInv'
  <2>1. value' \in Nat /\ held' \in [Threads -> Modes \cup {0}]
    <3>1. held[p] \in Modes \cup {0}
      BY <1>0 DEF TypeOK
    <3>2. Modes \cup {0} \subseteq Nat
      BY ModesAreNaturals
    <3>3. held[p] \in Nat
      BY <3>1, <3>2, Zenon
    <3>4. value' = value + held[p] /\ held' = [held EXCEPT ![p] = 0]
      BY <1>12 DEF Unlock
    <3> QED
      BY <1>0, <3>3, <3>4 DEF TypeOK
  <2>2. TypeOK'
    BY <1>0, <1>12, <2>1 DEF Unlock, TypeOK, Modes, Primitive
  <2> QED
    BY <1>0, <1>12, <2>2 DEF Unlock, StopInv, HeedInv, LimitInv, LateInv, CountInv, Timing
<1>13. CASE SemPost
  <2>1. TypeOK'
    BY <1>0, <1>13 DEF SemPost, TypeOK, Modes, Primitive
  <2> QED
    BY <1>0, <1>13, <2>1 DEF SemPost, StopInv, HeedInv, LimitInv, LateInv, CountInv, Timing
<1>14. CASE SetStop
  <2>1. TypeOK'
    BY <1>0, <1>14 DEF SetStop, TypeOK, Modes, Primitive
  <2> QED
    BY <1>0, <1>14, <2>1 DEF SetStop, StopInv, HeedInv, LimitInv, LateInv, CountInv, Timing
<1>15. CASE Tick
  <2>1. TypeOK'
    BY <1>0, <1>15 DEF Tick, TypeOK, Modes, Primitive, Longest
  <2>2. ASSUME NEW p \in Threads, pc[p] \in Heeding \cup Limited
        PROVE  left'[p] = left[p] - 1 /\ left'[p] >= -Slack
    BY <1>0, <1>15, <2>2 DEF Tick, TypeOK, Timing
  <2>3. HeedInv'
    <3> SUFFICES ASSUME NEW p \in Threads, pc[p] \in Heeding
                 PROVE  /\ since'[p] + left'[p] <= Delay
                        /\ pc[p] = "check" => left'[p] <= 0
                        /\ ~stop => since'[p] = 0
      BY <1>15 DEF Tick, HeedInv
    <3>1. since'[p] \in {since[p], since[p] + 1} /\ (~stop => since'[p] = since[p])
      BY <1>0, <1>15 DEF Tick, TypeOK, Heeding, Limited
    <3> QED
      BY <1>0, <2>2, <3>1 DEF HeedInv, TypeOK
  <2>4. LimitInv'
    <3> SUFFICES ASSUME NEW p \in Threads, pc[p] \in Limited
                 PROVE  since'[p] + left'[p] = limit[p]
      BY <1>15 DEF Tick, LimitInv
    <3>1. since[p] < Longest
      BY <1>0, <1>15 DEF Tick, TypeOK, LimitInv, LateInv, Timing, Longest
    <3>2. since'[p] = since[p] + 1
      BY <1>0, <1>15, <3>1 DEF Tick, TypeOK
    <3> QED
      BY <1>0, <2>2, <3>2 DEF LimitInv, TypeOK
  <2>5. LateInv'
    BY <1>15, <2>2 DEF Tick, LateInv, Timing
  <2>6. CountInv'
    BY <1>0, <1>15 DEF Tick, CountInv, Timing, TypeOK
  <2> QED
    BY <2>1, <2>3, <2>4, <2>5, <2>6 DEF StopInv
<1>16. CASE UNCHANGED vars
  BY <1>0, <1>16
  DEF vars, StopInv, TypeOK, HeedInv, LimitInv, LateInv, CountInv, Timing, Modes, Primitive
<1> QED
  BY <1>1, <1>2, <1>3, <1>4, <1>5, <1>6, <1>7, <1>8, <1>9, <1>10, <1>11, <1>12, <1>13, <1>14,
     <1>15, <1>16 DEF Next, Progress

LEMMA StopInvHolds == Spec => []StopInv
BY StopInvInit, StopInvNext, PTL DEF Spec

\* A wait with a stop condition of any lock of either back-end is over at most
\* URT_LOCK_STOP_MAX_DELAY after the condition holds, and a timed wait at most
\* max_wait after it began, up to the scheduling latency.
THEOREM WaitBoundedHolds == Spec => []WaitBounded
<1>1. StopInv => WaitBounded
  BY StopLockAssumption DEF StopInv, WaitBounded, HeedInv, LimitInv, LateInv, Timing, TypeOK
<1> QED
  BY <1>1, StopInvHolds, PTL

\* A timed wait reports ETIMEDOUT only after it lasted for max_wait, however
\* often signals made it start again.
THEOREM NotEarlyHolds == Spec => NotEarly
<1> DEFINE A == \A p \in Threads :
                    pc[p] = "timed" /\ pc'[p] = "idle" /\ ret'[p] = "ETIMEDOUT" => since[p] >= limit[p]
<1>1. StopInv /\ [Next]_vars => [A]_vars
  <2> SUFFICES ASSUME StopInv, [Next]_vars, NEW p \in Threads,
                      pc[p] = "timed", pc'[p] = "idle", ret'[p] = "ETIMEDOUT"
               PROVE  since[p] >= limit[p]
    OBVIOUS
  <2>0. TypeOK /\ since[p] + left[p] = limit[p]
    BY DEF StopInv, LimitInv, Limited
  <2>1. left[p] <= 0
    <3>1. ASSUME NEW q \in Threads, NEW k \in Modes,
                 LockfPosix(q, k) \/ LockfRtai(q, k) \/ Lock(q, k) \/ TryLock(q, k)
          PROVE  FALSE
      BY <2>0, <3>1 DEF LockfPosix, LockfRtai, Lock, TryLock, Begin, Return, TypeOK
    <3>2. ASSUME NEW q \in Threads, NEW k \in Modes, NEW w \in 0 .. MaxWait, TimedLock(q, k, w)
          PROVE  FALSE
      BY <2>0, <3>2 DEF TimedLock, Begin, TypeOK
    <3>3. ASSUME NEW q \in Threads, Take(q) \/ Interrupt(q) \/ Unlock(q) PROVE FALSE
      BY <2>0, <3>3 DEF Take, Interrupt, Unlock, Return, Continue, TypeOK
    <3>4. ASSUME NEW q \in Threads, CheckPosix(q) \/ CheckRtai(q) \/ Retry(q) PROVE FALSE
      BY <2>0, <3>4 DEF CheckPosix, CheckRtai, Retry, Return, Continue, TypeOK
    <3>5. ASSUME NEW q \in Threads, TimeOut(q) PROVE left[p] <= 0
      BY <2>0, <3>5 DEF TimeOut, Return, Continue, TypeOK
    <3>6. CASE SemPost \/ SetStop \/ Tick \/ UNCHANGED vars
      BY <3>6 DEF SemPost, SetStop, Tick, vars
    <3> QED
      BY <3>1, <3>2, <3>3, <3>4, <3>5, <3>6 DEF Next, Progress
  <2> QED
    BY <2>0, <2>1 DEF TypeOK
<1> QED
  BY <1>1, StopInvHolds, PTL DEF Spec, NotEarly
=============================================================================
