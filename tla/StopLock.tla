------------------------------ MODULE StopLock ------------------------------
(***************************************************************************)
(* Waiting for a semaphore, mutex or readers-writers lock with a stop      *)
(* condition, with a time limit, unconditionally, or not at all            *)
(* (sys/posix/src/lock.c and sys/rtai/src/lock.c).  The primitive itself   *)
(* belongs to the operating system; here it is a number of permits, of     *)
(* which a waiter needs one, or all of them for a write lock.              *)
(*                                                                         *)
(* Time is counted in ticks.  left[p] is the deadline of p's timed wait    *)
(* minus the current time; a thread that is ready runs at most Slack ticks *)
(* late.                                                                   *)
(***************************************************************************)
EXTENDS Integers, FiniteSets

CONSTANTS
    Threads,
    Locks,       \* the locks considered, as <<primitive, back-end>>
    Delay,       \* URT_LOCK_STOP_MAX_DELAY
    MaxWait,     \* longest max_wait given to a timed wait
    Slack,       \* scheduling latency
    MaxValue,    \* bound on the value of a semaphore
    MaxSignals   \* bound on the signals that interrupt a wait

ASSUME StopLockAssumption ==
    /\ IsFiniteSet(Threads)
    /\ Locks \subseteq {"sem", "mutex", "rwlock"} \X {"posix", "rtai"}
    /\ Delay \in Nat \ {0}
    /\ MaxWait \in Nat /\ Slack \in Nat /\ MaxValue \in Nat /\ MaxSignals \in Nat

VARIABLES
    lock,     \* the lock in use, fixed
    value,    \* permits available
    stop,     \* what the stop function or variable says
    pc,       \* the wait a thread is in
    need,     \* permits it waits for
    held,     \* permits a thread got and has to give back
    left,     \* its deadline, relative to now
    limit,    \* max_wait of its timed wait
    since,    \* ticks it has waited, with stop set if it heeds stop
    ret,      \* what its last wait returned
    signals   \* number of interruptions so far

vars == <<lock, value, stop, pc, need, held, left, limit, since, ret, signals>>

Primitive == lock[1]
Backend == lock[2]

All == Cardinality(Threads)
Modes == IF Primitive = "rwlock" THEN {1, All} ELSE {1}

Heeding == {"check", "block"}           \* in a wait with a stop condition
Limited == {"timed", "again_timed"}     \* in a wait with a time limit
Unlimited == {"forever", "again_forever"}

Longest == Delay + MaxWait + Slack + 1  \* cap of since

TypeOK ==
    /\ lock \in Locks
    /\ value \in Nat
    /\ stop \in BOOLEAN
    /\ pc \in [Threads -> {"idle"} \cup Heeding \cup Limited \cup Unlimited]
    /\ need \in [Threads -> Modes] /\ held \in [Threads -> Modes \cup {0}]
    /\ left \in [Threads -> Int] /\ limit \in [Threads -> 0 .. MaxWait]
    /\ since \in [Threads -> 0 .. Longest]
    /\ ret \in [Threads -> {"none", "ok", "ECANCELED", "ETIMEDOUT", "EBUSY", "EINTR"}]
    /\ signals \in 0 .. MaxSignals

Init ==
    /\ lock \in Locks
    /\ CASE Primitive = "sem" -> value \in 0 .. MaxValue
         [] Primitive = "mutex" -> value = 1
         [] Primitive = "rwlock" -> value = All
    /\ stop = FALSE
    /\ pc = [p \in Threads |-> "idle"]
    /\ need = [p \in Threads |-> 1]
    /\ held = [p \in Threads |-> 0]
    /\ left = [p \in Threads |-> 0]
    /\ limit = [p \in Threads |-> 0]
    /\ since = [p \in Threads |-> 0]
    /\ ret = [p \in Threads |-> "none"]
    /\ signals = 0

-----------------------------------------------------------------------------
\* A wait of p for k permits begins in state s with its deadline d ticks away.
Begin(p, k, s, d) ==
    /\ pc[p] = "idle" /\ held[p] = 0
    /\ pc' = [pc EXCEPT ![p] = s]
    /\ need' = [need EXCEPT ![p] = k]
    /\ left' = [left EXCEPT ![p] = d]
    /\ ret' = [ret EXCEPT ![p] = "none"]
    /\ UNCHANGED <<lock, value, stop, held, since, signals>>

\* p's wait is over; its parameters are gone.
Return(p, r) ==
    /\ pc' = [pc EXCEPT ![p] = "idle"]
    /\ ret' = [ret EXCEPT ![p] = r]
    /\ need' = [need EXCEPT ![p] = 1]
    /\ left' = [left EXCEPT ![p] = 0]
    /\ limit' = [limit EXCEPT ![p] = 0]
    /\ since' = [since EXCEPT ![p] = 0]

\* p's wait goes on in state s.
Continue(p, s) ==
    /\ pc' = [pc EXCEPT ![p] = s]
    /\ UNCHANGED <<ret, need, limit, since>>

\* p gets what it waits for; a semaphore need not be given back.
TakePermits(p, k) ==
    /\ value >= k
    /\ value' = value - k
    /\ held' = [held EXCEPT ![p] = IF Primitive = "sem" THEN 0 ELSE k]

\* urt_sem_waitf, urt_mutex_lockf, urt_rwlock_read_lockf and write_lockf with a
\* stop function: the POSIX back-end asks it first, the RTAI one first waits.
LockfPosix(p, k) ==
    /\ Backend = "posix"
    /\ Begin(p, k, "check", 0) /\ UNCHANGED limit

LockfRtai(p, k) ==
    /\ Backend = "rtai"
    /\ Begin(p, k, "block", Delay) /\ UNCHANGED limit

\* The same functions without a stop function.
Lock(p, k) == Begin(p, k, "forever", 0) /\ UNCHANGED limit

\* urt_sem_timed_wait, urt_mutex_timed_lock, urt_rwlock_timed_*_lock.
TimedLock(p, k, w) ==
    /\ Begin(p, k, "timed", w)
    /\ limit' = [limit EXCEPT ![p] = w]

\* urt_sem_try_wait, urt_mutex_try_lock, urt_rwlock_try_*_lock.
TryLock(p, k) ==
    /\ pc[p] = "idle" /\ held[p] = 0
    /\ IF value >= k
         THEN TakePermits(p, k) /\ Return(p, "ok")
         ELSE Return(p, "EBUSY") /\ UNCHANGED <<value, held>>
    /\ UNCHANGED <<lock, stop, signals>>

\* The head of the POSIX loop: the deadline moves on from the last one.
CheckPosix(p) ==
    /\ Backend = "posix" /\ pc[p] = "check"
    /\ IF stop
         THEN Return(p, "ECANCELED")
         ELSE Continue(p, "block") /\ left' = [left EXCEPT ![p] = @ + Delay]
    /\ UNCHANGED <<lock, value, stop, held, signals>>

\* The body of the RTAI loop: the next wait is relative to now.
CheckRtaiBug(p) ==
    /\ Backend = "rtai" /\ pc[p] = "check"
    /\ Continue(p, "block") /\ left' = [left EXCEPT ![p] = Delay]
    /\ UNCHANGED <<lock, value, stop, held, signals>>
CheckRtai(p) ==
    /\ Backend = "rtai" /\ pc[p] = "check"
    /\ IF stop
         THEN Return(p, "ECANCELED")
         ELSE Continue(p, "block") /\ left' = [left EXCEPT ![p] = Delay]
    /\ UNCHANGED <<lock, value, stop, held, signals>>

\* The primitive lets p through.
Take(p) ==
    /\ pc[p] \in {"block", "timed", "forever"}
    /\ TakePermits(p, need[p])
    /\ Return(p, "ok")
    /\ UNCHANGED <<lock, stop, signals>>

\* The deadline of a timed wait has passed: ETIMEDOUT, or round the stop loop.
TimeOutBug(p) ==
    /\ pc[p] \in {"block", "timed"} /\ left[p] <= 1
    /\ IF pc[p] = "timed"
         THEN Return(p, "ETIMEDOUT")
         ELSE Continue(p, "check") /\ UNCHANGED left
    /\ UNCHANGED <<lock, value, stop, held, signals>>
TimeOut(p) ==
    /\ pc[p] \in {"block", "timed"} /\ left[p] <= 0
    /\ IF pc[p] = "timed"
         THEN Return(p, "ETIMEDOUT")
         ELSE Continue(p, "check") /\ UNCHANGED left
    /\ UNCHANGED <<lock, value, stop, held, signals>>

\* A signal interrupts a POSIX semaphore's wait (the pthread locks are not
\* interrupted).  The stop loop goes on only after a timeout.
Interrupt(p) ==
    /\ Primitive = "sem" /\ Backend = "posix"
    /\ signals < MaxSignals
    /\ signals' = signals + 1
    /\ \/ pc[p] = "block" /\ Return(p, "EINTR")
       \/ pc[p] = "timed" /\ Continue(p, "again_timed") /\ UNCHANGED left
       \/ pc[p] = "forever" /\ Continue(p, "again_forever") /\ UNCHANGED left
    /\ UNCHANGED <<lock, value, stop, held>>

\* The other two loops wait again, for the same deadline.
RetryBug(p) ==
    /\ \/ pc[p] = "again_timed" /\ Continue(p, "timed")
       \/ pc[p] = "again_forever" /\ Continue(p, "forever")
    /\ left' = [left EXCEPT ![p] = limit[p]]
    /\ UNCHANGED <<lock, value, stop, held, signals>>
Retry(p) ==
    /\ \/ pc[p] = "again_timed" /\ Continue(p, "timed")
       \/ pc[p] = "again_forever" /\ Continue(p, "forever")
    /\ UNCHANGED <<lock, value, stop, held, left, signals>>

\* urt_mutex_unlock, urt_rwlock_*_unlock.
Unlock(p) ==
    /\ pc[p] = "idle" /\ held[p] > 0
    /\ value' = value + held[p]
    /\ held' = [held EXCEPT ![p] = 0]
    /\ UNCHANGED <<lock, stop, pc, need, left, limit, since, ret, signals>>

\* urt_sem_post.
SemPost ==
    /\ Primitive = "sem" /\ value < MaxValue
    /\ value' = value + 1
    /\ UNCHANGED <<lock, stop, pc, need, held, left, limit, since, ret, signals>>

SetStop ==
    /\ ~stop
    /\ stop' = TRUE
    /\ UNCHANGED <<lock, value, pc, need, held, left, limit, since, ret, signals>>

\* A tick passes unless a thread is already late by Slack.
Timing(p) == pc[p] \in Heeding \cup Limited
Tick ==
    /\ \A p \in Threads : Timing(p) => left[p] > -Slack
    /\ \E p \in Threads : Timing(p)
    /\ left' = [p \in Threads |-> IF Timing(p) THEN left[p] - 1 ELSE left[p]]
    /\ since' = [p \in Threads |->
                   IF (pc[p] \in Limited \/ (pc[p] \in Heeding /\ stop)) /\ since[p] < Longest
                     THEN since[p] + 1
                     ELSE since[p]]
    /\ UNCHANGED <<lock, value, stop, pc, need, held, limit, ret, signals>>

Progress(p) == CheckPosix(p) \/ CheckRtai(p) \/ TimeOut(p) \/ Retry(p)

Next ==
    \/ \E p \in Threads :
         \/ \E k \in Modes : LockfPosix(p, k) \/ LockfRtai(p, k) \/ Lock(p, k) \/ TryLock(p, k)
         \/ \E k \in Modes, w \in 0 .. MaxWait : TimedLock(p, k, w)
         \/ Take(p) \/ Progress(p) \/ Interrupt(p) \/ Unlock(p)
    \/ SemPost \/ SetStop \/ Tick

Spec == Init /\ [][Next]_vars

\* Time passes and ready threads run; nobody has to post, unlock or stop.
FairSpec == Spec /\ WF_vars(Tick) /\ \A p \in Threads : WF_vars(Progress(p))

-----------------------------------------------------------------------------
\* A wait with a stop condition is over at most URT_LOCK_STOP_MAX_DELAY after
\* the condition holds, however the loop's deadlines fall; a timed wait is over
\* at most max_wait after it began, although signals make it start again.
WaitBounded ==
    /\ TypeOK
    /\ \A p \in Threads :
         /\ pc[p] \in Heeding => since[p] <= Delay + Slack
         /\ pc[p] \in Limited => since[p] <= limit[p] + Slack

\* A wait reports a timeout only after it has lasted for max_wait.
NotEarly ==
    [][\A p \in Threads :
          pc[p] = "timed" /\ pc'[p] = "idle" /\ ret'[p] = "ETIMEDOUT" => since[p] >= limit[p]]_vars

\* A thread that waits with a stop condition or a time limit returns even if
\* the lock is never available.
WaitsEnd ==
    \A p \in Threads :
        /\ (stop /\ pc[p] \in Heeding) ~> pc[p] = "idle"
        /\ (pc[p] \in Limited) ~> pc[p] = "idle"
=============================================================================
