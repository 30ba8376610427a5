------------------------------ MODULE CondVar ------------------------------
(***************************************************************************)
(* Condition variables (urt_cond_waitf, urt_cond_timed_wait,               *)
(* urt_cond_signal and urt_cond_broadcast of sys/posix/src/lock.c and      *)
(* sys/rtai/src/lock.c), used the way doc/urt_lock prescribes:             *)
(*                                                                         *)
(*     lock(mutex);                          lock(mutex);                  *)
(*     while (!condition(data))              process(data);                *)
(*         urt_cond_wait(cond, mutex, stop); urt_cond_signal(cond);        *)
(*     process(data);                        unlock(mutex);                *)
(*     unlock(mutex);                                                      *)
(*                                                                         *)
(* The data is a number of items; consumers wait for one, producers add    *)
(* one.  A consumer whose wait is cancelled leaves.  The condition variable*)
(* and the mutex belong to the operating system.  Every deadline is left   *)
(* to the clock: a timed wait may expire at any time.                      *)
(***************************************************************************)
EXTENDS Integers, FiniteSets

CONSTANTS
    Consumers, Producers,
    Backends,    \* the back-ends, some of "posix" and "rtai"
    Waits,       \* the kinds of wait consumers use
    Limit,       \* bound on the items producers ever add
    None         \* nobody

ASSUME CondVarAssumption ==
    /\ IsFiniteSet(Consumers) /\ IsFiniteSet(Producers)
    /\ Consumers \cap Producers = {}
    /\ None \notin Consumers \cup Producers
    /\ Backends \subseteq {"posix", "rtai"}
    /\ Waits \subseteq {"forever", "timed", "stop"}
    /\ Limit \in Nat

VARIABLES
    backend,    \* the back-end URT was built for, fixed
    mutex,      \* the thread that holds the mutex, or None
    items,      \* the shared data
    begun,      \* number of items producers have set out to add
    stop,       \* what the stop function says
    pc,
    wait        \* the kind of wait a consumer is in

vars == <<backend, mutex, items, begun, stop, pc, wait>>

Threads == Consumers \cup Producers

Inside == {"test", "check", "enter", "put", "signal", "unlock"}  \* with the mutex
Waiting == {"check", "enter", "blocked", "woken", "expired"}     \* in urt_cond_wait

TypeOK ==
    /\ backend \in Backends
    /\ mutex \in Threads \cup {None}
    /\ items \in 0 .. Limit /\ begun \in 0 .. Limit
    /\ stop \in BOOLEAN
    /\ pc \in [Threads -> {"idle", "lock", "gone"} \cup Inside \cup Waiting]
    /\ wait \in [Consumers -> {"forever", "timed", "stop"}]
    /\ \A t \in Threads : mutex = t <=> pc[t] \in Inside

Init ==
    /\ backend \in Backends
    /\ mutex = None
    /\ items = 0 /\ begun = 0
    /\ stop = FALSE
    /\ pc = [t \in Threads |-> "idle"]
    /\ wait \in [Consumers -> Waits]

Goto(t, s) == pc' = [pc EXCEPT ![t] = s]
Data == <<items, begun>>

-----------------------------------------------------------------------------
Begin(t) ==
    /\ pc[t] = "idle"
    /\ IF t \in Producers
         THEN begun < Limit /\ begun' = begun + 1
         ELSE UNCHANGED begun
    /\ Goto(t, "lock")
    /\ UNCHANGED <<mutex, items, stop, wait, backend>>

LockMutex(t) ==
    /\ pc[t] = "lock" /\ mutex = None
    /\ mutex' = t
    /\ Goto(t, IF t \in Consumers THEN "test" ELSE "put")
    /\ UNCHANGED <<stop, wait, backend, Data>>

\* The consumer's loop: take an item and unlock, or wait.
Consume(c) ==
    /\ pc[c] = "test" /\ items > 0
    /\ items' = items - 1
    /\ mutex' = None
    /\ Goto(c, "idle")
    /\ UNCHANGED <<begun, stop, wait, backend>>

\* urt_cond_waitf: only the POSIX back-end asks the stop function first.
CondWait(c) ==
    /\ pc[c] = "test" /\ items = 0
    /\ Goto(c, IF wait[c] = "stop" /\ backend = "posix" THEN "check" ELSE "enter")
    /\ UNCHANGED <<mutex, stop, wait, backend, Data>>

\* The stop function is asked; ECANCELED is returned with the mutex held, and
\* the caller unlocks it.
CheckStopBug(c) ==
    /\ pc[c] = "check"
    /\ Goto(c, "enter") /\ UNCHANGED mutex
    /\ UNCHANGED <<stop, wait, backend, Data>>
CheckStop(c) ==
    /\ pc[c] = "check"
    /\ IF stop
         THEN Goto(c, "gone") /\ mutex' = None
         ELSE Goto(c, "enter") /\ UNCHANGED mutex
    /\ UNCHANGED <<stop, wait, backend, Data>>

\* pthread_cond_(timed)wait, rt_cond_wait(_timed): the mutex is released and
\* the thread blocked in one step.
Block(c) ==
    /\ pc[c] = "enter"
    /\ Goto(c, "blocked")
    /\ mutex' = None
    /\ UNCHANGED <<stop, wait, backend, Data>>

Expire(c) ==
    /\ pc[c] = "blocked" /\ wait[c] # "forever"
    /\ Goto(c, "expired")
    /\ UNCHANGED <<mutex, stop, wait, backend, Data>>

\* A POSIX wait may end for no reason.
Spurious(c) ==
    /\ backend = "posix" /\ pc[c] = "blocked"
    /\ Goto(c, "woken")
    /\ UNCHANGED <<mutex, stop, wait, backend, Data>>

\* A woken thread has the mutex again before its wait returns 0.
ReturnWokenBug(c) ==
    /\ pc[c] = "woken"
    /\ mutex' = IF mutex = None THEN c ELSE mutex
    /\ Goto(c, "test")
    /\ UNCHANGED <<stop, wait, backend, Data>>
ReturnWoken(c) ==
    /\ pc[c] = "woken" /\ mutex = None
    /\ mutex' = c
    /\ Goto(c, "test")
    /\ UNCHANGED <<stop, wait, backend, Data>>

\* So has one whose time is up: urt_cond_timed_wait returns ETIMEDOUT and the
\* caller looks at the data; the loop of urt_cond_waitf asks the stop function.
ReturnExpiredBug(c) ==
    /\ pc[c] = "expired" /\ mutex = None
    /\ mutex' = c
    /\ Goto(c, "check")
    /\ UNCHANGED <<stop, wait, backend, Data>>
ReturnExpired(c) ==
    /\ pc[c] = "expired" /\ mutex = None
    /\ mutex' = c
    /\ Goto(c, IF wait[c] = "timed" THEN "test" ELSE "check")
    /\ UNCHANGED <<stop, wait, backend, Data>>

Produce(p) ==
    /\ pc[p] = "put"
    /\ items' = items + 1
    /\ Goto(p, "signal")
    /\ UNCHANGED <<mutex, begun, stop, wait, backend>>

Blocked == {c \in Consumers : pc[c] = "blocked"}

\* urt_cond_signal wakes one of the blocked threads, urt_cond_broadcast all.
Signal(p) ==
    /\ pc[p] = "signal"
    /\ IF Blocked = {}
         THEN Goto(p, "unlock")
         ELSE \E c \in Blocked : pc' = [pc EXCEPT ![c] = "woken", ![p] = "unlock"]
    /\ UNCHANGED <<mutex, stop, wait, backend, Data>>

Broadcast(p) ==
    /\ pc[p] = "signal"
    /\ pc' = [t \in Threads |-> CASE t = p -> "unlock"
                                  [] t \in Blocked -> "woken"
                                  [] OTHER -> pc[t]]
    /\ UNCHANGED <<mutex, stop, wait, backend, Data>>

Unlock(p) ==
    /\ pc[p] = "unlock"
    /\ mutex' = None
    /\ Goto(p, "idle")
    /\ UNCHANGED <<stop, wait, backend, Data>>

SetStop ==
    /\ ~stop
    /\ stop' = TRUE
    /\ UNCHANGED <<mutex, pc, wait, backend, Data>>

Consumer(c) ==
    \/ LockMutex(c) \/ Consume(c) \/ CondWait(c) \/ CheckStop(c) \/ Block(c)
    \/ Expire(c) \/ ReturnWoken(c) \/ ReturnExpired(c)
Producer(p) == LockMutex(p) \/ Produce(p) \/ Signal(p) \/ Broadcast(p) \/ Unlock(p)

Next ==
    \/ \E t \in Threads : Begin(t)
    \/ \E c \in Consumers : Consumer(c) \/ Spurious(c)
    \/ \E p \in Producers : Producer(p)
    \/ SetStop

Spec == Init /\ [][Next]_vars

\* Threads that can run do, and deadlines pass; nobody has to produce or stop.
FairSpec ==
    /\ Spec
    /\ \A c \in Consumers : WF_vars(Consumer(c))
    /\ \A p \in Producers : WF_vars(Producer(p))

-----------------------------------------------------------------------------
\* Consumers that will look at the data without any further wake-up.
Looking ==
    {c \in Consumers : \/ pc[c] \in {"lock", "test", "woken"}
                       \/ pc[c] = "expired" /\ wait[c] = "timed"}

\* There are no more items than threads about to look at them, or to signal.
ItemsSeen ==
    items <= Cardinality(Looking) + Cardinality({p \in Producers : pc[p] = "signal"})

\* No consumer without a stop condition is asleep while there is an item that
\* nobody is about to look at: a signal sent while a thread is in urt_cond_wait
\* is not lost, even if that thread's time runs out as it is sent, and even if
\* the thread woken in its place is one that waits with a stop condition.
NoLostWakeup == (\E c \in Blocked : wait[c] # "stop") => ItemsSeen

\* The same for every consumer: one that is blocked in urt_cond_wait is woken
\* by urt_cond_signal.
SignalWakes == Blocked # {} => ItemsSeen

\* No other consumer comes back for the mutex again and again.
Undisturbed ==
    \A c \in Consumers : wait[c] = "stop" \/ (wait[c] = "forever" /\ backend = "rtai")

\* A consumer that waits with a stop condition returns once it holds, with
\* the mutex released, without being signalled.
CancelReturns ==
    \A c \in Consumers :
        (stop /\ Undisturbed /\ wait[c] = "stop" /\ pc[c] \in Waiting) ~> pc[c] \notin Waiting
=============================================================================
