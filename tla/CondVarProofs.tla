--------------------------- MODULE CondVarProofs ---------------------------
(***************************************************************************)
(* The safety properties of CondVar for any number of consumers,           *)
(* producers and items, every mix of waits and both back-ends.             *)
(***************************************************************************)
EXTENDS CondVar, FiniteSetTheorems, TLAPS

\* The producers that have set out to add an item and not added it yet.
Pending == {p \in Producers : pc[p] \in {"lock", "put"}}

Signalling == {p \in Producers : pc[p] = "signal"}

\* Consumers and producers keep to their own parts of the protocol.
RoleInv ==
    /\ \A p \in Producers : pc[p] \in {"idle", "lock", "put", "signal", "unlock"}
    /\ \A c \in Consumers : pc[c] \in {"idle", "lock", "test", "gone"} \cup Waiting

\* A wait is entered with the data as the caller last saw it, except by the
\* loop of urt_cond_waitf, which comes back from a wait that expired.
WaitInv ==
    \A c \in Consumers :
        /\ pc[c] = "check" => wait[c] = "stop"
        /\ pc[c] = "expired" => wait[c] # "forever"
        /\ pc[c] = "enter" /\ wait[c] # "stop" => items = 0

ItemsInv == items + Cardinality(Pending) <= begun

CondInv == TypeOK /\ RoleInv /\ WaitInv /\ ItemsInv /\ NoLostWakeup
-----------------------------------------------------------------------------
\* The size of a set of threads after a step in which one thread may have
\* entered or left it.
LEMMA CountAfter ==
    ASSUME NEW S \in SUBSET Threads, NEW T \in SUBSET Threads, NEW t \in Threads,
           \A u \in Threads : u # t => (u \in S <=> u \in T)
    PROVE  /\ Cardinality(S) \in Nat /\ Cardinality(T) \in Nat
           /\ (t \in S <=> t \in T) => Cardinality(T) = Cardinality(S)
           /\ t \notin S /\ t \in T => Cardinality(T) = Cardinality(S) + 1
           /\ t \in S /\ t \notin T => Cardinality(T) = Cardinality(S) - 1
<1>1. IsFiniteSet(S) /\ IsFiniteSet(T)
  BY CondVarAssumption, FS_Subset, FS_Union DEF Threads
<1>2. (t \in S <=> t \in T) => T = S
  OBVIOUS
<1>3. t \notin S /\ t \in T => T = S \cup {t}
  OBVIOUS
<1>4. t \in S /\ t \notin T => T = S \ {t}
  OBVIOUS
<1> QED
  BY <1>1, <1>2, <1>3, <1>4, FS_CardinalityType, FS_AddElement, FS_RemoveElement

LEMMA CountsAreNumbers ==
    /\ Looking \in SUBSET Threads /\ Cardinality(Looking) \in Nat
    /\ Signalling \in SUBSET Threads /\ Cardinality(Signalling) \in Nat
    /\ Pending \in SUBSET Threads /\ Cardinality(Pending) \in Nat
<1>1. Looking \in SUBSET Threads /\ Signalling \in SUBSET Threads /\ Pending \in SUBSET Threads
  BY DEF Looking, Signalling, Pending, Threads
<1>2. IsFiniteSet(Threads)
  BY CondVarAssumption, FS_Union DEF Threads
<1> QED
  BY <1>1, <1>2, FS_Subset, FS_CardinalityType

LEMMA CountsAreNumbersNext ==
    /\ Looking' \in SUBSET Threads /\ Cardinality(Looking') \in Nat
    /\ Signalling' \in SUBSET Threads /\ Cardinality(Signalling') \in Nat
    /\ Pending' \in SUBSET Threads /\ Cardinality(Pending') \in Nat
<1>1. Looking' \in SUBSET Threads /\ Signalling' \in SUBSET Threads /\ Pending' \in SUBSET Threads
  BY DEF Looking, Signalling, Pending, Threads
<1>2. IsFiniteSet(Threads)
  BY CondVarAssumption, FS_Union DEF Threads
<1> QED
  BY <1>1, <1>2, FS_Subset, FS_CardinalityType

LEMMA CondInvInit == Init => CondInv
<1> SUFFICES ASSUME Init PROVE CondInv
  OBVIOUS
<1>1. Waits \subseteq {"forever", "timed", "stop"} /\ Limit \in Nat /\ None \notin Threads
  BY CondVarAssumption DEF Threads
<1>2. wait \in [Consumers -> {"forever", "timed", "stop"}]
  BY <1>1 DEF Init
<1>3. stop \in BOOLEAN
  BY Zenon DEF Init
<1>4. TypeOK
  BY <1>1, <1>2, <1>3 DEF Init, TypeOK, Inside
<1>5. RoleInv /\ WaitInv /\ NoLostWakeup
  BY DEF Init, RoleInv, WaitInv, NoLostWakeup, Blocked, Threads
<1>6. ItemsInv
  <2>1. Pending = {}
    BY DEF Init, Pending, Threads
  <2>2. Cardinality(Pending) = 0
    BY <2>1, FS_EmptySet
  <2> QED
    BY <2>2 DEF Init, ItemsInv
<1> QED
  BY <1>4, <1>5, <1>6 DEF CondInv

\* The steps of a consumer: who stops looking at the data has taken an item
\* or found none.
LEMMA ConsumerStep ==
    ASSUME CondInv, NEW c \in Consumers, Begin(c) \/ Consumer(c) \/ Spurious(c)
    PROVE  CondInv'
<1> USE DEF CondInv
<1>0. /\ c \in Threads /\ c \notin Producers /\ None \notin Threads
      /\ Consumers \subseteq Threads /\ Producers \subseteq Threads /\ Consumers \cap Producers = {}
      /\ items \in Nat /\ begun \in Nat /\ items <= Limit
  BY CondVarAssumption DEF Threads, TypeOK
<1>1. /\ UNCHANGED <<backend, begun, stop, wait>>
      /\ \A u \in Threads : u # c => pc'[u] = pc[u]
      /\ pc' \in [Threads -> {"idle", "lock", "gone"} \cup Inside \cup Waiting]
      /\ \/ pc[c] = "idle" /\ pc'[c] = "lock" /\ UNCHANGED <<mutex, items>>
         \/ pc[c] = "lock" /\ pc'[c] = "test" /\ mutex = None /\ mutex' = c /\ UNCHANGED items
         \/ pc[c] = "test" /\ pc'[c] = "idle" /\ items > 0 /\ items' = items - 1 /\ mutex' = None
         \/ pc[c] = "test" /\ pc'[c] = "check" /\ wait[c] = "stop" /\ items = 0 /\ UNCHANGED <<mutex, items>>
         \/ pc[c] = "test" /\ pc'[c] = "enter" /\ items = 0 /\ UNCHANGED <<mutex, items>>
         \/ pc[c] = "check" /\ pc'[c] = "gone" /\ mutex' = None /\ UNCHANGED items
         \/ pc[c] = "check" /\ pc'[c] = "enter" /\ UNCHANGED <<mutex, items>>
         \/ pc[c] = "enter" /\ pc'[c] = "blocked" /\ mutex' = None /\ UNCHANGED items
         \/ pc[c] = "blocked" /\ pc'[c] = "expired" /\ wait[c] # "forever" /\ UNCHANGED <<mutex, items>>
         \/ pc[c] = "blocked" /\ pc'[c] = "woken" /\ UNCHANGED <<mutex, items>>
         \/ pc[c] = "woken" /\ pc'[c] = "test" /\ mutex = None /\ mutex' = c /\ UNCHANGED items
         \/ pc[c] = "expired" /\ pc'[c] = "test" /\ wait[c] = "timed" /\ mutex = None /\ mutex' = c /\ UNCHANGED items
         \/ pc[c] = "expired" /\ pc'[c] = "check" /\ wait[c] # "timed" /\ mutex = None /\ mutex' = c /\ UNCHANGED items
  <2>1. CASE Begin(c)
    BY <1>0, <2>1 DEF Begin, Goto, TypeOK
  <2>2. CASE LockMutex(c) \/ Consume(c) \/ CondWait(c)
    BY <1>0, <2>2 DEF LockMutex, Consume, CondWait, Goto, TypeOK, Data, Inside, Waiting
  <2>3. CASE CheckStop(c) \/ Block(c) \/ Expire(c) \/ Spurious(c)
    BY <1>0, <2>3 DEF CheckStop, Block, Expire, Spurious, Goto, TypeOK, Data, Inside, Waiting
  <2>4. CASE ReturnWoken(c) \/ ReturnExpired(c)
    BY <1>0, <2>4 DEF ReturnWoken, ReturnExpired, Goto, TypeOK, Data, Inside, Waiting
  <2> QED
    BY <2>1, <2>2, <2>3, <2>4 DEF Consumer
<1>2. items' \in Nat /\ items' <= items /\ (items' # items => items > 0)
  BY <1>0, <1>1
<1>3. TypeOK'
  <2>1. \A u \in Threads : mutex' = u <=> pc'[u] \in Inside
    BY <1>0, <1>1 DEF TypeOK, Inside
  <2>2. items' \in 0 .. Limit
    BY <1>0, <1>2, CondVarAssumption
  <2>3. mutex' \in Threads \cup {None}
    BY <1>0, <1>1 DEF TypeOK
  <2> QED
    BY <1>1, <2>1, <2>2, <2>3 DEF TypeOK
<1>4. RoleInv'
  BY <1>0, <1>1 DEF RoleInv, Waiting
<1>5. WaitInv'
  <2>1. wait[c] \in {"forever", "timed", "stop"}
    BY DEF TypeOK
  <2> QED
    BY <1>0, <1>1, <1>2, <2>1 DEF WaitInv
<1>6. Pending' = Pending /\ Signalling' = Signalling
  BY <1>0, <1>1 DEF Pending, Signalling
<1>7. ItemsInv'
  BY <1>0, <1>1, <1>2, <1>6, CountsAreNumbers DEF ItemsInv
<1>8. NoLostWakeup'
  <2> SUFFICES ASSUME NEW d \in Blocked', wait[d] # "stop", items' # 0 PROVE ItemsSeen'
    BY <1>1, <1>2, CountsAreNumbersNext DEF NoLostWakeup, ItemsSeen, Signalling
  <2>1. d \in Consumers /\ pc'[d] = "blocked"
    BY DEF Blocked
  <2>2. d \in Blocked
    BY <1>0, <1>1, <2>1 DEF WaitInv, Blocked
  <2>3. items <= Cardinality(Looking) + Cardinality(Signalling)
    BY <2>2 DEF NoLostWakeup, ItemsSeen, Signalling
  <2>4. ItemsSeen' <=> items' <= Cardinality(Looking') + Cardinality(Signalling')
    BY DEF ItemsSeen, Signalling
  <2>5. \A u \in Threads : u # c => (u \in Looking <=> u \in Looking')
    BY <1>1 DEF Looking
  <2>6. CASE items' = items
    <3>1. c \in Looking => c \in Looking'
      BY <1>0, <1>1, <2>6 DEF Looking
    <3>2. Cardinality(Looking') >= Cardinality(Looking)
      BY <1>0, <2>5, <3>1, CountsAreNumbers, CountsAreNumbersNext, CountAfter
    <3> QED
      BY <1>0, <1>6, <2>3, <2>6, <2>4, <3>2, CountsAreNumbers, CountsAreNumbersNext
  <2>7. CASE items' # items
    <3>1. c \in Looking /\ c \notin Looking' /\ items' = items - 1
      BY <1>0, <1>1, <2>7 DEF Looking
    <3>2. Cardinality(Looking') = Cardinality(Looking) - 1
      BY <1>0, <2>5, <3>1, CountsAreNumbers, CountsAreNumbersNext, CountAfter
    <3> QED
      BY <1>0, <1>2, <1>6, <2>3, <2>4, <3>1, <3>2, CountsAreNumbers, CountsAreNumbersNext
  <2> QED
    BY <2>6, <2>7
<1> QED
  BY <1>3, <1>4, <1>5, <1>7, <1>8

\* A producer outside urt_cond_signal: an item that is added is one that a
\* signal will follow.
LEMMA ProducerStep ==
    ASSUME CondInv, NEW p \in Producers, Begin(p) \/ LockMutex(p) \/ Produce(p) \/ Unlock(p)
    PROVE  CondInv'
<1> USE DEF CondInv
<1>0. /\ p \in Threads /\ p \notin Consumers /\ None \notin Threads
      /\ Consumers \subseteq Threads /\ Producers \subseteq Threads /\ Consumers \cap Producers = {}
      /\ items \in Nat /\ begun \in Nat /\ begun <= Limit /\ Limit \in Nat
  BY CondVarAssumption DEF Threads, TypeOK
<1>1. /\ UNCHANGED <<backend, stop, wait>>
      /\ \A u \in Threads : u # p => pc'[u] = pc[u]
      /\ pc' \in [Threads -> {"idle", "lock", "gone"} \cup Inside \cup Waiting]
      /\ \/ pc[p] = "idle" /\ pc'[p] = "lock" /\ begun < Limit /\ begun' = begun + 1 /\ UNCHANGED <<mutex, items>>
         \/ pc[p] = "lock" /\ pc'[p] = "put" /\ mutex = None /\ mutex' = p /\ UNCHANGED <<items, begun>>
         \/ pc[p] = "put" /\ pc'[p] = "signal" /\ items' = items + 1 /\ UNCHANGED <<mutex, begun>>
         \/ pc[p] = "unlock" /\ pc'[p] = "idle" /\ mutex' = None /\ UNCHANGED <<items, begun>>
  <2>1. CASE Begin(p)
    BY <1>0, <2>1 DEF Begin, Goto, TypeOK
  <2>2. CASE LockMutex(p) \/ Produce(p) \/ Unlock(p)
    BY <1>0, <2>2 DEF LockMutex, Produce, Unlock, Goto, TypeOK, Data, Inside
  <2> QED
    BY <2>1, <2>2
<1>2. /\ \A u \in Threads : u # p => (u \in Pending <=> u \in Pending') /\ (u \in Signalling <=> u \in Signalling')
      /\ Looking' = Looking /\ Blocked' = Blocked
  BY <1>0, <1>1 DEF Pending, Signalling, Looking, Blocked
<1>3. ItemsInv' /\ items' \in 0 .. Limit /\ begun' \in 0 .. Limit
  <2>1. items + Cardinality(Pending) <= begun
    BY DEF ItemsInv
  <2>2. CASE pc[p] = "idle"
    <3>1. p \notin Pending /\ p \in Pending'
      BY <1>1, <2>2 DEF Pending
    <3>2. Cardinality(Pending') = Cardinality(Pending) + 1
      BY <1>0, <1>2, <3>1, CountsAreNumbers, CountsAreNumbersNext, CountAfter
    <3> QED
      BY <1>0, <1>1, <2>1, <2>2, <3>2, CountsAreNumbers DEF ItemsInv
  <2>3. CASE pc[p] = "put"
    <3>1. p \in Pending /\ p \notin Pending'
      BY <1>1, <2>3 DEF Pending
    <3>2. Cardinality(Pending') = Cardinality(Pending) - 1
      BY <1>0, <1>2, <3>1, CountsAreNumbers, CountsAreNumbersNext, CountAfter
    <3> QED
      BY <1>0, <1>1, <2>1, <2>3, <3>2, CountsAreNumbers, CountsAreNumbersNext DEF ItemsInv
  <2>4. CASE pc[p] \in {"lock", "unlock"}
    <3>1. p \in Pending <=> p \in Pending'
      BY <1>1, <2>4 DEF Pending
    <3>2. Cardinality(Pending') = Cardinality(Pending)
      BY <1>0, <1>2, <3>1, CountsAreNumbers, CountsAreNumbersNext, CountAfter
    <3> QED
      BY <1>0, <1>1, <2>1, <2>4, <3>2, CountsAreNumbers DEF ItemsInv
  <2> QED
    BY <1>1, <2>2, <2>3, <2>4
<1>4. TypeOK'
  <2>1. \A u \in Threads : mutex' = u <=> pc'[u] \in Inside
    BY <1>0, <1>1 DEF TypeOK, Inside
  <2>2. mutex' \in Threads \cup {None}
    BY <1>0, <1>1 DEF TypeOK
  <2> QED
    BY <1>1, <1>3, <2>1, <2>2 DEF TypeOK
<1>5. RoleInv'
  BY <1>0, <1>1 DEF RoleInv
<1>6. WaitInv'
  <2>1. pc[p] = "put" => \A c \in Consumers : pc[c] # "enter"
    BY <1>0 DEF TypeOK, Inside
  <2> QED
    BY <1>0, <1>1, <2>1 DEF WaitInv
<1>7. NoLostWakeup'
  <2> SUFFICES ASSUME NEW d \in Blocked, wait[d] # "stop" PROVE ItemsSeen'
    BY <1>1, <1>2 DEF NoLostWakeup
  <2>1. items <= Cardinality(Looking) + Cardinality(Signalling)
    BY DEF NoLostWakeup, ItemsSeen, Signalling
  <2>2. ItemsSeen' <=> items' <= Cardinality(Looking') + Cardinality(Signalling')
    BY DEF ItemsSeen, Signalling
  <2>3. CASE pc[p] = "put"
    <3>1. p \notin Signalling /\ p \in Signalling' /\ items' = items + 1
      BY <1>1, <2>3 DEF Signalling
    <3>2. Cardinality(Signalling') = Cardinality(Signalling) + 1
      BY <1>0, <1>2, <3>1, CountsAreNumbers, CountsAreNumbersNext, CountAfter
    <3> QED
      BY <1>0, <1>2, <2>1, <2>2, <3>1, <3>2, CountsAreNumbers
  <2>4. CASE pc[p] # "put"
    <3>1. p \notin Signalling /\ p \notin Signalling' /\ items' = items
      BY <1>1, <2>4 DEF Signalling
    <3>2. Cardinality(Signalling') = Cardinality(Signalling)
      BY <1>0, <1>2, <3>1, CountsAreNumbers, CountsAreNumbersNext, CountAfter
    <3> QED
      BY <1>2, <2>1, <2>2, <3>1, <3>2
  <2> QED
    BY <2>3, <2>4
<1> QED
  BY <1>3, <1>4, <1>5, <1>6, <1>7

\* urt_cond_signal hands the item to a consumer that it wakes, unless nobody
\* is blocked; after urt_cond_broadcast nobody is.
LEMMA SignalStep ==
    ASSUME CondInv, NEW p \in Producers, Signal(p) \/ Broadcast(p)
    PROVE  CondInv'
<1> USE DEF CondInv
<1>0. /\ p \in Threads /\ p \notin Consumers /\ None \notin Threads
      /\ Consumers \subseteq Threads /\ Producers \subseteq Threads /\ Consumers \cap Producers = {}
      /\ items \in Nat /\ begun \in Nat
  BY CondVarAssumption DEF Threads, TypeOK
<1>1. /\ UNCHANGED <<backend, mutex, items, begun, stop, wait>>
      /\ pc[p] = "signal" /\ pc'[p] = "unlock"
      /\ \A u \in Threads : u # p => pc'[u] = pc[u] \/ (u \in Consumers /\ pc[u] = "blocked" /\ pc'[u] = "woken")
      /\ pc' \in [Threads -> {"idle", "lock", "gone"} \cup Inside \cup Waiting]
  <2>1. CASE Signal(p)
    BY <1>0, <2>1 DEF Signal, Goto, TypeOK, Data, Inside, Waiting, Blocked
  <2>2. CASE Broadcast(p)
    BY <1>0, <2>2 DEF Broadcast, TypeOK, Data, Inside, Waiting, Blocked
  <2> QED
    BY <2>1, <2>2
<1>2. TypeOK'
  <2>1. \A u \in Threads : mutex' = u <=> pc'[u] \in Inside
    BY <1>0, <1>1 DEF TypeOK, Inside
  <2> QED
    BY <1>1, <2>1 DEF TypeOK
<1>3. RoleInv' /\ WaitInv'
  BY <1>0, <1>1 DEF RoleInv, WaitInv, Waiting
<1>4. ItemsInv'
  <2>1. Pending' = Pending
    BY <1>0, <1>1 DEF Pending
  <2> QED
    BY <1>1, <2>1 DEF ItemsInv
<1>5. NoLostWakeup'
  <2> SUFFICES ASSUME NEW d \in Blocked', wait[d] # "stop" PROVE ItemsSeen'
    BY <1>1 DEF NoLostWakeup
  <2>1. d \in Blocked
    BY <1>0, <1>1 DEF Blocked
  <2>2. ~Broadcast(p)
    BY <1>0 DEF Broadcast, Blocked
  <2>3. PICK c \in Blocked : pc' = [pc EXCEPT ![c] = "woken", ![p] = "unlock"]
    BY <2>1, <2>2 DEF Signal
  <2>4. c \in Consumers /\ c # p /\ pc'[c] = "woken" /\ pc[c] = "blocked"
        /\ \A u \in Threads : u # p /\ u # c => pc'[u] = pc[u]
    BY <1>0, <2>3 DEF Blocked, TypeOK
  <2>5. Cardinality(Looking') = Cardinality(Looking) + 1
    <3>1. c \notin Looking /\ c \in Looking' /\ \A u \in Threads : u # c => (u \in Looking <=> u \in Looking')
      BY <1>0, <1>1, <2>4 DEF Looking
    <3> QED
      BY <1>0, <2>4, <3>1, CountsAreNumbers, CountsAreNumbersNext, CountAfter
  <2>6. Cardinality(Signalling') = Cardinality(Signalling) - 1
    <3>1. p \in Signalling /\ p \notin Signalling' /\ \A u \in Threads : u # p => (u \in Signalling <=> u \in Signalling')
      BY <1>0, <1>1, <2>4 DEF Signalling
    <3> QED
      BY <1>0, <3>1, CountsAreNumbers, CountsAreNumbersNext, CountAfter
  <2>7. items <= Cardinality(Looking) + Cardinality(Signalling)
    BY <2>1 DEF NoLostWakeup, ItemsSeen, Signalling
  <2>8. ItemsSeen' <=> items' <= Cardinality(Looking') + Cardinality(Signalling')
    BY DEF ItemsSeen, Signalling
  <2> QED
    BY <1>0, <1>1, <2>5, <2>6, <2>7, <2>8, CountsAreNumbers
<1> QED
  BY <1>2, <1>3, <1>4, <1>5

LEMMA CondInvNext == CondInv /\ [Next]_vars => CondInv'
<1> SUFFICES ASSUME CondInv, [Next]_vars PROVE CondInv'
  OBVIOUS
<1>1. ASSUME NEW c \in Consumers, Begin(c) \/ Consumer(c) \/ Spurious(c) PROVE CondInv'
  BY <1>1, ConsumerStep
<1>2. ASSUME NEW p \in Producers, Begin(p) \/ LockMutex(p) \/ Produce(p) \/ Unlock(p) PROVE CondInv'
  BY <1>2, ProducerStep
<1>3. ASSUME NEW p \in Producers, Signal(p) \/ Broadcast(p) PROVE CondInv'
  BY <1>3, SignalStep
<1>4. CASE SetStop \/ UNCHANGED vars
  <2>1. UNCHANGED <<backend, mutex, items, begun, pc, wait>> /\ stop' \in BOOLEAN
    BY <1>4 DEF SetStop, vars, Data, CondInv, TypeOK
  <2> QED
    BY <2>1 DEF CondInv, TypeOK, RoleInv, WaitInv, ItemsInv, NoLostWakeup, ItemsSeen, Looking, Blocked, Pending
<1> QED
  BY <1>1, <1>2, <1>3, <1>4 DEF Next, Producer, Threads

LEMMA CondInvHolds == Spec => []CondInv
  BY CondInvInit, CondInvNext, PTL DEF Spec

-----------------------------------------------------------------------------
\* Types, bounds and the owner of the mutex: whoever is inside has it,
\* and no wait returns without it.
THEOREM TypeCorrect == Spec => []TypeOK
<1>1. CondInv => TypeOK
  BY DEF CondInv
<1> QED
  BY <1>1, CondInvHolds, PTL

\* urt_cond_signal and urt_cond_broadcast lose no wake-up of a consumer that
\* waits with urt_cond_wait or urt_cond_timed_wait.
THEOREM NoLostWakeupHolds == Spec => []NoLostWakeup
<1>1. CondInv => NoLostWakeup
  BY DEF CondInv
<1> QED
  BY <1>1, CondInvHolds, PTL
=============================================================================
