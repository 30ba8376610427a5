-------------------------- MODULE GlobalLockProofs --------------------------
(***************************************************************************)
(* The safety properties of GlobalLock for any number of threads,          *)
(* processes, interrupted waits, crashes and loads of the module.          *)
(***************************************************************************)
EXTENDS GlobalLock, FiniteSetTheorems, TLAPS

\* The threads that go on without the semaphore, after a wait that a signal
\* cut short: each will post a unit it never had.
Intruders == {t \in Threads : pc[t] \in Locked /\ Served(t) /\ ~owns[t]}

\* Every unit, and every unit that an intruder is about to add.
CountInv ==
    /\ stage = "out" => urt_global_sem = 0 /\ lost = 0 /\ \A t \in Threads : ~owns[t] /\ pc[t] # "down"
    /\ stage # "out" =>
         /\ urt_global_sem + Cardinality(Owners) + lost >= 1
         /\ urt_global_sem + Cardinality(Owners) + lost + Cardinality(Intruders) <= 1 + interrupts
    /\ stage = "in" /\ crashes = 0 => lost = 0

\* Who has the semaphore, or waits inside the module, is one whose post will
\* reach it, as long as it stays.
ServedInv ==
    \A t \in Threads :
        /\ owns[t] => pc[t] \in Locked
        /\ stage = "in" /\ (owns[t] \/ pc[t] = "down") => Served(t)
        /\ ~InUser(t) => pc[t] \in {"idle", "down", "locked"} /\ (stage # "in" => pc[t] = "idle")

\* A file that is open is that of a past load or of this one.
HandleInv == \A p \in Procs : handle[p] <= loads

\* The mutex of a process belongs to its thread that uses the file, except in
\* urt_recover, during which the other threads do nothing.
MutexInv ==
    \A t \in Threads :
        InUser(t) =>
            /\ pc[t] \in {"write", "down", "locked", "unlock"} => sysfs_lock[SpaceOf[t]] = t
            /\ pc[t] \in {"recovering", "recovered"} =>
                 \A u \in Threads : u # t /\ SpaceOf[u] = SpaceOf[t] => pc[u] \in {"idle", "dead"}

GlobalInv == TypeOK /\ CountInv /\ ServedInv /\ HandleInv /\ MutexInv
-----------------------------------------------------------------------------
\* The size of a set of threads after a step in which one thread may have
\* entered or left it.
LEMMA CountAfter ==
    ASSUME NEW S \in SUBSET Threads, NEW T \in SUBSET Threads, NEW t \in Threads,
           \A u \in Threads : u # t => (u \in S <=> u \in T)
    PROVE  /\ Cardinality(S) \in Nat /\ Cardinality(T) \in Nat
           /\ (t \in S <=> t \in T) => Cardinality(T) = Cardinality(S)
           /\ t \notin S /\ t \in T => Cardinality(T) = Cardinality(S) + 1
           /\ t \in S /\ t \notin T => Cardinality(T) = Cardinality(S) - 1
<1>1. IsFiniteSet(S) /\ IsFiniteSet(T)
  BY GlobalLockAssumption, FS_Subset
<1>2. (t \in S <=> t \in T) => T = S
  OBVIOUS
<1>3. t \notin S /\ t \in T => T = S \cup {t}
  OBVIOUS
<1>4. t \in S /\ t \notin T => T = S \ {t}
  OBVIOUS
<1> QED
  BY <1>1, <1>2, <1>3, <1>4, FS_CardinalityType, FS_AddElement, FS_RemoveElement

LEMMA CountsAreNumbers ==
    /\ Owners \in SUBSET Threads /\ IsFiniteSet(Owners) /\ Cardinality(Owners) \in Nat
    /\ Intruders \in SUBSET Threads /\ IsFiniteSet(Intruders) /\ Cardinality(Intruders) \in Nat
<1>1. Owners \in SUBSET Threads /\ Intruders \in SUBSET Threads
  BY DEF Owners, Intruders
<1> QED
  BY <1>1, GlobalLockAssumption, FS_Subset, FS_CardinalityType

\* The bounds of the semaphore and of the lost units follow from the account.
LEMMA Bounded ==
    ASSUME CountInv', urt_global_sem' \in Nat, lost' \in Nat, interrupts' \in 0 .. MaxInterrupts,
           Cardinality(Owners') \in Nat, Cardinality(Intruders') \in Nat
    PROVE  urt_global_sem' \in 0 .. 1 + MaxInterrupts /\ lost' \in 0 .. 1 + MaxInterrupts
  BY GlobalLockAssumption DEF CountInv

LEMMA GlobalInvInit == Init => GlobalInv
<1> SUFFICES ASSUME Init PROVE GlobalInv
  OBVIOUS
<1> USE GlobalLockAssumption DEF Init
<1>1. TypeOK
  <2>1. /\ urt_global_sem \in 0 .. 1 + MaxInterrupts /\ lost \in 0 .. 1 + MaxInterrupts
        /\ interrupts \in 0 .. MaxInterrupts /\ crashes \in 0 .. MaxCrashes /\ loads \in 0 .. MaxLoads
    OBVIOUS
  <2>2. /\ sysfs_lock \in [Procs -> Threads \cup {NoThread}] /\ owns \in [Threads -> BOOLEAN]
        /\ pc \in [Threads -> {"idle", "mutex", "write", "down", "unlock", "recovered", "dead"} \cup Locked]
    BY ONLY Init DEF Init
  <2>3. handle \in [Procs -> 0 .. MaxLoads] /\ file \in BOOLEAN /\ stage \in {"out", "in", "leaving"}
    <3>1. 0 \in 0 .. MaxLoads
      OBVIOUS
    <3>2. handle = [p \in Procs |-> 0] /\ file = FALSE /\ stage = "out"
      OBVIOUS
    <3> QED
      BY ONLY <3>1, <3>2
  <2> QED
    BY <2>1, <2>2, <2>3 DEF TypeOK
<1>2. CountInv
  BY DEF CountInv
<1>3. ServedInv /\ HandleInv /\ MutexInv
  BY DEF ServedInv, HandleInv, MutexInv
<1> QED
  BY <1>1, <1>2, <1>3 DEF GlobalInv

\* A step that moves no unit: the account stands when the owners and the
\* intruders are the same.
LEMMA SameCounts ==
    ASSUME GlobalInv,
           UNCHANGED <<urt_global_sem, owns, interrupts, crashes, lost, stage>>,
           \A u \in Threads : u \in Intruders' <=> u \in Intruders,
           stage = "out" => \A u \in Threads : pc'[u] # "down"
    PROVE  CountInv' /\ Owners' = Owners
<1>1. Owners' = Owners
  BY DEF Owners
<1>2. Intruders' = Intruders
  <2>1. Intruders' \in SUBSET Threads /\ Intruders \in SUBSET Threads
    BY DEF Intruders
  <2> QED
    BY <2>1
<1> QED
  BY <1>1, <1>2 DEF GlobalInv, CountInv

\* The wait up to the semaphore.
LEMMA WaitStep ==
    ASSUME GlobalInv, NEW t \in Threads, Wait(t) \/ LockSysfs(t) \/ Write(t)
    PROVE  GlobalInv'
<1> USE GlobalLockAssumption DEF GlobalInv, Locked, InUser
<1>1. /\ UNCHANGED <<urt_global_sem, owns, interrupts, crashes, lost, stage, loads, file, handle>>
      /\ \A u \in Threads : u # t => pc'[u] = pc[u]
      /\ pc' \in [Threads -> {"idle", "mutex", "write", "down", "unlock", "recovered", "dead"} \cup Locked]
  BY DEF Wait, LockSysfs, Write, TypeOK, module
<1>2. \/ pc[t] = "idle" /\ pc'[t] = "mutex" /\ InUser(t) /\ UNCHANGED sysfs_lock
      \/ pc[t] = "idle" /\ pc'[t] = "down" /\ ~InUser(t) /\ stage = "in" /\ UNCHANGED sysfs_lock
      \/ /\ pc[t] = "mutex" /\ pc'[t] = "write" /\ sysfs_lock[SpaceOf[t]] = NoThread
         /\ sysfs_lock' = [sysfs_lock EXCEPT ![SpaceOf[t]] = t]
      \/ pc[t] = "write" /\ pc'[t] = "down" /\ Served(t) /\ UNCHANGED sysfs_lock
      \/ pc[t] = "write" /\ pc'[t] = "locked" /\ ~Served(t) /\ UNCHANGED sysfs_lock
  BY DEF Wait, LockSysfs, Write, TypeOK
<1>3. \A u \in Threads : Served(u)' <=> Served(u)
  BY <1>1 DEF Served
<1>4. \A u \in Threads : u \in Intruders' <=> u \in Intruders
  BY <1>1, <1>2, <1>3 DEF Intruders
<1>5. stage = "out" => \A u \in Threads : pc'[u] # "down"
  BY <1>1, <1>2 DEF CountInv, Served
<1>6. CountInv'
  BY <1>1, <1>4, <1>5, SameCounts
<1>7. ~owns[t]
  BY <1>2 DEF ServedInv
<1>8. ServedInv'
  BY <1>1, <1>2, <1>3, <1>7 DEF ServedInv, Served
<1>9. HandleInv'
  BY <1>1 DEF HandleInv
<1>10. sysfs_lock' \in [Procs -> Threads \cup {NoThread}]
  BY <1>2 DEF TypeOK
<1>11. MutexInv'
  <2>1. \A u \in Threads : SpaceOf[u] = SpaceOf[t] /\ u # t => pc[u] \notin {"recovering", "recovered"}
    <3>1. CASE Wait(t)
      BY <3>1 DEF Wait
    <3>2. CASE LockSysfs(t) \/ Write(t)
      <4>1. pc[t] \in {"mutex", "write"}
        BY <3>2 DEF LockSysfs, Write
      <4> QED
        BY <4>1 DEF MutexInv, ServedInv
    <3> QED
      BY <3>1, <3>2
  <2>2. CASE pc[t] = "mutex"
    <3>1. InUser(t) /\ SpaceOf[t] \in Procs
      BY <2>2 DEF ServedInv
    <3>2. sysfs_lock[SpaceOf[t]] = NoThread /\ pc'[t] = "write"
          /\ sysfs_lock' = [sysfs_lock EXCEPT ![SpaceOf[t]] = t]
      BY <1>2, <2>2
    <3>3. sysfs_lock'[SpaceOf[t]] = t /\ \A p \in Procs : p # SpaceOf[t] => sysfs_lock'[p] = sysfs_lock[p]
      BY <3>1, <3>2 DEF TypeOK
    <3> QED
      BY <1>1, <2>1, <3>1, <3>2, <3>3 DEF MutexInv
  <2>3. CASE pc[t] # "mutex"
    BY <1>1, <1>2, <2>1, <2>3 DEF MutexInv
  <2> QED
    BY <2>2, <2>3
<1>12. TypeOK'
  BY <1>1, <1>10 DEF TypeOK
<1> QED
  BY <1>6, <1>8, <1>9, <1>11, <1>12

\* urt_init and urt_exit open and close the file while the process has no
\* other use of it.
LEMMA FileStep ==
    ASSUME GlobalInv, (\E t \in Threads : SemGet(t)) \/ (\E p \in Procs : SemFree(p))
    PROVE  GlobalInv'
<1> USE GlobalLockAssumption DEF GlobalInv, Locked, InUser
<1>1. PICK p \in Procs : /\ Idle(p)
                         /\ \/ handle' = [handle EXCEPT ![p] = loads] /\ stage = "in"
                            \/ handle' = [handle EXCEPT ![p] = 0]
                         /\ UNCHANGED <<urt_global_sem, sysfs_lock, owns, interrupts, crashes, lost, stage, loads, file>>
                         /\ \A u \in Threads : pc'[u] = pc[u] \/ (SpaceOf[u] = p /\ pc'[u] = "mutex")
                         /\ pc' \in [Threads -> {"idle", "mutex", "write", "down", "unlock", "recovered", "dead"} \cup Locked]
  <2>1. ASSUME NEW t \in Threads, SemGet(t) PROVE SpaceOf[t] \in Procs /\ pc' = [pc EXCEPT ![t] = "mutex"]
    BY <2>1 DEF SemGet
  <2>2. CASE \E t \in Threads : SemGet(t)
    BY <2>1, <2>2 DEF SemGet, module, TypeOK
  <2>3. CASE \E p \in Procs : SemFree(p)
    BY <2>3 DEF SemFree, module, TypeOK
  <2> QED
    BY <2>2, <2>3
<1>2. \A q \in Procs : handle'[q] <= loads /\ (q # p => handle'[q] = handle[q])
  BY <1>1 DEF HandleInv, TypeOK
<1>3. handle' \in [Procs -> 0 .. MaxLoads]
  BY <1>1 DEF TypeOK
<1>4. \A u \in Threads : SpaceOf[u] = p => pc[u] = "idle" /\ pc'[u] \in {"idle", "mutex"} /\ ~owns[u]
  BY <1>1 DEF Idle, ServedInv
<1>5. \A u \in Threads : SpaceOf[u] # p => pc'[u] = pc[u] /\ (Served(u)' <=> Served(u))
  BY <1>1, <1>2 DEF Served
<1>6. CountInv'
  <2>1. \A u \in Threads : u \in Intruders' <=> u \in Intruders
    BY <1>1, <1>4, <1>5 DEF Intruders
  <2>2. stage = "out" => \A u \in Threads : pc'[u] # "down"
    BY <1>4, <1>5 DEF CountInv
  <2> QED
    BY <1>1, <2>1, <2>2, SameCounts
<1>7. ServedInv'
  BY <1>1, <1>4, <1>5 DEF ServedInv
<1>8. HandleInv'
  BY <1>1, <1>2 DEF HandleInv
<1>9. MutexInv'
  BY <1>1, <1>4, <1>5 DEF MutexInv
<1>10. TypeOK'
  BY <1>1, <1>3 DEF TypeOK
<1> QED
  BY <1>6, <1>7, <1>8, <1>9, <1>10

\* The semaphore is taken, or the wait for it is cut short: one more intruder,
\* for one more interrupted wait.
LEMMA DownStep ==
    ASSUME GlobalInv, NEW t \in Threads, Down(t) \/ Interrupted(t)
    PROVE  GlobalInv'
<1> USE GlobalLockAssumption DEF GlobalInv, Locked, InUser
<1>1. /\ UNCHANGED <<sysfs_lock, crashes, lost, stage, loads, file, handle>>
      /\ pc[t] = "down" /\ pc'[t] = "locked"
      /\ \A u \in Threads : u # t => pc'[u] = pc[u] /\ owns'[u] = owns[u]
      /\ pc' \in [Threads -> {"idle", "mutex", "write", "down", "unlock", "recovered", "dead"} \cup Locked]
      /\ owns' \in [Threads -> BOOLEAN]
  BY DEF Down, Interrupted, TypeOK, module
<1>2. /\ urt_global_sem \in Nat /\ lost \in Nat /\ interrupts \in Nat /\ ~owns[t] /\ stage # "out"
      /\ \/ owns'[t] /\ urt_global_sem > 0 /\ urt_global_sem' = urt_global_sem - 1 /\ interrupts' = interrupts
         \/ /\ ~owns'[t] /\ urt_global_sem' = urt_global_sem
            /\ interrupts' = interrupts + 1 /\ interrupts' <= MaxInterrupts
  BY <1>1 DEF Down, Interrupted, TypeOK, ServedInv, CountInv
<1>3. \A u \in Threads : Served(u)' <=> Served(u)
  BY <1>1 DEF Served
<1>4. CountInv'
  <2>1. Owners' \in SUBSET Threads /\ Intruders' \in SUBSET Threads
    BY DEF Owners, Intruders
  <2>2. \A u \in Threads : u # t => (u \in Owners <=> u \in Owners') /\ (u \in Intruders <=> u \in Intruders')
    BY <1>1, <1>3 DEF Owners, Intruders
  <2>3. t \notin Owners /\ t \notin Intruders
    BY <1>1, <1>2 DEF Owners, Intruders
  <2>4. CASE owns'[t]
    <3>1. t \in Owners' /\ t \notin Intruders'
      BY <2>4 DEF Owners, Intruders
    <3>2. Cardinality(Owners') = Cardinality(Owners) + 1
      BY <2>1, <2>2, <2>3, <3>1, CountsAreNumbers, CountAfter
    <3>3. Cardinality(Intruders') = Cardinality(Intruders)
      BY <2>1, <2>2, <2>3, <3>1, CountsAreNumbers, CountAfter
    <3> QED
      BY <1>1, <1>2, <2>4, <3>2, <3>3, CountsAreNumbers DEF CountInv
  <2>5. CASE ~owns'[t]
    <3>1. t \notin Owners'
      BY <2>5 DEF Owners
    <3>2. Cardinality(Owners') = Cardinality(Owners)
      BY <2>1, <2>2, <2>3, <3>1, CountsAreNumbers, CountAfter
    <3>3. Cardinality(Intruders') \in {Cardinality(Intruders), Cardinality(Intruders) + 1}
      BY <2>1, <2>2, <2>3, CountsAreNumbers, CountAfter
    <3> QED
      BY <1>1, <1>2, <2>5, <3>2, <3>3, CountsAreNumbers DEF CountInv
  <2> QED
    BY <2>4, <2>5
<1>5. ServedInv'
  BY <1>1, <1>3 DEF ServedInv
<1>6. HandleInv' /\ MutexInv'
  BY <1>1 DEF HandleInv, MutexInv
<1>7. TypeOK'
  <2>1. urt_global_sem' \in Nat /\ interrupts' \in 0 .. MaxInterrupts
    BY <1>2 DEF TypeOK
  <2>2. Cardinality(Owners') \in Nat /\ Cardinality(Intruders') \in Nat
    <3>1. Owners' \in SUBSET Threads /\ Intruders' \in SUBSET Threads
      BY DEF Owners, Intruders
    <3> QED
      BY <3>1, FS_Subset, FS_CardinalityType
  <2>3. urt_global_sem' \in 0 .. 1 + MaxInterrupts
    BY <1>1, <1>2, <1>4, <2>1, <2>2, Bounded
  <2> QED
    BY <1>1, <2>1, <2>3 DEF TypeOK
<1> QED
  BY <1>4, <1>5, <1>6, <1>7

\* The post: the unit of an owner comes back, or is lost when the module is
\* leaving; an intruder that is served adds the unit it was counted for.
LEMMA UpStep ==
    ASSUME GlobalInv, NEW t \in Threads, Up(t)
    PROVE  GlobalInv'
<1> USE GlobalLockAssumption DEF GlobalInv, Locked, InUser
<1>1. /\ UNCHANGED <<sysfs_lock, interrupts, crashes, stage, loads, file, handle>>
      /\ pc[t] \in Locked /\ ~owns'[t]
      /\ \A u \in Threads : u # t => pc'[u] = pc[u] /\ owns'[u] = owns[u]
      /\ pc' \in [Threads -> {"idle", "mutex", "write", "down", "unlock", "recovered", "dead"} \cup Locked]
      /\ owns' \in [Threads -> BOOLEAN]
      /\ \/ pc[t] = "recovering" /\ pc'[t] = "recovered"
         \/ pc[t] = "locked" /\ pc'[t] = IF InUser(t) THEN "unlock" ELSE "idle"
  BY DEF Up, AfterUp, TypeOK, module
<1>2. /\ urt_global_sem \in Nat /\ lost \in Nat /\ interrupts \in 0 .. MaxInterrupts
      /\ \/ Served(t) /\ urt_global_sem' = urt_global_sem + 1 /\ lost' = lost
         \/ ~Served(t) /\ owns[t] /\ urt_global_sem' = urt_global_sem /\ lost' = lost + 1
         \/ ~Served(t) /\ ~owns[t] /\ urt_global_sem' = urt_global_sem /\ lost' = lost
  BY DEF Up, TypeOK
<1>3. \A u \in Threads : Served(u)' <=> Served(u)
  BY <1>1 DEF Served
<1>4. /\ Owners' \in SUBSET Threads /\ Intruders' \in SUBSET Threads
      /\ Cardinality(Owners') \in Nat /\ Cardinality(Intruders') \in Nat
  <2>1. Owners' \in SUBSET Threads /\ Intruders' \in SUBSET Threads
    BY DEF Owners, Intruders
  <2> QED
    BY <2>1, FS_Subset, FS_CardinalityType
<1>5. CountInv'
  <2>1. \A u \in Threads : u # t => (u \in Owners <=> u \in Owners') /\ (u \in Intruders <=> u \in Intruders')
    BY <1>1, <1>3 DEF Owners, Intruders
  <2>2. t \notin Owners' /\ t \notin Intruders'
    BY <1>1 DEF Owners, Intruders
  <2>3. /\ owns[t] => t \in Owners /\ t \notin Intruders
        /\ ~owns[t] => t \notin Owners /\ (t \in Intruders <=> Served(t))
    BY <1>1 DEF Owners, Intruders
  <2>4. Cardinality(Owners') = IF owns[t] THEN Cardinality(Owners) - 1 ELSE Cardinality(Owners)
    BY <1>4, <2>1, <2>2, <2>3, CountsAreNumbers, CountAfter
  <2>5. Cardinality(Intruders') = IF ~owns[t] /\ Served(t) THEN Cardinality(Intruders) - 1 ELSE Cardinality(Intruders)
    BY <1>4, <2>1, <2>2, <2>3, CountsAreNumbers, CountAfter
  <2>6. CASE stage = "out"
    <3>1. ~owns[t] /\ ~Served(t)
      BY <2>6 DEF CountInv, Served
    <3> QED
      BY <1>1, <1>2, <2>6, <3>1 DEF CountInv
  <2>7. CASE stage # "out"
    <3>1. stage = "in" /\ owns[t] => Served(t)
      BY DEF ServedInv
    <3>2. urt_global_sem' + Cardinality(Owners') + lost' >= 1
      BY <1>2, <2>4, <2>7, CountsAreNumbers DEF CountInv
    <3>3. urt_global_sem' + Cardinality(Owners') + lost' + Cardinality(Intruders') <= 1 + interrupts
      BY <1>2, <2>4, <2>5, <2>7, CountsAreNumbers DEF CountInv
    <3>4. stage = "in" /\ crashes = 0 => lost' = 0
      BY <1>2, <3>1 DEF CountInv
    <3> QED
      BY <1>1, <2>7, <3>2, <3>3, <3>4 DEF CountInv
  <2> QED
    BY <2>6, <2>7
<1>6. ServedInv'
  BY <1>1, <1>3 DEF ServedInv
<1>7. HandleInv' /\ MutexInv'
  <2>1. pc'[t] = "unlock" => pc[t] = "locked" /\ InUser(t)
    BY <1>1
  <2> QED
    BY <1>1, <2>1 DEF HandleInv, MutexInv
<1>8. TypeOK'
  <2>1. urt_global_sem' \in Nat /\ lost' \in Nat
    BY <1>2
  <2>2. urt_global_sem' \in 0 .. 1 + MaxInterrupts /\ lost' \in 0 .. 1 + MaxInterrupts
    BY <1>1, <1>2, <1>4, <1>5, <2>1, Bounded
  <2> QED
    BY <1>1, <2>2 DEF TypeOK
<1> QED
  BY <1>5, <1>6, <1>7, <1>8

\* The mutex is given back; urt_recover also closes the file.
LEMMA UnlockStep ==
    ASSUME GlobalInv, NEW t \in Threads, UnlockSysfs(t)
    PROVE  GlobalInv'
<1> USE GlobalLockAssumption DEF GlobalInv, Locked, InUser
<1>1. /\ UNCHANGED <<urt_global_sem, owns, interrupts, crashes, lost, stage, loads, file>>
      /\ pc[t] \in {"unlock", "recovered"} /\ pc'[t] = "idle"
      /\ \A u \in Threads : u # t => pc'[u] = pc[u]
      /\ pc' \in [Threads -> {"idle", "mutex", "write", "down", "unlock", "recovered", "dead"} \cup Locked]
      /\ sysfs_lock' = [sysfs_lock EXCEPT ![SpaceOf[t]] = NoThread]
      /\ handle' = IF pc[t] = "recovered" THEN [handle EXCEPT ![SpaceOf[t]] = 0] ELSE handle
  BY DEF UnlockSysfs, CloseAfter, TypeOK, module
<1>2. InUser(t) /\ SpaceOf[t] \in Procs /\ ~owns[t]
  BY <1>1 DEF ServedInv
<1>3. /\ handle' \in [Procs -> 0 .. MaxLoads]
      /\ \A q \in Procs : handle'[q] <= loads
      /\ \A q \in Procs : handle'[q] = handle[q] \/ (pc[t] = "recovered" /\ q = SpaceOf[t])
  BY <1>1, <1>2 DEF HandleInv, TypeOK
<1>4. \A u \in Threads : u # t =>
         \/ Served(u)' <=> Served(u)
         \/ pc[u] \in {"idle", "dead"}
  BY <1>1, <1>2, <1>3 DEF Served, MutexInv
<1>5. CountInv'
  <2>1. \A u \in Threads : u \in Intruders' <=> u \in Intruders
    BY <1>1, <1>4 DEF Intruders
  <2>2. stage = "out" => \A u \in Threads : pc'[u] # "down"
    BY <1>1 DEF CountInv
  <2> QED
    BY <1>1, <2>1, <2>2, SameCounts
<1>6. ServedInv'
  BY <1>1, <1>2, <1>4 DEF ServedInv
<1>7. HandleInv'
  BY <1>1, <1>3 DEF HandleInv
<1>8. MutexInv'
  <2>1. sysfs_lock' \in [Procs -> Threads \cup {NoThread}]
        /\ \A q \in Procs : q # SpaceOf[t] => sysfs_lock'[q] = sysfs_lock[q]
    BY <1>1 DEF TypeOK
  <2>2. \A u \in Threads : u # t /\ SpaceOf[u] = SpaceOf[t] => pc[u] \notin {"write", "down", "locked", "unlock"}
    BY <1>1, <1>2 DEF MutexInv
  <2> QED
    BY <1>1, <1>2, <2>1, <2>2 DEF MutexInv
<1>9. TypeOK'
  BY <1>1, <1>3 DEF TypeOK
<1> QED
  BY <1>5, <1>6, <1>7, <1>8, <1>9

\* urt_recover: nobody owns the semaphore, so that the unit it takes is there
\* or is a lost one.
LEMMA TryWaitStep ==
    ASSUME GlobalInv, NEW t \in Threads, TryWait(t)
    PROVE  GlobalInv'
<1> USE GlobalLockAssumption DEF GlobalInv, Locked, InUser
<1>1. /\ UNCHANGED <<sysfs_lock, interrupts, crashes, stage, loads, file>>
      /\ InUser(t) /\ SpaceOf[t] \in Procs /\ stage = "in" /\ file
      /\ \A u \in Threads : pc[u] \in {"idle", "dead"}
      /\ \A u \in Threads : u # t => pc'[u] = pc[u] /\ owns'[u] = owns[u]
      /\ pc'[t] = "recovering" /\ owns'[t]
      /\ pc' \in [Threads -> {"idle", "mutex", "write", "down", "unlock", "recovered", "dead"} \cup Locked]
      /\ owns' \in [Threads -> BOOLEAN]
      /\ handle' = [handle EXCEPT ![SpaceOf[t]] = loads]
  BY DEF TryWait, TypeOK, module
<1>2. /\ urt_global_sem \in Nat /\ lost \in Nat /\ interrupts \in 0 .. MaxInterrupts
      /\ \/ urt_global_sem > 0 /\ urt_global_sem' = urt_global_sem - 1 /\ lost' = lost
         \/ urt_global_sem = 0 /\ urt_global_sem' = 0 /\ lost' = lost - 1
  BY DEF TryWait, TypeOK
<1>3. \A u \in Threads : ~owns[u] /\ u \notin Owners /\ u \notin Intruders /\ u \notin Intruders'
  BY <1>1 DEF ServedInv, Owners, Intruders
<1>4. /\ Owners' \in SUBSET Threads /\ Intruders' \in SUBSET Threads
      /\ Cardinality(Owners') \in Nat /\ Cardinality(Intruders') \in Nat
  <2>1. Owners' \in SUBSET Threads /\ Intruders' \in SUBSET Threads
    BY DEF Owners, Intruders
  <2> QED
    BY <2>1, FS_Subset, FS_CardinalityType
<1>5. Cardinality(Owners) = 0 /\ Cardinality(Intruders) = 0 /\ Cardinality(Intruders') = 0
  <2>1. Owners = {} /\ Intruders = {} /\ Intruders' = {}
    BY <1>3, <1>4, CountsAreNumbers
  <2> QED
    BY <2>1, FS_EmptySet
<1>6. Cardinality(Owners') = 1
  <2>1. \A u \in Threads : u # t => (u \in Owners <=> u \in Owners')
    BY <1>1 DEF Owners
  <2>2. t \in Owners'
    BY <1>1 DEF Owners
  <2> QED
    BY <1>3, <1>4, <1>5, <2>1, <2>2, CountAfter, CountsAreNumbers
<1>7. urt_global_sem + lost >= 1 /\ urt_global_sem + lost <= 1 + interrupts
  BY <1>1, <1>2, <1>5 DEF CountInv
<1>8. urt_global_sem' \in Nat /\ lost' \in Nat
  BY <1>2, <1>7
<1>9. CountInv'
  <2>1. crashes = 0 => lost' = 0
    BY <1>1, <1>2, <1>7 DEF CountInv
  <2> QED
    BY <1>1, <1>2, <1>5, <1>6, <1>7, <2>1 DEF CountInv
<1>10. /\ handle' \in [Procs -> 0 .. MaxLoads] /\ handle'[SpaceOf[t]] = loads
       /\ \A q \in Procs : handle'[q] <= loads
  BY <1>1 DEF HandleInv, TypeOK
<1>11. ServedInv'
  BY <1>1, <1>3, <1>10 DEF ServedInv, Served
<1>12. HandleInv' /\ MutexInv'
  BY <1>1, <1>10 DEF HandleInv, MutexInv
<1>13. TypeOK'
  <2>1. urt_global_sem' \in 0 .. 1 + MaxInterrupts /\ lost' \in 0 .. 1 + MaxInterrupts
    BY <1>1, <1>2, <1>4, <1>8, <1>9, Bounded
  <2> QED
    BY <1>1, <1>10, <2>1 DEF TypeOK
<1> QED
  BY <1>9, <1>11, <1>12, <1>13

\* A process dies, and what it owned is lost; what it owned or would have
\* added is no longer counted as its own.
LEMMA CrashStep ==
    ASSUME GlobalInv, NEW p \in Procs, Crash(p)
    PROVE  GlobalInv'
<1> USE GlobalLockAssumption DEF GlobalInv, Locked, InUser
<1> DEFINE Gone == {t \in Threads : SpaceOf[t] = p /\ owns[t]}
<1>1. /\ UNCHANGED <<urt_global_sem, interrupts, stage, loads, file>>
      /\ crashes' = crashes + 1 /\ crashes' \in 0 .. MaxCrashes /\ crashes' # 0
      /\ sysfs_lock' = [sysfs_lock EXCEPT ![p] = NoThread]
      /\ handle' = [handle EXCEPT ![p] = 0]
      /\ lost' = lost + Cardinality(Gone)
  BY DEF Crash, TypeOK, module
<1>2. /\ \A t \in Threads : SpaceOf[t] = p => pc'[t] = "dead" /\ ~owns'[t]
      /\ \A t \in Threads : SpaceOf[t] # p => pc'[t] = pc[t] /\ (owns'[t] <=> owns[t])
      /\ pc' \in [Threads -> {"idle", "mutex", "write", "down", "unlock", "recovered", "dead"} \cup Locked]
      /\ owns' \in [Threads -> BOOLEAN]
  BY DEF Crash, TypeOK
<1>3. /\ handle' \in [Procs -> 0 .. MaxLoads] /\ sysfs_lock' \in [Procs -> Threads \cup {NoThread}]
      /\ \A q \in Procs : handle'[q] <= loads
      /\ \A q \in Procs : q # p => handle'[q] = handle[q] /\ sysfs_lock'[q] = sysfs_lock[q]
  BY <1>1 DEF HandleInv, TypeOK
<1>4. \A u \in Threads : SpaceOf[u] # p => (Served(u)' <=> Served(u))
  BY <1>1, <1>3 DEF Served
<1>5. /\ Gone \in SUBSET Owners /\ Owners' = Owners \ Gone /\ Intruders' \subseteq Intruders
  BY <1>2, <1>4 DEF Owners, Intruders
<1>6. /\ IsFiniteSet(Gone) /\ Cardinality(Gone) \in Nat
      /\ Cardinality(Owners') = Cardinality(Owners) - Cardinality(Gone) /\ Cardinality(Owners') \in Nat
      /\ Cardinality(Intruders') <= Cardinality(Intruders) /\ Cardinality(Intruders') \in Nat
  <2>1. IsFiniteSet(Gone) /\ IsFiniteSet(Owners') /\ IsFiniteSet(Intruders')
    BY <1>5, CountsAreNumbers, FS_Subset, FS_Difference
  <2>2. Cardinality(Owners') = Cardinality(Owners) - Cardinality(Gone)
    <3>1. Owners \cap Gone = Gone
      BY <1>5
    <3>2. Cardinality(Owners \ Gone) = Cardinality(Owners) - Cardinality(Owners \cap Gone)
      BY CountsAreNumbers, FS_Difference
    <3> QED
      BY <1>5, <3>1, <3>2
  <2>3. Cardinality(Intruders') <= Cardinality(Intruders)
    BY <1>5, CountsAreNumbers, FS_Subset
  <2> QED
    BY <2>1, <2>2, <2>3, FS_CardinalityType
<1>7. CountInv'
  <2>1. stage = "out" => lost' = 0
    <3>1. stage = "out" => Gone = {} /\ lost = 0
      BY DEF CountInv
    <3>2. stage = "out" => Cardinality(Gone) = 0
      BY ONLY <3>1, FS_EmptySet
    <3> HIDE DEF Gone
    <3> QED
      BY <1>1, <3>1, <3>2
  <2>2. stage = "out" => \A t \in Threads : ~owns'[t] /\ pc'[t] # "down"
    BY <1>2 DEF CountInv
  <2>3. urt_global_sem \in Nat /\ lost \in Nat /\ interrupts \in Nat
    BY DEF TypeOK
  <2> HIDE DEF Gone
  <2> QED
    BY <1>1, <1>6, <2>1, <2>2, <2>3, CountsAreNumbers DEF CountInv
<1>8. ServedInv'
  BY <1>1, <1>2, <1>4 DEF ServedInv
<1>9. HandleInv' /\ MutexInv'
  BY <1>1, <1>2, <1>3 DEF HandleInv, MutexInv
<1>10. TypeOK'
  <2>1. urt_global_sem \in Nat /\ lost \in Nat /\ interrupts \in 0 .. MaxInterrupts
    BY DEF TypeOK
  <2>2. lost' \in Nat
    BY <1>1, <1>6, <2>1
  <2>3. urt_global_sem' \in 0 .. 1 + MaxInterrupts /\ lost' \in 0 .. 1 + MaxInterrupts
    BY <1>1, <1>6, <1>7, <2>1, <2>2, Bounded
  <2> QED
    BY <1>1, <1>2, <1>3, <2>3 DEF TypeOK
<1> QED
  BY <1>7, <1>8, <1>9, <1>10

\* The module comes with a new semaphore: files of earlier loads do not reach
\* it.  It leaves with its semaphore once nobody waits inside it.
LEMMA ModuleStep ==
    ASSUME GlobalInv, Load \/ KobjectPut \/ Unload
    PROVE  GlobalInv'
<1> USE GlobalLockAssumption DEF GlobalInv, Locked, InUser
<1>1. UNCHANGED <<sysfs_lock, pc, interrupts, crashes, handle>>
  BY DEF Load, KobjectPut, Unload
<1>2. MutexInv'
  BY <1>1 DEF MutexInv
<1>3. CASE Load
  <2>1. /\ stage = "out" /\ stage' = "in" /\ urt_global_sem' = 1 /\ UNCHANGED <<owns, lost>>
        /\ loads' = loads + 1 /\ loads \in 0 .. MaxLoads /\ loads' \in 0 .. MaxLoads /\ file' \in BOOLEAN
    BY <1>3 DEF Load, TypeOK
  <2>2. /\ lost = 0
        /\ \A t \in Threads : ~owns[t] /\ pc[t] # "down" /\ (~InUser(t) => pc[t] = "idle")
        /\ \A t \in Threads : t \notin Owners' /\ t \notin Intruders'
    <3>1. lost = 0 /\ \A t \in Threads : ~owns[t] /\ pc[t] # "down" /\ (~InUser(t) => pc[t] = "idle")
      BY <2>1 DEF CountInv, ServedInv
    <3>2. \A t \in Threads : InUser(t) => ~Served(t)'
      BY <1>1, <2>1 DEF Served, HandleInv, TypeOK
    <3> QED
      BY <1>1, <2>1, <3>1, <3>2 DEF Owners, Intruders
  <2>3. Cardinality(Owners') = 0 /\ Cardinality(Intruders') = 0
    <3>1. Owners' = {} /\ Intruders' = {}
      BY <2>2 DEF Owners, Intruders
    <3> QED
      BY <3>1, FS_EmptySet
  <2>4. CountInv'
    BY <1>1, <2>1, <2>2, <2>3 DEF CountInv, TypeOK
  <2>5. ServedInv' /\ HandleInv'
    BY <1>1, <2>1, <2>2 DEF ServedInv, HandleInv, TypeOK
  <2>6. TypeOK'
    BY <1>1, <2>1, <2>2 DEF TypeOK
  <2> QED
    BY <1>2, <2>4, <2>5, <2>6
<1>4. CASE KobjectPut
  <2>1. /\ stage = "in" /\ stage' = "leaving" /\ Idle(Kernel)
        /\ UNCHANGED <<urt_global_sem, owns, lost, loads, file>>
    BY <1>4 DEF KobjectPut
  <2>2. Owners' = Owners /\ Cardinality(Intruders') = 0
    <3>1. Owners' = Owners /\ Intruders' = {}
      BY <2>1 DEF Owners, Intruders, Served
    <3> QED
      BY <3>1, FS_EmptySet
  <2>3. CountInv'
    BY <1>1, <2>1, <2>2, CountsAreNumbers DEF CountInv, TypeOK
  <2>4. ServedInv' /\ HandleInv'
    BY <1>1, <2>1 DEF ServedInv, HandleInv, Idle
  <2>5. TypeOK'
    BY <1>1, <2>1 DEF TypeOK
  <2> QED
    BY <1>2, <2>3, <2>4, <2>5
<1>5. CASE Unload
  <2>1. /\ stage = "leaving" /\ stage' = "out" /\ file' = FALSE /\ urt_global_sem' = 0 /\ lost' = 0 /\ UNCHANGED loads
        /\ \A t \in Threads : pc[t] # "down" /\ ~owns'[t]
        /\ owns' \in [Threads -> BOOLEAN]
    BY <1>5 DEF Unload
  <2>2. CountInv'
    BY <1>1, <2>1 DEF CountInv
  <2>3. ServedInv' /\ HandleInv'
    BY <1>1, <2>1 DEF ServedInv, HandleInv
  <2>4. TypeOK'
    <3>1. urt_global_sem' \in 0 .. 1 + MaxInterrupts /\ lost' \in 0 .. 1 + MaxInterrupts
      BY <2>1
    <3>2. file' \in BOOLEAN
      BY <2>1, Zenon
    <3> QED
      BY <1>1, <2>1, <3>1, <3>2 DEF TypeOK
  <2> QED
    BY <1>2, <2>2, <2>3, <2>4
<1> QED
  BY <1>3, <1>4, <1>5

LEMMA GlobalInvNext == GlobalInv /\ [Next]_vars => GlobalInv'
<1> SUFFICES ASSUME GlobalInv, [Next]_vars PROVE GlobalInv'
  OBVIOUS
<1>1. CASE Load \/ KobjectPut \/ Unload
  BY <1>1, ModuleStep
<1>2. CASE (\E t \in Threads : SemGet(t)) \/ (\E p \in Procs : SemFree(p))
  BY <1>2, FileStep
<1>3. ASSUME NEW t \in Threads, Wait(t) \/ LockSysfs(t) \/ Write(t) PROVE GlobalInv'
  BY <1>3, WaitStep
<1>4. ASSUME NEW t \in Threads, Down(t) \/ Interrupted(t) PROVE GlobalInv'
  BY <1>4, DownStep
<1>5. ASSUME NEW t \in Threads, Up(t) PROVE GlobalInv'
  BY <1>5, UpStep
<1>6. ASSUME NEW t \in Threads, UnlockSysfs(t) PROVE GlobalInv'
  BY <1>6, UnlockStep
<1>7. ASSUME NEW t \in Threads, TryWait(t) PROVE GlobalInv'
  BY <1>7, TryWaitStep
<1>8. ASSUME NEW p \in Procs, Crash(p) PROVE GlobalInv'
  BY <1>8, CrashStep
<1>9. CASE UNCHANGED vars
  BY <1>9 DEF vars, module, GlobalInv, TypeOK, CountInv, ServedInv, HandleInv, MutexInv, Owners, Intruders, Served
<1> QED
  BY <1>1, <1>2, <1>3, <1>4, <1>5, <1>6, <1>7, <1>8, <1>9 DEF Next, Go

LEMMA GlobalInvHolds == Spec => []GlobalInv
  BY GlobalInvInit, GlobalInvNext, PTL DEF Spec

-----------------------------------------------------------------------------
\* The units of the kernel's semaphore under urt_global_sem_wait, _post and
\* _try_wait, crashes and the reloading of the module.
THEOREM SemAccountedHolds == Spec => []SemAccounted
<1>1. GlobalInv => SemAccounted
  <2> SUFFICES ASSUME GlobalInv PROVE SemAccounted
    OBVIOUS
  <2>1. urt_global_sem \in Nat /\ lost \in Nat /\ interrupts \in Nat
    BY GlobalLockAssumption DEF GlobalInv, TypeOK
  <2> QED
    BY <2>1, CountsAreNumbers DEF GlobalInv, CountInv, SemAccounted
<1> QED
  BY <1>1, GlobalInvHolds, PTL

\* At most one thread more than the interrupted waits is inside the sections
\* of urt_global_sem_wait and _post whose file is that of the loaded module.
THEOREM MutualExclusionHolds == Spec => []MutualExclusion
<1>1. GlobalInv => MutualExclusion
  <2> SUFFICES ASSUME GlobalInv, stage = "in"
               PROVE  Cardinality({t \in Threads : pc[t] \in Locked /\ Served(t)}) <= 1 + interrupts
    BY DEF MutualExclusion
  <2> DEFINE Inside == {t \in Threads : pc[t] \in Locked /\ Served(t)}
  <2>1. Inside = Owners \cup Intruders /\ Owners \cap Intruders = {}
    BY DEF GlobalInv, ServedInv, Owners, Intruders
  <2>2. Cardinality(Inside) = Cardinality(Owners) + Cardinality(Intruders)
    <3>1. Cardinality(Owners \cup Intruders) = Cardinality(Owners) + Cardinality(Intruders) - Cardinality(Owners \cap Intruders)
      BY ONLY CountsAreNumbers, FS_Union
    <3>2. Cardinality(Owners \cap Intruders) = 0
      BY ONLY <2>1, FS_EmptySet
    <3> HIDE DEF Inside
    <3>3. Cardinality(Inside) = Cardinality(Owners \cup Intruders)
      BY ONLY <2>1
    <3> QED
      BY ONLY <3>1, <3>2, <3>3, CountsAreNumbers
  <2>3. urt_global_sem \in Nat /\ lost \in Nat /\ interrupts \in Nat
    BY GlobalLockAssumption DEF GlobalInv, TypeOK
  <2>4. urt_global_sem + Cardinality(Owners) + lost + Cardinality(Intruders) <= 1 + interrupts
    BY DEF GlobalInv, CountInv
  <2> QED
    BY <2>2, <2>3, <2>4, CountsAreNumbers
<1> QED
  BY <1>1, GlobalInvHolds, PTL

\* The mutex of lock_common.c: one thread of a process at a time has a write
\* to the sysfs file, or the semaphore it asked for, under way.
THEOREM OneInSysfsHolds == Spec => []OneInSysfs
<1>1. GlobalInv => OneInSysfs
  <2> SUFFICES ASSUME GlobalInv, NEW p \in Procs
               PROVE  Cardinality({t \in Threads : SpaceOf[t] = p /\ pc[t] \in Locked \cup {"write", "down"}}) <= 1
    BY DEF OneInSysfs
  <2> DEFINE Using == {t \in Threads : SpaceOf[t] = p /\ pc[t] \in Locked \cup {"write", "down"}}
  <2>1. \A t, u \in Using : t = u
    <3> SUFFICES ASSUME NEW t \in Using, NEW u \in Using, t # u PROVE FALSE
      OBVIOUS
    <3>1. t \in Threads /\ u \in Threads /\ SpaceOf[t] = p /\ SpaceOf[u] = p
          /\ pc[t] \in {"locked", "recovering", "write", "down"} /\ pc[u] \in {"locked", "recovering", "write", "down"}
      BY DEF Locked
    <3> QED
      BY <3>1, GlobalLockAssumption DEF GlobalInv, MutexInv, InUser
  <2>2. CASE Using = {}
    BY <2>2, FS_EmptySet
  <2>3. CASE Using # {}
    <3>1. PICK t : Using = {t}
      BY <2>1, <2>3
    <3>2. Cardinality(Using) = 1
      BY ONLY <3>1, FS_Singleton
    <3> QED
      BY <3>2
  <2> QED
    BY <2>2, <2>3
<1> QED
  BY <1>1, GlobalInvHolds, PTL
=============================================================================
