------------------------ MODULE SharedObjectsProofs ------------------------
(***************************************************************************)
(* SharedObjects for any number of users, names and slots, in either       *)
(* back-end: type correctness, mutual exclusion, and the counts,           *)
(* reservations, names and index of the registry; that it implements       *)
(* NameTable; and the life of the objects of the operating system, without *)
(* deaths and with them.                                                   *)
(***************************************************************************)
EXTENDS SharedObjects, FiniteSetTheorems, WellFoundedInduction, TLAPS

-----------------------------------------------------------------------------
(* What the operators of Registry return. *)

\* First returns the smallest element of a non-empty set of slots: the scan of
\* _find_by_name or urt_reserve_name stops at the first hit.
LEMMA FirstIsMinimum ==
    ASSUME NEW T, T \subseteq Nat, T # {}
    PROVE  First(T) \in T /\ \A j \in T : First(T) <= j
<1> DEFINE R == {ss \in Nat \X Nat : ss[1] < ss[2]}
<1>1. IsWellFoundedOn(R, Nat)
  BY NatLessThanWellFounded DEF OpToRel
<1> HIDE DEF R
<1>2. \E i \in T : \A j \in T : ~(<<j, i>> \in R)
  BY <1>1, WFMin
<1>3. PICK i \in T : \A j \in T : ~(<<j, i>> \in R)
  BY <1>2
<1>4. ASSUME NEW j \in T PROVE i <= j
  <2>1. i \in Nat /\ j \in Nat
    OBVIOUS
  <2>2. ~(j < i)
    BY <1>3, <2>1 DEF R
  <2> QED
    BY <2>1, <2>2
<1> QED
  BY <1>4 DEF First

\* Last returns the largest element of a non-empty set of slots.
LEMMA LastIsMaximum ==
    ASSUME NEW m \in Nat, NEW T, T \subseteq 0 .. m, T # {}
    PROVE  Last(T) \in T /\ \A j \in T : j <= Last(T)
<1> DEFINE D == {m - i : i \in T}
<1>1. D \subseteq Nat
  OBVIOUS
<1>2. D # {}
  OBVIOUS
<1>3. PICK d \in D : \A e \in D : d <= e
  BY <1>1, <1>2, FirstIsMinimum
<1>4. PICK i \in T : d = m - i
  OBVIOUS
<1>5. \A j \in T : j <= i
  BY <1>3, <1>4
<1> QED
  BY <1>5 DEF Last

LEMMA SlotsAreNaturals == Slots \subseteq Nat /\ 0 \in Slots
BY MaxObjectsAssumption DEF Slots

\* _find_by_name returns NULL, when no slot up to objects_max_index carries
\* the name, or such a slot.
LEMMA FindByNameFinds ==
    ASSUME NEW objs, NEW max \in Slots, NEW n, NEW s, s = FindByName(objs, max, n)
    PROVE  \/ /\ s \in Slots /\ s <= max
              /\ InUse(objs[s]) /\ objs[s].name = n
           \/ /\ s = NoSlot
              /\ \A i \in Slots : i <= max => ~(InUse(objs[i]) /\ objs[i].name = n)
<1> DEFINE M == Matches(objs, max, n)
<1>1. M \subseteq Nat /\ M \subseteq Slots
  BY MaxObjectsAssumption DEF Matches, Slots
<1>2. CASE M = {}
  BY <1>2, SlotsAreNaturals DEF FindByName, Matches
<1>3. CASE M # {}
  <2>1. s = First(M)
    BY <1>3 DEF FindByName
  <2>2. s \in M
    BY <1>1, <1>3, <2>1, FirstIsMinimum
  <2> QED
    BY <1>1, <2>2 DEF Matches
<1> QED
  BY <1>2, <1>3

\* urt_reserve_name takes a slot that is not in use.
LEMMA FreeSlotIsFree ==
    ASSUME NEW objs, FreeSlots(objs) # {}
    PROVE  First(FreeSlots(objs)) \in Slots /\ ~InUse(objs[First(FreeSlots(objs))])
<1>1. FreeSlots(objs) \subseteq Nat
  BY SlotsAreNaturals DEF FreeSlots
<1>2. First(FreeSlots(objs)) \in FreeSlots(objs)
  BY <1>1, FirstIsMinimum
<1> QED
  BY <1>2 DEF FreeSlots

\* ... and slot 0 before any other.
LEMMA FreeSlotIsFirst ==
    ASSUME NEW objs, FreeSlots(objs) # {}
    PROVE  First(FreeSlots(objs)) = 0 \/ InUse(objs[0])
<1>1. FreeSlots(objs) \subseteq Nat
  BY SlotsAreNaturals DEF FreeSlots
<1>2. First(FreeSlots(objs)) \in Nat /\ \A j \in FreeSlots(objs) : First(FreeSlots(objs)) <= j
  BY <1>1, FirstIsMinimum
<1>3. InUse(objs[0]) \/ 0 \in FreeSlots(objs)
  BY SlotsAreNaturals DEF FreeSlots
<1> QED
  BY <1>2, <1>3

\* max is the highest slot in use, or 0.
Exact(objs, max) ==
    /\ \A j \in Slots : InUse(objs[j]) => j <= max
    /\ max = 0 \/ InUse(objs[max])

\* The scan of urt_recover computes that index, and no other has the property.
LEMMA RecoveredMaxExact ==
    ASSUME NEW objs
    PROVE  /\ RecoveredMax(objs) \in Slots
           /\ Exact(objs, RecoveredMax(objs))
           /\ \A max \in Slots : Exact(objs, max) => max = RecoveredMax(objs)
<1> DEFINE T == {0} \cup {j \in Slots : InUse(objs[j])}
<1>1. T \subseteq Slots /\ T # {}
  BY SlotsAreNaturals
<1>2. T \subseteq 0 .. MaxObjects - 1 /\ MaxObjects - 1 \in Nat
  BY <1>1, MaxObjectsAssumption DEF Slots
<1>3. Last(T) \in T /\ \A j \in T : j <= Last(T)
  BY <1>1, <1>2, LastIsMaximum
<1>4. RecoveredMax(objs) = Last(T)
  BY DEF RecoveredMax
<1> HIDE DEF T
<1>5. Exact(objs, Last(T)) /\ Last(T) \in Slots
  BY <1>1, <1>3 DEF Exact, T
<1>6. ASSUME NEW max \in Slots, Exact(objs, max)
      PROVE  max = Last(T)
  <2>1. max \in T
    BY <1>6 DEF Exact, T
  <2>2. max <= Last(T)
    BY <1>3, <2>1
  <2>3. Last(T) <= max
    <3>1. CASE Last(T) = 0
      BY <3>1, <1>6, SlotsAreNaturals
    <3>2. CASE Last(T) \in Slots /\ InUse(objs[Last(T)])
      BY <3>2, <1>6 DEF Exact
    <3> QED
      BY <1>3, <3>1, <3>2 DEF T
  <2>4. max \in Nat /\ Last(T) \in Nat
    BY <1>5, SlotsAreNaturals
  <2> QED
    BY <2>2, <2>3, <2>4
<1> QED
  BY <1>4, <1>5, <1>6

\* Whatever it is called with, _dec_count_common leaves a valid index.
LEMMA MaxAfterDecType ==
    ASSUME NEW objs, NEW max \in Slots, NEW i \in Slots \cup {NoSlot}
    PROVE  MaxAfterDec(objs, max, i) \in Slots
<1>1. LoweredMax(objs, max, i) \in Slots
  <2>1. CASE i = max
    <3> DEFINE T == {0} \cup {j \in 0 .. i : InUse(objs[j])}
    <3>1. i \in Nat /\ T \subseteq 0 .. i /\ T # {} /\ 0 .. i \subseteq Slots
      BY <2>1, MaxObjectsAssumption DEF Slots
    <3>2. Last(T) \in T
      BY <3>1, LastIsMaximum
    <3> QED
      BY <2>1, <3>1, <3>2 DEF LoweredMax
  <2>2. CASE i # max
    BY <2>2 DEF LoweredMax
  <2> QED
    BY <2>1, <2>2
<1>2. ASSUME NEW m \in Slots PROVE CheckedMax(objs, m) \in Slots
  <2> DEFINE T == {m} \cup {j \in Slots : InUse(objs[j])}
  <2>1. T \subseteq Slots /\ T \subseteq 0 .. MaxObjects - 1 /\ T # {} /\ MaxObjects - 1 \in Nat
    BY MaxObjectsAssumption DEF Slots
  <2>2. Last(T) \in T
    BY <2>1, LastIsMaximum
  <2> QED
    BY <2>1, <2>2 DEF CheckedMax
<1> QED
  BY <1>1, <1>2 DEF MaxAfterDec

\* The lowering loop of _dec_count_common arrives at the index urt_recover
\* would compute, if every slot in use is at or below max and max itself is
\* in use or is the slot just given back.
LEMMA MaxAfterDecExact ==
    ASSUME NEW objs, NEW max \in Slots, NEW i \in Slots,
           objs[i] \in RegisteredObject,
           \A j \in Slots : InUse(objs[j]) => j <= max,
           max = 0 \/ InUse(objs[max]) \/ i = max,
           objs[i].count = 0 => ~objs[i].reserved
    PROVE  MaxAfterDec(objs, max, i) = RecoveredMax(objs)
<1>1. CASE objs[i].count > 0
  <2>1. InUse(objs[i])
    BY <1>1 DEF InUse
  <2>2. Exact(objs, max)
    BY <2>1 DEF Exact
  <2> QED
    BY <1>1, <2>2, RecoveredMaxExact DEF MaxAfterDec
<1>2. CASE objs[i].count = 0
  <2> DEFINE L == LoweredMax(objs, max, i)
  <2>1. L \in Slots /\ Exact(objs, L)
    <3>1. CASE i = max
      <4> DEFINE T == {0} \cup {j \in 0 .. i : InUse(objs[j])}
                 S == {0} \cup {j \in Slots : InUse(objs[j])}
      <4>1. 0 .. i \subseteq Slots
        BY MaxObjectsAssumption DEF Slots
      <4>2. \A j \in Slots : j <= i => j \in 0 .. i
        BY SlotsAreNaturals
      <4>3. T = S
        BY <3>1, <4>1, <4>2
      <4>4. L = RecoveredMax(objs)
        BY <3>1, <4>3 DEF LoweredMax, RecoveredMax
      <4> QED
        BY <4>4, RecoveredMaxExact
    <3>2. CASE i # max
      <4>1. L = max
        BY <3>2 DEF LoweredMax
      <4> QED
        BY <3>2, <4>1 DEF Exact
    <3> QED
      BY <3>1, <3>2
  <2> HIDE DEF L
  <2>2. L = RecoveredMax(objs)
    BY <2>1, RecoveredMaxExact
  <2>3. CheckedMax(objs, L) = L
    <3>1. CASE NDEBUG
      BY <3>1 DEF CheckedMax
    <3>2. CASE ~NDEBUG
      <4> DEFINE T == {L} \cup {j \in Slots : InUse(objs[j])}
      <4>1. T \subseteq 0 .. MaxObjects - 1 /\ MaxObjects - 1 \in Nat /\ T # {}
        BY <2>1, MaxObjectsAssumption DEF Slots
      <4>2. Last(T) \in T /\ L <= Last(T)
        BY <4>1, LastIsMaximum
      <4>3. Last(T) <= L
        BY <2>1, <4>2, SlotsAreNaturals DEF Exact
      <4>4. Last(T) = L
        BY <2>1, <4>1, <4>2, <4>3, SlotsAreNaturals
      <4> QED
        BY <3>2, <4>4 DEF CheckedMax
    <3> QED
      BY <3>1, <3>2
  <2> QED
    BY <1>2, <2>2, <2>3 DEF MaxAfterDec, L
<1> QED
  BY <1>1, <1>2 DEF RegisteredObject

-----------------------------------------------------------------------------
(* Types and mutual exclusion. *)

\* A user in a call, or with a slot, works on a name.
NameInv == \A u \in Users : pc[u] # "idle" \/ ro[u] # NoSlot => name[u] \in Names

\* A call has no slot before it found or took one.
EarlyInv ==
    \A u \in Users :
        pc[u] = "lookup" \/ (pc[u] \in {"reserve", "clear"} /\ cs[u] # "mid") => ro[u] = NoSlot

LockInv == TypeOK /\ MutualExclusion /\ NameInv /\ EarlyInv

LEMMA LockInvInit == Init => LockInv
<1> SUFFICES ASSUME Init PROVE LockInv
  OBVIOUS
<1> USE SlotsAreNaturals DEF Init
<1>1. EmptyObject \in RegisteredObject
  BY DEF EmptyObject, RegisteredObject, NoName, NoType
<1>2. TypeOK
  BY <1>1, EnvAssumption DEF TypeOK, Locking, Unlocked
<1>3. MutualExclusion /\ NameInv /\ EarlyInv
  BY DEF MutualExclusion, NameInv, EarlyInv
<1> QED
  BY <1>2, <1>3 DEF LockInv

\* What the operators of Registry write in a slot is an object.
LEMMA WritesAreObjects ==
    ASSUME NEW o \in RegisteredObject
    PROVE  /\ IncCount(o) \in RegisteredObject
           /\ DecCount(o) \in RegisteredObject
           /\ ClearedObject(o) \in RegisteredObject
           /\ \A n \in Names : ReservedObject(n) \in RegisteredObject
           /\ \A k \in Kinds : [o EXCEPT !.type = k] \in RegisteredObject
<1>1. IncCount(o) \in RegisteredObject
  <2> DEFINE c == o.count + 1
  <2>1. IncCount(o) = [o EXCEPT !.count = c, !.reserved = FALSE]
    BY DEF IncCount
  <2>2. c \in Nat
    BY DEF RegisteredObject
  <2> HIDE DEF c
  <2> QED
    BY <2>1, <2>2 DEF RegisteredObject
<1>2. DecCount(o) \in RegisteredObject
  <2> DEFINE c == IF o.count > 0 THEN o.count - 1 ELSE 0
  <2>1. DecCount(o) = [o EXCEPT !.count = c, !.reserved = FALSE]
    BY DEF DecCount
  <2>2. c \in Nat
    BY DEF RegisteredObject
  <2> HIDE DEF c
  <2> QED
    BY <2>1, <2>2 DEF RegisteredObject
<1>3. ClearedObject(o) \in RegisteredObject
  BY DEF RegisteredObject, ClearedObject
<1>4. \A n \in Names : ReservedObject(n) \in RegisteredObject
  BY DEF RegisteredObject, ReservedObject, NoType
<1>5. \A k \in Kinds : [o EXCEPT !.type = k] \in RegisteredObject
  BY DEF RegisteredObject
<1> QED
  BY <1>1, <1>2, <1>3, <1>4, <1>5

\* Unlinking keeps the types of the objects and the mappings.
LEMMA UnlinkType ==
    ASSUME TypeOK, NEW n, NEW u \in Users, NEW m \in {"none", "linked", "unlinked"},
           Unlink(n, u, m) \/ Unmap(u, m)
    PROVE  /\ os' \in [SysNames -> {"absent", "empty", "ready"}]
           /\ map' \in [Users -> {"none", "linked", "unlinked"}]
BY DEF TypeOK, Unlink, Unmap

LEMMA LockInvNext == LockInv /\ [Next]_vars => LockInv'
<1> SUFFICES ASSUME LockInv, [Next]_vars PROVE LockInv'
  OBVIOUS
<1> USE DEF LockInv
<1>1. CASE UNCHANGED vars
  BY <1>1 DEF vars, TypeOK, MutualExclusion, NameInv, EarlyInv
<1>2. ASSUME NEW u \in Users, NEW n \in Names, New(u, n) \/ Attach(u, n)
      PROVE  LockInv'
  BY <1>2 DEF New, Attach, At, Goto, registry, TypeOK, MutualExclusion, NameInv, EarlyInv, Locking, Unlocked
<1>3. ASSUME NEW u \in Users, NEW n \in Names, Clear(u, n)
      PROVE  LockInv'
  BY <1>3 DEF Clear, At, Goto, Phase, registry, TypeOK, MutualExclusion, NameInv, EarlyInv, Locking, Unlocked
<1>4. ASSUME NEW u \in Users, Delete(u)
      PROVE  LockInv'
  BY <1>4 DEF Delete, At, Goto, registry, TypeOK, MutualExclusion, NameInv, EarlyInv, Locking, Unlocked
<1>5. ASSUME NEW u \in Users, Acquire(u)
      PROVE  LockInv'
  BY <1>5 DEF Acquire, Phase, registry, TypeOK, MutualExclusion, NameInv, EarlyInv, Locking, Unlocked
<1>6. ASSUME NEW u \in Users, Post(u)
      PROVE  LockInv'
  BY <1>6 DEF Post, Phase, registry, TypeOK, MutualExclusion, NameInv, EarlyInv, Locking, Unlocked
<1>7. ASSUME NEW u \in Users, ReserveSlot(u)
      PROVE  LockInv'
  <2> DEFINE s == First(FreeSlots(objects))
  <2>1. name[u] \in Names
    BY <1>7 DEF ReserveSlot, Inside, NameInv
  <2>2. CASE /\ FindByName(objects, objects_max_index, name[u]) = NoSlot
             /\ FreeSlots(objects) # {}
    <3>1. s \in Slots
      BY <2>2, FreeSlotIsFree
    <3>2. ReservedObject(name[u]) \in RegisteredObject
      BY <2>1 DEF RegisteredObject, ReservedObject, NoType
    <3>3. objects' \in [Slots -> RegisteredObject] /\ ro' \in [Users -> Slots \cup {NoSlot}]
      BY <1>7, <2>2, <3>1, <3>2 DEF ReserveSlot, TypeOK
    <3>4. UNCHANGED <<gsem, objects_max_index, os, pc, name, map, alive, setting, faults>> /\ Phase(u, "mid")
      BY <1>7, <2>2 DEF ReserveSlot
    <3>5. ro' = [ro EXCEPT ![u] = s]
      BY <1>7, <2>2 DEF ReserveSlot
    <3> QED
      BY <1>7, <2>1, <3>3, <3>4, <3>5
      DEF ReserveSlot, Inside, Phase, TypeOK, MutualExclusion, NameInv, EarlyInv
  <2>3. CASE ~(/\ FindByName(objects, objects_max_index, name[u]) = NoSlot
               /\ FreeSlots(objects) # {})
    BY <1>7, <2>3 DEF ReserveSlot, Inside, Goto, Phase, TypeOK, MutualExclusion, NameInv, EarlyInv, Locking, Unlocked
  <2> QED
    BY <2>2, <2>3
<1>8. ASSUME NEW u \in Users, ReserveMax(u)
      PROVE  LockInv'
  <2>1. RaisedMax(objects_max_index, ro[u]) \in Slots
    BY SlotsAreNaturals DEF TypeOK, RaisedMax, NoSlot
  <2> QED
    BY <1>8, <2>1 DEF ReserveMax, Inside, Goto, Phase, TypeOK, MutualExclusion, NameInv, EarlyInv, Locking, Unlocked
<1>9. ASSUME NEW u \in Users, OpenSem(u) \/ OpenMem(u) \/ OpenNamed(u) \/ CheckShm(u) \/ AllocShm(u)
      PROVE  LockInv'
  <2> USE DEF OpenSem, OpenMem, OpenNamed, CheckShm, AllocShm, OpenExclusive, CreateFails
  <2>1. faults' \subseteq Faults
    BY <1>9, EnvAssumption DEF Fault, TypeOK
  <2>2. os' \in [SysNames -> {"absent", "empty", "ready"}] /\ map' \in [Users -> {"none", "linked", "unlinked"}]
    BY <1>9 DEF TypeOK
  <2>3. \E p \in {"fill", "size", "abort"} : Goto(u, p)
    BY <1>9
  <2>4. /\ alive[u] /\ cs[u] = "out" /\ pc[u] \in {"open", "size"}
        /\ UNCHANGED <<gsem, objects, objects_max_index, cs, name, ro, alive, setting>>
    BY <1>9 DEF At, registry
  <2> QED
    BY <2>1, <2>2, <2>3, <2>4 DEF Goto, TypeOK, MutualExclusion, NameInv, EarlyInv, Locking, Unlocked
<1>10. ASSUME NEW u \in Users, Size(u)
       PROVE  LockInv'
  <2>1. faults' \subseteq Faults
    BY <1>10, EnvAssumption DEF Size, Fault, TypeOK
  <2>2. os' \in [SysNames -> {"absent", "empty", "ready"}] /\ map' \in [Users -> {"none", "linked", "unlinked"}]
    BY <1>10, UnlinkType DEF Size, TypeOK
  <2>3. \E p \in {"fill", "init", "abort"} : Goto(u, p)
    BY <1>10 DEF Size
  <2> QED
    BY <1>10, <2>1, <2>2, <2>3 DEF Size, At, registry, Goto, TypeOK, MutualExclusion, NameInv, EarlyInv, Locking, Unlocked
<1>11. ASSUME NEW u \in Users, InitLock(u)
       PROVE  LockInv'
  BY <1>11, EnvAssumption
  DEF InitLock, At, Fault, registry, Goto, TypeOK, MutualExclusion, NameInv, EarlyInv, Locking, Unlocked
<1>12. ASSUME NEW u \in Users, Fill(u)
       PROVE  LockInv'
  <2>1. KindOf(name[u]) \in Kinds
    BY <1>12, SettingsAssumption DEF Fill, At, NameInv, TypeOK, KindOf
  <2>2. objects' \in [Slots -> RegisteredObject]
    BY <1>12, <2>1, WritesAreObjects DEF Fill, TypeOK
  <2> QED
    BY <1>12, <2>2 DEF Fill, At, Goto, TypeOK, MutualExclusion, NameInv, EarlyInv, Locking, Unlocked
<1>13. ASSUME NEW u \in Users, Commit(u)
       PROVE  LockInv'
  <2>1. objects' \in [Slots -> RegisteredObject]
    BY <1>13, WritesAreObjects DEF Commit, TypeOK
  <2> QED
    BY <1>13, <2>1 DEF Commit, Inside, Goto, Phase, TypeOK, MutualExclusion, NameInv, EarlyInv, Locking, Unlocked
<1>14. ASSUME NEW u \in Users, Lookup(u)
       PROVE  LockInv'
  <2> DEFINE s == FindByName(objects, objects_max_index, name[u])
  <2>1. name[u] \in Names
    BY <1>14 DEF Lookup, Inside, NameInv
  <2>2. s \in Slots \cup {NoSlot}
    BY FindByNameFinds DEF TypeOK
  <2>3. objects' \in [Slots -> RegisteredObject] /\ ro' \in [Users -> Slots \cup {NoSlot}]
    BY <1>14, <2>2, WritesAreObjects DEF Lookup, TypeOK
  <2>4. CASE s = NoSlot
    BY <1>14, <2>3, <2>4 DEF Lookup, Inside, Goto, Phase, TypeOK, MutualExclusion, NameInv, EarlyInv, Locking, Unlocked
  <2>5. CASE s # NoSlot
    <3>1. ro' = [ro EXCEPT ![u] = s] /\ Goto(u, "attach") /\ UNCHANGED name
      BY <1>14, <2>5 DEF Lookup
    <3> QED
      BY <1>14, <2>1, <2>3, <3>1 DEF Lookup, Inside, Goto, Phase, TypeOK, MutualExclusion, NameInv, EarlyInv, Locking, Unlocked
  <2> QED
    BY <2>4, <2>5
<1>15. ASSUME NEW u \in Users, AttachSem(u) \/ AttachMem(u) \/ AttachNamed(u) \/ AttachShm(u)
       PROVE  LockInv'
  <2> USE DEF AttachSem, AttachMem, AttachNamed, AttachShm, OpenExisting
  <2>1. faults' \subseteq Faults
    BY <1>15, EnvAssumption DEF Fault, TypeOK
  <2>2. os' \in [SysNames -> {"absent", "empty", "ready"}] /\ map' \in [Users -> {"none", "linked", "unlinked"}]
    BY <1>15, UnlinkType DEF TypeOK
  <2>3. \E p \in {"idle", "giveup"} : Goto(u, p)
    BY <1>15
  <2>4. At(u, "attach") /\ UNCHANGED <<gsem, objects, objects_max_index, cs, name, ro, alive, setting>>
    BY <1>15 DEF registry
  <2> QED
    BY <2>1, <2>2, <2>3, <2>4 DEF At, Goto, TypeOK, MutualExclusion, NameInv, EarlyInv, Locking, Unlocked
<1>16. ASSUME NEW u \in Users, DecHead(u)
       PROVE  LockInv'
  <2>1. objects' \in [Slots -> RegisteredObject]
    BY <1>16, WritesAreObjects DEF DecHead, TypeOK
  <2> QED
    BY <1>16, <2>1 DEF DecHead, Phase, TypeOK, MutualExclusion, NameInv, EarlyInv
<1>17. ASSUME NEW u \in Users, DecTail(u)
       PROVE  LockInv'
  <2>1. DecSlot(u) \in Slots \cup {NoSlot}
    BY SlotsAreNaturals DEF DecSlot, TypeOK
  <2>2. objects_max_index' \in Slots
    BY <1>17, <2>1, MaxAfterDecType DEF DecTail, TypeOK
  <2>3. os' \in [SysNames -> {"absent", "empty", "ready"}] /\ map' \in [Users -> {"none", "linked", "unlinked"}]
    BY <1>17, UnlinkType DEF DecTail, Release, ReleaseSem, ReleaseMem, ReleaseLock, ReleaseNamed
  <2> UNCHANGED <<gsem, objects, alive, setting, faults>> /\ alive[u] /\ cs[u] = "mid" /\ Phase(u, "done")
    BY <1>17 DEF DecTail
  <2>4. CASE pc[u] = "misfree"
    <3>1. Goto(u, "abort") /\ UNCHANGED <<name, ro>>
      BY <1>17, <2>4 DEF DecTail
    <3> QED
      BY <2>2, <2>3, <2>4, <3>1 DEF Goto, Phase, TypeOK, MutualExclusion, NameInv, EarlyInv, Locking, Unlocked
  <2>5. CASE pc[u] # "misfree"
    <3>1. /\ Goto(u, "idle")
          /\ name' = [name EXCEPT ![u] = NoName]
          /\ ro' = [ro EXCEPT ![u] = NoSlot]
      BY <1>17, <2>5 DEF DecTail
    <3> QED
      BY <2>2, <2>3, <3>1 DEF Goto, Phase, TypeOK, MutualExclusion, NameInv, EarlyInv, Locking, Unlocked
  <2> QED
    BY <2>4, <2>5
<1>18. ASSUME NEW u \in Users, ClearUnlink(u)
       PROVE  LockInv'
  <2> DEFINE s == FindByName(objects, objects_max_index, name[u])
  <2>1. name[u] \in Names
    BY <1>18 DEF ClearUnlink, Inside, NameInv
  <2>2. s \in Slots \cup {NoSlot}
    BY FindByNameFinds DEF TypeOK
  <2>3. os' \in [SysNames -> {"absent", "empty", "ready"}] /\ map' \in [Users -> {"none", "linked", "unlinked"}]
    BY <1>18, UnlinkType DEF ClearUnlink, TypeOK
  <2>4. CASE s = NoSlot
    BY <1>18, <2>3, <2>4
    DEF ClearUnlink, Inside, registry, Goto, Phase, TypeOK, MutualExclusion, NameInv, EarlyInv, Locking, Unlocked
  <2>5. CASE s # NoSlot
    <3>1. ro' = [ro EXCEPT ![u] = s] /\ Phase(u, "mid") /\ UNCHANGED <<pc, name>>
      BY <1>18, <2>5 DEF ClearUnlink
    <3> QED
      BY <1>18, <2>1, <2>2, <2>3, <3>1
      DEF ClearUnlink, Inside, registry, Phase, TypeOK, MutualExclusion, NameInv, EarlyInv
  <2> QED
    BY <2>4, <2>5
<1>19. ASSUME NEW u \in Users, ClearSlot(u)
       PROVE  LockInv'
  <2>1. objects' \in [Slots -> RegisteredObject]
    BY <1>19, WritesAreObjects DEF ClearSlot, TypeOK
  <2>2. objects_max_index' \in Slots
    BY <1>19, MaxAfterDecType DEF ClearSlot, TypeOK
  <2>3. ro' \in [Users -> Slots \cup {NoSlot}] /\ \A v \in Users : ro'[v] # NoSlot => ro[v] # NoSlot
    BY <1>19 DEF ClearSlot, TypeOK
  <2>4. ro'[u] = NoSlot
    BY <1>19 DEF ClearSlot
  <2> QED
    BY <1>19, <2>1, <2>2, <2>3, <2>4
    DEF ClearSlot, Inside, Goto, Phase, TypeOK, MutualExclusion, NameInv, EarlyInv, Locking, Unlocked
<1>20. ASSUME NEW u \in Users, Crash(u)
       PROVE  LockInv'
  BY <1>20 DEF Crash, registry, TypeOK, MutualExclusion, NameInv, EarlyInv
<1>21. CASE Recover
  <2>1. objects_max_index' \in Slots
    BY <1>21, RecoveredMaxExact DEF Recover
  <2>2. gsem' = 1
    BY <1>21 DEF Recover, TypeOK
  <2> QED
    BY <1>21, <2>1, <2>2 DEF Recover, At, TypeOK, MutualExclusion, NameInv, EarlyInv
<1>22. ASSUME NEW u \in Users, FreeShm(u)
       PROVE  LockInv'
  <2>1. os' \in [SysNames -> {"absent", "empty", "ready"}] /\ map' \in [Users -> {"none", "linked", "unlinked"}]
    BY <1>22, UnlinkType DEF FreeShm
  <2> QED
    BY <1>22, <2>1 DEF FreeShm, At, registry, Goto, TypeOK, MutualExclusion, NameInv, EarlyInv, Locking, Unlocked
<1> QED
  BY <1>1, <1>2, <1>3, <1>4, <1>5, <1>6, <1>7, <1>8, <1>9, <1>10, <1>11, <1>12, <1>13, <1>14,
     <1>15, <1>16, <1>17, <1>18, <1>19, <1>20, <1>21, <1>22
  DEF Next, Proceed

\* Every variable keeps its type: objects_max_index stays an index of the
\* array and the global semaphore binary, through failures, crashes, clears
\* and recoveries.
THEOREM TypeCorrect == Spec => []TypeOK
<1>1. LockInv => TypeOK
  BY DEF LockInv
<1> QED
  BY LockInvInit, LockInvNext, <1>1, PTL DEF Spec

\* At most one live user is between urt_global_sem_wait and
\* urt_global_sem_post.
THEOREM MutualExclusionHolds == Spec => []MutualExclusion
<1>1. LockInv => MutualExclusion
  BY DEF LockInv
<1> QED
  BY LockInvInit, LockInvNext, <1>1, PTL DEF Spec

-----------------------------------------------------------------------------
(***************************************************************************)
(* Counts, reservations, names and index.  NoPhantomReference holds as it  *)
(* stands; the rest as long as nobody attaches to a name before its        *)
(* creation returned, for slot 0 as long as no shared lock fails to        *)
(* initialise.                                                             *)
(***************************************************************************)
\* Where a user of a slot counts in it, and where it reserves it.
Counting == {"idle", "attach", "giveup", "free", "detach"}
Reserving == {"reserve", "open", "size", "init", "misfree", "fill", "commit", "abort"}

\* The slots whose references are those of their users: a shared lock that
\* fails to initialise drops one of slot 0.
Sure == {s \in Slots : s = 0 => "init" \notin Faults}

\* RefCount and ReservationOwned of those slots.
CountInv == \A s \in Sure : objects[s].count = Cardinality({u \in Users : Counts(u, s)})
OwnInv ==
    \A s \in Sure :
        /\ objects[s].reserved <=> \E u \in Users : Reserves(u, s)
        /\ objects[s].reserved => objects[s].count = 0
        /\ \A u, v \in Users : Reserves(u, s) /\ Reserves(v, s) => u = v

\* UniqueNames.  Slot 0 shares its name with no other slot even while it is
\* free, since it is the first to be taken: so it does not when a user that
\* lost its reference, or its reservation, counts itself again.
NamesInv ==
    \A s, t \in Slots :
        (s = 0 \/ InUse(objects[s])) /\ InUse(objects[t]) /\ objects[s].name = objects[t].name => s = t

\* A live user past the search for its slot has one, which carries the name
\* the user works on.
PlaceInv ==
    /\ \A u \in Users : pc[u] = "misfree" => "init" \in Faults
    /\ \A u \in Users : alive[u] /\ pc[u] \in (Counting \cup Reserving) \ {"idle", "reserve"} => ro[u] # NoSlot
    /\ \A u \in Users : alive[u] /\ pc[u] \in {"reserve", "clear"} /\ cs[u] = "mid" => ro[u] # NoSlot
    /\ \A u \in Users : cs[u] = "mid" => pc[u] \in {"reserve", "detach", "abort", "giveup", "misfree", "clear"}
    /\ \A u \in Users, s \in Sure : Counts(u, s) \/ Reserves(u, s) => objects[s].name = name[u]

\* What the guards of Acquire and Clear found is still so while the semaphore
\* is held.
GuardInv ==
    /\ \A u \in Users, s \in Slots :
         alive[u] /\ pc[u] = "lookup" /\ cs[u] = "in" /\ objects[s].name = name[u] => ~objects[s].reserved
    /\ \A u, v \in Users :
         alive[u] /\ pc[u] = "clear" /\ cs[u] # "out" /\ v # u /\ alive[v] /\ ro[v] # NoSlot
           => objects[ro[v]].name # name[u]
    /\ \A u \in Users :
         alive[u] /\ pc[u] = "clear" /\ cs[u] = "mid" => objects[ro[u]].name = name[u] /\ InUse(objects[ro[u]])

\* objects_max_index may be off only in the middle of a critical section: too
\* low for the slot just reserved, or at the slot just given back.
MaxInv ==
    /\ gsem = 1 => Exact(objects, objects_max_index)
    /\ \A u \in Users : alive[u] /\ cs[u] # "out" =>
         /\ cs[u] # "mid" \/ pc[u] = "clear" => Exact(objects, objects_max_index)
         /\ cs[u] = "mid" /\ pc[u] = "reserve" =>
              /\ \A j \in Slots : InUse(objects[j]) /\ j # ro[u] => j <= objects_max_index
              /\ objects_max_index = 0 \/ InUse(objects[objects_max_index])
         /\ cs[u] = "mid" /\ pc[u] \in {"detach", "abort", "giveup", "misfree"} =>
              /\ \A j \in Slots : InUse(objects[j]) => j <= objects_max_index
              /\ objects_max_index = 0 \/ InUse(objects[objects_max_index]) \/ DecSlot(u) = objects_max_index
              /\ ~objects[DecSlot(u)].reserved

TableInv == CountInv /\ OwnInv /\ NamesInv /\ PlaceInv /\ GuardInv /\ MaxInv

-----------------------------------------------------------------------------
LEMMA SureAreSlots == Sure \subseteq Slots /\ \A s \in Slots : s = 0 \/ s \in Sure
BY DEF Sure

CountSet(s) == {u \in Users : Counts(u, s)}

LEMMA CountSetFinite == \A s : IsFiniteSet(CountSet(s)) /\ Cardinality(CountSet(s)) \in Nat
<1> SUFFICES ASSUME NEW s PROVE IsFiniteSet(CountSet(s)) /\ Cardinality(CountSet(s)) \in Nat
  OBVIOUS
<1>1. CountSet(s) \in SUBSET Users
  BY DEF CountSet
<1>2. IsFiniteSet(CountSet(s))
  BY <1>1, UsersAssumption, FS_Subset
<1> QED
  BY <1>2, FS_CardinalityType

\* The users of a slot after a step in which at most u enters or leaves it.
LEMMA CardinalityAfter ==
    ASSUME NEW s, NEW u \in Users,
           \A v \in Users : v # u => (Counts(v, s)' <=> Counts(v, s))
    PROVE  /\ (Counts(u, s)' <=> Counts(u, s)) => Cardinality(CountSet(s)') = Cardinality(CountSet(s))
           /\ Counts(u, s)' /\ ~Counts(u, s) => Cardinality(CountSet(s)') = Cardinality(CountSet(s)) + 1
           /\ ~Counts(u, s)' /\ Counts(u, s) =>
                Cardinality(CountSet(s)) > 0 /\ Cardinality(CountSet(s)') = Cardinality(CountSet(s)) - 1
<1> DEFINE C == CountSet(s)
           D == CountSet(s)'
<1>1. IsFiniteSet(C) /\ Cardinality(C) \in Nat
  BY CountSetFinite
<1>2. D = {v \in Users : Counts(v, s)'}
  BY DEF CountSet
<1>3. ASSUME Counts(u, s)' <=> Counts(u, s) PROVE D = C
  BY <1>2, <1>3 DEF CountSet
<1>4. ASSUME Counts(u, s)', ~Counts(u, s) PROVE D = C \cup {u} /\ u \notin C
  BY <1>2, <1>4 DEF CountSet
<1>5. ASSUME ~Counts(u, s)', Counts(u, s) PROVE D = C \ {u} /\ u \in C /\ C # {}
  BY <1>2, <1>5 DEF CountSet
<1> HIDE DEF C, D
<1>6. ASSUME Counts(u, s)', ~Counts(u, s) PROVE Cardinality(D) = Cardinality(C) + 1
  BY <1>1, <1>4, <1>6, FS_AddElement
<1>7. ASSUME ~Counts(u, s)', Counts(u, s) PROVE Cardinality(C) > 0 /\ Cardinality(D) = Cardinality(C) - 1
  <2>1. Cardinality(C) # 0
    BY <1>1, <1>5, <1>7, FS_EmptySet
  <2>2. Cardinality(D) = Cardinality(C) - 1
    BY <1>1, <1>5, <1>7, FS_RemoveElement
  <2> QED
    BY <1>1, <2>1, <2>2
<1> QED
  BY <1>3, <1>6, <1>7 DEF C, D

\* The same, when the count of the slot was right before the step.
LEMMA CountAfter ==
    ASSUME CountInv, NEW s \in Sure, NEW u \in Users,
           \A v \in Users : v # u => (Counts(v, s)' <=> Counts(v, s))
    PROVE  /\ (Counts(u, s)' <=> Counts(u, s)) => Cardinality(CountSet(s)') = objects[s].count
           /\ Counts(u, s)' /\ ~Counts(u, s) => Cardinality(CountSet(s)') = objects[s].count + 1
           /\ ~Counts(u, s)' /\ Counts(u, s) =>
                objects[s].count > 0 /\ Cardinality(CountSet(s)') = objects[s].count - 1
<1>1. objects[s].count = Cardinality(CountSet(s))
  BY DEF CountInv, CountSet
<1> QED
  BY <1>1, CardinalityAfter

LEMMA TableInvInit == Init => TableInv
<1> SUFFICES ASSUME Init PROVE TableInv
  OBVIOUS
<1> USE SureAreSlots
<1>1. \A s \in Slots : objects[s] = EmptyObject
  BY DEF Init
<1>2. \A s \in Slots, u \in Users : ~Counts(u, s) /\ ~Reserves(u, s)
  BY SlotsAreNaturals DEF Init, Counts, Reserves, NoSlot
<1>3. CountInv
  <2>1. ASSUME NEW s \in Sure PROVE objects[s].count = Cardinality({u \in Users : Counts(u, s)})
    <3>1. {u \in Users : Counts(u, s)} = {}
      BY <1>2
    <3> QED
      BY <1>1, <3>1, FS_EmptySet DEF EmptyObject
  <2> QED
    BY <2>1 DEF CountInv
<1>4. OwnInv
  BY <1>1, <1>2 DEF OwnInv, EmptyObject
<1>5. NamesInv /\ MaxInv
  BY <1>1 DEF NamesInv, MaxInv, Exact, InUse, EmptyObject, Init
<1>6. PlaceInv /\ GuardInv
  BY <1>2 DEF PlaceInv, GuardInv, Init, Counting, Reserving
<1> QED
  BY <1>3, <1>4, <1>5, <1>6 DEF TableInv

\* A step that writes at most the type of slots.
SameButType ==
    \A s \in Slots :
        /\ objects'[s].name = objects[s].name
        /\ objects'[s].reserved = objects[s].reserved
        /\ objects'[s].count = objects[s].count

\* A step in which no user enters or leaves a slot and no count is written.
LEMMA CountKept ==
    ASSUME CountInv, SameButType,
           \A v \in Users, s \in Slots : Counts(v, s)' <=> Counts(v, s)
    PROVE  CountInv'
<1>1. ASSUME NEW s \in Sure PROVE {v \in Users : Counts(v, s)'} = {v \in Users : Counts(v, s)}
  BY SureAreSlots
<1> QED
  BY <1>1, SureAreSlots DEF CountInv, SameButType

\* A step outside of the critical section that keeps the part its user plays
\* for its slot disturbs nothing.
LEMMA OutsideStep ==
    ASSUME LockInv, TableInv, NEW u \in Users, alive[u], cs[u] = "out",
           UNCHANGED <<gsem, objects_max_index, cs, ro, alive>>,
           SameButType, NEW p, pc' = [pc EXCEPT ![u] = p], p # "clear",
           p = "misfree" => "init" \in Faults,
           name' = name \/ (ro[u] = NoSlot /\ \E n : name' = [name EXCEPT ![u] = n]),
           ro[u] = NoSlot => p \in {"idle", "reserve", "lookup"},
           ro[u] # NoSlot => (pc[u] \in Counting <=> p \in Counting) /\ (pc[u] \in Reserving <=> p \in Reserving)
    PROVE  TableInv'
<1> USE SureAreSlots DEF Counts, Reserves, Counting, Reserving, LockInv, TypeOK, DecSlot
<1>1. \A v \in Users, s \in Slots : (Counts(v, s)' <=> Counts(v, s)) /\ (Reserves(v, s)' <=> Reserves(v, s))
  BY SlotsAreNaturals DEF NoSlot
<1>2. CountInv'
  BY <1>1, CountKept DEF TableInv
<1> USE DEF SameButType
<1>3. OwnInv' /\ NamesInv'
  <2> HIDE DEF Counts, Reserves
  <2>1. OwnInv'
    BY <1>1 DEF TableInv, OwnInv
  <2>2. NamesInv'
    BY DEF TableInv, NamesInv, InUse
  <2> QED
    BY <2>1, <2>2
<1>4. PlaceInv'
  <2> USE DEF TableInv, PlaceInv
  <2>1. /\ \A v \in Users : pc'[v] = "misfree" => "init" \in Faults
        /\ \A v \in Users : alive'[v] /\ pc'[v] \in (Counting \cup Reserving) \ {"idle", "reserve"} => ro'[v] # NoSlot
    OBVIOUS
  <2>2. /\ \A v \in Users : alive'[v] /\ pc'[v] \in {"reserve", "clear"} /\ cs'[v] = "mid" => ro'[v] # NoSlot
        /\ \A v \in Users : cs'[v] = "mid" => pc'[v] \in {"reserve", "detach", "abort", "giveup", "misfree", "clear"}
    OBVIOUS
  <2>3. \A v \in Users, s \in Sure : Counts(v, s)' \/ Reserves(v, s)' => objects'[s].name = name'[v]
    <3> SUFFICES ASSUME NEW v \in Users, NEW s \in Sure, Counts(v, s) \/ Reserves(v, s)
                 PROVE  objects'[s].name = name'[v]
      BY <1>1
    <3>1. objects[s].name = name[v] /\ ro[v] = s /\ s # NoSlot
      BY SlotsAreNaturals DEF NoSlot
    <3> QED
      BY <3>1
  <2> QED
    BY <2>1, <2>2, <2>3
<1>5. GuardInv'
  BY DEF TableInv, GuardInv, PlaceInv, InUse
<1>6. MaxInv'
  <2>1. \A s \in Slots : InUse(objects'[s]) <=> InUse(objects[s])
    BY DEF InUse
  <2>2. Exact(objects', objects_max_index') <=> Exact(objects, objects_max_index)
    BY <2>1 DEF Exact
  <2>3. \A v \in Users : alive[v] /\ cs[v] # "out" => v # u /\ pc'[v] = pc[v] /\ DecSlot(v)' = DecSlot(v)
    OBVIOUS
  <2>4. \A v \in Users : alive[v] /\ cs[v] = "mid" /\ pc[v] \in {"detach", "abort", "giveup", "misfree"} => DecSlot(v) \in Slots
    BY SlotsAreNaturals DEF TableInv, PlaceInv
  <2> HIDE DEF DecSlot
  <2> QED
    BY <2>1, <2>2, <2>3, <2>4 DEF TableInv, MaxInv
<1> QED
  BY <1>2, <1>3, <1>4, <1>5, <1>6 DEF TableInv

\* Who is in the critical section is alone there.
LEMMA Alone ==
    ASSUME LockInv, NEW u \in Users, alive[u], cs[u] # "out"
    PROVE  gsem = 0 /\ \A v \in Users : v # u /\ alive[v] => cs[v] = "out"
BY DEF LockInv, MutualExclusion

LEMMA NobodyInside ==
    ASSUME LockInv, gsem # 0
    PROVE  \A v \in Users : alive[v] => cs[v] = "out"
BY DEF LockInv, MutualExclusion

\* urt_global_sem_wait, of a registry function or of the clear tool.
LEMMA AcquireStep ==
    ASSUME LockInv, TableInv, ~EarlyAttach, NEW u \in Users,
           Acquire(u) \/ \E n \in Names : Clear(u, n)
    PROVE  TableInv'
<1> USE SureAreSlots DEF LockInv, TypeOK, DecSlot
<1>1. /\ alive[u] /\ cs[u] = "out" /\ gsem = 1 /\ gsem' = 0
      /\ cs' = [cs EXCEPT ![u] = "in"]
      /\ UNCHANGED <<objects, objects_max_index, ro, alive>>
      /\ \/ UNCHANGED <<pc, name>> /\ pc[u] \in Locking
         \/ /\ pc' = [pc EXCEPT ![u] = "clear"]
            /\ pc[u] = "idle" /\ ro[u] = NoSlot
            /\ \E n \in Names : Abandoned(n) /\ name' = [name EXCEPT ![u] = n]
  BY DEF Acquire, Clear, At, Goto, Phase, registry
<1>2. \A v \in Users : alive[v] => cs[v] = "out"
  BY <1>1, NobodyInside
<1>3. \A v \in Users, s \in Slots : (Counts(v, s)' <=> Counts(v, s)) /\ (Reserves(v, s)' <=> Reserves(v, s))
  BY <1>1, SlotsAreNaturals DEF NoSlot, Counts, Reserves
<1>4. CountInv'
  BY <1>1, <1>3, CountKept DEF TableInv, SameButType
<1>5. OwnInv' /\ NamesInv'
  BY <1>1, <1>3 DEF TableInv, OwnInv, NamesInv
<1>6. PlaceInv'
  <2>1. \A v \in Users, s \in Slots : Counts(v, s) \/ Reserves(v, s) => name'[v] = name[v]
    BY <1>1, SlotsAreNaturals DEF NoSlot, Counts, Reserves
  <2>2. \A v \in Users, s \in Sure : Counts(v, s)' \/ Reserves(v, s)' => objects'[s].name = name'[v]
    BY <1>1, <1>3, <2>1 DEF TableInv, PlaceInv
  <2>3. /\ \A v \in Users : pc'[v] = "misfree" => "init" \in Faults
        /\ \A v \in Users : alive'[v] /\ pc'[v] \in (Counting \cup Reserving) \ {"idle", "reserve"} => ro'[v] # NoSlot
        /\ \A v \in Users : alive'[v] /\ pc'[v] \in {"reserve", "clear"} /\ cs'[v] = "mid" => ro'[v] # NoSlot
        /\ \A v \in Users : cs'[v] = "mid" => pc'[v] \in {"reserve", "detach", "abort", "giveup", "misfree", "clear"}
    BY <1>1 DEF TableInv, PlaceInv, Counting, Reserving
  <2> QED
    BY <2>2, <2>3 DEF PlaceInv
<1>7. GuardInv'
  <2>1. \A s \in Slots : pc'[u] = "lookup" /\ objects[s].name = name'[u] => ~objects[s].reserved
    <3>1. CASE Acquire(u)
      BY <1>1, <3>1 DEF Acquire, AttachInTime
    <3>2. CASE \E n \in Names : Clear(u, n)
      BY <1>1, <3>2 DEF Clear, Goto
    <3> QED
      BY <3>1, <3>2
  <2>2. \A v \in Users : pc'[u] = "clear" /\ alive[v] /\ ro[v] # NoSlot => objects[ro[v]].name # name'[u]
    BY <1>1 DEF Abandoned, Locking
  <2> QED
    BY <1>1, <1>2, <2>1, <2>2 DEF GuardInv
<1>8. MaxInv'
  BY <1>1, <1>2 DEF TableInv, MaxInv
<1> QED
  BY <1>4, <1>5, <1>6, <1>7, <1>8 DEF TableInv

\* urt_global_sem_post.
LEMMA PostStep ==
    ASSUME LockInv, TableInv, NEW u \in Users, Post(u)
    PROVE  TableInv'
<1> USE SureAreSlots DEF LockInv, TypeOK, DecSlot
<1>1. /\ alive[u] /\ cs[u] = "done" /\ cs' = [cs EXCEPT ![u] = "out"]
      /\ UNCHANGED <<objects, objects_max_index, pc, name, ro, alive>>
  BY DEF Post, Phase, registry
<1>2. \A v \in Users, s \in Slots : (Counts(v, s)' <=> Counts(v, s)) /\ (Reserves(v, s)' <=> Reserves(v, s))
  BY <1>1 DEF Counts, Reserves
<1>3. CountInv'
  BY <1>1, <1>2, CountKept DEF TableInv, SameButType
<1>4. OwnInv' /\ NamesInv'
  BY <1>1, <1>2 DEF TableInv, OwnInv, NamesInv
<1>5. PlaceInv'
  BY <1>1, <1>2 DEF TableInv, PlaceInv
<1>6. GuardInv'
  BY <1>1 DEF TableInv, GuardInv
<1>7. MaxInv'
  BY <1>1 DEF TableInv, MaxInv
<1> QED
  BY <1>3, <1>4, <1>5, <1>6, <1>7 DEF TableInv

\* A user dies, and with it the guarantees a live one has.
LEMMA CrashStep ==
    ASSUME LockInv, TableInv, NEW u \in Users, Crash(u)
    PROVE  TableInv'
<1> USE SureAreSlots DEF LockInv, TypeOK, DecSlot
<1>1. /\ alive' = [alive EXCEPT ![u] = FALSE]
      /\ UNCHANGED <<gsem, objects, objects_max_index, pc, cs, name, ro>>
  BY DEF Crash, registry
<1>2. \A v \in Users : alive'[v] => alive[v]
  BY <1>1
<1>3. \A v \in Users, s \in Slots : (Counts(v, s)' <=> Counts(v, s)) /\ (Reserves(v, s)' <=> Reserves(v, s))
  BY <1>1 DEF Counts, Reserves
<1>4. CountInv'
  BY <1>1, <1>3, CountKept DEF TableInv, SameButType
<1>5. OwnInv' /\ NamesInv'
  BY <1>1, <1>3 DEF TableInv, OwnInv, NamesInv
<1>6. PlaceInv' /\ GuardInv'
  BY <1>1, <1>2, <1>3 DEF TableInv, PlaceInv, GuardInv
<1>7. MaxInv'
  BY <1>1, <1>2 DEF TableInv, MaxInv
<1> QED
  BY <1>4, <1>5, <1>6, <1>7 DEF TableInv

\* urt_recover.
LEMMA RecoverStep ==
    ASSUME LockInv, TableInv, Recover
    PROVE  TableInv'
<1> USE SureAreSlots DEF LockInv, TypeOK, DecSlot
<1>1. /\ \A v \in Users : alive[v] => cs[v] = "out"
      /\ objects_max_index' = RecoveredMax(objects)
      /\ UNCHANGED <<objects, pc, cs, name, ro, alive>>
  BY DEF Recover, At
<1>2. \A v \in Users, s \in Slots : (Counts(v, s)' <=> Counts(v, s)) /\ (Reserves(v, s)' <=> Reserves(v, s))
  BY <1>1 DEF Counts, Reserves
<1>3. CountInv'
  BY <1>1, <1>2, CountKept DEF TableInv, SameButType
<1>4. OwnInv' /\ NamesInv'
  BY <1>1, <1>2 DEF TableInv, OwnInv, NamesInv
<1>5. PlaceInv' /\ GuardInv'
  BY <1>1, <1>2 DEF TableInv, PlaceInv, GuardInv
<1>6. MaxInv'
  BY <1>1, RecoveredMaxExact DEF MaxInv
<1> QED
  BY <1>3, <1>4, <1>5, <1>6 DEF TableInv

\* A registry function that found nothing to work on returns.
LEMMA NothingTaken ==
    ASSUME LockInv, TableInv, NEW u \in Users, alive[u], cs[u] \in {"in", "mid"}, ro[u] = NoSlot,
           Exact(objects, objects_max_index),
           pc' = [pc EXCEPT ![u] = "idle"], cs' = [cs EXCEPT ![u] = "done"],
           \E n : name' = [name EXCEPT ![u] = n],
           UNCHANGED <<gsem, objects, objects_max_index, ro, alive>>
    PROVE  TableInv'
<1> USE SureAreSlots DEF LockInv, TypeOK, DecSlot
<1>1. \A v \in Users, t \in Slots : (Counts(v, t)' <=> Counts(v, t)) /\ (Reserves(v, t)' <=> Reserves(v, t))
  BY SlotsAreNaturals DEF Counts, Reserves, NoSlot
<1>2. \A v \in Users, t \in Slots : Counts(v, t) \/ Reserves(v, t) => name'[v] = name[v]
  BY SlotsAreNaturals DEF Counts, Reserves, NoSlot
<1>3. gsem = 0 /\ \A v \in Users : v # u /\ alive[v] => cs[v] = "out"
  BY Alone
<1>4. CountInv'
  BY <1>1, CountKept DEF TableInv, SameButType
<1>5. OwnInv' /\ NamesInv'
  BY <1>1 DEF TableInv, OwnInv, NamesInv
<1>6. PlaceInv'
  <2>1. \A v \in Users, t \in Sure : Counts(v, t)' \/ Reserves(v, t)' => objects'[t].name = name'[v]
    BY <1>1, <1>2 DEF TableInv, PlaceInv
  <2> QED
    BY <2>1 DEF TableInv, PlaceInv
<1>7. GuardInv'
  BY <1>3 DEF GuardInv
<1>8. MaxInv'
  BY <1>3 DEF MaxInv
<1> QED
  BY <1>4, <1>5, <1>6, <1>7, <1>8 DEF TableInv

\* urt_reserve_name: no name is taken twice, because every slot in use is at
\* or below the index up to which _find_by_name looks.
LEMMA ReserveSlotStep ==
    ASSUME LockInv, TableInv, NEW u \in Users, ReserveSlot(u)
    PROVE  TableInv'
<1> USE SureAreSlots DEF LockInv, TypeOK, DecSlot
<1>1. /\ alive[u] /\ cs[u] = "in" /\ pc[u] = "reserve" /\ ro[u] = NoSlot
      /\ UNCHANGED <<gsem, objects_max_index, alive>>
  BY DEF ReserveSlot, Inside, EarlyInv
<1>2. gsem = 0 /\ \A v \in Users : v # u /\ alive[v] => cs[v] = "out"
  BY <1>1, Alone
<1>3. Exact(objects, objects_max_index)
  BY <1>1 DEF TableInv, MaxInv
<1>4. CASE FindByName(objects, objects_max_index, name[u]) = NoSlot /\ FreeSlots(objects) # {}
  <2> DEFINE s == First(FreeSlots(objects))
  <2>1. /\ objects' = [objects EXCEPT ![s] = ReservedObject(name[u])]
        /\ ro' = [ro EXCEPT ![u] = s]
        /\ cs' = [cs EXCEPT ![u] = "mid"]
        /\ UNCHANGED <<pc, name>>
    BY <1>4 DEF ReserveSlot, Phase
  <2>2. s \in Slots /\ ~InUse(objects[s])
    BY <1>4, FreeSlotIsFree
  <2> HIDE DEF s
  <2>3. objects'[s] = ReservedObject(name[u]) /\ \A t \in Slots : t # s => objects'[t] = objects[t]
    BY <2>1, <2>2
  <2>4. objects[s].count = 0 /\ ~objects[s].reserved
    BY <2>2 DEF InUse
  <2>5. ASSUME s \in Sure PROVE \A v \in Users : ~Counts(v, s) /\ ~Reserves(v, s)
    <3>1. IsFiniteSet(CountSet(s)) /\ Cardinality(CountSet(s)) = 0
      BY <2>4, <2>5, CountSetFinite DEF TableInv, CountInv, CountSet
    <3>2. CountSet(s) = {}
      BY <3>1, FS_EmptySet
    <3> QED
      BY <2>4, <2>5, <3>2 DEF TableInv, OwnInv, CountSet
  <2>6. \A v \in Users, t \in Slots : Counts(v, t)' <=> Counts(v, t)
    BY <1>1, <2>1, <2>2, SlotsAreNaturals DEF Counts, NoSlot
  <2>7. \A v \in Users, t \in Slots : Reserves(v, t)' <=> Reserves(v, t) \/ (v = u /\ t = s)
    BY <1>1, <2>1, <2>2, SlotsAreNaturals DEF Reserves, NoSlot
  <2>8. CountInv'
    <3>1. ASSUME NEW t \in Sure PROVE {v \in Users : Counts(v, t)'} = {v \in Users : Counts(v, t)}
      BY <2>6
    <3>2. \A t \in Slots : objects'[t].count = objects[t].count
      BY <2>3, <2>4 DEF ReservedObject
    <3> QED
      BY <3>1, <3>2 DEF TableInv, CountInv
  <2>9. OwnInv'
    BY <2>3, <2>5, <2>7 DEF TableInv, OwnInv, ReservedObject
  <2>10. NamesInv'
    <3>1. \A t \in Slots : ~(InUse(objects[t]) /\ objects[t].name = name[u])
      BY <1>3, <1>4, FindByNameFinds, SlotsAreNaturals DEF Exact, NoSlot
    <3>2. s = 0 \/ InUse(objects[0])
      BY <1>4, FreeSlotIsFirst DEF s
    <3> QED
      BY <2>3, <3>1, <3>2, SlotsAreNaturals DEF TableInv, NamesInv, ReservedObject
  <2>11. PlaceInv'
    <3>1. \A v \in Users, t \in Sure : Counts(v, t)' \/ Reserves(v, t)' => objects'[t].name = name'[v]
      BY <2>1, <2>3, <2>5, <2>6, <2>7 DEF TableInv, PlaceInv, ReservedObject
    <3>2. s # NoSlot
      BY <2>2, SlotsAreNaturals DEF NoSlot
    <3>3. \A v \in Users : ro'[v] = NoSlot => ro[v] = NoSlot
      BY <1>1, <2>1
    <3> QED
      BY <1>1, <2>1, <3>1, <3>2, <3>3 DEF TableInv, PlaceInv
  <2>12. GuardInv'
    BY <1>1, <1>2, <2>1 DEF GuardInv
  <2>13. MaxInv'
    <3>1. \A j \in Slots : InUse(objects'[j]) /\ j # s => j <= objects_max_index
      BY <1>3, <2>3 DEF Exact
    <3>2. objects_max_index = 0 \/ InUse(objects'[objects_max_index])
      BY <1>3, <2>3 DEF Exact, InUse, ReservedObject
    <3> QED
      BY <1>1, <1>2, <2>1, <3>1, <3>2 DEF MaxInv
  <2> QED
    BY <2>8, <2>9, <2>10, <2>11, <2>12, <2>13 DEF TableInv
<1>5. CASE ~(FindByName(objects, objects_max_index, name[u]) = NoSlot /\ FreeSlots(objects) # {})
  <2>1. /\ pc' = [pc EXCEPT ![u] = "idle"] /\ cs' = [cs EXCEPT ![u] = "done"]
        /\ name' = [name EXCEPT ![u] = NoName]
        /\ UNCHANGED <<objects, ro>>
    BY <1>5 DEF ReserveSlot, Goto, Phase
  <2> QED
    BY <1>1, <1>2, <1>3, <2>1, NothingTaken
<1> QED
  BY <1>4, <1>5

\* objects_max_index follows the slot just reserved.
LEMMA ReserveMaxStep ==
    ASSUME LockInv, TableInv, NEW u \in Users, ReserveMax(u)
    PROVE  TableInv'
<1> USE SureAreSlots DEF LockInv, TypeOK, DecSlot
<1>1. /\ alive[u] /\ cs[u] = "mid" /\ pc[u] = "reserve"
      /\ pc' = [pc EXCEPT ![u] = "open"] /\ cs' = [cs EXCEPT ![u] = "done"]
      /\ objects_max_index' = RaisedMax(objects_max_index, ro[u])
      /\ UNCHANGED <<gsem, objects, name, ro, alive>>
  BY DEF ReserveMax, Inside, Goto, Phase
<1>2. gsem = 0 /\ \A v \in Users : v # u /\ alive[v] => cs[v] = "out"
  BY <1>1, Alone
<1>3. ro[u] \in Slots /\ Reserves(u, ro[u])
  BY <1>1 DEF TableInv, PlaceInv, Reserves
<1>4. \A v \in Users, t \in Slots : (Counts(v, t)' <=> Counts(v, t)) /\ (Reserves(v, t)' <=> Reserves(v, t))
  BY <1>1 DEF Counts, Reserves
<1>5. CountInv'
  BY <1>1, <1>4, CountKept DEF TableInv, SameButType
<1>6. OwnInv' /\ NamesInv'
  BY <1>1, <1>4 DEF TableInv, OwnInv, NamesInv
<1>7. PlaceInv'
  <2>1. \A v \in Users, t \in Sure : Counts(v, t)' \/ Reserves(v, t)' => objects'[t].name = name'[v]
    BY <1>1, <1>4 DEF TableInv, PlaceInv
  <2>2. ro[u] # NoSlot
    BY <1>3, SlotsAreNaturals DEF NoSlot
  <2> QED
    BY <1>1, <2>1, <2>2 DEF TableInv, PlaceInv
<1>8. GuardInv'
  BY <1>1, <1>2 DEF GuardInv
<1>9. MaxInv'
  <2>1. ro[u] \in Sure => InUse(objects[ro[u]])
    BY <1>3 DEF TableInv, OwnInv, InUse
  <2>2. /\ \A j \in Slots : InUse(objects[j]) /\ j # ro[u] => j <= objects_max_index
        /\ objects_max_index = 0 \/ InUse(objects[objects_max_index])
    BY <1>1 DEF TableInv, MaxInv
  <2>3. Exact(objects, RaisedMax(objects_max_index, ro[u]))
    <3>1. objects_max_index \in Nat /\ ro[u] \in Nat /\ \A j \in Slots : j \in Nat
      BY <1>3, SlotsAreNaturals
    <3>2. CASE ro[u] > objects_max_index
      <4>1. \A j \in Slots : InUse(objects[j]) => j <= ro[u]
        BY <2>2, <3>1, <3>2
      <4>2. ro[u] \in Sure
        BY <1>3, <3>1, <3>2
      <4> QED
        BY <2>1, <3>2, <4>1, <4>2 DEF Exact, RaisedMax
    <3>3. CASE ~(ro[u] > objects_max_index)
      <4>1. \A j \in Slots : InUse(objects[j]) => j <= objects_max_index
        BY <2>2, <3>1, <3>3
      <4> QED
        BY <2>2, <3>3, <4>1 DEF Exact, RaisedMax
    <3> QED
      BY <3>2, <3>3
  <2> QED
    BY <1>1, <1>2, <2>3 DEF MaxInv
<1> QED
  BY <1>5, <1>6, <1>7, <1>8, <1>9 DEF TableInv

\* The reference that urt_inc_name_count, or the lookup of an attachment,
\* adds to a slot: it is the user's own, and nobody else's reservation ends
\* with it.
LEMMA IncStep ==
    ASSUME LockInv, TableInv, NEW u \in Users, NEW s \in Slots, NEW p \in {"idle", "attach"},
           alive[u], cs[u] = "in",
           Exact(objects, objects_max_index), s = 0 \/ InUse(objects[s]),
           s \in Sure => objects[s].name = name[u],
           \/ Reserves(u, s)
           \/ ro[u] = NoSlot /\ ~objects[s].reserved,
           objects' = [objects EXCEPT ![s] = IncCount(@)],
           pc' = [pc EXCEPT ![u] = p], cs' = [cs EXCEPT ![u] = "done"],
           ro' = [ro EXCEPT ![u] = s],
           UNCHANGED <<gsem, objects_max_index, name, alive>>
    PROVE  TableInv'
<1> USE SureAreSlots DEF LockInv, TypeOK, DecSlot
<1>1. gsem = 0 /\ \A v \in Users : v # u /\ alive[v] => cs[v] = "out"
  BY Alone
<1>2. s # NoSlot
  BY SlotsAreNaturals DEF NoSlot
<1>3. /\ objects'[s].name = objects[s].name /\ ~objects'[s].reserved
      /\ objects'[s].count = objects[s].count + 1
      /\ \A t \in Slots : t # s => objects'[t] = objects[t]
  <2>1. objects'[s] = IncCount(objects[s]) /\ objects[s] \in RegisteredObject
    OBVIOUS
  <2> QED
    BY <2>1 DEF IncCount, RegisteredObject
<1>4. /\ \A v \in Users, t \in Slots : v # u => (Counts(v, t)' <=> Counts(v, t)) /\ (Reserves(v, t)' <=> Reserves(v, t))
      /\ \A t \in Slots : Counts(u, t)' <=> t = s
      /\ \A t \in Slots : ~Counts(u, t) /\ ~Reserves(u, t)'
      /\ \A t \in Slots : Reserves(u, t) => t = s
  BY <1>2, SlotsAreNaturals DEF Counts, Reserves, NoSlot
<1>5. CountInv'
  <2>1. ASSUME NEW t \in Sure PROVE objects'[t].count = Cardinality(CountSet(t)')
    <3>1. CASE t = s
      BY <1>3, <1>4, <3>1, CountAfter DEF TableInv
    <3>2. CASE t # s
      BY <1>3, <1>4, <3>2, CountAfter DEF TableInv
    <3> QED
      BY <3>1, <3>2
  <2> QED
    BY <2>1 DEF CountInv, CountSet
<1>6. OwnInv'
  <2>1. s \in Sure => \A v \in Users : Reserves(v, s) => v = u
    BY DEF TableInv, OwnInv
  <2>2. s \in Sure => \A v \in Users : ~Reserves(v, s)'
    BY <1>4, <2>1
  <2> HIDE DEF LockInv, TypeOK
  <2>3. \A v \in Users, t \in Slots : t # s => (Reserves(v, t)' <=> Reserves(v, t))
    BY <1>4
  <2> QED
    BY <1>3, <2>2, <2>3 DEF TableInv, OwnInv
<1>7. \A t \in Slots : objects'[t].name = objects[t].name /\ (InUse(objects'[t]) <=> t = s \/ InUse(objects[t]))
  <2>1. InUse(objects'[s])
    BY <1>3 DEF InUse, RegisteredObject
  <2> QED
    BY <1>3, <2>1
<1>8. NamesInv'
  BY <1>7 DEF TableInv, NamesInv
<1>9. PlaceInv'
  <2>1. \A v \in Users, t \in Sure : Counts(v, t)' \/ Reserves(v, t)' => objects'[t].name = name'[v]
    BY <1>4, <1>7 DEF TableInv, PlaceInv
  <2> QED
    BY <1>2, <2>1 DEF TableInv, PlaceInv
<1>10. GuardInv'
  BY <1>1 DEF GuardInv
<1>11. MaxInv'
  <2>1. Exact(objects', objects_max_index)
    BY <1>7, SlotsAreNaturals DEF Exact
  <2> QED
    BY <1>1, <2>1 DEF MaxInv
<1> QED
  BY <1>5, <1>6, <1>8, <1>9, <1>10, <1>11 DEF TableInv

LEMMA CommitStep ==
    ASSUME LockInv, TableInv, NEW u \in Users, Commit(u)
    PROVE  TableInv'
<1> USE SureAreSlots DEF LockInv, TypeOK, DecSlot
<1>1. /\ alive[u] /\ cs[u] = "in" /\ pc[u] = "commit"
      /\ objects' = [objects EXCEPT ![ro[u]] = IncCount(@)]
      /\ pc' = [pc EXCEPT ![u] = "idle"] /\ cs' = [cs EXCEPT ![u] = "done"]
      /\ UNCHANGED <<gsem, objects_max_index, name, ro, alive>>
  BY DEF Commit, Inside, Goto, Phase
<1>2. ro[u] \in Slots /\ Reserves(u, ro[u])
  BY <1>1 DEF TableInv, PlaceInv, Reserves, Counting, Reserving
<1>3. ro[u] \in Sure => InUse(objects[ro[u]]) /\ objects[ro[u]].name = name[u]
  BY <1>2 DEF TableInv, OwnInv, PlaceInv, InUse
<1>4. Exact(objects, objects_max_index)
  BY <1>1 DEF TableInv, MaxInv
<1>5. ro' = [ro EXCEPT ![u] = ro[u]]
  BY <1>1
<1> QED
  BY <1>1, <1>2, <1>3, <1>4, <1>5, IncStep

LEMMA LookupStep ==
    ASSUME LockInv, TableInv, NEW u \in Users, Lookup(u)
    PROVE  TableInv'
<1> USE SureAreSlots DEF LockInv, TypeOK, DecSlot
<1> DEFINE s == FindByName(objects, objects_max_index, name[u])
<1>1. /\ alive[u] /\ cs[u] = "in" /\ pc[u] = "lookup" /\ ro[u] = NoSlot
      /\ cs' = [cs EXCEPT ![u] = "done"]
      /\ UNCHANGED <<gsem, objects_max_index, alive>>
  BY DEF Lookup, Inside, Phase, EarlyInv
<1>2. Exact(objects, objects_max_index)
  BY <1>1 DEF TableInv, MaxInv
<1>3. CASE s = NoSlot
  <2>1. pc' = [pc EXCEPT ![u] = "idle"] /\ name' = [name EXCEPT ![u] = NoName] /\ UNCHANGED <<objects, ro>>
    BY <1>3 DEF Lookup, Goto
  <2> QED
    BY <1>1, <1>2, <2>1, NothingTaken
<1>4. CASE s # NoSlot
  <2>1. /\ objects' = [objects EXCEPT ![s] = IncCount(@)]
        /\ ro' = [ro EXCEPT ![u] = s]
        /\ pc' = [pc EXCEPT ![u] = "attach"] /\ UNCHANGED name
    BY <1>4 DEF Lookup, Goto
  <2>2. s \in Slots /\ InUse(objects[s]) /\ objects[s].name = name[u]
    BY <1>4, FindByNameFinds
  <2> HIDE DEF s
  <2>3. ~objects[s].reserved
    BY <1>1, <2>2 DEF TableInv, GuardInv
  <2> QED
    BY <1>1, <1>2, <2>1, <2>2, <2>3, IncStep
<1> QED
  BY <1>3, <1>4

\* The head of _dec_count_common: a detaching user's reference was counted,
\* so the count is not 0; an abandoned creation ends its reservation.
LEMMA DecHeadStep ==
    ASSUME LockInv, TableInv, NEW u \in Users, DecHead(u), pc[u] # "misfree"
    PROVE  TableInv'
<1> USE SureAreSlots DEF LockInv, TypeOK, DecSlot
<1>0. PICK s : s = ro[u]
  OBVIOUS
<1>1. /\ alive[u] /\ cs[u] = "in" /\ pc[u] \in {"detach", "abort", "giveup"}
      /\ objects' = [objects EXCEPT ![s] = DecCount(@)]
      /\ cs' = [cs EXCEPT ![u] = "mid"]
      /\ UNCHANGED <<gsem, objects_max_index, pc, name, ro, alive>>
  BY <1>0 DEF DecHead, DecSlot, Phase, TableInv, PlaceInv
<1>2. gsem = 0 /\ \A v \in Users : v # u /\ alive[v] => cs[v] = "out"
  BY <1>1, Alone
<1>3. Exact(objects, objects_max_index)
  BY <1>1 DEF TableInv, MaxInv
<1>4. s \in Slots /\ s # NoSlot
  BY <1>0, <1>1 DEF TableInv, PlaceInv, Counting, Reserving
<1>5. /\ \A v \in Users, t \in Slots : v # u => (Counts(v, t)' <=> Counts(v, t)) /\ (Reserves(v, t)' <=> Reserves(v, t))
      /\ \A t \in Slots : ~Counts(u, t)' /\ ~Reserves(u, t)'
      /\ \A t \in Slots : Counts(u, t) <=> t = s /\ pc[u] # "abort"
      /\ \A t \in Slots : Reserves(u, t) <=> t = s /\ pc[u] = "abort"
  BY <1>0, <1>1 DEF Counts, Reserves
<1>6. /\ objects'[s].name = objects[s].name /\ ~objects'[s].reserved
      /\ objects'[s].count = IF objects[s].count > 0 THEN objects[s].count - 1 ELSE 0
      /\ \A t \in Slots : t # s => objects'[t] = objects[t]
  <2>1. objects'[s] = DecCount(objects[s]) /\ objects[s] \in RegisteredObject
    BY <1>1, <1>4
  <2>2. \A t \in Slots : t # s => objects'[t] = objects[t]
    BY <1>1, <1>4
  <2> QED
    BY <2>1, <2>2 DEF DecCount, RegisteredObject
<1>7. CountInv'
  <2>1. ASSUME NEW t \in Sure PROVE objects'[t].count = Cardinality(CountSet(t)')
    <3>1. CASE t = s /\ pc[u] # "abort"
      BY <1>5, <1>6, <3>1, CountAfter DEF TableInv
    <3>2. CASE t = s /\ pc[u] = "abort"
      <4>1. objects[s].count = 0
        BY <1>5, <3>2 DEF TableInv, OwnInv
      <4> QED
        BY <1>5, <1>6, <3>2, <4>1, CountAfter DEF TableInv
    <3>3. CASE t # s
      BY <1>5, <1>6, <3>3, CountAfter DEF TableInv
    <3> QED
      BY <3>1, <3>2, <3>3
  <2> QED
    BY <2>1 DEF CountInv, CountSet
<1>8. OwnInv'
  <2>1. ASSUME s \in Sure PROVE \A v \in Users : ~Reserves(v, s)'
    <3>1. CASE pc[u] = "abort"
      BY <1>5, <2>1, <3>1 DEF TableInv, OwnInv
    <3>2. CASE pc[u] # "abort"
      <4>1. objects[s].count # 0
        BY <1>5, <2>1, <3>2, CountAfter DEF TableInv
      <4> QED
        BY <1>5, <2>1, <4>1 DEF TableInv, OwnInv
    <3> QED
      BY <3>1, <3>2
  <2>2. \A v \in Users, t \in Slots : t # s => (Reserves(v, t)' <=> Reserves(v, t))
    BY <1>5
  <2> HIDE DEF LockInv, TypeOK
  <2> QED
    BY <1>6, <2>1, <2>2 DEF TableInv, OwnInv
<1>9. \A t \in Slots : objects'[t].name = objects[t].name /\ (InUse(objects'[t]) => InUse(objects[t]))
  BY <1>6 DEF InUse
<1>10. NamesInv'
  BY <1>9 DEF TableInv, NamesInv
<1>11. PlaceInv'
  <2>1. \A v \in Users, t \in Sure : Counts(v, t)' \/ Reserves(v, t)' => objects'[t].name = name'[v]
    BY <1>1, <1>5, <1>9 DEF TableInv, PlaceInv
  <2> QED
    BY <1>1, <2>1 DEF TableInv, PlaceInv
<1>12. GuardInv'
  BY <1>1, <1>2 DEF GuardInv
<1>13. MaxInv'
  <2>1. \A j \in Slots : InUse(objects'[j]) => j <= objects_max_index
    BY <1>3, <1>9 DEF Exact
  <2>2. objects_max_index = 0 \/ InUse(objects'[objects_max_index]) \/ s = objects_max_index
    BY <1>3, <1>6 DEF Exact
  <2>3. ~objects'[s].reserved
    BY <1>6
  <2> QED
    BY <1>0, <1>1, <1>2, <2>1, <2>2, <2>3 DEF MaxInv
<1> QED
  BY <1>7, <1>8, <1>10, <1>11, <1>12, <1>13 DEF TableInv

\* Its tail: the index the loop arrives at is the one urt_recover computes.
LEMMA DecTailStep ==
    ASSUME LockInv, TableInv, NEW u \in Users, DecTail(u), pc[u] # "misfree"
    PROVE  TableInv'
<1> USE SureAreSlots DEF LockInv, TypeOK, DecSlot
<1>1. /\ alive[u] /\ cs[u] = "mid" /\ pc[u] \in {"detach", "abort", "giveup"}
      /\ objects_max_index' = MaxAfterDec(objects, objects_max_index, ro[u])
      /\ cs' = [cs EXCEPT ![u] = "done"] /\ pc' = [pc EXCEPT ![u] = "idle"]
      /\ name' = [name EXCEPT ![u] = NoName] /\ ro' = [ro EXCEPT ![u] = NoSlot]
      /\ UNCHANGED <<gsem, objects, alive>>
  BY DEF DecTail, DecSlot, Phase, Goto, TableInv, PlaceInv
<1>2. gsem = 0 /\ \A v \in Users : v # u /\ alive[v] => cs[v] = "out"
  BY <1>1, Alone
<1>3. ro[u] \in Slots
  BY <1>1 DEF TableInv, PlaceInv, Counting, Reserving
<1>4. \A v \in Users, t \in Slots : (Counts(v, t)' <=> Counts(v, t)) /\ (Reserves(v, t)' <=> Reserves(v, t))
  BY <1>1, SlotsAreNaturals DEF Counts, Reserves, NoSlot
<1>5. CountInv'
  BY <1>1, <1>4, CountKept DEF TableInv, SameButType
<1>6. OwnInv' /\ NamesInv'
  BY <1>1, <1>4 DEF TableInv, OwnInv, NamesInv
<1>7. PlaceInv'
  <2>1. \A v \in Users, t \in Slots : Counts(v, t) \/ Reserves(v, t) => name'[v] = name[v]
    BY <1>1 DEF Counts, Reserves
  <2>2. \A v \in Users, t \in Sure : Counts(v, t)' \/ Reserves(v, t)' => objects'[t].name = name'[v]
    BY <1>1, <1>4, <2>1 DEF TableInv, PlaceInv
  <2> QED
    BY <1>1, <2>2 DEF TableInv, PlaceInv, Counting, Reserving
<1>8. GuardInv'
  BY <1>1, <1>2 DEF GuardInv
<1>9. MaxInv'
  <2>1. /\ \A j \in Slots : InUse(objects[j]) => j <= objects_max_index
        /\ objects_max_index = 0 \/ InUse(objects[objects_max_index]) \/ ro[u] = objects_max_index
        /\ ~objects[ro[u]].reserved
    BY <1>1 DEF TableInv, MaxInv
  <2>2. objects[ro[u]] \in RegisteredObject
    BY <1>3
  <2>3. objects_max_index' = RecoveredMax(objects)
    BY <1>1, <1>3, <2>1, <2>2, MaxAfterDecExact
  <2>4. Exact(objects, objects_max_index')
    BY <2>3, RecoveredMaxExact
  <2> QED
    BY <1>1, <1>2, <2>4 DEF MaxInv
<1> QED
  BY <1>5, <1>6, <1>7, <1>8, <1>9 DEF TableInv

\* The same two steps of the error path of a shared lock: no user enters or
\* leaves a slot, and what they write is slot 0 and the index.
LEMMA MisfreeHead ==
    ASSUME LockInv, TableInv, NEW u \in Users, DecHead(u), pc[u] = "misfree"
    PROVE  TableInv'
<1> USE SureAreSlots DEF LockInv, TypeOK
<1>1. /\ alive[u] /\ cs[u] = "in"
      /\ objects' = [objects EXCEPT ![0] = DecCount(@)]
      /\ cs' = [cs EXCEPT ![u] = "mid"]
      /\ UNCHANGED <<gsem, objects_max_index, pc, name, ro, alive>>
  BY DEF DecHead, DecSlot, Phase
<1>2. gsem = 0 /\ \A v \in Users : v # u /\ alive[v] => cs[v] = "out"
  BY <1>1, Alone
<1>3. Exact(objects, objects_max_index)
  BY <1>1 DEF TableInv, MaxInv
<1>4. \A t \in Sure : t # 0
  BY DEF TableInv, PlaceInv, Sure
<1>5. \A v \in Users, t \in Slots : (Counts(v, t)' <=> Counts(v, t)) /\ (Reserves(v, t)' <=> Reserves(v, t))
  BY <1>1 DEF Counts, Reserves
<1>6. /\ objects'[0].name = objects[0].name /\ ~objects'[0].reserved
      /\ InUse(objects'[0]) => InUse(objects[0])
      /\ \A t \in Slots : t # 0 => objects'[t] = objects[t]
  <2>1. objects'[0] = DecCount(objects[0]) /\ objects[0] \in RegisteredObject
    BY <1>1, SlotsAreNaturals
  <2>2. \A t \in Slots : t # 0 => objects'[t] = objects[t]
    BY <1>1
  <2> QED
    BY <2>1, <2>2 DEF DecCount, RegisteredObject, InUse
<1>7. CountInv'
  <2>1. ASSUME NEW t \in Sure PROVE {v \in Users : Counts(v, t)'} = {v \in Users : Counts(v, t)}
    BY <1>5
  <2> QED
    BY <1>4, <1>6, <2>1 DEF TableInv, CountInv
<1>8. OwnInv'
  <2> HIDE DEF LockInv, TypeOK
  <2> QED
    BY <1>4, <1>5, <1>6 DEF TableInv, OwnInv
<1>9. NamesInv'
  BY <1>6 DEF TableInv, NamesInv
<1>10. PlaceInv'
  <2>1. \A v \in Users, t \in Sure : Counts(v, t)' \/ Reserves(v, t)' => objects'[t].name = name'[v]
    BY <1>1, <1>4, <1>5, <1>6 DEF TableInv, PlaceInv
  <2> QED
    BY <1>1, <2>1 DEF TableInv, PlaceInv
<1>11. GuardInv'
  BY <1>1, <1>2 DEF GuardInv
<1>12. MaxInv'
  <2>1. \A j \in Slots : InUse(objects'[j]) => j <= objects_max_index
    BY <1>3, <1>6 DEF Exact
  <2>2. objects_max_index = 0 \/ InUse(objects'[objects_max_index])
    BY <1>3, <1>6 DEF Exact
  <2>3. DecSlot(u)' = 0
    BY <1>1 DEF DecSlot
  <2> QED
    BY <1>1, <1>2, <1>6, <2>1, <2>2, <2>3 DEF MaxInv
<1> QED
  BY <1>7, <1>8, <1>9, <1>10, <1>11, <1>12 DEF TableInv

LEMMA MisfreeTail ==
    ASSUME LockInv, TableInv, NEW u \in Users, DecTail(u), pc[u] = "misfree"
    PROVE  TableInv'
<1> USE SureAreSlots DEF LockInv, TypeOK
<1>1. /\ alive[u] /\ cs[u] = "mid"
      /\ objects_max_index' = MaxAfterDec(objects, objects_max_index, 0)
      /\ cs' = [cs EXCEPT ![u] = "done"] /\ pc' = [pc EXCEPT ![u] = "abort"]
      /\ UNCHANGED <<gsem, objects, name, ro, alive>>
  BY DEF DecTail, DecSlot, Phase, Goto
<1>2. gsem = 0 /\ \A v \in Users : v # u /\ alive[v] => cs[v] = "out"
  BY <1>1, Alone
<1>3. \A v \in Users, t \in Slots : (Counts(v, t)' <=> Counts(v, t)) /\ (Reserves(v, t)' <=> Reserves(v, t))
  BY <1>1 DEF Counts, Reserves
<1>4. CountInv'
  BY <1>1, <1>3, CountKept DEF TableInv, SameButType
<1>5. OwnInv' /\ NamesInv'
  BY <1>1, <1>3 DEF TableInv, OwnInv, NamesInv
<1>6. PlaceInv'
  <2>1. \A v \in Users, t \in Sure : Counts(v, t)' \/ Reserves(v, t)' => objects'[t].name = name'[v]
    BY <1>1, <1>3 DEF TableInv, PlaceInv
  <2> QED
    BY <1>1, <2>1 DEF TableInv, PlaceInv, Counting, Reserving
<1>7. GuardInv'
  BY <1>1, <1>2 DEF GuardInv
<1>8. MaxInv'
  <2>1. /\ \A j \in Slots : InUse(objects[j]) => j <= objects_max_index
        /\ objects_max_index = 0 \/ InUse(objects[objects_max_index]) \/ 0 = objects_max_index
        /\ ~objects[0].reserved
    BY <1>1 DEF TableInv, MaxInv, DecSlot
  <2>2. 0 \in Slots /\ objects[0] \in RegisteredObject
    BY SlotsAreNaturals
  <2>3. objects_max_index' = RecoveredMax(objects)
    BY <1>1, <2>1, <2>2, MaxAfterDecExact
  <2>4. Exact(objects, objects_max_index')
    BY <2>3, RecoveredMaxExact
  <2> QED
    BY <1>1, <1>2, <2>4 DEF MaxInv
<1> QED
  BY <1>4, <1>5, <1>6, <1>7, <1>8 DEF TableInv

\* urt_force_clear_name up to the slot it found.
LEMMA ClearUnlinkStep ==
    ASSUME LockInv, TableInv, NEW u \in Users, ClearUnlink(u)
    PROVE  TableInv'
<1> USE SureAreSlots DEF LockInv, TypeOK, DecSlot
<1> DEFINE s == FindByName(objects, objects_max_index, name[u])
<1>1. /\ alive[u] /\ cs[u] = "in" /\ pc[u] = "clear" /\ ro[u] = NoSlot
      /\ UNCHANGED <<gsem, objects, objects_max_index, alive>>
  BY DEF ClearUnlink, Inside, EarlyInv, registry
<1>2. gsem = 0 /\ \A v \in Users : v # u /\ alive[v] => cs[v] = "out"
  BY <1>1, Alone
<1>3. Exact(objects, objects_max_index)
  BY <1>1 DEF TableInv, MaxInv
<1>4. CASE s = NoSlot
  <2>1. /\ pc' = [pc EXCEPT ![u] = "idle"] /\ cs' = [cs EXCEPT ![u] = "done"]
        /\ name' = [name EXCEPT ![u] = NoName] /\ UNCHANGED ro
    BY <1>4 DEF ClearUnlink, Goto, Phase
  <2> QED
    BY <1>1, <1>3, <2>1, NothingTaken
<1>5. CASE s # NoSlot
  <2>1. ro' = [ro EXCEPT ![u] = s] /\ cs' = [cs EXCEPT ![u] = "mid"] /\ UNCHANGED <<pc, name>>
    BY <1>5 DEF ClearUnlink, Phase
  <2>2. s \in Slots /\ objects[s].name = name[u] /\ InUse(objects[s])
    BY <1>5, FindByNameFinds
  <2> HIDE DEF s
  <2>3. \A v \in Users, t \in Slots : (Counts(v, t)' <=> Counts(v, t)) /\ (Reserves(v, t)' <=> Reserves(v, t))
    BY <1>1, <2>1 DEF Counts, Reserves
  <2>4. CountInv'
    BY <1>1, <2>3, CountKept DEF TableInv, SameButType
  <2>5. OwnInv' /\ NamesInv'
    BY <1>1, <2>3 DEF TableInv, OwnInv, NamesInv
  <2>6. PlaceInv'
    <3>1. \A v \in Users, t \in Sure : Counts(v, t)' \/ Reserves(v, t)' => objects'[t].name = name'[v]
      BY <1>1, <2>1, <2>3 DEF TableInv, PlaceInv
    <3>2. s # NoSlot
      BY <2>2, SlotsAreNaturals DEF NoSlot
    <3> QED
      BY <1>1, <2>1, <3>1, <3>2 DEF TableInv, PlaceInv, Counting, Reserving
  <2>7. GuardInv'
    BY <1>1, <1>2, <2>1, <2>2 DEF TableInv, GuardInv
  <2>8. MaxInv'
    BY <1>1, <1>2, <1>3, <2>1 DEF MaxInv
  <2> QED
    BY <2>4, <2>5, <2>6, <2>7, <2>8 DEF TableInv
<1> QED
  BY <1>4, <1>5

\* The rest of it: only crashed users were left in the slot.
LEMMA ClearSlotStep ==
    ASSUME LockInv, TableInv, NEW u \in Users, ClearSlot(u)
    PROVE  TableInv'
<1> USE SureAreSlots DEF LockInv, TypeOK, DecSlot
<1>0. PICK s : s = ro[u]
  OBVIOUS
<1> DEFINE cleared == [objects EXCEPT ![s] = ClearedObject(@)]
<1>1. /\ alive[u] /\ cs[u] = "mid" /\ pc[u] = "clear"
      /\ objects' = cleared
      /\ objects_max_index' = MaxAfterDec(cleared, objects_max_index, s)
      /\ ro' = [v \in Users |-> IF ro[v] = s /\ (v = u \/ ~alive[v]) THEN NoSlot ELSE ro[v]]
      /\ cs' = [cs EXCEPT ![u] = "done"] /\ pc' = [pc EXCEPT ![u] = "idle"]
      /\ name' = [name EXCEPT ![u] = NoName]
      /\ UNCHANGED <<gsem, alive>>
  BY <1>0 DEF ClearSlot, Inside, Phase, Goto
<1>2. gsem = 0 /\ \A v \in Users : v # u /\ alive[v] => cs[v] = "out"
  BY <1>1, Alone
<1>3. s \in Slots /\ s # NoSlot
  BY <1>0, <1>1 DEF TableInv, PlaceInv
<1>4. \A v \in Users : alive[v] /\ v # u => ro[v] # s
  BY <1>0, <1>1, <1>3 DEF TableInv, GuardInv
<1>5. /\ objects'[s].name = objects[s].name /\ ~objects'[s].reserved /\ objects'[s].count = 0
      /\ \A t \in Slots : t # s => objects'[t] = objects[t]
  <2>1. objects'[s] = ClearedObject(objects[s]) /\ objects[s] \in RegisteredObject
    BY <1>1, <1>3
  <2>2. \A t \in Slots : t # s => objects'[t] = objects[t]
    BY <1>1, <1>3
  <2> QED
    BY <2>1, <2>2 DEF ClearedObject, RegisteredObject
<1>6. objects' \in [Slots -> RegisteredObject]
  BY <1>1, <1>3, WritesAreObjects
<1> HIDE DEF cleared
<1>7. \A v \in Users : ro'[v] # s
  BY <1>0, <1>1, <1>3, <1>4
<1>8. \A v \in Users, t \in Slots : t # s =>
        (ro'[v] = t <=> ro[v] = t) /\ (Counts(v, t)' <=> Counts(v, t)) /\ (Reserves(v, t)' <=> Reserves(v, t))
  <2>1. \A v \in Users, t \in Slots : t # s => (ro'[v] = t <=> ro[v] = t)
    BY <1>0, <1>1, SlotsAreNaturals DEF NoSlot
  <2> QED
    BY <1>0, <1>1, <2>1 DEF Counts, Reserves
<1>9. \A v \in Users : ~Counts(v, s)' /\ ~Reserves(v, s)'
  BY <1>7 DEF Counts, Reserves
<1>10. CountInv'
  <2>1. ASSUME NEW t \in Sure PROVE objects'[t].count = Cardinality({v \in Users : Counts(v, t)'})
    <3>1. CASE t = s
      <4>1. {v \in Users : Counts(v, t)'} = {}
        BY <1>9, <3>1
      <4> QED
        BY <1>5, <3>1, <4>1, FS_EmptySet
    <3>2. CASE t # s
      <4>1. {v \in Users : Counts(v, t)'} = {v \in Users : Counts(v, t)}
        BY <1>8, <3>2
      <4> QED
        BY <1>5, <3>2, <4>1 DEF TableInv, CountInv
    <3> QED
      BY <3>1, <3>2
  <2> QED
    BY <2>1 DEF CountInv
<1>11. OwnInv'
  <2> HIDE DEF LockInv, TypeOK
  <2> QED
    BY <1>5, <1>8, <1>9 DEF TableInv, OwnInv
<1>12. ~InUse(objects'[s]) /\ \A t \in Slots : InUse(objects'[t]) => InUse(objects[t])
  BY <1>5 DEF InUse
<1>13. NamesInv'
  BY <1>5, <1>12 DEF TableInv, NamesInv
<1>14. PlaceInv'
  <2>1. \A v \in Users, t \in Sure : Counts(v, t)' \/ Reserves(v, t)' => objects'[t].name = name'[v]
    <3> SUFFICES ASSUME NEW v \in Users, NEW t \in Sure, Counts(v, t)' \/ Reserves(v, t)'
                 PROVE  objects'[t].name = name'[v]
      OBVIOUS
    <3>1. t # s
      BY <1>9
    <3>2. Counts(v, t) \/ Reserves(v, t)
      BY <1>8, <3>1
    <3>3. v # u
      BY <1>0, <3>1, <3>2 DEF Counts, Reserves
    <3> QED
      BY <1>1, <1>5, <3>1, <3>2, <3>3 DEF TableInv, PlaceInv
  <2>2. \A v \in Users : alive[v] /\ v # u => ro'[v] = ro[v]
    BY <1>1
  <2> QED
    BY <1>1, <2>1, <2>2 DEF TableInv, PlaceInv
<1>15. GuardInv'
  BY <1>1, <1>2 DEF GuardInv
<1>16. MaxInv'
  <2>1. Exact(objects, objects_max_index)
    BY <1>1 DEF TableInv, MaxInv
  <2>2. \A j \in Slots : InUse(cleared[j]) => j <= objects_max_index
    BY <1>1, <1>12, <2>1 DEF Exact
  <2>3. objects_max_index = 0 \/ InUse(cleared[objects_max_index]) \/ s = objects_max_index
    BY <1>1, <1>5, <2>1 DEF Exact
  <2>4. cleared[s] \in RegisteredObject /\ ~cleared[s].reserved
    BY <1>1, <1>3, <1>5, <1>6
  <2>5. objects_max_index' = RecoveredMax(cleared)
    BY <1>1, <1>3, <2>2, <2>3, <2>4, MaxAfterDecExact
  <2>6. Exact(objects', objects_max_index')
    BY <1>1, <2>5, RecoveredMaxExact
  <2> QED
    BY <1>1, <1>2, <2>6 DEF MaxInv
<1> QED
  BY <1>10, <1>11, <1>13, <1>14, <1>15, <1>16 DEF TableInv

LEMMA TableInvNext ==
    ASSUME ~EarlyAttach, LockInv, TableInv, [Next]_vars
    PROVE  TableInv'
<1>1. CASE UNCHANGED vars
  <2> USE SureAreSlots DEF DecSlot
  <2>1. \A v \in Users, t \in Slots : (Counts(v, t)' <=> Counts(v, t)) /\ (Reserves(v, t)' <=> Reserves(v, t))
    BY <1>1 DEF vars, Counts, Reserves
  <2>2. CountInv'
    BY <1>1, <2>1, CountKept DEF vars, TableInv, SameButType
  <2>3. OwnInv' /\ NamesInv'
    BY <1>1, <2>1 DEF vars, TableInv, OwnInv, NamesInv
  <2>4. PlaceInv' /\ GuardInv' /\ MaxInv'
    BY <1>1, <2>1 DEF vars, TableInv, PlaceInv, GuardInv, MaxInv
  <2> QED
    BY <2>2, <2>3, <2>4 DEF TableInv
<1>2. ASSUME NEW u \in Users, NEW n \in Names, New(u, n) \/ Attach(u, n)
      PROVE  TableInv'
  <2>1. \E p \in {"reserve", "lookup"} : pc' = [pc EXCEPT ![u] = p]
    BY <1>2 DEF New, Attach, Goto
  <2>2. /\ alive[u] /\ cs[u] = "out" /\ ro[u] = NoSlot
        /\ UNCHANGED <<gsem, objects, objects_max_index, cs, ro, alive>>
        /\ name' = [name EXCEPT ![u] = n]
    BY <1>2 DEF New, Attach, At, registry
  <2> QED
    BY <2>1, <2>2, OutsideStep DEF SameButType
<1>3. ASSUME NEW u \in Users, Delete(u)
      PROVE  TableInv'
  <2>1. \E p \in {"free", "detach"} : pc' = [pc EXCEPT ![u] = p]
    BY <1>3 DEF Delete, Goto
  <2>2. /\ alive[u] /\ cs[u] = "out" /\ ro[u] # NoSlot /\ pc[u] = "idle"
        /\ UNCHANGED <<gsem, objects, objects_max_index, cs, ro, alive, name>>
    BY <1>3 DEF Delete, At, registry
  <2> QED
    BY <2>1, <2>2, OutsideStep DEF SameButType, Counting, Reserving
<1>4. ASSUME NEW u \in Users,
             OpenSem(u) \/ OpenMem(u) \/ OpenNamed(u) \/ CheckShm(u) \/ AllocShm(u) \/ Size(u) \/ InitLock(u)
      PROVE  TableInv'
  <2> USE DEF OpenSem, OpenMem, OpenNamed, CheckShm, AllocShm, Size, InitLock
  <2>1. \E p \in {"fill", "size", "init", "abort", "misfree"} :
          pc' = [pc EXCEPT ![u] = p] /\ (p = "misfree" => "init" \in Faults)
    BY <1>4 DEF OpenExclusive, CreateFails, Goto, Fault
  <2>2. /\ alive[u] /\ cs[u] = "out" /\ pc[u] \in {"open", "size", "init"}
        /\ UNCHANGED <<gsem, objects, objects_max_index, cs, ro, alive, name>>
    BY <1>4 DEF At, registry
  <2>3. ro[u] # NoSlot
    BY <2>2 DEF TableInv, PlaceInv, Counting, Reserving
  <2> QED
    BY <2>1, <2>2, <2>3, OutsideStep DEF SameButType, Counting, Reserving
<1>5. ASSUME NEW u \in Users, Fill(u)
      PROVE  TableInv'
  <2>1. /\ alive[u] /\ cs[u] = "out" /\ pc[u] = "fill" /\ pc' = [pc EXCEPT ![u] = "commit"]
        /\ objects' = [objects EXCEPT ![ro[u]].type = KindOf(name[u])]
        /\ UNCHANGED <<gsem, objects_max_index, cs, ro, alive, name>>
    BY <1>5 DEF Fill, At, Goto
  <2>2. ro[u] \in Slots /\ ro[u] # NoSlot
    BY <2>1 DEF TableInv, PlaceInv, Counting, Reserving, LockInv, TypeOK
  <2>3. SameButType
    BY <2>1, <2>2 DEF SameButType, LockInv, TypeOK, RegisteredObject
  <2> QED
    BY <2>1, <2>2, <2>3, OutsideStep DEF Counting, Reserving
<1>6. ASSUME NEW u \in Users,
             AttachSem(u) \/ AttachMem(u) \/ AttachNamed(u) \/ AttachShm(u) \/ FreeShm(u)
      PROVE  TableInv'
  <2> USE DEF AttachSem, AttachMem, AttachNamed, AttachShm, OpenExisting, FreeShm
  <2>1. \E p \in {"idle", "giveup", "detach"} : pc' = [pc EXCEPT ![u] = p]
    BY <1>6 DEF Goto
  <2>2. /\ alive[u] /\ cs[u] = "out" /\ pc[u] \in {"attach", "free"}
        /\ UNCHANGED <<gsem, objects, objects_max_index, cs, ro, alive, name>>
    BY <1>6 DEF At, registry
  <2>3. ro[u] # NoSlot
    BY <2>2 DEF TableInv, PlaceInv, Counting, Reserving
  <2> QED
    BY <2>1, <2>2, <2>3, OutsideStep DEF SameButType, Counting, Reserving
<1>7. ASSUME NEW u \in Users, Acquire(u) \/ \E n \in Names : Clear(u, n)
      PROVE  TableInv'
  BY <1>7, AcquireStep
<1> QED
  BY <1>1, <1>2, <1>3, <1>4, <1>5, <1>6, <1>7, PostStep, ReserveSlotStep, ReserveMaxStep,
     CommitStep, LookupStep, DecHeadStep, DecTailStep, MisfreeHead, MisfreeTail, ClearUnlinkStep, ClearSlotStep,
     CrashStep, RecoverStep
  DEF Next, Proceed

LEMMA TableInvHolds ==
    ASSUME ~EarlyAttach
    PROVE  Spec => [](LockInv /\ TableInv)
<1>1. LockInv /\ TableInv /\ [Next]_vars => TableInv'
  BY TableInvNext
<1> QED
  BY <1>1, LockInvInit, LockInvNext, TableInvInit, PTL DEF Spec

-----------------------------------------------------------------------------
(* Where no shared lock fails to initialise, no slot is an exception. *)

\* A live user past the search for its slot has one, which carries the name
\* the user works on.
SlotInv ==
    /\ \A u \in Users : pc[u] # "misfree"
    /\ \A u \in Users : alive[u] /\ pc[u] \in (Counting \cup Reserving) \ {"idle", "reserve"} => ro[u] # NoSlot
    /\ \A u \in Users : alive[u] /\ pc[u] \in {"reserve", "clear"} /\ cs[u] = "mid" => ro[u] # NoSlot
    /\ \A u \in Users : cs[u] = "mid" => pc[u] \in {"reserve", "detach", "abort", "giveup", "clear"}
    /\ \A u \in Users, s \in Slots : Counts(u, s) \/ Reserves(u, s) => objects[s].name = name[u]

\* objects_max_index may be off only in the middle of a critical section: too
\* low for the slot just reserved, or at the slot just given back.
IndexInv ==
    /\ gsem = 1 => Exact(objects, objects_max_index)
    /\ \A u \in Users : alive[u] /\ cs[u] # "out" =>
         /\ cs[u] # "mid" \/ pc[u] = "clear" => Exact(objects, objects_max_index)
         /\ cs[u] = "mid" /\ pc[u] = "reserve" =>
              /\ \A j \in Slots : InUse(objects[j]) /\ j # ro[u] => j <= objects_max_index
              /\ objects_max_index = 0 \/ InUse(objects[objects_max_index])
         /\ cs[u] = "mid" /\ pc[u] \in {"detach", "abort", "giveup"} =>
              /\ \A j \in Slots : InUse(objects[j]) => j <= objects_max_index
              /\ objects_max_index = 0 \/ InUse(objects[objects_max_index]) \/ ro[u] = objects_max_index
              /\ ~objects[ro[u]].reserved

RegistryInv == RefCount /\ ReservationOwned /\ UniqueNames /\ SlotInv /\ GuardInv /\ IndexInv

LEMMA TableIsRegistry ==
    ASSUME "init" \notin Faults, TableInv
    PROVE  RegistryInv
<1>1. Sure = Slots /\ \A u \in Users : pc[u] # "misfree" /\ DecSlot(u) = ro[u]
  BY DEF Sure, TableInv, PlaceInv, DecSlot
<1>2. RefCount /\ ReservationOwned /\ UniqueNames
  BY <1>1 DEF TableInv, CountInv, OwnInv, NamesInv, RefCount, ReservationOwned, UniqueNames
<1>3. SlotInv
  BY <1>1 DEF TableInv, PlaceInv, SlotInv
<1>4. IndexInv
  BY <1>1 DEF TableInv, MaxInv, IndexInv
<1> QED
  BY <1>2, <1>3, <1>4 DEF TableInv, RegistryInv

LEMMA RegistryInvHolds ==
    ASSUME ~EarlyAttach, "init" \notin Faults
    PROVE  Spec => [](LockInv /\ RegistryInv)
<1>1. TableInv => RegistryInv
  BY TableIsRegistry
<1> QED
  BY <1>1, TableInvHolds, PTL

-----------------------------------------------------------------------------
\* The count of every slot is the number of users attached to it, crashed ones
\* included, as long as nobody attaches too early and no lock fails to
\* initialise: urt_inc_name_count, urt_get_object_by_name_and_inc_count and
\* _dec_count_common never lose or double a reference.
THEOREM RefCountHolds ==
    ASSUME ~EarlyAttach, "init" \notin Faults
    PROVE  Spec => []RefCount
<1>1. RegistryInv => RefCount
  BY DEF RegistryInv
<1> QED
  BY <1>1, RegistryInvHolds, PTL

\* A reservation made by urt_reserve_name belongs to one creation in progress
\* until that creation commits or aborts, and nobody is attached meanwhile.
THEOREM ReservationOwnedHolds ==
    ASSUME ~EarlyAttach, "init" \notin Faults
    PROVE  Spec => []ReservationOwned
<1>1. RegistryInv => ReservationOwned
  BY DEF RegistryInv
<1> QED
  BY <1>1, RegistryInvHolds, PTL

\* No two slots in use carry the same name, although _find_by_name looks no
\* further than objects_max_index, and although a shared lock that fails to
\* initialise may free slot 0 under its users.
THEOREM UniqueNamesHolds ==
    ASSUME ~EarlyAttach
    PROVE  Spec => []UniqueNames
<1>1. TableInv => UniqueNames
  BY DEF TableInv, NamesInv, UniqueNames
<1> QED
  BY <1>1, TableInvHolds, PTL

\* Whenever the registry can be entered, objects_max_index is the index
\* urt_recover would compute, failing initialisations included.
THEOREM MaxIndexExactHolds ==
    ASSUME ~EarlyAttach
    PROVE  Spec => []MaxIndexExact
<1>1. LockInv /\ TableInv => MaxIndexExact
  BY RecoveredMaxExact DEF LockInv, TypeOK, TableInv, MaxInv, MaxIndexExact
<1> QED
  BY <1>1, TableInvHolds, PTL

\* Where a shared lock cannot be initialised, the error path drops a reference
\* that is not its own.  It is one of slot 0: every other slot still counts its
\* users, and is reserved exactly as long as somebody creates it.
MisfreeConfined ==
    \A s \in Slots \ {0} :
        /\ objects[s].count = Cardinality({u \in Users : Counts(u, s)})
        /\ objects[s].reserved <=> \E u \in Users : Reserves(u, s)

\* The reference that the error path of _pthread_shlock_new drops through a
\* book keeping not written yet is one of slot 0: all other slots count their
\* users, and are reserved exactly as long as somebody creates them.
THEOREM MisfreeConfinedHolds ==
    ASSUME ~EarlyAttach
    PROVE  Spec => []MisfreeConfined
<1>1. TableInv => MisfreeConfined
  BY SureAreSlots DEF TableInv, CountInv, OwnInv, MisfreeConfined
<1> QED
  BY <1>1, TableInvHolds, PTL

-----------------------------------------------------------------------------
\* A step in which at most u enters or leaves slots adds a reference only for
\* u itself.
LEMMA NoPhantomStep ==
    ASSUME LockInv, NoPhantomReference, NEW u \in Users,
           \A v \in Users, s \in Slots : v # u => (Counts(v, s)' <=> Counts(v, s)),
           \A s \in Slots :
               \/ objects'[s].count = 0
               \/ /\ objects'[s].count = objects[s].count
                  /\ Counts(u, s) => Counts(u, s)'
               \/ objects'[s].count = objects[s].count - 1
               \/ /\ objects'[s].count = objects[s].count + 1
                  /\ ~Counts(u, s) /\ Counts(u, s)'
    PROVE  NoPhantomReference'
<1>1. ASSUME NEW s \in Slots PROVE objects'[s].count <= Cardinality(CountSet(s)')
  <2>1. objects[s].count \in Nat /\ objects[s].count <= Cardinality(CountSet(s))
    BY DEF LockInv, TypeOK, RegisteredObject, NoPhantomReference, CountSet
  <2>2. Cardinality(CountSet(s)) \in Nat
    BY CountSetFinite
  <2>3. /\ (Counts(u, s)' <=> Counts(u, s)) => Cardinality(CountSet(s)') = Cardinality(CountSet(s))
        /\ Counts(u, s)' /\ ~Counts(u, s) => Cardinality(CountSet(s)') = Cardinality(CountSet(s)) + 1
        /\ ~Counts(u, s)' /\ Counts(u, s) =>
             Cardinality(CountSet(s)) > 0 /\ Cardinality(CountSet(s)') = Cardinality(CountSet(s)) - 1
    BY CardinalityAfter
  <2> QED
    BY <2>1, <2>2, <2>3
<1> QED
  BY <1>1 DEF NoPhantomReference, CountSet

LEMMA NoPhantomNext == LockInv /\ NoPhantomReference /\ [Next]_vars => NoPhantomReference'
<1> SUFFICES ASSUME LockInv, NoPhantomReference, [Next]_vars PROVE NoPhantomReference'
  OBVIOUS
<1> USE DEF LockInv, TypeOK
<1>1. CASE UNCHANGED vars \/ Recover \/ \E u \in Users : Crash(u)
  <2>1. UNCHANGED <<objects, pc, cs, ro>>
    BY <1>1 DEF vars, Recover, Crash, registry
  <2>2. \A s \in Slots : {v \in Users : Counts(v, s)'} = {v \in Users : Counts(v, s)}
    BY <2>1 DEF Counts
  <2> QED
    BY <2>1, <2>2 DEF NoPhantomReference
<1>2. ASSUME NEW u \in Users, NEW n \in Names, New(u, n) \/ Attach(u, n) \/ Clear(u, n)
      PROVE  NoPhantomReference'
  <2>1. /\ ro[u] = NoSlot /\ UNCHANGED <<objects, ro>>
        /\ \E p : pc' = [pc EXCEPT ![u] = p]
        /\ \E c : cs' = [cs EXCEPT ![u] = c]
    BY <1>2 DEF New, Attach, Clear, At, Goto, Phase, registry
  <2>2. \A v \in Users, s \in Slots : Counts(v, s)' <=> Counts(v, s)
    BY <2>1, SlotsAreNaturals DEF Counts, NoSlot
  <2> QED
    BY <2>1, <2>2, NoPhantomStep
<1>3. ASSUME NEW u \in Users,
             \/ Delete(u) \/ FreeShm(u) \/ AttachSem(u) \/ AttachMem(u) \/ AttachNamed(u) \/ AttachShm(u)
             \/ OpenSem(u) \/ OpenMem(u) \/ OpenNamed(u) \/ CheckShm(u) \/ AllocShm(u) \/ Size(u)
             \/ InitLock(u) \/ Fill(u)
      PROVE  NoPhantomReference'
  <2>1. /\ cs[u] = "out" /\ UNCHANGED <<cs, ro>>
        /\ \/ /\ pc[u] \in {"idle", "free", "attach"}
              /\ \E p \in {"idle", "giveup", "free", "detach"} : pc' = [pc EXCEPT ![u] = p]
           \/ /\ pc[u] \in {"open", "size", "init", "fill"}
              /\ \E p \in {"size", "init", "fill", "commit", "abort", "misfree"} : pc' = [pc EXCEPT ![u] = p]
    BY <1>3 DEF Delete, FreeShm, AttachSem, AttachMem, AttachNamed, AttachShm, OpenExisting, OpenSem, OpenMem,
                OpenExclusive, CreateFails, OpenNamed, CheckShm, AllocShm, Size, InitLock, Fill, At, Goto
  <2>2. \A s \in Slots : objects'[s].count = objects[s].count
    BY <1>3 DEF Delete, FreeShm, AttachSem, AttachMem, AttachNamed, AttachShm, OpenExisting, OpenSem, OpenMem,
                OpenNamed, CheckShm, AllocShm, Size, InitLock, Fill, RegisteredObject, registry
  <2>3. \A v \in Users, s \in Slots : Counts(v, s)' <=> Counts(v, s)
    BY <2>1 DEF Counts
  <2> QED
    BY <2>2, <2>3, NoPhantomStep
<1>4. ASSUME NEW u \in Users, Acquire(u) \/ Post(u) \/ ReserveMax(u)
      PROVE  NoPhantomReference'
  <2>1. \A v \in Users, s \in Slots : Counts(v, s)' <=> Counts(v, s)
    BY <1>4 DEF Acquire, Post, ReserveMax, Inside, Goto, Phase, Counts
  <2>2. UNCHANGED objects
    BY <1>4 DEF Acquire, Post, ReserveMax, registry
  <2> QED
    BY <2>1, <2>2, NoPhantomStep
<1>5. ASSUME NEW u \in Users, ReserveSlot(u)
      PROVE  NoPhantomReference'
  <2>1. ro[u] = NoSlot /\ pc[u] = "reserve"
    BY <1>5 DEF ReserveSlot, Inside, EarlyInv
  <2>2. \A v \in Users, s \in Slots : Counts(v, s)' <=> Counts(v, s)
    BY <1>5, <2>1, SlotsAreNaturals DEF ReserveSlot, Goto, Phase, Counts, NoSlot
  <2>3. \A s \in Slots : objects'[s].count \in {0, objects[s].count}
    BY <1>5, FreeSlotIsFree DEF ReserveSlot, ReservedObject
  <2> QED
    BY <2>2, <2>3, NoPhantomStep
<1>6. ASSUME NEW u \in Users, Commit(u)
      PROVE  NoPhantomReference'
  <2>1. \A v \in Users, s \in Slots : v # u => (Counts(v, s)' <=> Counts(v, s))
    BY <1>6 DEF Commit, Goto, Phase, Counts
  <2>2. \A s \in Slots : ~Counts(u, s) /\ (Counts(u, s)' <=> s = ro[u])
    BY <1>6 DEF Commit, Inside, Goto, Phase, Counts
  <2>3. \A s \in Slots : objects'[s].count = IF s = ro[u] THEN objects[s].count + 1 ELSE objects[s].count
    BY <1>6 DEF Commit, IncCount, RegisteredObject
  <2> QED
    BY <2>1, <2>2, <2>3, NoPhantomStep
<1>7. ASSUME NEW u \in Users, Lookup(u)
      PROVE  NoPhantomReference'
  <2>1. ro[u] = NoSlot /\ pc[u] = "lookup"
    BY <1>7 DEF Lookup, Inside, EarlyInv
  <2>2. \A v \in Users, s \in Slots : v # u => (Counts(v, s)' <=> Counts(v, s))
    BY <1>7 DEF Lookup, Goto, Phase, Counts
  <2>3. \A s \in Slots : ~Counts(u, s) /\ (Counts(u, s)' <=> s = ro'[u])
    BY <1>7, <2>1, SlotsAreNaturals DEF Lookup, Goto, Phase, Counts, NoSlot
  <2>4. \A s \in Slots : objects'[s].count = IF s = ro'[u] THEN objects[s].count + 1 ELSE objects[s].count
    <3>1. CASE FindByName(objects, objects_max_index, name[u]) = NoSlot
      BY <1>7, <2>1, <3>1, SlotsAreNaturals DEF Lookup, NoSlot
    <3>2. CASE FindByName(objects, objects_max_index, name[u]) # NoSlot
      <4>1. /\ ro'[u] = FindByName(objects, objects_max_index, name[u])
            /\ objects' = [objects EXCEPT ![ro'[u]] = IncCount(@)]
        BY <1>7, <3>2 DEF Lookup
      <4> QED
        BY <4>1 DEF IncCount, RegisteredObject
    <3> QED
      BY <3>1, <3>2
  <2> QED
    BY <2>2, <2>3, <2>4, NoPhantomStep
<1>8. ASSUME NEW u \in Users, DecHead(u)
      PROVE  NoPhantomReference'
  <2>1. \A v \in Users, s \in Slots : v # u => (Counts(v, s)' <=> Counts(v, s))
    BY <1>8 DEF DecHead, Phase, Counts
  <2>2. \A s \in Slots : Counts(u, s) => s = DecSlot(u)
    BY <1>8 DEF DecHead, DecSlot, Counts
  <2>3. \A s \in Slots : s # DecSlot(u) => objects'[s].count = objects[s].count
    BY <1>8 DEF DecHead
  <2>4. DecSlot(u) \in Slots => objects'[DecSlot(u)].count \in {0, objects[DecSlot(u)].count - 1}
    <3>1. DecSlot(u) \in Slots => objects'[DecSlot(u)] = DecCount(objects[DecSlot(u)])
      BY <1>8 DEF DecHead
    <3> QED
      BY <3>1 DEF DecCount, RegisteredObject
  <2> QED
    BY <2>1, <2>2, <2>3, <2>4, NoPhantomStep
<1>9. ASSUME NEW u \in Users, DecTail(u)
      PROVE  NoPhantomReference'
  <2>1. /\ cs[u] = "mid" /\ pc[u] \in {"detach", "abort", "giveup", "misfree"} /\ UNCHANGED objects
        /\ cs' = [cs EXCEPT ![u] = "done"]
        /\ \/ pc' = [pc EXCEPT ![u] = "abort"] /\ UNCHANGED ro
           \/ pc' = [pc EXCEPT ![u] = "idle"] /\ ro' = [ro EXCEPT ![u] = NoSlot]
    BY <1>9 DEF DecTail, Goto, Phase
  <2>2. \A v \in Users, s \in Slots : Counts(v, s)' <=> Counts(v, s)
    BY <2>1, SlotsAreNaturals DEF Counts, NoSlot
  <2> QED
    BY <2>1, <2>2, NoPhantomStep
<1>10. ASSUME NEW u \in Users, ClearUnlink(u)
       PROVE  NoPhantomReference'
  <2>1. pc[u] = "clear" /\ ro[u] = NoSlot /\ UNCHANGED objects
    BY <1>10 DEF ClearUnlink, Inside, EarlyInv, registry
  <2>2. \A v \in Users, s \in Slots : Counts(v, s)' <=> Counts(v, s)
    BY <1>10, <2>1, SlotsAreNaturals DEF ClearUnlink, Goto, Phase, Counts, NoSlot
  <2> QED
    BY <2>1, <2>2, NoPhantomStep
<1>11. ASSUME NEW u \in Users, ClearSlot(u)
       PROVE  NoPhantomReference'
  <2>0. PICK z : z = ro[u]
    OBVIOUS
  <2>1. /\ pc[u] = "clear" /\ cs' = [cs EXCEPT ![u] = "done"] /\ pc' = [pc EXCEPT ![u] = "idle"]
        /\ ro' = [v \in Users |-> IF ro[v] = z /\ (v = u \/ ~alive[v]) THEN NoSlot ELSE ro[v]]
        /\ objects' = [objects EXCEPT ![z] = ClearedObject(@)]
    BY <1>11, <2>0 DEF ClearSlot, Inside, Goto, Phase
  <2>2. ASSUME NEW s \in Slots PROVE objects'[s].count <= Cardinality({v \in Users : Counts(v, s)'})
    <3>1. CASE s = z
      <4>1. objects'[s].count = 0
        BY <2>1, <3>1 DEF ClearedObject, RegisteredObject
      <4>2. Cardinality({v \in Users : Counts(v, s)'}) \in Nat
        <5>1. {v \in Users : Counts(v, s)'} \in SUBSET Users
          OBVIOUS
        <5> QED
          BY <5>1, UsersAssumption, FS_Subset, FS_CardinalityType
      <4> QED
        BY <4>1, <4>2
    <3>2. CASE s # z
      <4>1. {v \in Users : Counts(v, s)'} = {v \in Users : Counts(v, s)}
        BY <2>0, <2>1, <3>2, SlotsAreNaturals DEF Counts, NoSlot
      <4> QED
        BY <2>1, <3>2, <4>1 DEF NoPhantomReference
    <3> QED
      BY <3>1, <3>2
  <2> QED
    BY <2>2 DEF NoPhantomReference
<1> QED
  BY <1>1, <1>2, <1>3, <1>4, <1>5, <1>6, <1>7, <1>8, <1>9, <1>10, <1>11 DEF Next, Proceed

\* No count is higher than the number of users attached to its slot, whatever
\* fails, crashes or attaches too early: a slot whose users all left is free.
THEOREM NoPhantomReferenceHolds == Spec => []NoPhantomReference
<1>1. Init => NoPhantomReference
  <2>1. \A s : Cardinality({u \in Users : Counts(u, s)}) \in Nat
    BY CountSetFinite DEF CountSet
  <2> QED
    BY <2>1, SlotsAreNaturals DEF Init, NoPhantomReference, EmptyObject
<1> QED
  BY <1>1, LockInvInit, LockInvNext, NoPhantomNext, PTL DEF Spec

-----------------------------------------------------------------------------
(* SharedObjects implements NameTable: the slots, counts and the index, the *)
(* lock and the calls that take several steps behave as the table of names *)
(* in which every user is listed, each call taking effect in one step.     *)

\* What NameTable's creating and attached are in SharedObjects.
Creates(v, n) == name[v] = n /\ ro[v] # NoSlot /\ Reserves(v, ro[v])
Attached(v, n) == name[v] = n /\ ro[v] # NoSlot /\ Counts(v, ro[v])
CreatingBar == [n \in Names |-> {u \in Users : Creates(u, n)}]
AttachedBar == [n \in Names |-> {u \in Users : Attached(u, n)}]
GoneBar == {u \in Users : ~alive[u]}

\* Who is listed under a name has a slot in use with that name.
LEMMA ListedHasSlot ==
    ASSUME LockInv, RegistryInv, NEW v \in Users, NEW n, Creates(v, n) \/ Attached(v, n)
    PROVE  /\ ro[v] \in Slots /\ InUse(objects[ro[v]]) /\ objects[ro[v]].name = n
           /\ Creates(v, n) => objects[ro[v]].reserved /\ objects[ro[v]].count = 0
           /\ Attached(v, n) => ~objects[ro[v]].reserved /\ objects[ro[v]].count # 0
<1>0. PICK s : s = ro[v]
  OBVIOUS
<1>1. s \in Slots
  BY <1>0 DEF Creates, Attached, LockInv, TypeOK
<1>2. objects[s].name = n
  BY <1>0, <1>1 DEF Creates, Attached, RegistryInv, SlotInv
<1>3. ASSUME Creates(v, n) PROVE objects[s].reserved /\ objects[s].count = 0
  BY <1>0, <1>1, <1>3 DEF Creates, RegistryInv, ReservationOwned
<1>4. ASSUME Attached(v, n) PROVE objects[s].count # 0
  <2>1. v \in CountSet(s) /\ IsFiniteSet(CountSet(s))
    BY <1>0, <1>4, CountSetFinite DEF CountSet, Attached
  <2>2. Cardinality(CountSet(s)) # 0
    BY <2>1, FS_EmptySet
  <2> QED
    BY <1>1, <2>2 DEF RegistryInv, RefCount, CountSet
<1>5. objects[s].reserved => objects[s].count = 0
  BY <1>1 DEF RegistryInv, ReservationOwned
<1> QED
  BY <1>0, <1>1, <1>2, <1>3, <1>4, <1>5 DEF InUse

\* A slot with a count has somebody attached to its name.
LEMMA CountedHasUser ==
    ASSUME LockInv, RegistryInv, NEW s \in Slots, objects[s].count # 0
    PROVE  \E v \in Users : Attached(v, objects[s].name)
<1>1. Cardinality(CountSet(s)) # 0
  BY DEF RegistryInv, RefCount, CountSet
<1>2. CountSet(s) # {}
  BY <1>1, FS_EmptySet
<1>3. PICK v \in Users : Counts(v, s)
  BY <1>2 DEF CountSet
<1>4. ro[v] = s /\ s # NoSlot /\ name[v] = objects[s].name
  BY <1>3, SlotsAreNaturals DEF Counts, NoSlot, RegistryInv, SlotInv
<1> QED
  BY <1>3, <1>4 DEF Attached

\* A slot in use has somebody listed under its name.
LEMMA SlotHasUser ==
    ASSUME LockInv, RegistryInv, NEW s \in Slots, InUse(objects[s])
    PROVE  \E v \in Users : Creates(v, objects[s].name) \/ Attached(v, objects[s].name)
<1>1. CASE objects[s].reserved
  <2>1. PICK v \in Users : Reserves(v, s)
    BY <1>1 DEF RegistryInv, ReservationOwned
  <2>2. ro[v] = s /\ s # NoSlot /\ name[v] = objects[s].name
    BY <2>1, SlotsAreNaturals DEF Reserves, NoSlot, RegistryInv, SlotInv
  <2> QED
    BY <2>1, <2>2 DEF Creates
<1>2. CASE objects[s].count # 0
  BY <1>2, CountedHasUser
<1> QED
  BY <1>1, <1>2 DEF InUse

\* The table is not full while a slot is free.
LEMMA RoomForName ==
    ASSUME LockInv, RegistryInv, NEW s \in Slots, ~InUse(objects[s])
    PROVE  Cardinality({n \in Names : \E v \in Users : Creates(v, n) \/ Attached(v, n)}) < MaxObjects
<1> DEFINE N == {n \in Names : \E v \in Users : Creates(v, n) \/ Attached(v, n)}
           Q(n, t) == t \in Slots \ {s} /\ objects[t].name = n
           f == [n \in N |-> CHOOSE t : Q(n, t)]
<1>1. IsFiniteSet(Slots \ {s}) /\ Cardinality(Slots \ {s}) = MaxObjects - 1
  <2>1. 0 \in Int /\ MaxObjects - 1 \in Int
    BY MaxObjectsAssumption
  <2>2. IsFiniteSet(Slots) /\ Cardinality(Slots) = MaxObjects
    BY <2>1, MaxObjectsAssumption, FS_Interval DEF Slots
  <2> QED
    BY <2>2, FS_RemoveElement
<1>2. ASSUME NEW n \in N PROVE Q(n, f[n])
  <2>1. PICK v \in Users : Creates(v, n) \/ Attached(v, n)
    OBVIOUS
  <2>2. Q(n, ro[v])
    BY <2>1, ListedHasSlot
  <2>3. f[n] = CHOOSE t : Q(n, t)
    OBVIOUS
  <2> HIDE DEF Q, f
  <2> QED
    BY <2>2, <2>3
<1>3. f \in [N -> Slots \ {s}]
  BY <1>2
<1>4. \A m, n \in N : f[m] = f[n] => m = n
  <2>1. \A n \in N : objects[f[n]].name = n
    BY <1>2
  <2> HIDE DEF f, N
  <2> QED
    BY <2>1
<1> HIDE DEF f, N
<1>5. f \in Injection(N, Slots \ {s})
  BY <1>3, <1>4 DEF Injection, IsInjective
<1>6. IsFiniteSet(N) /\ Cardinality(N) <= Cardinality(Slots \ {s})
  BY <1>1, <1>5, FS_Injection
<1>7. Cardinality(N) \in Nat
  BY <1>6, FS_CardinalityType
<1> QED
  BY <1>1, <1>6, <1>7, MaxObjectsAssumption DEF N

\* A step that lists, unlists and kills nobody is a stuttering step.
LEMMA TableStutters ==
    ASSUME \A v \in Users, n \in Names : (Creates(v, n)' <=> Creates(v, n)) /\ (Attached(v, n)' <=> Attached(v, n)),
           alive' = alive
    PROVE  UNCHANGED <<CreatingBar, AttachedBar, GoneBar>>
BY DEF CreatingBar, AttachedBar, GoneBar

\* The step of the table that a change of one name amounts to.
LEMMA TableSteps ==
    ASSUME NEW u \in Users, NEW n \in Names, UNCHANGED GoneBar,
           NEW S, NEW T,
           CreatingBar' = [CreatingBar EXCEPT ![n] = S],
           AttachedBar' = [AttachedBar EXCEPT ![n] = T],
           \/ /\ alive[u] /\ \A m \in Names : ~Creates(u, m) /\ ~Attached(u, m)
              /\ \A v \in Users : ~Creates(v, n) /\ ~Attached(v, n)
              /\ Cardinality({m \in Names : \E v \in Users : Creates(v, m) \/ Attached(v, m)}) < MaxObjects
              /\ S = {u} /\ T = AttachedBar[n]
           \/ alive[u] /\ Creates(u, n) /\ S = {} /\ T = {u}
           \/ alive[u] /\ Creates(u, n) /\ S = {} /\ T = AttachedBar[n]
           \/ /\ alive[u] /\ \A m \in Names : ~Creates(u, m) /\ ~Attached(u, m)
              /\ AttachedBar[n] # {}
              /\ S = CreatingBar[n] /\ T = AttachedBar[n] \cup {u}
           \/ alive[u] /\ Attached(u, n) /\ S = CreatingBar[n] /\ T = AttachedBar[n] \ {u}
           \/ /\ \E v \in Users : Creates(v, n) \/ Attached(v, n)
              /\ \A v \in Users : Creates(v, n) \/ Attached(v, n) => ~alive[v]
              /\ S = {} /\ T = {}
    PROVE  Table!Next
<1> DEFINE C == CreatingBar
           A == AttachedBar
           G == GoneBar
           Used(m) == C[m] # {} \/ A[m] # {}
           Busy == \E m \in Names : u \in C[m] \cup A[m]
<1>1. /\ \A m \in Names, v \in Users : v \in C[m] <=> Creates(v, m)
      /\ \A m \in Names, v \in Users : v \in A[m] <=> Attached(v, m)
      /\ \A m \in Names : C[m] \subseteq Users /\ A[m] \subseteq Users
      /\ C = [m \in Names |-> C[m]] /\ A = [m \in Names |-> A[m]]
      /\ \A v \in Users : v \in G <=> ~alive[v]
  BY DEF CreatingBar, AttachedBar, GoneBar
<1>2. {m \in Names : \E v \in Users : Creates(v, m) \/ Attached(v, m)} = {m \in Names : Used(m)}
  BY <1>1
<1> HIDE DEF C, A, G
<1>3. \/ /\ u \notin G /\ ~Busy /\ ~Used(n) /\ Cardinality({m \in Names : Used(m)}) < MaxObjects
         /\ C' = [C EXCEPT ![n] = {u}] /\ UNCHANGED <<A, G>>
      \/ u \notin G /\ u \in C[n] /\ C' = [C EXCEPT ![n] = {}] /\ A' = [A EXCEPT ![n] = {u}] /\ UNCHANGED G
      \/ u \notin G /\ u \in C[n] /\ C' = [C EXCEPT ![n] = {}] /\ UNCHANGED <<A, G>>
      \/ u \notin G /\ ~Busy /\ A[n] # {} /\ A' = [A EXCEPT ![n] = @ \cup {u}] /\ UNCHANGED <<C, G>>
      \/ u \notin G /\ u \in A[n] /\ A' = [A EXCEPT ![n] = @ \ {u}] /\ UNCHANGED <<C, G>>
      \/ /\ Used(n) /\ C[n] \cup A[n] \subseteq G
         /\ C' = [C EXCEPT ![n] = {}] /\ A' = [A EXCEPT ![n] = {}] /\ UNCHANGED G
  BY <1>1, <1>2 DEF C, A, G
<1>4. /\ C = [m \in Names |-> {v \in Users : name[v] = m /\ ro[v] # NoSlot /\ Reserves(v, ro[v])}]
      /\ A = [m \in Names |-> {v \in Users : name[v] = m /\ ro[v] # NoSlot /\ Counts(v, ro[v])}]
      /\ G = {v \in Users : ~alive[v]}
  BY DEF C, A, G, CreatingBar, AttachedBar, GoneBar, Creates, Attached
<1>5. /\ C' = [m \in Names |-> {v \in Users : name[v] = m /\ ro[v] # NoSlot /\ Reserves(v, ro[v])}]'
      /\ A' = [m \in Names |-> {v \in Users : name[v] = m /\ ro[v] # NoSlot /\ Counts(v, ro[v])}]'
      /\ G' = {v \in Users : ~alive[v]}'
  BY DEF C, A, G, CreatingBar, AttachedBar, GoneBar, Creates, Attached
<1>6. (\A m : Table!Used(m) <=> Used(m)) /\ (Table!Busy(u) <=> Busy) /\ Table!UsedNames = {m \in Names : Used(m)}
  BY <1>4 DEF Table!Busy, Table!Used, Table!UsedNames
<1>7. ASSUME u \notin G /\ ~Busy /\ ~Used(n) /\ Cardinality({m \in Names : Used(m)}) < MaxObjects
             /\ C' = [C EXCEPT ![n] = {u}] /\ UNCHANGED <<A, G>>
      PROVE  Table!Create(u, n)
  <2>1. Cardinality(Table!UsedNames) < MaxObjects /\ ~Table!Used(n) /\ ~Table!Busy(u)
    BY <1>6, <1>7
  <2>2. Table!Cardinality(Table!UsedNames) = Cardinality(Table!UsedNames)
    BY DEF Table!Cardinality, Cardinality
  <2> QED
    BY <1>4, <1>5, <1>7, <2>1, <2>2 DEF Table!Create
<1>8. ASSUME u \notin G /\ u \in C[n] /\ C' = [C EXCEPT ![n] = {}] /\ A' = [A EXCEPT ![n] = {u}] /\ UNCHANGED G
      PROVE  Table!Created(u, n)
  BY <1>4, <1>5, <1>6, <1>8 DEF Table!Created
<1>9. ASSUME u \notin G /\ u \in C[n] /\ C' = [C EXCEPT ![n] = {}] /\ UNCHANGED <<A, G>>
      PROVE  Table!GiveUp(u, n)
  BY <1>4, <1>5, <1>6, <1>9 DEF Table!GiveUp
<1>10. ASSUME u \notin G /\ ~Busy /\ A[n] # {} /\ A' = [A EXCEPT ![n] = @ \cup {u}] /\ UNCHANGED <<C, G>>
      PROVE  Table!Attach(u, n)
  BY <1>4, <1>5, <1>6, <1>10 DEF Table!Attach
<1>11. ASSUME u \notin G /\ u \in A[n] /\ A' = [A EXCEPT ![n] = @ \ {u}] /\ UNCHANGED <<C, G>>
      PROVE  Table!Detach(u, n)
  BY <1>4, <1>5, <1>6, <1>11 DEF Table!Detach
<1>12. ASSUME Used(n) /\ C[n] \cup A[n] \subseteq G
             /\ C' = [C EXCEPT ![n] = {}] /\ A' = [A EXCEPT ![n] = {}] /\ UNCHANGED G
      PROVE  Table!Clear(n)
  BY <1>4, <1>5, <1>6, <1>12 DEF Table!Clear
<1> QED
  BY <1>3, <1>7, <1>8, <1>9, <1>10, <1>11, <1>12 DEF Table!Next

\* A step that changes the list of one name only.
LEMMA OneNameChanges ==
    ASSUME NEW n \in Names, NEW S \in SUBSET Users, NEW T \in SUBSET Users,
           \A v \in Users, m \in Names : m # n =>
               (Creates(v, m)' <=> Creates(v, m)) /\ (Attached(v, m)' <=> Attached(v, m)),
           \A v \in Users : (Creates(v, n)' <=> v \in S) /\ (Attached(v, n)' <=> v \in T)
    PROVE  /\ CreatingBar' = [CreatingBar EXCEPT ![n] = S]
           /\ AttachedBar' = [AttachedBar EXCEPT ![n] = T]
<1>1. \A m \in Names : CreatingBar'[m] = IF m = n THEN S ELSE CreatingBar[m]
  BY DEF CreatingBar
<1>2. \A m \in Names : AttachedBar'[m] = IF m = n THEN T ELSE AttachedBar[m]
  BY DEF AttachedBar
<1>3. /\ CreatingBar' = [m \in Names |-> CreatingBar'[m]] /\ CreatingBar = [m \in Names |-> CreatingBar[m]]
      /\ AttachedBar' = [m \in Names |-> AttachedBar'[m]] /\ AttachedBar = [m \in Names |-> AttachedBar[m]]
  BY DEF CreatingBar, AttachedBar
<1> QED
  BY <1>1, <1>2, <1>3

\* Nobody else creates a name that is being created, or is attached to it.
LEMMA OnlyCreator ==
    ASSUME LockInv, RegistryInv, NEW u \in Users, NEW n \in Names, Creates(u, n)
    PROVE  \A v \in Users : (Creates(v, n) => v = u) /\ ~Attached(v, n)
<1> SUFFICES ASSUME NEW v \in Users, Creates(v, n) \/ Attached(v, n) PROVE v = u /\ ~Attached(v, n)
  OBVIOUS
<1>1. /\ ro[u] \in Slots /\ InUse(objects[ro[u]]) /\ objects[ro[u]].name = n
      /\ objects[ro[u]].reserved
  BY ListedHasSlot
<1>2. /\ ro[v] \in Slots /\ InUse(objects[ro[v]]) /\ objects[ro[v]].name = n
      /\ Attached(v, n) => ~objects[ro[v]].reserved
  BY ListedHasSlot
<1>3. ro[u] = ro[v]
  BY <1>1, <1>2 DEF RegistryInv, UniqueNames
<1>4. ~Attached(v, n)
  BY <1>1, <1>2, <1>3
<1> QED
  BY <1>1, <1>3, <1>4 DEF RegistryInv, ReservationOwned, Creates

\* urt_reserve_name creates the name, or nothing happens.
LEMMA CreateStep ==
    ASSUME LockInv, RegistryInv, NEW u \in Users, ReserveSlot(u)
    PROVE  Table!Next \/ UNCHANGED <<CreatingBar, AttachedBar, GoneBar>>
<1> USE DEF LockInv, TypeOK
<1>1. /\ alive[u] /\ cs[u] = "in" /\ pc[u] = "reserve" /\ ro[u] = NoSlot /\ name[u] \in Names /\ alive' = alive
  BY DEF ReserveSlot, Inside, EarlyInv, NameInv
<1>2. CASE FindByName(objects, objects_max_index, name[u]) = NoSlot /\ FreeSlots(objects) # {}
  <2>0. PICK s : s = First(FreeSlots(objects))
    OBVIOUS
  <2>1. ro' = [ro EXCEPT ![u] = s] /\ cs' = [cs EXCEPT ![u] = "mid"] /\ UNCHANGED <<pc, name>>
    BY <1>2, <2>0 DEF ReserveSlot, Phase
  <2>2. s \in Slots /\ ~InUse(objects[s]) /\ s # NoSlot
    BY <1>2, <2>0, FreeSlotIsFree, SlotsAreNaturals DEF NoSlot
  <2>3. PICK n \in Names : n = name[u]
    BY <1>1
  <2>4. \A v \in Users : ~Creates(v, n) /\ ~Attached(v, n)
    <3>1. Exact(objects, objects_max_index)
      BY <1>1 DEF RegistryInv, IndexInv
    <3>2. \A t \in Slots : ~(InUse(objects[t]) /\ objects[t].name = n)
      BY <1>2, <2>3, <3>1, FindByNameFinds, SlotsAreNaturals DEF Exact, NoSlot
    <3> QED
      BY <3>2, ListedHasSlot
  <2>5. \A m \in Names : ~Creates(u, m) /\ ~Attached(u, m)
    BY <1>1 DEF Creates, Attached
  <2>6. Cardinality({m \in Names : \E v \in Users : Creates(v, m) \/ Attached(v, m)}) < MaxObjects
    BY <2>2, RoomForName
  <2>7. \A v \in Users, m \in Names : v # u => (Creates(v, m)' <=> Creates(v, m)) /\ (Attached(v, m)' <=> Attached(v, m))
    BY <2>1 DEF Creates, Attached, Reserves, Counts
  <2>8. \A m \in Names : (Creates(u, m)' <=> m = n) /\ ~Attached(u, m)'
    BY <1>1, <2>1, <2>2, <2>3 DEF Creates, Attached, Reserves, Counts
  <2>9. PICK T \in SUBSET Users : T = AttachedBar[n]
    BY DEF AttachedBar
  <2>10. T = {}
    BY <2>4, <2>9 DEF AttachedBar
  <2>11. /\ CreatingBar' = [CreatingBar EXCEPT ![n] = {u}]
         /\ AttachedBar' = [AttachedBar EXCEPT ![n] = T]
    <3>1. \A v \in Users, m \in Names : m # n =>
            (Creates(v, m)' <=> Creates(v, m)) /\ (Attached(v, m)' <=> Attached(v, m))
      BY <2>5, <2>7, <2>8
    <3>2. \A v \in Users : (Creates(v, n)' <=> v \in {u}) /\ (Attached(v, n)' <=> v \in T)
      BY <2>4, <2>7, <2>8, <2>10
    <3>3. {u} \in SUBSET Users
      OBVIOUS
    <3> QED
      BY <3>1, <3>2, <3>3, OneNameChanges
  <2>12. UNCHANGED GoneBar
    BY <1>1 DEF GoneBar
  <2> QED
    BY <1>1, <2>4, <2>5, <2>6, <2>9, <2>11, <2>12, TableSteps
<1>3. CASE ~(FindByName(objects, objects_max_index, name[u]) = NoSlot /\ FreeSlots(objects) # {})
  <2>1. /\ pc' = [pc EXCEPT ![u] = "idle"] /\ cs' = [cs EXCEPT ![u] = "done"]
        /\ name' = [name EXCEPT ![u] = NoName] /\ UNCHANGED ro
    BY <1>3 DEF ReserveSlot, Goto, Phase
  <2>2. \A v \in Users, n \in Names : (Creates(v, n)' <=> Creates(v, n)) /\ (Attached(v, n)' <=> Attached(v, n))
    BY <1>1, <2>1 DEF Creates, Attached, Reserves, Counts
  <2> QED
    BY <1>1, <2>2, TableStutters
<1> QED
  BY <1>2, <1>3

\* urt_inc_name_count turns the creator into the first user.
LEMMA CreatedStep ==
    ASSUME LockInv, RegistryInv, NEW u \in Users, Commit(u)
    PROVE  Table!Next
<1> USE DEF LockInv, TypeOK
<1>1. /\ alive[u] /\ cs[u] = "in" /\ pc[u] = "commit" /\ name[u] \in Names
      /\ pc' = [pc EXCEPT ![u] = "idle"] /\ cs' = [cs EXCEPT ![u] = "done"]
      /\ UNCHANGED <<name, ro, alive>>
  BY DEF Commit, Inside, Goto, Phase, NameInv
<1>2. PICK n \in Names : n = name[u]
  BY <1>1
<1>3. ro[u] \in Slots /\ ro[u] # NoSlot
  BY <1>1 DEF RegistryInv, SlotInv, Counting, Reserving
<1>4. Creates(u, n)
  BY <1>1, <1>2, <1>3 DEF Creates, Reserves
<1>5. \A v \in Users : (Creates(v, n) => v = u) /\ ~Attached(v, n)
  BY <1>4, OnlyCreator
<1>6. \A v \in Users, m \in Names : v # u => (Creates(v, m)' <=> Creates(v, m)) /\ (Attached(v, m)' <=> Attached(v, m))
  BY <1>1 DEF Creates, Attached, Reserves, Counts
<1>7. \A m \in Names : ~Creates(u, m)' /\ (Attached(u, m)' <=> m = n) /\ (Creates(u, m) <=> m = n)
  BY <1>1, <1>2, <1>3, <1>4 DEF Creates, Attached, Reserves, Counts
<1>8. CreatingBar' = [CreatingBar EXCEPT ![n] = {}] /\ AttachedBar' = [AttachedBar EXCEPT ![n] = {u}]
  <2>1. \A v \in Users, m \in Names : m # n =>
          (Creates(v, m)' <=> Creates(v, m)) /\ (Attached(v, m)' <=> Attached(v, m))
    <3>1. \A m \in Names : m # n => ~Attached(u, m)
      BY <1>1 DEF Attached, Counts
    <3> QED
      BY <1>6, <1>7, <3>1
  <2>2. PICK E \in SUBSET Users : E = {}
    OBVIOUS
  <2>3. \A v \in Users : (Creates(v, n)' <=> v \in E) /\ (Attached(v, n)' <=> v \in {u})
    BY <1>5, <1>6, <1>7, <2>2
  <2>4. {u} \in SUBSET Users
    OBVIOUS
  <2>5. CreatingBar' = [CreatingBar EXCEPT ![n] = E] /\ AttachedBar' = [AttachedBar EXCEPT ![n] = {u}]
    BY <2>1, <2>3, <2>4, OneNameChanges
  <2> QED
    BY <2>2, <2>5
<1>9. UNCHANGED GoneBar
  BY <1>1 DEF GoneBar
<1> QED
  BY <1>1, <1>4, <1>8, <1>9, TableSteps

\* urt_get_object_by_name_and_inc_count attaches to a name that somebody
\* shares, or nothing happens.
LEMMA AttachStep ==
    ASSUME LockInv, RegistryInv, NEW u \in Users, Lookup(u)
    PROVE  Table!Next \/ UNCHANGED <<CreatingBar, AttachedBar, GoneBar>>
<1> USE DEF LockInv, TypeOK
<1>0. PICK s : s = FindByName(objects, objects_max_index, name[u])
  OBVIOUS
<1>1. /\ alive[u] /\ cs[u] = "in" /\ pc[u] = "lookup" /\ ro[u] = NoSlot /\ name[u] \in Names
      /\ cs' = [cs EXCEPT ![u] = "done"] /\ UNCHANGED alive
  BY DEF Lookup, Inside, Phase, EarlyInv, NameInv
<1>2. CASE s = NoSlot
  <2>1. pc' = [pc EXCEPT ![u] = "idle"] /\ name' = [name EXCEPT ![u] = NoName] /\ UNCHANGED ro
    BY <1>0, <1>2 DEF Lookup, Goto
  <2>2. \A v \in Users, n \in Names : (Creates(v, n)' <=> Creates(v, n)) /\ (Attached(v, n)' <=> Attached(v, n))
    BY <1>1, <2>1 DEF Creates, Attached, Reserves, Counts
  <2> QED
    BY <1>1, <2>2, TableStutters
<1>3. CASE s # NoSlot
  <2>1. ro' = [ro EXCEPT ![u] = s] /\ pc' = [pc EXCEPT ![u] = "attach"] /\ UNCHANGED name
    BY <1>0, <1>3 DEF Lookup, Goto
  <2>2. PICK n \in Names : n = name[u]
    BY <1>1
  <2>3. s \in Slots /\ InUse(objects[s]) /\ objects[s].name = n
    BY <1>0, <1>3, <2>2, FindByNameFinds
  <2>4. objects[s].count # 0
    BY <1>1, <2>2, <2>3 DEF RegistryInv, GuardInv, InUse
  <2>5. PICK w \in Users : Attached(w, n)
    BY <2>3, <2>4, CountedHasUser
  <2>6. \A m \in Names : ~Creates(u, m) /\ ~Attached(u, m)
    BY <1>1 DEF Creates, Attached
  <2>7. \A v \in Users, m \in Names : v # u => (Creates(v, m)' <=> Creates(v, m)) /\ (Attached(v, m)' <=> Attached(v, m))
    BY <1>1, <2>1 DEF Creates, Attached, Reserves, Counts
  <2>8. \A m \in Names : (Attached(u, m)' <=> m = n) /\ ~Creates(u, m)'
    BY <1>1, <1>3, <2>1, <2>2 DEF Creates, Attached, Reserves, Counts
  <2>9. PICK S \in SUBSET Users, T \in SUBSET Users : S = CreatingBar[n] /\ T = AttachedBar[n] \cup {u}
    BY DEF CreatingBar, AttachedBar
  <2>10. CreatingBar' = [CreatingBar EXCEPT ![n] = S] /\ AttachedBar' = [AttachedBar EXCEPT ![n] = T]
    <3>1. \A v \in Users, m \in Names : m # n =>
            (Creates(v, m)' <=> Creates(v, m)) /\ (Attached(v, m)' <=> Attached(v, m))
      BY <2>6, <2>7, <2>8
    <3>2. \A v \in Users : (Creates(v, n)' <=> v \in S) /\ (Attached(v, n)' <=> v \in T)
      BY <2>6, <2>7, <2>8, <2>9 DEF CreatingBar, AttachedBar
    <3> QED
      BY <3>1, <3>2, OneNameChanges
  <2>11. AttachedBar[n] # {} /\ UNCHANGED GoneBar
    BY <1>1, <2>5 DEF AttachedBar, GoneBar
  <2> QED
    BY <1>1, <2>6, <2>9, <2>10, <2>11, TableSteps
<1> QED
  BY <1>2, <1>3

\* The head of _dec_count_common detaches the user, or gives the creation up.
LEMMA LeaveStep ==
    ASSUME LockInv, RegistryInv, NEW u \in Users, DecHead(u)
    PROVE  Table!Next
<1> USE DEF LockInv, TypeOK
<1>1. /\ alive[u] /\ cs[u] = "in" /\ pc[u] \in {"detach", "abort", "giveup"} /\ name[u] \in Names
      /\ cs' = [cs EXCEPT ![u] = "mid"]
      /\ UNCHANGED <<pc, name, ro, alive>>
  BY DEF DecHead, Phase, NameInv, RegistryInv, SlotInv
<1>2. PICK n \in Names : n = name[u]
  BY <1>1
<1>3. ro[u] \in Slots /\ ro[u] # NoSlot
  BY <1>1 DEF RegistryInv, SlotInv, Counting, Reserving
<1>4. \A v \in Users, m \in Names : v # u => (Creates(v, m)' <=> Creates(v, m)) /\ (Attached(v, m)' <=> Attached(v, m))
  BY <1>1 DEF Creates, Attached, Reserves, Counts
<1>5. \A m \in Names : /\ ~Creates(u, m)' /\ ~Attached(u, m)'
                       /\ Creates(u, m) <=> m = n /\ pc[u] = "abort"
                       /\ Attached(u, m) <=> m = n /\ pc[u] # "abort"
  BY <1>1, <1>2, <1>3 DEF Creates, Attached, Reserves, Counts
<1>6. PICK S \in SUBSET Users, T \in SUBSET Users : S = CreatingBar[n] \ {u} /\ T = AttachedBar[n] \ {u}
  BY DEF CreatingBar, AttachedBar
<1>7. CreatingBar' = [CreatingBar EXCEPT ![n] = S] /\ AttachedBar' = [AttachedBar EXCEPT ![n] = T]
  <2>1. \A v \in Users, m \in Names : m # n =>
          (Creates(v, m)' <=> Creates(v, m)) /\ (Attached(v, m)' <=> Attached(v, m))
    BY <1>4, <1>5
  <2>2. \A v \in Users : (Creates(v, n)' <=> v \in S) /\ (Attached(v, n)' <=> v \in T)
    BY <1>4, <1>5, <1>6 DEF CreatingBar, AttachedBar
  <2> QED
    BY <2>1, <2>2, OneNameChanges
<1>8. UNCHANGED GoneBar
  BY <1>1 DEF GoneBar
<1>9. CASE pc[u] = "abort"
  <2>1. Creates(u, n) /\ ~Attached(u, n)
    BY <1>5, <1>9
  <2>2. S = {}
    BY <1>6, <2>1, OnlyCreator DEF CreatingBar
  <2>3. T = AttachedBar[n]
    BY <1>6, <2>1 DEF AttachedBar
  <2> QED
    BY <1>1, <1>7, <1>8, <2>1, <2>2, <2>3, TableSteps
<1>10. CASE pc[u] # "abort"
  <2>1. Attached(u, n) /\ ~Creates(u, n)
    BY <1>5, <1>10
  <2>2. S = CreatingBar[n]
    BY <1>6, <2>1 DEF CreatingBar
  <2> QED
    BY <1>1, <1>6, <1>7, <1>8, <2>1, <2>2, TableSteps
<1> QED
  BY <1>9, <1>10

\* urt_force_clear_name takes everybody off a name that only crashed users
\* are left with.
LEMMA ClearStep ==
    ASSUME LockInv, RegistryInv, NEW u \in Users, ClearSlot(u)
    PROVE  Table!Next
<1> USE DEF LockInv, TypeOK
<1>0. PICK s : s = ro[u]
  OBVIOUS
<1>1. /\ alive[u] /\ cs[u] = "mid" /\ pc[u] = "clear" /\ name[u] \in Names
      /\ ro' = [v \in Users |-> IF ro[v] = s /\ (v = u \/ ~alive[v]) THEN NoSlot ELSE ro[v]]
      /\ cs' = [cs EXCEPT ![u] = "done"] /\ pc' = [pc EXCEPT ![u] = "idle"]
      /\ name' = [name EXCEPT ![u] = NoName] /\ UNCHANGED alive
  BY <1>0 DEF ClearSlot, Inside, Phase, Goto, NameInv
<1>2. PICK n \in Names : n = name[u]
  BY <1>1
<1>3. s \in Slots /\ s # NoSlot /\ objects[s].name = n /\ InUse(objects[s])
  BY <1>0, <1>1, <1>2 DEF RegistryInv, SlotInv, GuardInv
<1>4. \A m \in Names : ~Creates(u, m) /\ ~Attached(u, m) /\ ~Creates(u, m)' /\ ~Attached(u, m)'
  BY <1>0, <1>1 DEF Creates, Attached, Reserves, Counts
<1>5. ASSUME NEW v \in Users, NEW m \in Names, Creates(v, m) \/ Attached(v, m)
      PROVE  (m = n <=> ro[v] = s) /\ (m = n => ~alive[v])
  <2>1. ro[v] \in Slots /\ InUse(objects[ro[v]]) /\ objects[ro[v]].name = m /\ v # u /\ ro[v] # NoSlot
    BY <1>4, <1>5, ListedHasSlot, SlotsAreNaturals DEF NoSlot
  <2>2. m = n <=> ro[v] = s
    BY <1>3, <2>1 DEF RegistryInv, UniqueNames
  <2>3. m = n => ~alive[v]
    BY <1>1, <1>2, <2>1 DEF RegistryInv, GuardInv
  <2> QED
    BY <2>2, <2>3
<1>6. \A v \in Users, m \in Names : Creates(v, m)' \/ Attached(v, m)' => ro'[v] = ro[v] /\ v # u
  BY <1>1, <1>4 DEF Creates, Attached
<1>7. \A v \in Users, m \in Names : v # u /\ ro'[v] = ro[v] =>
        (Creates(v, m)' <=> Creates(v, m)) /\ (Attached(v, m)' <=> Attached(v, m))
  BY <1>1 DEF Creates, Attached, Reserves, Counts
<1>8. \A v \in Users, m \in Names : m # n =>
        (Creates(v, m)' <=> Creates(v, m)) /\ (Attached(v, m)' <=> Attached(v, m))
  <2> SUFFICES ASSUME NEW v \in Users, NEW m \in Names, m # n
               PROVE  (Creates(v, m)' <=> Creates(v, m)) /\ (Attached(v, m)' <=> Attached(v, m))
    OBVIOUS
  <2>1. ASSUME Creates(v, m) \/ Attached(v, m) PROVE v # u /\ ro'[v] = ro[v]
    <3>1. v # u /\ ro[v] # s
      BY <1>4, <1>5, <2>1
    <3> QED
      BY <1>1, <3>1
  <2> QED
    BY <1>6, <1>7, <2>1
<1>9. \A v \in Users : ~Creates(v, n)' /\ ~Attached(v, n)'
  <2> SUFFICES ASSUME NEW v \in Users, Creates(v, n)' \/ Attached(v, n)' PROVE FALSE
    OBVIOUS
  <2>1. (Creates(v, n) \/ Attached(v, n)) /\ ro'[v] = ro[v] /\ ro[v] # NoSlot
    BY <1>6, <1>7 DEF Creates, Attached
  <2>2. ro[v] = s /\ ~alive[v]
    BY <1>5, <2>1
  <2> QED
    BY <1>1, <2>1, <2>2
<1>10. PICK E \in SUBSET Users : E = {}
  OBVIOUS
<1>11. CreatingBar' = [CreatingBar EXCEPT ![n] = E] /\ AttachedBar' = [AttachedBar EXCEPT ![n] = E]
  <2>1. \A v \in Users : (Creates(v, n)' <=> v \in E) /\ (Attached(v, n)' <=> v \in E)
    BY <1>9, <1>10
  <2> QED
    BY <1>8, <2>1, OneNameChanges
<1>12. \E v \in Users : Creates(v, n) \/ Attached(v, n)
  BY <1>3, SlotHasUser
<1>13. UNCHANGED GoneBar
  BY <1>1 DEF GoneBar
<1> QED
  BY <1>5, <1>10, <1>11, <1>12, <1>13, TableSteps

\* Every step of a call is a step of the table or none.
LEMMA TableNext ==
    ASSUME "init" \notin Faults, LockInv, RegistryInv, [Next]_vars
    PROVE  Table!Next \/ UNCHANGED <<CreatingBar, AttachedBar, GoneBar>>
<1> USE DEF LockInv, TypeOK
<1> DEFINE Listed == \A v \in Users, n \in Names :
                       (Creates(v, n)' <=> Creates(v, n)) /\ (Attached(v, n)' <=> Attached(v, n))
           Goal == Table!Next \/ UNCHANGED <<CreatingBar, AttachedBar, GoneBar>>
<1>1. CASE UNCHANGED vars \/ Recover
  <2>1. UNCHANGED <<pc, cs, name, ro, alive>>
    BY <1>1 DEF vars, Recover
  <2>2. Listed
    BY <2>1 DEF Creates, Attached, Reserves, Counts
  <2> QED
    BY <2>1, <2>2, TableStutters
<1>2. ASSUME NEW u \in Users, NEW n \in Names, New(u, n) \/ Attach(u, n) \/ Clear(u, n)
      PROVE  Goal
  <2>1. /\ ro[u] = NoSlot /\ UNCHANGED <<ro, alive>>
        /\ name' = [name EXCEPT ![u] = n]
        /\ \E p : pc' = [pc EXCEPT ![u] = p]
        /\ \E c : cs' = [cs EXCEPT ![u] = c]
    BY <1>2 DEF New, Attach, Clear, At, Goto, Phase
  <2>2. Listed
    BY <2>1 DEF Creates, Attached, Reserves, Counts
  <2> QED
    BY <2>1, <2>2, TableStutters
<1>3. ASSUME NEW u \in Users,
             \/ Delete(u) \/ FreeShm(u) \/ AttachSem(u) \/ AttachMem(u) \/ AttachNamed(u) \/ AttachShm(u)
             \/ OpenSem(u) \/ OpenMem(u) \/ OpenNamed(u) \/ CheckShm(u) \/ AllocShm(u) \/ Size(u)
             \/ InitLock(u) \/ Fill(u)
      PROVE  Goal
  <2>1. /\ cs[u] = "out" /\ UNCHANGED <<cs, name, ro, alive>>
        /\ \/ /\ pc[u] \in {"idle", "free", "attach"}
              /\ \E p \in {"idle", "giveup", "free", "detach"} : pc' = [pc EXCEPT ![u] = p]
           \/ /\ pc[u] \in {"open", "size", "init", "fill"}
              /\ \E p \in {"size", "init", "fill", "commit", "abort"} : pc' = [pc EXCEPT ![u] = p]
    BY <1>3 DEF Delete, FreeShm, AttachSem, AttachMem, AttachNamed, AttachShm, OpenExisting, OpenSem, OpenMem,
                OpenExclusive, CreateFails, OpenNamed, CheckShm, AllocShm, Size, InitLock, Fill, Fault, At, Goto
  <2>2. Listed
    BY <2>1 DEF Creates, Attached, Reserves, Counts
  <2> QED
    BY <2>1, <2>2, TableStutters
<1>4. ASSUME NEW u \in Users, Acquire(u) \/ Post(u) \/ ReserveMax(u)
      PROVE  Goal
  <2>1. UNCHANGED <<name, ro, alive>>
    BY <1>4 DEF Acquire, Post, ReserveMax
  <2>2. Listed
    BY <1>4, <2>1 DEF Acquire, Post, ReserveMax, Inside, Goto, Phase, Creates, Attached, Reserves, Counts
  <2> QED
    BY <2>1, <2>2, TableStutters
<1>5. ASSUME NEW u \in Users, DecTail(u)
      PROVE  Goal
  <2>1. /\ cs[u] = "mid" /\ pc[u] \in {"detach", "abort", "giveup"} /\ UNCHANGED alive
        /\ cs' = [cs EXCEPT ![u] = "done"] /\ pc' = [pc EXCEPT ![u] = "idle"]
        /\ name' = [name EXCEPT ![u] = NoName] /\ ro' = [ro EXCEPT ![u] = NoSlot]
    BY <1>5 DEF DecTail, Goto, Phase, RegistryInv, SlotInv
  <2>2. Listed
    BY <2>1 DEF Creates, Attached, Reserves, Counts
  <2> QED
    BY <2>1, <2>2, TableStutters
<1>6. ASSUME NEW u \in Users, ClearUnlink(u)
      PROVE  Goal
  <2>1. /\ pc[u] = "clear" /\ cs[u] = "in" /\ ro[u] = NoSlot /\ UNCHANGED alive
        /\ \/ /\ pc' = [pc EXCEPT ![u] = "idle"] /\ cs' = [cs EXCEPT ![u] = "done"]
              /\ name' = [name EXCEPT ![u] = NoName] /\ UNCHANGED ro
           \/ /\ \E t : ro' = [ro EXCEPT ![u] = t]
              /\ cs' = [cs EXCEPT ![u] = "mid"] /\ UNCHANGED <<pc, name>>
    BY <1>6 DEF ClearUnlink, Inside, EarlyInv, Goto, Phase
  <2>2. Listed
    BY <2>1 DEF Creates, Attached, Reserves, Counts
  <2> QED
    BY <2>1, <2>2, TableStutters
<1>7. ASSUME NEW u \in Users, Crash(u)
      PROVE  Goal
  <2>1. /\ alive[u] /\ alive' = [alive EXCEPT ![u] = FALSE] /\ UNCHANGED <<pc, cs, name, ro>>
    BY <1>7 DEF Crash
  <2>2. {v \in Users : ~alive[v]}' = {v \in Users : ~alive[v]} \cup {u}
    BY <2>1
  <2>3. Table!Crash(u)
    BY <2>1, <2>2 DEF Table!Crash, Reserves, Counts
  <2> QED
    BY <2>3 DEF Table!Next
<1> QED
  BY <1>1, <1>2, <1>3, <1>4, <1>5, <1>6, <1>7, CreateStep, CreatedStep, AttachStep, LeaveStep, ClearStep
  DEF Next, Proceed

\* The calls implement the table of names, through crashes, clears and
\* recoveries, as long as nobody attaches to a name before its creation
\* returned and no shared lock fails to initialise.
THEOREM ImplementsNameTableHolds ==
    ASSUME ~EarlyAttach, "init" \notin Faults
    PROVE  Spec => ImplementsNameTable
<1>1. Init => Table!Init
  BY SlotsAreNaturals DEF Init, Table!Init, Reserves, Counts
<1>2. LockInv /\ RegistryInv /\ [Next]_vars => [Table!Next]_(Table!vars)
  <2>1. Table!vars = <<CreatingBar, AttachedBar, GoneBar>>
    BY DEF Table!vars, CreatingBar, AttachedBar, GoneBar, Creates, Attached
  <2>2. (Table!vars)' = <<CreatingBar, AttachedBar, GoneBar>>'
    BY DEF Table!vars, CreatingBar, AttachedBar, GoneBar, Creates, Attached
  <2> QED
    BY TableNext, <2>1, <2>2
<1> QED
  BY <1>1, <1>2, RegistryInvHolds, PTL DEF Spec, ImplementsNameTable, Table!Spec

-----------------------------------------------------------------------------
(* Handles and the objects of the operating system: a handle stays valid   *)
(* and an object goes with its last user where nobody dies or attaches to  *)
(* a name before its creation returned, and no shared lock fails to        *)
(* initialise, until the mapping of an attachment fails.                   *)

\* u has the object its name stands for mapped.
Linked(u) ==
    /\ ro[u] # NoSlot
    /\ \/ pc[u] \in {"init", "fill", "commit", "idle", "free"}
       \/ pc[u] = "size" /\ ~OnRTAI
       \/ pc[u] = "detach" /\ ~FreesFirst(name[u])

\* A mapping is there or not as the position in a call says, and nobody is left
\* with one of an object that lost its name.
MapInv ==
    /\ \A u \in Users : alive[u]
    /\ \A u \in Users : map[u] = IF Linked(u) THEN "linked" ELSE "none"
    /\ \A u \in Users : pc[u] = "free" => FreesFirst(name[u])

\* A slot being given back still carries the name, which no other slot has.
MidInv ==
    \A u \in Users : cs[u] = "mid" /\ pc[u] \in {"detach", "abort", "giveup"} =>
        /\ objects[ro[u]].name = name[u]
        /\ \A t \in Slots : InUse(objects[t]) /\ objects[t].name = name[u] => t = ro[u]

\* Of the names that are one to the operating system, one slot has the object.
OwnerInv ==
    /\ \A s, t \in Slots :
         /\ objects[s].count > 0 /\ objects[t].count > 0
         /\ SysName(objects[s].name) = SysName(objects[t].name)
         => s = t
    /\ \A u \in Users, s \in Slots :
         Linked(u) /\ objects[s].count > 0 /\ SysName(name[u]) = SysName(objects[s].name) => s = ro[u]
    /\ \A u, v \in Users :
         Linked(u) /\ Linked(v) /\ SysName(name[u]) = SysName(name[v]) => ro[u] = ro[v]

\* The object is there for whoever has it mapped or may still open it; only
\* RTAI's shared memory goes before its slot.
OsInv ==
    /\ \A u \in Users : Linked(u) => os[SysName(name[u])] = IF pc[u] = "size" THEN "empty" ELSE "ready"
    /\ \A s \in Slots :
         objects[s].count > 0 /\ ~FreesFirst(objects[s].name) => os[SysName(objects[s].name)] = "ready"
    /\ OnRTAI => \A n \in SysNames : os[n] # "empty"

\* An object of the operating system has somebody who will free it.
OrphanInv ==
    "attach_open" \notin faults =>
        /\ \A u \in Users : pc[u] = "giveup" => FreesFirst(name[u])
        /\ \A n \in SysNames : os[n] # "absent" =>
             \/ \E u \in Users : Linked(u) /\ SysName(name[u]) = n
             \/ \E s \in Slots : /\ objects[s].count > 0 /\ ~FreesFirst(objects[s].name)
                                 /\ SysName(objects[s].name) = n

\* The part that is the same for all users, and the whole.
Life == MapInv /\ OwnerInv /\ OsInv /\ OrphanInv
LifeInv == Life /\ MidInv

\* It holds until an attachment cannot map its object, and unlinks it.
ObjectInv ==
    "attach_map" \notin faults => LifeInv

\* Names that URT tells apart are told apart by RTAI.
RTAIDistinct ==
    \A c \in Settings : c.backend = "rtai" =>
        \A m, n \in Names : c.sysname[m] = c.sysname[n] => m = n

\* A slot is counted in by somebody, and carries the name of all who do.
LEMMA CountedSlots ==
    ASSUME LockInv, RegistryInv
    PROVE  /\ \A s \in Slots : objects[s].count > 0 <=> \E u \in Users : Counts(u, s)
           /\ \A s \in Slots : objects[s].count > 0 \/ objects[s].reserved => objects[s].name \in Names
<1>1. ASSUME NEW s \in Slots PROVE objects[s].count > 0 <=> \E u \in Users : Counts(u, s)
  <2>1. objects[s].count = Cardinality(CountSet(s))
    BY DEF RegistryInv, RefCount, CountSet
  <2>2. IsFiniteSet(CountSet(s)) /\ Cardinality(CountSet(s)) \in Nat
    BY CountSetFinite
  <2>3. Cardinality(CountSet(s)) = 0 <=> CountSet(s) = {}
    BY <2>2, FS_EmptySet
  <2>4. CountSet(s) # {} <=> \E u \in Users : Counts(u, s)
    BY DEF CountSet
  <2> QED
    BY <2>1, <2>2, <2>3, <2>4
<1>2. ASSUME NEW s \in Slots, objects[s].count > 0 \/ objects[s].reserved
      PROVE  objects[s].name \in Names
  <2>1. PICK u \in Users : Counts(u, s) \/ Reserves(u, s)
    BY <1>1, <1>2 DEF RegistryInv, ReservationOwned
  <2>2. objects[s].name = name[u]
    BY <2>1 DEF RegistryInv, SlotInv
  <2>3. ro[u] # NoSlot
    BY <2>1, SlotsAreNaturals DEF Counts, Reserves, NoSlot
  <2> QED
    BY <2>2, <2>3 DEF LockInv, NameInv
<1> QED
  BY <1>1, <1>2

\* Whoever has its object mapped has the slot: as a user of it, as its creator,
\* or as the user that is just giving it back.
LEMMA LinkedSlots ==
    ASSUME LockInv, RegistryInv, MapInv, MidInv, NEW u \in Users, Linked(u)
    PROVE  /\ ro[u] \in Slots /\ name[u] \in Names /\ objects[ro[u]].name = name[u]
           /\ \/ Counts(u, ro[u]) /\ objects[ro[u]].count > 0
              \/ Reserves(u, ro[u]) /\ objects[ro[u]].reserved /\ objects[ro[u]].count = 0
              \/ pc[u] = "detach" /\ cs[u] = "mid" /\ ~objects[ro[u]].reserved
<1>1. ro[u] \in Slots /\ name[u] \in Names
  BY DEF LockInv, TypeOK, NameInv, Linked
<1>2. \/ Counts(u, ro[u]) \/ Reserves(u, ro[u])
      \/ pc[u] = "detach" /\ cs[u] = "mid"
  BY DEF Linked, Counts, Reserves, RegistryInv, SlotInv
<1>3. Counts(u, ro[u]) => objects[ro[u]].count > 0
  BY <1>1, CountedSlots
<1>4. Reserves(u, ro[u]) => objects[ro[u]].reserved /\ objects[ro[u]].count = 0
  BY <1>1 DEF RegistryInv, ReservationOwned
<1>5. objects[ro[u]].name = name[u]
  BY <1>1, <1>2 DEF RegistryInv, SlotInv, MidInv
<1>6. pc[u] = "detach" /\ cs[u] = "mid" => ~objects[ro[u]].reserved
  BY DEF RegistryInv, IndexInv, MapInv
<1> QED
  BY <1>1, <1>2, <1>3, <1>4, <1>5, <1>6

\* The creator, and the last user, are alone with the object.
LEMMA AloneWithObject ==
    ASSUME LockInv, RegistryInv, MapInv, MidInv, NEW u \in Users, NEW v \in Users,
           Linked(u), Linked(v), ro[u] = ro[v], ~Counts(u, ro[u]), objects[ro[u]].count = 0
    PROVE  u = v
<1>1. LockInv /\ RegistryInv /\ MapInv /\ MidInv
  OBVIOUS
<1>2. ~Counts(v, ro[u])
  BY <1>1, CountedSlots, LinkedSlots
<1>3. CASE Reserves(u, ro[u])
  <2>1. objects[ro[u]].reserved /\ ro[u] \in Slots
    BY <1>1, <1>3, LinkedSlots DEF RegistryInv, ReservationOwned
  <2>2. Reserves(v, ro[u])
    BY <1>1, <1>2, <2>1, LinkedSlots
  <2> QED
    BY <1>3, <2>1, <2>2 DEF RegistryInv, ReservationOwned
<1>4. CASE pc[u] = "detach" /\ cs[u] = "mid" /\ ~objects[ro[u]].reserved
  <2>1. cs[v] = "mid"
    BY <1>1, <1>2, <1>4, LinkedSlots
  <2> QED
    BY <1>4, <2>1 DEF MapInv, LockInv, MutualExclusion
<1> QED
  BY <1>1, <1>3, <1>4, LinkedSlots

-----------------------------------------------------------------------------
\* What u does concerns no other user's call.
OthersStay(u) ==
    \A v \in Users : v # u =>
        pc'[v] = pc[v] /\ name'[v] = name[v] /\ ro'[v] = ro[v] /\ cs'[v] = cs[v]

\* A step that leaves the objects of the operating system alone.  A count is
\* raised only for users of the object, and dropped only by them.
LEMMA SameObjects ==
    ASSUME LockInv, Life, UNCHANGED <<os, map, alive, setting>>, faults \subseteq faults',
           \A v \in Users :
              /\ Linked(v)' <=> Linked(v)
              /\ Linked(v) => /\ name'[v] = name[v] /\ ro'[v] = ro[v]
                              /\ pc'[v] = "size" <=> pc[v] = "size"
              /\ pc'[v] = "free" => FreesFirst(name'[v])
              /\ "attach_open" \notin faults' /\ pc'[v] = "giveup" => FreesFirst(name'[v]),
           \A s \in Slots : objects'[s].count > 0 =>
              \/ objects[s].count > 0 /\ objects'[s].name = objects[s].name
              \/ \E v \in Users : Linked(v) /\ ro[v] = s /\ pc[v] # "size" /\ objects'[s].name = name[v],
           "attach_open" \notin faults' => \A s \in Slots :
              objects[s].count > 0 /\ ~FreesFirst(objects[s].name) =>
                 \/ objects'[s].count > 0 /\ objects'[s].name = objects[s].name
                 \/ \E v \in Users : Linked(v) /\ SysName(name[v]) = SysName(objects[s].name)
    PROVE  Life'
<1>0. /\ \A n : SysName(n)' = SysName(n)
      /\ \A n : FreesFirst(n)' = FreesFirst(n)
      /\ OnRTAI' = OnRTAI
  BY DEF SysName, FreesFirst, OnRTAI, KindOf
<1>1. MapInv'
  BY <1>0 DEF Life, MapInv
<1>2. OwnerInv'
  BY <1>0 DEF Life, OwnerInv
<1>3. OsInv'
  BY <1>0 DEF Life, OsInv
<1>4. OrphanInv'
  BY <1>0 DEF Life, OrphanInv
<1> QED
  BY <1>1, <1>2, <1>3, <1>4 DEF Life

LEMMA OthersLinked ==
    ASSUME NEW u \in Users, OthersStay(u), setting' = setting
    PROVE  \A v \in Users : v # u => (Linked(v)' <=> Linked(v))
BY DEF OthersStay, Linked, OnRTAI, FreesFirst, KindOf

\* u gets its mapping, of an object that it makes or finds.
LEMMA LinkStep ==
    ASSUME LockInv, Life, NEW u \in Users, OthersStay(u), UNCHANGED <<objects, alive, setting, faults>>,
           name'[u] = name[u], ro'[u] = ro[u], name[u] \in Names, SysName(name[u]) \in SysNames,
           ~Linked(u), Linked(u)', pc'[u] # "free", pc'[u] # "giveup",
           map' = [map EXCEPT ![u] = "linked"],
           os'[SysName(name[u])] = IF pc'[u] = "size" THEN "empty" ELSE "ready",
           \A n \in SysNames : n # SysName(name[u]) => os'[n] = os[n],
           OnRTAI => pc'[u] # "size",
           \A v \in Users : Linked(v) /\ SysName(name[v]) = SysName(name[u]) =>
              ro[v] = ro[u] /\ os'[SysName(name[u])] = os[SysName(name[u])],
           \A s \in Slots : objects[s].count > 0 /\ SysName(objects[s].name) = SysName(name[u]) =>
              s = ro[u] /\ (FreesFirst(objects[s].name) \/ os'[SysName(name[u])] = "ready"),
           \A v \in Users : Linked(v) => SysName(name[v]) \in SysNames,
           \A s \in Slots : objects[s].count > 0 => SysName(objects[s].name) \in SysNames
    PROVE  Life'
<1>0. /\ \A n : SysName(n)' = SysName(n)
      /\ \A n : FreesFirst(n)' = FreesFirst(n)
      /\ OnRTAI' = OnRTAI
  BY DEF SysName, FreesFirst, OnRTAI, KindOf
<1>1. \A v \in Users : v # u => (Linked(v)' <=> Linked(v))
  BY OthersLinked
<1>2. MapInv'
  BY <1>0, <1>1 DEF Life, MapInv, OthersStay, LockInv, TypeOK
<1>3. OwnerInv'
  BY <1>0, <1>1 DEF Life, OwnerInv, OthersStay
<1>4. OsInv'
  BY <1>0, <1>1 DEF Life, OsInv, OthersStay
<1>5. OrphanInv'
  <2> SUFFICES ASSUME "attach_open" \notin faults
               PROVE  /\ \A v \in Users : pc'[v] = "giveup" => FreesFirst(name'[v])
                      /\ \A n \in SysNames : os'[n] # "absent" =>
                           \/ \E v \in Users : Linked(v)' /\ SysName(name'[v]) = n
                           \/ \E s \in Slots : /\ objects[s].count > 0 /\ ~FreesFirst(objects[s].name)
                                               /\ SysName(objects[s].name) = n
    BY <1>0 DEF OrphanInv
  <2>1. \A v \in Users : pc'[v] = "giveup" => FreesFirst(name'[v])
    BY DEF Life, OrphanInv, OthersStay
  <2>2. ASSUME NEW n \in SysNames, os'[n] # "absent", n # SysName(name[u])
        PROVE  \/ \E v \in Users : Linked(v)' /\ SysName(name'[v]) = n
               \/ \E s \in Slots : /\ objects[s].count > 0 /\ ~FreesFirst(objects[s].name)
                                   /\ SysName(objects[s].name) = n
    BY <1>1, <2>2 DEF Life, OrphanInv, OthersStay
  <2> QED
    BY <2>1, <2>2
<1> QED
  BY <1>2, <1>3, <1>4, <1>5 DEF Life

\* u gives its mapping back, and the object remains for somebody.
LEMMA UnmapStep ==
    ASSUME LockInv, Life, NEW u \in Users, OthersStay(u),
           UNCHANGED <<objects, os, alive, setting, faults>>,
           ~Linked(u)', pc'[u] # "free", pc'[u] # "giveup",
           map' = [map EXCEPT ![u] = "none"],
           "attach_open" \notin faults /\ Linked(u) =>
              \/ \E v \in Users \ {u} : Linked(v) /\ SysName(name[v]) = SysName(name[u])
              \/ \E s \in Slots : /\ objects[s].count > 0 /\ ~FreesFirst(objects[s].name)
                                  /\ SysName(objects[s].name) = SysName(name[u])
    PROVE  Life'
<1>0. /\ \A n : SysName(n)' = SysName(n)
      /\ \A n : FreesFirst(n)' = FreesFirst(n)
      /\ OnRTAI' = OnRTAI
  BY DEF SysName, FreesFirst, OnRTAI, KindOf
<1>1. \A v \in Users : v # u => (Linked(v)' <=> Linked(v))
  BY OthersLinked
<1>2. MapInv'
  BY <1>0, <1>1 DEF Life, MapInv, OthersStay, LockInv, TypeOK
<1>3. OwnerInv'
  BY <1>0, <1>1 DEF Life, OwnerInv, OthersStay
<1>4. OsInv'
  BY <1>0, <1>1 DEF Life, OsInv, OthersStay
<1>5. OrphanInv'
  BY <1>0, <1>1 DEF Life, OrphanInv, OthersStay
<1> QED
  BY <1>2, <1>3, <1>4, <1>5 DEF Life

\* u gives its mapping back and removes the object, which nobody else has.
LEMMA UnlinkStep ==
    ASSUME LockInv, Life, NEW u \in Users, OthersStay(u),
           UNCHANGED <<objects, alive, setting>>, faults \subseteq faults',
           ~Linked(u)', pc'[u] # "free", pc'[u] # "giveup",
           NEW n, Unlink(n, u, "none"),
           \A v \in Users : v # u /\ Linked(v) => SysName(name[v]) # SysName(n),
           \A s \in Slots : objects[s].count > 0 /\ SysName(objects[s].name) = SysName(n) =>
              FreesFirst(objects[s].name),
           Linked(u) => SysName(name[u]) = SysName(n),
           \A v \in Users : Linked(v) => SysName(name[v]) \in SysNames,
           \A s \in Slots : objects[s].count > 0 => SysName(objects[s].name) \in SysNames
    PROVE  Life'
<1>0. /\ \A m : SysName(m)' = SysName(m)
      /\ \A m : FreesFirst(m)' = FreesFirst(m)
      /\ OnRTAI' = OnRTAI
  BY DEF SysName, FreesFirst, OnRTAI, KindOf
<1>1. \A v \in Users : v # u => (Linked(v)' <=> Linked(v))
  BY OthersLinked
<1>2. \A v \in Users : map'[v] = IF v = u THEN "none" ELSE map[v]
  BY DEF Unlink, Maps, Life, MapInv
<1>3. \A m \in SysNames : os'[m] = IF m = SysName(n) THEN "absent" ELSE os[m]
  BY DEF Unlink, LockInv, TypeOK
<1>4. MapInv'
  BY <1>0, <1>1, <1>2 DEF Life, MapInv, OthersStay
<1>5. OwnerInv'
  BY <1>0, <1>1 DEF Life, OwnerInv, OthersStay
<1>6. OsInv'
  BY <1>0, <1>1, <1>3 DEF Life, OsInv, OthersStay
<1>7. OrphanInv'
  BY <1>0, <1>1, <1>3 DEF Life, OrphanInv, OthersStay
<1> QED
  BY <1>4, <1>5, <1>6, <1>7 DEF Life

\* A step of u that leaves counts and names of the slots alone, too.
LEMMA QuietStep ==
    ASSUME LockInv, Life, NEW u \in Users, OthersStay(u),
           UNCHANGED <<os, map, alive, setting>>, faults \subseteq faults',
           \A s \in Slots : objects'[s].count = objects[s].count /\ objects'[s].name = objects[s].name,
           Linked(u)' <=> Linked(u),
           Linked(u) => /\ name'[u] = name[u] /\ ro'[u] = ro[u]
                        /\ pc'[u] = "size" <=> pc[u] = "size",
           pc'[u] = "free" => FreesFirst(name'[u]),
           "attach_open" \notin faults' /\ pc'[u] = "giveup" => FreesFirst(name'[u])
    PROVE  Life'
<1>1. \A v \in Users :
         /\ Linked(v)' <=> Linked(v)
         /\ Linked(v) => /\ name'[v] = name[v] /\ ro'[v] = ro[v]
                         /\ pc'[v] = "size" <=> pc[v] = "size"
         /\ pc'[v] = "free" => FreesFirst(name'[v])
         /\ "attach_open" \notin faults' /\ pc'[v] = "giveup" => FreesFirst(name'[v])
  BY OthersLinked DEF OthersStay, Life, MapInv, OrphanInv
<1> QED
  BY <1>1, SameObjects

\* A slot being given back is left alone by everybody else.
LEMMA MidKept ==
    ASSUME LockInv, RegistryInv, LifeInv, NEW u \in Users, OthersStay(u),
           cs'[u] = "mid" => pc'[u] \notin {"detach", "abort", "giveup"},
           \/ cs[u] # "out"
           \/ \A s \in Slots : objects'[s].name = objects[s].name /\ (InUse(objects'[s]) <=> InUse(objects[s]))
    PROVE  MidInv'
<1> SUFFICES ASSUME NEW v \in Users, cs'[v] = "mid", pc'[v] \in {"detach", "abort", "giveup"}
             PROVE  /\ objects'[ro'[v]].name = name'[v]
                    /\ \A t \in Slots : InUse(objects'[t]) /\ objects'[t].name = name'[v] => t = ro'[v]
  BY DEF MidInv
<1>1. v # u
  OBVIOUS
<1>2. cs[v] = "mid" /\ pc'[v] = pc[v] /\ name'[v] = name[v] /\ ro'[v] = ro[v]
  BY <1>1 DEF OthersStay
<1>3. cs[u] = "out"
  BY <1>1, <1>2 DEF LockInv, MutualExclusion, LifeInv, Life, MapInv
<1>4. ro[v] \in Slots
  BY <1>2 DEF LockInv, TypeOK, RegistryInv, SlotInv, LifeInv, Life, MapInv, Counting, Reserving
<1> QED
  BY <1>2, <1>3, <1>4 DEF LifeInv, MidInv

\* Nobody dies, so whatever is in use has a user that keeps the tool away.
LEMMA ClearFindsNothing ==
    ASSUME LockInv, RegistryInv, LifeInv, NEW u \in Users, pc[u] = "clear", cs[u] # "out"
    PROVE  /\ \A s \in Slots : InUse(objects[s]) => objects[s].name # name[u]
           /\ cs[u] # "mid"
<1>1. ASSUME NEW s \in Slots, InUse(objects[s]), objects[s].name = name[u] PROVE FALSE
  <2>1. objects[s].count > 0 \/ objects[s].reserved
    BY <1>1 DEF InUse, LockInv, TypeOK, RegisteredObject
  <2>2. PICK v \in Users : Counts(v, s) \/ Reserves(v, s)
    BY <2>1, CountedSlots DEF RegistryInv, ReservationOwned
  <2>3. v # u /\ ro[v] = s /\ s # NoSlot
    BY <2>2, SlotsAreNaturals DEF Counts, Reserves, NoSlot
  <2> QED
    BY <1>1, <2>3 DEF RegistryInv, GuardInv, LifeInv, Life, MapInv
<1>2. ASSUME cs[u] = "mid" PROVE FALSE
  <2>1. ro[u] \in Slots
    BY <1>2 DEF LockInv, TypeOK, RegistryInv, SlotInv, LifeInv, Life, MapInv
  <2> QED
    BY <1>1, <1>2, <2>1 DEF RegistryInv, GuardInv, LifeInv, Life, MapInv
<1> QED
  BY <1>1, <1>2

LEMMA SysNameType ==
    ASSUME LockInv, RegistryInv, LifeInv
    PROVE  /\ \A n \in Names : SysName(n) \in SysNames
           /\ \A v \in Users : Linked(v) => SysName(name[v]) \in SysNames
           /\ \A s \in Slots : objects[s].count > 0 => SysName(objects[s].name) \in SysNames
<1>1. \A n \in Names : SysName(n) \in SysNames
  BY SettingsAssumption DEF LockInv, TypeOK, SysName
<1> QED
  BY <1>1, LinkedSlots, CountedSlots DEF LifeInv, Life

\* The calls, the semaphore and the steps inside a call that do nothing to
\* counts and objects.
LEMMA LifeCalls ==
    ASSUME LockInv, RegistryInv, LifeInv, NEW u \in Users, "init" \notin Faults,
           \/ \E n \in Names : New(u, n) \/ Attach(u, n) \/ Clear(u, n)
           \/ Delete(u) \/ Acquire(u) \/ Post(u) \/ ReserveMax(u) \/ Fill(u) \/ InitLock(u) \/ CheckShm(u)
    PROVE  LifeInv'
<1> USE DEF LifeInv
<1>1. ASSUME NEW n \in Names, New(u, n) \/ Attach(u, n) \/ Clear(u, n) PROVE LifeInv'
  <2>1. OthersStay(u)
    BY <1>1 DEF New, Attach, Clear, Goto, Phase, OthersStay, LockInv, TypeOK
  <2>2. UNCHANGED <<objects, ro, os, map, alive, setting, faults>> /\ ro[u] = NoSlot
    BY <1>1 DEF New, Attach, Clear, registry
  <2>3. pc'[u] \in {"reserve", "lookup", "clear"}
    BY <1>1 DEF New, Attach, Clear, Goto, LockInv, TypeOK
  <2>4. Life'
    BY <2>1, <2>2, <2>3, QuietStep DEF Linked
  <2> QED
    BY <2>1, <2>2, <2>3, <2>4, MidKept
<1>2. CASE Delete(u)
  <2>1. OthersStay(u)
    BY <1>2 DEF Delete, Goto, OthersStay
  <2>2. UNCHANGED <<objects, ro, os, map, alive, setting, faults, name, cs>> /\ pc[u] = "idle" /\ cs[u] = "out"
    BY <1>2 DEF Delete, At, registry
  <2>3. pc'[u] = IF FreesFirst(name[u]) THEN "free" ELSE "detach"
    BY <1>2 DEF Delete, Goto, LockInv, TypeOK
  <2>4. FreesFirst(name[u])' <=> FreesFirst(name[u])
    BY <2>2 DEF FreesFirst, OnRTAI, KindOf
  <2>5. Linked(u)' <=> Linked(u)
    BY <2>2, <2>3, <2>4 DEF Linked
  <2>6. Life'
    BY <2>1, <2>2, <2>3, <2>5, QuietStep
  <2> QED
    BY <2>1, <2>2, <2>6, MidKept
<1>3. CASE Acquire(u) \/ Post(u)
  <2>1. OthersStay(u)
    BY <1>3 DEF Acquire, Post, Phase, OthersStay, LockInv, TypeOK
  <2>2. UNCHANGED <<objects, ro, os, map, alive, setting, faults, name, pc>>
    BY <1>3 DEF Acquire, Post, registry
  <2>3. cs'[u] # "mid"
    BY <1>3 DEF Acquire, Post, Phase, LockInv, TypeOK
  <2>4. Linked(u)' <=> Linked(u)
    BY <2>2 DEF Linked, OnRTAI, FreesFirst, KindOf
  <2>5. Life'
    BY <2>1, <2>2, <2>4, QuietStep DEF Life, MapInv, OrphanInv
  <2> QED
    BY <2>1, <2>2, <2>3, <2>5, MidKept
<1>4. CASE ReserveMax(u)
  <2>1. OthersStay(u)
    BY <1>4 DEF ReserveMax, Goto, Phase, OthersStay
  <2>2. UNCHANGED <<objects, ro, os, map, alive, setting, faults, name>> /\ pc[u] = "reserve"
    BY <1>4 DEF ReserveMax, Inside
  <2>3. pc'[u] = "open" /\ cs'[u] = "done"
    BY <1>4 DEF ReserveMax, Goto, Phase, LockInv, TypeOK
  <2>4. ~Linked(u)' /\ ~Linked(u)
    BY <2>2, <2>3 DEF Linked
  <2>5. Life'
    BY <2>1, <2>2, <2>3, <2>4, QuietStep
  <2> QED
    BY <2>1, <2>2, <2>3, <2>5, MidKept
<1>5. CASE Fill(u)
  <2>1. OthersStay(u)
    BY <1>5 DEF Fill, Goto, OthersStay
  <2>2. UNCHANGED <<ro, os, map, alive, setting, faults, name, cs>> /\ pc[u] = "fill" /\ cs[u] = "out"
    BY <1>5 DEF Fill, At
  <2>3. pc'[u] = "commit"
    BY <1>5 DEF Fill, Goto, LockInv, TypeOK
  <2>4. ASSUME NEW s \in Slots
        PROVE  /\ objects'[s].count = objects[s].count /\ objects'[s].name = objects[s].name
               /\ objects'[s].reserved = objects[s].reserved
    BY <1>5 DEF Fill, LockInv, TypeOK, RegisteredObject
  <2>5. Linked(u)' <=> Linked(u)
    BY <2>2, <2>3 DEF Linked
  <2>6. Life'
    BY <2>1, <2>2, <2>3, <2>4, <2>5, QuietStep
  <2> QED
    BY <2>1, <2>2, <2>4, <2>6, MidKept DEF InUse
<1>6. CASE InitLock(u)
  <2>1. UNCHANGED faults /\ Goto(u, "fill")
    BY <1>6 DEF InitLock, Fault
  <2>2. OthersStay(u) /\ pc'[u] = "fill"
    BY <1>6, <2>1 DEF InitLock, Goto, OthersStay, LockInv, TypeOK
  <2>3. UNCHANGED <<objects, ro, os, map, alive, setting, name, cs>> /\ pc[u] = "init" /\ cs[u] = "out"
    BY <1>6 DEF InitLock, At, registry
  <2>4. Linked(u)' <=> Linked(u)
    BY <2>2, <2>3 DEF Linked
  <2>5. Life'
    BY <2>1, <2>2, <2>3, <2>4, QuietStep
  <2> QED
    BY <2>2, <2>3, <2>5, MidKept
<1>7. CASE CheckShm(u)
  <2>1. OthersStay(u) /\ pc'[u] \in {"size", "abort"}
    BY <1>7 DEF CheckShm, Goto, OthersStay, LockInv, TypeOK
  <2>2. UNCHANGED <<objects, ro, os, map, alive, setting, name, cs, faults>>
    BY <1>7 DEF CheckShm, registry
  <2>3. OnRTAI /\ OnRTAI' /\ pc[u] = "open" /\ cs[u] = "out"
    BY <1>7, <2>2 DEF CheckShm, OnRTAI, At
  <2>4. ~Linked(u)' /\ ~Linked(u)
    BY <2>1, <2>3 DEF Linked
  <2>5. Life'
    BY <2>1, <2>2, <2>4, QuietStep
  <2> QED
    BY <2>1, <2>2, <2>3, <2>5, MidKept
<1> QED
  BY <1>1, <1>2, <1>3, <1>4, <1>5, <1>6, <1>7

\* The creation of an object.  On POSIX the name must be free; RTAI takes what
\* it finds, which can only be what is left under the name reserved.
LEMMA LifeOpens ==
    ASSUME LockInv, RegistryInv, LifeInv, RTAIDistinct, NEW u \in Users,
           OpenSem(u) \/ OpenMem(u) \/ OpenNamed(u) \/ AllocShm(u)
    PROVE  LifeInv'
<1> USE DEF LifeInv
<1>1. /\ UNCHANGED <<objects, cs, name, ro, alive, setting>>
      /\ pc[u] \in {"open", "size"} /\ cs[u] = "out" /\ alive[u]
      /\ pc[u] = "size" => OnRTAI
  BY DEF OpenSem, OpenMem, OpenNamed, AllocShm, At, registry
<1>2. \E q \in {"abort", "fill", "size"} : pc' = [pc EXCEPT ![u] = q]
  BY DEF OpenSem, OpenMem, OpenNamed, AllocShm, OpenExclusive, CreateFails, Goto
<1>3. OthersStay(u)
  BY <1>1, <1>2 DEF OthersStay, LockInv, TypeOK
<1>4. MidInv'
  BY <1>1, <1>2, <1>3, MidKept DEF LockInv, TypeOK
<1>5. ro[u] \in Slots /\ name[u] \in Names /\ Reserves(u, ro[u])
  BY <1>1 DEF LockInv, TypeOK, NameInv, RegistryInv, SlotInv, Reserves, Counting, Reserving
<1>6. objects[ro[u]].reserved /\ objects[ro[u]].name = name[u] /\ InUse(objects[ro[u]])
  BY <1>5 DEF RegistryInv, SlotInv, ReservationOwned, InUse
<1>7. ~Linked(u) /\ (OnRTAI' <=> OnRTAI)
  BY <1>1 DEF Linked, OnRTAI
<1>8. CASE CreateFails(u) /\ faults \subseteq faults'
  <2>1. pc'[u] = "abort" /\ UNCHANGED <<os, map>>
    BY <1>8 DEF CreateFails, Goto, LockInv, TypeOK
  <2>2. ~Linked(u)'
    BY <2>1 DEF Linked
  <2> QED
    BY <1>1, <1>3, <1>4, <1>7, <1>8, <2>1, <2>2, QuietStep
<1>9. CASE /\ map' = [map EXCEPT ![u] = "linked"] /\ UNCHANGED faults /\ ~OnRTAI
           /\ os[SysName(name[u])] = "absent"
           /\ \/ os' = [os EXCEPT ![SysName(name[u])] = "ready"] /\ pc'[u] = "fill"
              \/ os' = [os EXCEPT ![SysName(name[u])] = "empty"] /\ pc'[u] = "size"
  <2>1. Linked(u)'
    BY <1>1, <1>5, <1>7, <1>9, SlotsAreNaturals DEF Linked, NoSlot
  <2>2. \A v \in Users : Linked(v) => SysName(name[v]) # SysName(name[u])
    BY <1>9 DEF Life, OsInv
  <2>3. \A s \in Slots : objects[s].count > 0 => SysName(objects[s].name) # SysName(name[u])
    BY <1>9 DEF Life, OsInv, FreesFirst
  <2>4. SysName(name[u]) \in SysNames
    BY <1>5, SysNameType
  <2>5. /\ os'[SysName(name[u])] = IF pc'[u] = "size" THEN "empty" ELSE "ready"
        /\ \A n \in SysNames : n # SysName(name[u]) => os'[n] = os[n]
    BY <1>9, <2>4 DEF LockInv, TypeOK
  <2>6. Life'
    BY <1>1, <1>3, <1>5, <1>7, <1>9, <2>1, <2>2, <2>3, <2>4, <2>5, LinkStep, SysNameType
  <2> QED
    BY <1>4, <2>6
<1>10. CASE /\ map' = [map EXCEPT ![u] = "linked"] /\ UNCHANGED faults /\ OnRTAI
            /\ os' = [os EXCEPT ![SysName(name[u])] = "ready"] /\ pc'[u] = "fill"
  <2>0. \A m, n \in Names : SysName(m) = SysName(n) => m = n
    BY <1>10 DEF RTAIDistinct, OnRTAI, SysName, LockInv, TypeOK
  <2>1. Linked(u)'
    BY <1>1, <1>5, <1>10, SlotsAreNaturals DEF Linked, NoSlot
  <2>4. SysName(name[u]) \in SysNames
    BY <1>5, SysNameType
  <2>5. /\ os'[SysName(name[u])] = "ready"
        /\ \A n \in SysNames : n # SysName(name[u]) => os'[n] = os[n]
    BY <1>10, <2>4 DEF LockInv, TypeOK
  <2>2. ASSUME NEW v \in Users, Linked(v), SysName(name[v]) = SysName(name[u])
        PROVE  ro[v] = ro[u] /\ os'[SysName(name[u])] = os[SysName(name[u])]
    <3>1. name[v] \in Names /\ ro[v] \in Slots /\ objects[ro[v]].name = name[v]
      BY <2>2, LinkedSlots DEF Life
    <3>2. name[v] = name[u]
      BY <1>5, <2>0, <2>2, <3>1
    <3>3. InUse(objects[ro[v]]) \/ (pc[v] = "detach" /\ cs[v] = "mid")
      <4>1. objects[ro[v]].count > 0 \/ objects[ro[v]].reserved \/ (pc[v] = "detach" /\ cs[v] = "mid")
        BY <2>2, LinkedSlots DEF Life
      <4> QED
        BY <4>1 DEF InUse
    <3>4. ro[v] = ro[u]
      BY <1>5, <1>6, <3>1, <3>2, <3>3 DEF RegistryInv, UniqueNames, MidInv
    <3>5. os[SysName(name[v])] = "ready"
      BY <1>10, <2>2 DEF Life, OsInv, Linked
    <3> QED
      BY <2>2, <2>5, <3>4, <3>5
  <2>3. ASSUME NEW s \in Slots, objects[s].count > 0, SysName(objects[s].name) = SysName(name[u])
        PROVE  s = ro[u]
    <3>1. objects[s].name = name[u]
      BY <1>5, <2>0, <2>3, CountedSlots
    <3>2. InUse(objects[s])
      BY <2>3 DEF InUse
    <3> QED
      BY <1>5, <1>6, <3>1, <3>2 DEF RegistryInv, UniqueNames
  <2>6. Life'
    BY <1>1, <1>3, <1>5, <1>7, <1>10, <2>1, <2>2, <2>3, <2>4, <2>5, LinkStep, SysNameType
  <2> QED
    BY <1>4, <2>6
<1>11. CASE OpenSem(u) \/ OpenMem(u)
  <2>1. \/ OpenExclusive(u, "ready", "fill") \/ OpenExclusive(u, "empty", "size")
    BY <1>11 DEF OpenSem, OpenMem
  <2>2. ~OnRTAI
    BY <1>11 DEF OpenSem, OpenMem
  <2> QED
    BY <1>8, <1>9, <2>1, <2>2 DEF OpenExclusive, Fault, Goto, LockInv, TypeOK
<1>12. CASE OpenNamed(u) \/ AllocShm(u)
  BY <1>8, <1>10, <1>12 DEF OpenNamed, AllocShm, Fault, Goto, LockInv, TypeOK
<1> QED
  BY <1>11, <1>12

\* The sizing of new memory by its creator, which removes it when that fails.
LEMMA LifeSize ==
    ASSUME LockInv, RegistryInv, LifeInv, NEW u \in Users, Size(u)
    PROVE  LifeInv'
<1> USE DEF LifeInv
<1>1. /\ UNCHANGED <<objects, cs, name, ro, alive, setting>>
      /\ pc[u] = "size" /\ cs[u] = "out" /\ alive[u] /\ ~OnRTAI
  BY DEF Size, At, registry
<1>2. \E q \in {"abort", "fill", "init"} : pc' = [pc EXCEPT ![u] = q]
  BY DEF Size, Goto
<1>3. OthersStay(u)
  BY <1>1, <1>2 DEF OthersStay, LockInv, TypeOK
<1>4. MidInv'
  BY <1>1, <1>2, <1>3, MidKept DEF LockInv, TypeOK
<1>5. ro[u] \in Slots /\ Reserves(u, ro[u]) /\ ~Counts(u, ro[u])
  BY <1>1 DEF LockInv, TypeOK, RegistryInv, SlotInv, Reserves, Counts, Counting, Reserving
<1>6. Linked(u)
  BY <1>1, <1>5, SlotsAreNaturals DEF Linked, NoSlot
<1>7. objects[ro[u]].count = 0 /\ name[u] \in Names
  BY <1>1, <1>5 DEF RegistryInv, ReservationOwned, LockInv, NameInv
<1>8. ASSUME NEW v \in Users, v # u, Linked(v) PROVE SysName(name[v]) # SysName(name[u])
  <2>1. SysName(name[v]) = SysName(name[u]) => ro[u] = ro[v]
    BY <1>6, <1>8 DEF Life, OwnerInv
  <2>2. MapInv
    BY DEF Life
  <2> QED
    BY <1>5, <1>6, <1>7, <1>8, <2>1, <2>2, AloneWithObject
<1>9. ASSUME NEW s \in Slots, objects[s].count > 0 PROVE SysName(objects[s].name) # SysName(name[u])
  BY <1>6, <1>7, <1>9 DEF Life, OwnerInv, LockInv, TypeOK, RegisteredObject
<1>10. CASE /\ os' = [os EXCEPT ![SysName(name[u])] = IF map[u] = "linked" THEN "ready" ELSE @]
            /\ pc'[u] \in {"fill", "init"} /\ UNCHANGED <<map, faults>>
  <2>1. /\ \A n : SysName(n)' = SysName(n)
        /\ \A n : FreesFirst(n)' = FreesFirst(n)
        /\ OnRTAI' = OnRTAI
    BY <1>1 DEF SysName, FreesFirst, OnRTAI, KindOf
  <2>2. Linked(u)'
    BY <1>1, <1>6, <1>10 DEF Linked
  <2>3. \A v \in Users : Linked(v)' <=> Linked(v)
    BY <1>1, <1>3, <1>6, <2>2, OthersLinked
  <2>4. SysName(name[u]) \in SysNames
    BY <1>7, SysNameType
  <2>5. map[u] = "linked"
    BY <1>6 DEF Life, MapInv
  <2>6. \A n \in SysNames : os'[n] = IF n = SysName(name[u]) THEN "ready" ELSE os[n]
    BY <1>10, <2>4, <2>5 DEF LockInv, TypeOK
  <2>7. MapInv'
    BY <1>1, <1>3, <1>10, <2>1, <2>3 DEF Life, MapInv, OthersStay
  <2>8. OwnerInv'
    BY <1>1, <2>1, <2>3 DEF Life, OwnerInv
  <2>9. OsInv'
    BY <1>1, <1>3, <1>8, <1>9, <1>10, <2>1, <2>3, <2>6, SysNameType DEF Life, OsInv, OthersStay
  <2>10. OrphanInv'
    BY <1>1, <1>3, <1>6, <1>10, <2>1, <2>3, <2>6 DEF Life, OrphanInv, OthersStay
  <2> QED
    BY <1>4, <2>7, <2>8, <2>9, <2>10 DEF Life
<1>11. CASE Fault("size") /\ Unlink(name[u], u, "none") /\ pc'[u] = "abort"
  <2>1. ~Linked(u)'
    BY <1>11 DEF Linked
  <2>2. faults \subseteq faults'
    BY <1>11 DEF Fault
  <2>3. Life'
    BY <1>1, <1>3, <1>8, <1>9, <1>11, <2>1, <2>2, UnlinkStep, SysNameType
  <2> QED
    BY <1>4, <2>3
<1> QED
  BY <1>10, <1>11 DEF Size, Goto, LockInv, TypeOK

\* An attachment opens the object of its slot, which is there as long as the
\* slot is counted in, or gives up.
LEMMA LifeAttaches ==
    ASSUME LockInv, RegistryInv, LifeInv, NEW u \in Users, "attach_map" \notin faults',
           AttachSem(u) \/ AttachMem(u) \/ AttachNamed(u) \/ AttachShm(u)
    PROVE  LifeInv'
<1> USE DEF LifeInv
<1>1. /\ UNCHANGED <<objects, cs, name, ro, alive, setting>>
      /\ pc[u] = "attach" /\ cs[u] = "out" /\ alive[u]
  BY DEF AttachSem, AttachMem, AttachNamed, AttachShm, OpenExisting, At, registry
<1>2. \E q \in {"giveup", "idle"} : pc' = [pc EXCEPT ![u] = q]
  BY DEF AttachSem, AttachMem, AttachNamed, AttachShm, OpenExisting, Goto
<1>3. OthersStay(u)
  BY <1>1, <1>2 DEF OthersStay, LockInv, TypeOK
<1>4. MidInv'
  BY <1>1, <1>2, <1>3, MidKept DEF LockInv, TypeOK
<1>5. ro[u] \in Slots /\ name[u] \in Names /\ Counts(u, ro[u])
  BY <1>1 DEF LockInv, TypeOK, NameInv, RegistryInv, SlotInv, Counts, Counting, Reserving
<1>6. objects[ro[u]].count > 0 /\ objects[ro[u]].name = name[u]
  BY <1>5, CountedSlots DEF RegistryInv, SlotInv
<1>7. ~Linked(u) /\ SysName(name[u]) \in SysNames
  BY <1>1, <1>5, SysNameType DEF Linked
<1>8. os[SysName(name[u])] = "ready" \/ (FreesFirst(name[u]) /\ OnRTAI /\ os[SysName(name[u])] = "absent")
  <2>1. os[SysName(name[u])] \in {"absent", "empty", "ready"}
    BY <1>7 DEF LockInv, TypeOK
  <2>2. ~FreesFirst(name[u]) => os[SysName(name[u])] = "ready"
    BY <1>5, <1>6 DEF Life, OsInv
  <2>3. FreesFirst(name[u]) => OnRTAI /\ os[SysName(name[u])] # "empty"
    BY <1>7 DEF FreesFirst, Life, OsInv
  <2> QED
    BY <2>1, <2>2, <2>3
<1>9. CASE /\ pc'[u] = "idle" /\ UNCHANGED <<os, faults>> /\ map' = [map EXCEPT ![u] = "linked"]
           /\ os[SysName(name[u])] = "ready"
  <2>1. Linked(u)'
    BY <1>1, <1>5, <1>9, SlotsAreNaturals DEF Linked, NoSlot
  <2>2. \A v \in Users : Linked(v) /\ SysName(name[v]) = SysName(name[u]) => ro[v] = ro[u]
    BY <1>5, <1>6 DEF Life, OwnerInv
  <2>3. \A s \in Slots : objects[s].count > 0 /\ SysName(objects[s].name) = SysName(name[u]) => s = ro[u]
    BY <1>5, <1>6 DEF Life, OwnerInv
  <2>4. Life'
    BY <1>1, <1>3, <1>5, <1>7, <1>9, <2>1, <2>2, <2>3, LinkStep, SysNameType
  <2> QED
    BY <1>4, <2>4
<1>10. CASE /\ pc'[u] = "giveup" /\ UNCHANGED <<os, map>> /\ faults \subseteq faults'
            /\ "attach_open" \in faults' \/ FreesFirst(name[u])
  <2>1. ~Linked(u)'
    BY <1>10 DEF Linked
  <2> QED
    BY <1>1, <1>3, <1>4, <1>7, <1>10, <2>1, QuietStep
<1>11. CASE AttachMem(u)
  <2>1. os[SysName(name[u])] = "ready"
    BY <1>8, <1>11 DEF AttachMem
  <2>2. \/ map' = [map EXCEPT ![u] = "linked"] /\ Goto(u, "idle") /\ UNCHANGED <<os, faults>>
        \/ Fault("attach_open") /\ Goto(u, "giveup") /\ UNCHANGED <<os, map>>
    BY <1>11, <2>1 DEF AttachMem, Fault
  <2> QED
    BY <1>9, <1>10, <2>1, <2>2 DEF Fault, Goto, LockInv, TypeOK
<1>12. CASE OpenExisting(u)
  <2>1. UNCHANGED os
    BY <1>12 DEF OpenExisting
  <2>2. \/ /\ map' = [map EXCEPT ![u] = "linked"] /\ Goto(u, "idle") /\ UNCHANGED faults
           /\ os[SysName(name[u])] # "absent"
        \/ os[SysName(name[u])] = "absent" /\ Goto(u, "giveup") /\ UNCHANGED <<map, faults>>
        \/ Fault("attach_open") /\ Goto(u, "giveup") /\ UNCHANGED map
    BY <1>12 DEF OpenExisting
  <2> QED
    BY <1>8, <1>9, <1>10, <2>1, <2>2 DEF Fault, Goto, LockInv, TypeOK
<1> QED
  BY <1>11, <1>12 DEF AttachSem, AttachNamed, AttachShm

\* RTAI's memory goes with its last mapping.
LEMMA LifeFrees ==
    ASSUME LockInv, RegistryInv, LifeInv, RTAIDistinct, NEW u \in Users, FreeShm(u)
    PROVE  LifeInv'
<1> USE DEF LifeInv
<1>1. /\ UNCHANGED <<objects, cs, name, ro, alive, setting, faults>>
      /\ pc[u] = "free" /\ cs[u] = "out" /\ alive[u]
  BY DEF FreeShm, At, registry
<1>2. pc' = [pc EXCEPT ![u] = "detach"]
  BY DEF FreeShm, Goto
<1>3. OthersStay(u) /\ pc'[u] = "detach"
  BY <1>1, <1>2 DEF OthersStay, LockInv, TypeOK
<1>4. MidInv'
  BY <1>1, <1>3, MidKept
<1>5. ro[u] \in Slots /\ name[u] \in Names /\ Counts(u, ro[u])
  BY <1>1 DEF LockInv, TypeOK, NameInv, RegistryInv, SlotInv, Counts, Counting, Reserving
<1>6. objects[ro[u]].name = name[u]
  BY <1>5 DEF RegistryInv, SlotInv
<1>7. FreesFirst(name[u]) /\ FreesFirst(name[u])' /\ OnRTAI
  BY <1>1 DEF Life, MapInv, FreesFirst, OnRTAI, KindOf
<1>8. ~Linked(u)'
  BY <1>3, <1>7 DEF Linked
<1>9. CASE \E v \in Users \ {u} : Maps(v, name[u])
  <2>1. map' = [map EXCEPT ![u] = "none"] /\ UNCHANGED os
    BY <1>6, <1>9 DEF FreeShm, Unmap
  <2>2. \E v \in Users \ {u} : Linked(v) /\ SysName(name[v]) = SysName(name[u])
    BY <1>9 DEF Maps, Life, MapInv
  <2>3. Life'
    BY <1>1, <1>3, <1>8, <2>1, <2>2, UnmapStep
  <2> QED
    BY <1>4, <2>3
<1>10. CASE ~\E v \in Users \ {u} : Maps(v, name[u])
  <2>0. \A m, n \in Names : SysName(m) = SysName(n) => m = n
    BY <1>7 DEF RTAIDistinct, OnRTAI, SysName, LockInv, TypeOK
  <2>1. Unlink(name[u], u, "none")
    BY <1>6, <1>10 DEF FreeShm
  <2>2. \A v \in Users : v # u /\ Linked(v) => SysName(name[v]) # SysName(name[u])
    BY <1>10 DEF Maps, Life, MapInv
  <2>3. \A s \in Slots : objects[s].count > 0 /\ SysName(objects[s].name) = SysName(name[u]) =>
           FreesFirst(objects[s].name)
    BY <1>5, <1>7, <2>0, CountedSlots
  <2>4. Life'
    BY <1>1, <1>3, <1>8, <2>1, <2>2, <2>3, UnlinkStep, SysNameType
  <2> QED
    BY <1>4, <2>4
<1> QED
  BY <1>9, <1>10

\* The last user removes the object, another one leaves it to the rest.
LEMMA LifeReleases ==
    ASSUME LockInv, RegistryInv, LifeInv, NEW u \in Users, DecTail(u)
    PROVE  LifeInv'
<1> USE DEF LifeInv
<1>1. /\ UNCHANGED <<objects, alive, setting, faults>>
      /\ pc[u] \in {"detach", "abort", "giveup"} /\ cs[u] = "mid" /\ alive[u] /\ Release(u)
  BY DEF DecTail, RegistryInv, SlotInv
<1>2. /\ pc' = [pc EXCEPT ![u] = "idle"] /\ cs' = [cs EXCEPT ![u] = "done"]
      /\ name' = [name EXCEPT ![u] = NoName] /\ ro' = [ro EXCEPT ![u] = NoSlot]
  BY <1>1 DEF DecTail, Goto, Phase
<1>3. OthersStay(u) /\ pc'[u] = "idle" /\ ro'[u] = NoSlot /\ cs'[u] = "done"
  BY <1>2 DEF OthersStay, LockInv, TypeOK
<1>4. MidInv'
  BY <1>1, <1>3, MidKept
<1>5. ~Linked(u)'
  BY <1>3 DEF Linked
<1>6. CASE pc[u] # "detach" \/ FreesFirst(name[u])
  <2>1. map' = [map EXCEPT ![u] = "none"] /\ UNCHANGED os
    BY <1>1, <1>6 DEF Release, Unmap
  <2>2. ~Linked(u)
    BY <1>1, <1>6 DEF Linked
  <2>3. Life'
    BY <1>1, <1>3, <1>5, <2>1, <2>2, UnmapStep
  <2> QED
    BY <1>4, <2>3
<1>7. CASE pc[u] = "detach" /\ ~FreesFirst(name[u])
  <2>1. /\ ro[u] \in Slots /\ name[u] \in Names /\ objects[ro[u]].name = name[u]
        /\ objects[ro[u]].count \in Nat /\ KindOf(name[u]) \in {Mem, Sem, Lock}
    BY <1>1, <1>7, SettingsAssumption
    DEF LockInv, TypeOK, NameInv, RegistryInv, SlotInv, Counting, Reserving, MidInv, RegisteredObject, KindOf
  <2>2. Linked(u)
    BY <1>7, <2>1, SlotsAreNaturals DEF Linked, NoSlot
  <2>3. map[u] = "linked" /\ DecSlot(u) = ro[u]
    BY <1>7, <2>2 DEF Life, MapInv, DecSlot
  <2>4. \/ objects[ro[u]].count = 0 /\ Unlink(name[u], u, "none")
        \/ objects[ro[u]].count > 0 /\ Unmap(u, "none")
    <3>1. CASE OnRTAI
      <4>1. ReleaseNamed(u)
        BY <1>1, <1>7, <3>1 DEF Release
      <4> QED
        BY <2>1, <2>3, <4>1 DEF ReleaseNamed
    <3>2. CASE ~OnRTAI /\ KindOf(name[u]) = Sem
      <4>1. ReleaseSem(u)
        BY <1>1, <1>7, <3>2 DEF Release, Sem, Lock
      <4> QED
        BY <2>1, <2>3, <3>2, <4>1 DEF ReleaseSem
    <3>3. CASE ~OnRTAI /\ KindOf(name[u]) # Sem
      <4>1. ReleaseMem(u)
        BY <1>1, <1>7, <2>1, <3>3 DEF Release, ReleaseLock, FreesFirst, Mem, Sem, Lock
      <4> QED
        BY <2>1, <2>3, <3>3, <4>1 DEF ReleaseMem
    <3> QED
      BY <3>1, <3>2, <3>3
  <2>5. CASE objects[ro[u]].count = 0 /\ Unlink(name[u], u, "none")
    <3>1. ~Counts(u, ro[u]) /\ MapInv
      BY <1>1 DEF Counts, Life
    <3>2. ASSUME NEW v \in Users, v # u, Linked(v) PROVE SysName(name[v]) # SysName(name[u])
      <4>1. SysName(name[v]) = SysName(name[u]) => ro[u] = ro[v]
        BY <2>2, <3>2 DEF Life, OwnerInv
      <4> QED
        BY <2>2, <2>5, <3>1, <3>2, <4>1, AloneWithObject
    <3>3. \A s \in Slots : objects[s].count > 0 => SysName(objects[s].name) # SysName(name[u])
      BY <2>2, <2>5 DEF Life, OwnerInv
    <3>4. Life'
      BY <1>1, <1>3, <1>5, <2>5, <3>2, <3>3, UnlinkStep, SysNameType
    <3> QED
      BY <1>4, <3>4
  <2>6. CASE objects[ro[u]].count > 0 /\ Unmap(u, "none")
    <3>1. map' = [map EXCEPT ![u] = "none"] /\ UNCHANGED os
      BY <2>6 DEF Unmap
    <3>2. Life'
      BY <1>1, <1>3, <1>5, <1>7, <2>1, <2>6, <3>1, UnmapStep
    <3> QED
      BY <1>4, <3>2
  <2> QED
    BY <2>4, <2>5, <2>6
<1> QED
  BY <1>6, <1>7

\* Counts change as users come and go, and the object stays.
LEMMA LifeReserves ==
    ASSUME LockInv, RegistryInv, LifeInv, NEW u \in Users, ReserveSlot(u)
    PROVE  LifeInv'
<1> USE DEF LifeInv
<1>1. /\ cs[u] = "in" /\ pc[u] = "reserve" /\ ro[u] = NoSlot
      /\ UNCHANGED <<os, map, alive, setting, faults>>
  BY DEF ReserveSlot, Inside, LockInv, EarlyInv
<1>2. CASE FindByName(objects, objects_max_index, name[u]) = NoSlot /\ FreeSlots(objects) # {}
  <2> DEFINE s == First(FreeSlots(objects))
  <2>1. /\ objects' = [objects EXCEPT ![s] = ReservedObject(name[u])]
        /\ ro' = [ro EXCEPT ![u] = s] /\ cs' = [cs EXCEPT ![u] = "mid"] /\ UNCHANGED <<pc, name>>
    BY <1>2 DEF ReserveSlot, Phase
  <2>2. s \in Slots /\ ~InUse(objects[s])
    BY <1>2, FreeSlotIsFree
  <2> HIDE DEF s
  <2>3. objects'[s].count = 0 /\ \A t \in Slots : t # s => objects'[t] = objects[t]
    BY <2>1, <2>2 DEF ReservedObject, LockInv, TypeOK
  <2>4. objects[s].count = 0
    BY <2>2 DEF InUse
  <2>5. OthersStay(u)
    BY <2>1 DEF OthersStay, LockInv, TypeOK
  <2>6. ~Linked(u) /\ ~Linked(u)'
    BY <1>1, <2>1 DEF Linked
  <2>7. \A v \in Users :
           /\ Linked(v)' <=> Linked(v)
           /\ Linked(v) => name'[v] = name[v] /\ ro'[v] = ro[v] /\ pc'[v] = pc[v]
           /\ pc'[v] = "free" => FreesFirst(name'[v])
           /\ "attach_open" \notin faults' /\ pc'[v] = "giveup" => FreesFirst(name'[v])
    BY <1>1, <2>1, <2>5, <2>6, OthersLinked DEF OthersStay, Life, MapInv, OrphanInv
  <2>8. \A t \in Slots : /\ objects'[t].count > 0 <=> objects[t].count > 0
                         /\ objects[t].count > 0 => objects'[t].name = objects[t].name
    BY <2>3, <2>4
  <2>9. Life'
    BY <1>1, <2>7, <2>8, SameObjects
  <2> QED
    BY <1>1, <2>1, <2>5, <2>9, MidKept
<1>3. CASE ~(FindByName(objects, objects_max_index, name[u]) = NoSlot /\ FreeSlots(objects) # {})
  <2>1. /\ pc' = [pc EXCEPT ![u] = "idle"] /\ cs' = [cs EXCEPT ![u] = "done"]
        /\ name' = [name EXCEPT ![u] = NoName] /\ UNCHANGED <<objects, ro>>
    BY <1>3 DEF ReserveSlot, Goto, Phase
  <2>2. OthersStay(u) /\ pc'[u] = "idle" /\ cs'[u] = "done"
    BY <2>1 DEF OthersStay, LockInv, TypeOK
  <2>3. ~Linked(u) /\ ~Linked(u)'
    BY <1>1, <2>1 DEF Linked
  <2>4. Life'
    BY <1>1, <2>1, <2>2, <2>3, QuietStep
  <2> QED
    BY <1>1, <2>2, <2>4, MidKept
<1> QED
  BY <1>2, <1>3

LEMMA LifeLookup ==
    ASSUME LockInv, RegistryInv, LifeInv, NEW u \in Users, Lookup(u)
    PROVE  LifeInv'
<1> USE DEF LifeInv
<1> DEFINE s == FindByName(objects, objects_max_index, name[u])
<1>1. /\ cs[u] = "in" /\ pc[u] = "lookup" /\ ro[u] = NoSlot /\ alive[u]
      /\ cs' = [cs EXCEPT ![u] = "done"]
      /\ UNCHANGED <<os, map, alive, setting, faults>>
  BY DEF Lookup, Inside, Phase, LockInv, EarlyInv
<1>2. CASE s = NoSlot
  <2>1. pc' = [pc EXCEPT ![u] = "idle"] /\ name' = [name EXCEPT ![u] = NoName] /\ UNCHANGED <<objects, ro>>
    BY <1>2 DEF Lookup, Goto
  <2>2. OthersStay(u) /\ pc'[u] = "idle" /\ cs'[u] = "done"
    BY <1>1, <2>1 DEF OthersStay, LockInv, TypeOK
  <2>3. ~Linked(u) /\ ~Linked(u)'
    BY <1>1, <2>1 DEF Linked
  <2>4. Life'
    BY <1>1, <2>1, <2>2, <2>3, QuietStep
  <2> QED
    BY <1>1, <2>2, <2>4, MidKept
<1>3. CASE s # NoSlot
  <2>1. /\ objects' = [objects EXCEPT ![s] = IncCount(@)]
        /\ ro' = [ro EXCEPT ![u] = s]
        /\ pc' = [pc EXCEPT ![u] = "attach"] /\ UNCHANGED name
    BY <1>3 DEF Lookup, Goto
  <2>2. s \in Slots /\ InUse(objects[s]) /\ objects[s].name = name[u]
    BY <1>3, FindByNameFinds DEF LockInv, TypeOK
  <2> HIDE DEF s
  <2>3. objects[s].count > 0
    <3>1. ~objects[s].reserved
      BY <1>1, <2>2 DEF RegistryInv, GuardInv
    <3> QED
      BY <2>2, <3>1 DEF InUse, LockInv, TypeOK, RegisteredObject
  <2>4. /\ objects'[s].count > 0 /\ objects'[s].name = objects[s].name
        /\ \A t \in Slots : t # s => objects'[t] = objects[t]
    BY <2>1, <2>2, <2>3 DEF IncCount, LockInv, TypeOK, RegisteredObject
  <2>5. OthersStay(u) /\ pc'[u] = "attach" /\ cs'[u] = "done"
    BY <1>1, <2>1 DEF OthersStay, LockInv, TypeOK
  <2>6. ~Linked(u) /\ ~Linked(u)'
    BY <1>1, <2>5 DEF Linked
  <2>7. \A v \in Users :
           /\ Linked(v)' <=> Linked(v)
           /\ Linked(v) => name'[v] = name[v] /\ ro'[v] = ro[v] /\ pc'[v] = pc[v]
           /\ pc'[v] = "free" => FreesFirst(name'[v])
           /\ "attach_open" \notin faults' /\ pc'[v] = "giveup" => FreesFirst(name'[v])
    BY <1>1, <2>1, <2>5, <2>6, OthersLinked DEF OthersStay, Life, MapInv, OrphanInv
  <2>8. \A t \in Slots : /\ objects'[t].count > 0 <=> objects[t].count > 0
                         /\ objects[t].count > 0 => objects'[t].name = objects[t].name
    BY <2>3, <2>4
  <2>9. Life'
    BY <1>1, <2>7, <2>8, SameObjects
  <2> QED
    BY <1>1, <2>5, <2>9, MidKept
<1> QED
  BY <1>2, <1>3

LEMMA LifeCommits ==
    ASSUME LockInv, RegistryInv, LifeInv, NEW u \in Users, Commit(u)
    PROVE  LifeInv'
<1> USE DEF LifeInv
<1>1. /\ cs[u] = "in" /\ pc[u] = "commit" /\ alive[u]
      /\ UNCHANGED <<os, name, ro, map, alive, setting, faults>>
      /\ objects' = [objects EXCEPT ![ro[u]] = IncCount(@)]
      /\ pc' = [pc EXCEPT ![u] = "idle"] /\ cs' = [cs EXCEPT ![u] = "done"]
  BY DEF Commit, Inside, Goto, Phase
<1>2. ro[u] \in Slots /\ Linked(u)
  BY <1>1, SlotsAreNaturals DEF LockInv, TypeOK, RegistryInv, SlotInv, Counting, Reserving, Linked, NoSlot
<1>3. objects[ro[u]].name = name[u]
  BY <1>2, LinkedSlots DEF Life
<1>4. /\ objects'[ro[u]].count > 0 /\ objects'[ro[u]].name = name[u]
      /\ \A t \in Slots : t # ro[u] => objects'[t] = objects[t]
  BY <1>1, <1>2, <1>3 DEF IncCount, LockInv, TypeOK, RegisteredObject
<1>5. OthersStay(u) /\ pc'[u] = "idle" /\ cs'[u] = "done"
  BY <1>1 DEF OthersStay, LockInv, TypeOK
<1>6. Linked(u)'
  BY <1>1, <1>2, <1>5 DEF Linked
<1>7. \A v \in Users :
         /\ Linked(v)' <=> Linked(v)
         /\ Linked(v) => /\ name'[v] = name[v] /\ ro'[v] = ro[v]
                         /\ pc'[v] = "size" <=> pc[v] = "size"
         /\ pc'[v] = "free" => FreesFirst(name'[v])
         /\ "attach_open" \notin faults' /\ pc'[v] = "giveup" => FreesFirst(name'[v])
  BY <1>1, <1>2, <1>5, <1>6, OthersLinked DEF OthersStay, Life, MapInv, OrphanInv
<1>8. \A s \in Slots : objects'[s].count > 0 =>
         \/ objects[s].count > 0 /\ objects'[s].name = objects[s].name
         \/ \E v \in Users : Linked(v) /\ ro[v] = s /\ pc[v] # "size" /\ objects'[s].name = name[v]
  BY <1>1, <1>2, <1>4
<1>9. \A s \in Slots : objects[s].count > 0 => objects'[s].count > 0 /\ objects'[s].name = objects[s].name
  BY <1>3, <1>4
<1>10. Life'
  BY <1>1, <1>7, <1>8, <1>9, SameObjects
<1> QED
  BY <1>1, <1>5, <1>10, MidKept

LEMMA LifeDrops ==
    ASSUME LockInv, RegistryInv, LifeInv, NEW u \in Users, DecHead(u)
    PROVE  LifeInv'
<1> USE DEF LifeInv
<1>1. /\ cs[u] = "in" /\ pc[u] \in {"detach", "abort", "giveup"} /\ alive[u]
      /\ UNCHANGED <<os, pc, name, ro, map, alive, setting, faults>>
      /\ objects' = [objects EXCEPT ![ro[u]] = DecCount(@)]
      /\ cs' = [cs EXCEPT ![u] = "mid"]
  BY DEF DecHead, DecSlot, Phase, RegistryInv, SlotInv
<1>2. ro[u] \in Slots /\ (Counts(u, ro[u]) \/ Reserves(u, ro[u]))
  BY <1>1 DEF LockInv, TypeOK, RegistryInv, SlotInv, Counting, Reserving, Counts, Reserves
<1>3. objects[ro[u]].name = name[u] /\ InUse(objects[ro[u]])
  <2>1. objects[ro[u]].count > 0 \/ objects[ro[u]].reserved
    BY <1>2, CountedSlots DEF RegistryInv, ReservationOwned
  <2> QED
    BY <1>2, <2>1 DEF RegistryInv, SlotInv, InUse
<1>4. /\ objects'[ro[u]].name = name[u]
      /\ objects'[ro[u]].count > 0 => objects[ro[u]].count > 0
      /\ \A t \in Slots : t # ro[u] => objects'[t] = objects[t]
  BY <1>1, <1>2, <1>3 DEF DecCount, LockInv, TypeOK, RegisteredObject
<1>5. \A v \in Users : Linked(v)' <=> Linked(v)
  BY <1>1 DEF Linked, OnRTAI, FreesFirst, KindOf
<1>6. \A s \in Slots : objects'[s].count > 0 => objects[s].count > 0 /\ objects'[s].name = objects[s].name
  BY <1>3, <1>4
<1>7. ASSUME "attach_open" \notin faults', NEW s \in Slots,
             objects[s].count > 0, ~FreesFirst(objects[s].name)
      PROVE  \/ objects'[s].count > 0 /\ objects'[s].name = objects[s].name
             \/ \E v \in Users : Linked(v) /\ SysName(name[v]) = SysName(objects[s].name)
  <2>1. CASE s = ro[u]
    <3>1. pc[u] # "abort"
      BY <1>1, <1>7, <2>1 DEF RegistryInv, ReservationOwned, Reserves
    <3>2. pc[u] # "giveup"
      BY <1>1, <1>3, <1>7, <2>1 DEF Life, OrphanInv
    <3>3. Linked(u)
      BY <1>1, <1>2, <1>3, <1>7, <2>1, <3>1, <3>2, SlotsAreNaturals DEF Linked, NoSlot
    <3> QED
      BY <1>3, <2>1, <3>3
  <2> QED
    BY <1>4, <1>7, <2>1
<1>8. \A v \in Users :
         /\ pc'[v] = "free" => FreesFirst(name'[v])
         /\ "attach_open" \notin faults' /\ pc'[v] = "giveup" => FreesFirst(name'[v])
  BY <1>1 DEF Life, MapInv, OrphanInv
<1>9. Life'
  BY <1>1, <1>5, <1>6, <1>7, <1>8, SameObjects
<1>10. MidInv'
  <2> SUFFICES ASSUME NEW v \in Users, cs'[v] = "mid", pc[v] \in {"detach", "abort", "giveup"}
               PROVE  /\ objects'[ro[v]].name = name[v]
                      /\ \A t \in Slots : InUse(objects'[t]) /\ objects'[t].name = name[v] => t = ro[v]
    BY <1>1 DEF MidInv
  <2>1. v = u
    BY <1>1 DEF LockInv, TypeOK, MutualExclusion, Life, MapInv
  <2>2. \A t \in Slots : InUse(objects[t]) /\ objects[t].name = name[u] => t = ro[u]
    BY <1>2, <1>3 DEF RegistryInv, UniqueNames
  <2> QED
    BY <1>4, <2>1, <2>2
<1> QED
  BY <1>9, <1>10

\* The clear tool finds nothing, and there is nobody to recover from.
LEMMA LifeClears ==
    ASSUME LockInv, RegistryInv, LifeInv, NEW u \in Users, ClearUnlink(u)
    PROVE  LifeInv'
<1> USE DEF LifeInv
<1>1. /\ cs[u] = "in" /\ pc[u] = "clear" /\ ro[u] = NoSlot
      /\ UNCHANGED <<objects, alive, setting, faults>>
  BY DEF ClearUnlink, Inside, LockInv, EarlyInv, registry
<1>2. FindByName(objects, objects_max_index, name[u]) = NoSlot
  BY <1>1, FindByNameFinds, ClearFindsNothing DEF LockInv, TypeOK
<1>3. /\ pc' = [pc EXCEPT ![u] = "idle"] /\ cs' = [cs EXCEPT ![u] = "done"]
      /\ name' = [name EXCEPT ![u] = NoName] /\ UNCHANGED <<os, map, ro>>
  BY <1>2 DEF ClearUnlink, Goto, Phase
<1>4. OthersStay(u) /\ pc'[u] = "idle" /\ cs'[u] = "done"
  BY <1>3 DEF OthersStay, LockInv, TypeOK
<1>5. ~Linked(u) /\ ~Linked(u)'
  BY <1>1, <1>3 DEF Linked
<1>6. Life'
  BY <1>1, <1>3, <1>4, <1>5, QuietStep
<1> QED
  BY <1>1, <1>4, <1>6, MidKept

LEMMA LifeInvInit == Init => LifeInv
<1> SUFFICES ASSUME Init PROVE LifeInv
  OBVIOUS
<1>1. \A u \in Users : ~Linked(u) /\ pc[u] = "idle" /\ cs[u] = "out" /\ alive[u] /\ map[u] = "none"
  BY DEF Init, Linked
<1>2. (\A s \in Slots : objects[s].count = 0) /\ \A n \in SysNames : os[n] = "absent"
  BY DEF Init, EmptyObject
<1> QED
  BY <1>1, <1>2 DEF LifeInv, Life, MapInv, MidInv, OwnerInv, OsInv, OrphanInv

LEMMA LifeInvNext ==
    ASSUME "init" \notin Faults, ~Crashes, RTAIDistinct, LockInv, RegistryInv, LifeInv,
           [Next]_vars, "attach_map" \notin faults'
    PROVE  LifeInv'
<1>1. CASE UNCHANGED vars
  <2>1. \A u : Linked(u)' <=> Linked(u)
    BY <1>1 DEF vars, Linked, OnRTAI, FreesFirst, KindOf
  <2>2. (\A n : SysName(n)' = SysName(n)) /\ (\A n : FreesFirst(n)' = FreesFirst(n)) /\ OnRTAI' = OnRTAI
    BY <1>1 DEF vars, SysName, FreesFirst, OnRTAI, KindOf
  <2>3. MapInv' /\ MidInv'
    BY <1>1, <2>1, <2>2 DEF vars, LifeInv, Life, MapInv, MidInv
  <2>4. OwnerInv' /\ OsInv'
    BY <1>1, <2>1, <2>2 DEF vars, LifeInv, Life, OwnerInv, OsInv
  <2>5. OrphanInv'
    BY <1>1, <2>1, <2>2 DEF vars, LifeInv, Life, OrphanInv
  <2> QED
    BY <2>3, <2>4, <2>5 DEF LifeInv, Life
<1>2. ASSUME NEW u \in Users, ClearSlot(u) PROVE FALSE
  BY <1>2, ClearFindsNothing DEF ClearSlot, Inside
<1>3. ASSUME NEW u \in Users, Crash(u) PROVE FALSE
  BY <1>3 DEF Crash
<1>4. ASSUME Recover PROVE FALSE
  BY <1>4 DEF Recover, LifeInv, Life, MapInv
<1>5. ASSUME NEW u \in Users, Size(u) \/ FreeShm(u) \/ DecTail(u) \/ ClearUnlink(u) PROVE LifeInv'
  BY <1>5, LifeSize, LifeFrees, LifeReleases, LifeClears
<1>6. ASSUME NEW u \in Users, ReserveSlot(u) \/ Lookup(u) \/ Commit(u) \/ DecHead(u) PROVE LifeInv'
  BY <1>6, LifeReserves, LifeLookup, LifeCommits, LifeDrops
<1> QED
  BY <1>1, <1>2, <1>3, <1>4, <1>5, <1>6, LifeCalls, LifeOpens, LifeAttaches DEF Next, Proceed

\* A call that failed once stays among those that failed.
LEMMA FaultsGrow == [Next]_vars => faults \subseteq faults'
<1> SUFFICES ASSUME [Next]_vars PROVE faults \subseteq faults'
  OBVIOUS
<1>1. ASSUME NEW u \in Users, NEW n \in Names, New(u, n) \/ Attach(u, n) \/ Clear(u, n)
      PROVE  faults \subseteq faults'
  BY <1>1 DEF New, Attach, Clear
<1>2. ASSUME NEW u \in Users,
             \/ Delete(u) \/ Crash(u) \/ Acquire(u) \/ Post(u) \/ ReserveSlot(u) \/ ReserveMax(u) \/ Fill(u)
             \/ Commit(u) \/ Lookup(u) \/ FreeShm(u) \/ DecHead(u) \/ DecTail(u)
             \/ ClearUnlink(u) \/ ClearSlot(u) \/ CheckShm(u)
      PROVE  faults \subseteq faults'
  BY <1>2 DEF Delete, Crash, Acquire, Post, ReserveSlot, ReserveMax, Fill, Commit, Lookup, FreeShm,
              DecHead, DecTail, ClearUnlink, ClearSlot, CheckShm
<1>3. ASSUME NEW u \in Users,
             \/ OpenSem(u) \/ OpenMem(u) \/ OpenNamed(u) \/ AllocShm(u) \/ Size(u) \/ InitLock(u)
             \/ AttachSem(u) \/ AttachMem(u) \/ AttachNamed(u) \/ AttachShm(u)
      PROVE  faults \subseteq faults'
  BY <1>3 DEF OpenSem, OpenMem, OpenNamed, AllocShm, Size, InitLock, OpenExclusive, AttachSem,
              AttachMem, AttachNamed, AttachShm, OpenExisting, Fault
<1>4. CASE Recover \/ UNCHANGED vars
  BY <1>4 DEF Recover, vars
<1> QED
  BY <1>1, <1>2, <1>3, <1>4 DEF Next, Proceed

LEMMA ObjectInvHolds ==
    ASSUME ~EarlyAttach, "init" \notin Faults, ~Crashes, RTAIDistinct
    PROVE  Spec => [](LockInv /\ RegistryInv /\ ObjectInv)
<1>1. Init => ObjectInv
  BY LifeInvInit DEF ObjectInv
<1>2. LockInv /\ RegistryInv /\ ObjectInv /\ [Next]_vars => ObjectInv'
  BY LifeInvNext, FaultsGrow DEF ObjectInv
<1> QED
  BY <1>1, <1>2, RegistryInvHolds, PTL DEF Spec

-----------------------------------------------------------------------------
\* Until the mapping of an attachment fails, whoever was given a handle has the
\* slot registered under its name and the object that others attach to under
\* that name: no deletion, failed creation or other spelling of the name takes
\* it away, on either back-end, where nobody dies or attaches early, no shared
\* lock fails to initialise, and RTAI tells the names apart.
THEOREM HandleValidHolds ==
    ASSUME ~EarlyAttach, "init" \notin Faults, ~Crashes, RTAIDistinct
    PROVE  Spec => []HandleValid
<1>1. ASSUME LockInv, RegistryInv, ObjectInv PROVE HandleValid
  <2> SUFFICES ASSUME "attach_map" \notin faults, NEW u \in Users, alive[u], Holds(u)
               PROVE  /\ InUse(objects[ro[u]]) /\ objects[ro[u]].name = name[u]
                      /\ map[u] = "linked" /\ os[SysName(name[u])] = "ready"
    BY DEF HandleValid
  <2>1. LifeInv
    BY <1>1 DEF ObjectInv
  <2>2. Linked(u) /\ cs[u] # "mid" /\ pc[u] # "size"
    BY DEF Holds, Linked
  <2>3. objects[ro[u]].name = name[u] /\ (objects[ro[u]].count > 0 \/ objects[ro[u]].reserved)
    BY <1>1, <2>1, <2>2, LinkedSlots DEF LifeInv, Life
  <2>4. map[u] = "linked" /\ os[SysName(name[u])] = "ready"
    BY <2>1, <2>2 DEF LifeInv, Life, MapInv, OsInv
  <2> QED
    BY <2>3, <2>4 DEF InUse
<1> QED
  BY <1>1, ObjectInvHolds, PTL

\* Under the same conditions an object of the operating system exists only
\* under a registered name whenever the registry can be entered: deletions and
\* failing creations leave none behind.
THEOREM NoOrphanHolds ==
    ASSUME ~EarlyAttach, "init" \notin Faults, ~Crashes, RTAIDistinct
    PROVE  Spec => []("attach_map" \notin faults => NoOrphan)
<1>1. ASSUME LockInv, RegistryInv, ObjectInv PROVE "attach_map" \notin faults => NoOrphan
  <2> SUFFICES ASSUME "attach_map" \notin faults, gsem = 1, "attach_open" \notin faults,
                      NEW n \in SysNames, os[n] # "absent"
               PROVE  \E s \in Slots : InUse(objects[s]) /\ SysName(objects[s].name) = n
    BY DEF NoOrphan
  <2>1. LifeInv
    BY <1>1 DEF ObjectInv
  <2>2. CASE \E u \in Users : Linked(u) /\ SysName(name[u]) = n
    <3>1. PICK u \in Users : Linked(u) /\ SysName(name[u]) = n
      BY <2>2
    <3>2. cs[u] = "out"
      BY <1>1, <2>1 DEF LockInv, MutualExclusion, LifeInv, Life, MapInv
    <3>3. /\ ro[u] \in Slots /\ objects[ro[u]].name = name[u]
          /\ objects[ro[u]].count > 0 \/ objects[ro[u]].reserved
      BY <1>1, <2>1, <3>1, <3>2, LinkedSlots DEF LifeInv, Life
    <3> QED
      BY <3>1, <3>3 DEF InUse
  <2>3. CASE \E s \in Slots : objects[s].count > 0 /\ SysName(objects[s].name) = n
    BY <2>3 DEF InUse
  <2> QED
    BY <2>1, <2>2, <2>3 DEF LifeInv, Life, OrphanInv
<1> QED
  BY <1>1, ObjectInvHolds, PTL

-----------------------------------------------------------------------------
(* Handles where users die: what HandleValid promises the living holds     *)
(* under POSIX, as long as the names are distinct to the operating system, *)
(* wherever in a call, a clearing included, others die.                    *)

PosixDistinct ==
    \A c \in Settings :
        /\ c.backend = "posix"
        /\ \A m, n \in Names : c.sysname[m] = c.sysname[n] => m = n

\* Who lives and has its object mapped has the object of the name, as large as
\* its creation has made it so far; a semaphore is made at once.
LiveMap ==
    /\ \A u \in Users : alive[u] => pc[u] # "free"
    /\ \A u \in Users : alive[u] /\ Linked(u) =>
         /\ map[u] = "linked"
         /\ os[SysName(name[u])] = IF pc[u] = "size" THEN "empty" ELSE "ready"
    /\ \A n \in Names : KindOf(n) = Sem => os[SysName(n)] # "empty"

\* What MidInv says, of the living.
LiveMid ==
    \A u \in Users : alive[u] /\ cs[u] = "mid" /\ pc[u] \in {"detach", "abort", "giveup"} =>
        /\ objects[ro[u]].name = name[u]
        /\ \A t \in Slots : InUse(objects[t]) /\ objects[t].name = name[u] => t = ro[u]

\* It holds until an attachment cannot map its object, and unlinks it.
LiveInv == "attach_map" \notin faults => LiveMap /\ LiveMid

\* What the setting says, and that the names of the system are its own.
LEMMA PosixFacts ==
    ASSUME PosixDistinct, LockInv
    PROVE  /\ ~OnRTAI /\ \A n : ~FreesFirst(n)
           /\ \A n \in Names : SysName(n) \in SysNames /\ KindOf(n) \in {Mem, Sem, Lock}
           /\ \A m, n \in Names : SysName(m) = SysName(n) => m = n
           /\ \A u : Linked(u) <=> ro[u] # NoSlot /\ pc[u] \in {"init", "fill", "commit", "idle", "free", "size", "detach"}
<1>1. setting \in Settings
  BY DEF LockInv, TypeOK
<1>2. setting \in [backend : {"posix", "rtai"}, kind : [Names -> Kinds], sysname : [Names -> SysNames]]
  BY <1>1, SettingsAssumption
<1>3. ~OnRTAI /\ \A n : ~FreesFirst(n)
  BY <1>1 DEF PosixDistinct, OnRTAI, FreesFirst
<1>4. \A n \in Names : SysName(n) \in SysNames /\ KindOf(n) \in {Mem, Sem, Lock}
  BY <1>2, SettingsAssumption DEF SysName, KindOf
<1>5. \A m, n \in Names : SysName(m) = SysName(n) => m = n
  BY <1>1 DEF PosixDistinct, SysName
<1> QED
  BY <1>3, <1>4, <1>5 DEF Linked

\* The same after a step, in which the setting stays.
LEMMA PosixStays ==
    ASSUME PosixDistinct, LockInv, setting' = setting
    PROVE  /\ \A n : SysName(n)' = SysName(n) /\ KindOf(n)' = KindOf(n)
           /\ \A u : Linked(u)' <=> ro'[u] # NoSlot /\ pc'[u] \in {"init", "fill", "commit", "idle", "free", "size", "detach"}
<1>1. ~OnRTAI
  BY PosixFacts
<1> QED
  BY <1>1 DEF SysName, KindOf, Linked, OnRTAI, FreesFirst

\* Who lives and has its object mapped has the slot.
LEMMA LiveSlots ==
    ASSUME PosixDistinct, LockInv, RegistryInv, LiveMid, NEW u \in Users, alive[u], Linked(u), pc[u] # "free"
    PROVE  /\ ro[u] \in Slots /\ name[u] \in Names /\ objects[ro[u]].name = name[u]
           /\ \/ Counts(u, ro[u]) /\ objects[ro[u]].count > 0
              \/ Reserves(u, ro[u]) /\ objects[ro[u]].reserved
              \/ pc[u] = "detach" /\ cs[u] = "mid"
<1>1. ro[u] # NoSlot /\ pc[u] \in {"init", "fill", "commit", "idle", "size", "detach"}
  BY PosixFacts
<1>2. ro[u] \in Slots /\ name[u] \in Names
  BY <1>1 DEF LockInv, TypeOK, NameInv
<1>3. \/ Counts(u, ro[u]) \/ Reserves(u, ro[u])
      \/ pc[u] = "detach" /\ cs[u] = "mid"
  BY <1>1 DEF Counts, Reserves, RegistryInv, SlotInv
<1>4. Counts(u, ro[u]) => objects[ro[u]].count > 0
  BY <1>2, CountedSlots
<1>5. Reserves(u, ro[u]) => objects[ro[u]].reserved
  BY <1>2 DEF RegistryInv, ReservationOwned
<1>6. objects[ro[u]].name = name[u]
  BY <1>2, <1>3 DEF RegistryInv, SlotInv, LiveMid
<1> QED
  BY <1>2, <1>3, <1>4, <1>5, <1>6

\* A step in which nobody enters the middle of a release.
LEMMA LiveMidKept ==
    ASSUME LiveMid,
           \A t \in Slots : objects'[t].name = objects[t].name /\ (InUse(objects'[t]) <=> InUse(objects[t])),
           \A v \in Users : alive'[v] /\ cs'[v] = "mid" /\ pc'[v] \in {"detach", "abort", "giveup"} =>
              /\ alive[v] /\ cs[v] = "mid" /\ pc[v] = pc'[v]
              /\ name'[v] = name[v] /\ ro'[v] = ro[v] /\ ro[v] \in Slots
    PROVE  LiveMid'
BY DEF LiveMid

\* A step that leaves the objects of the operating system alone.
LEMMA LiveMapKept ==
    ASSUME PosixDistinct, LockInv, LiveMap, UNCHANGED <<os, map, setting>>,
           \A v \in Users : alive'[v] => alive[v] /\ pc'[v] # "free",
           \A v \in Users : alive'[v] /\ Linked(v)' =>
              Linked(v) /\ name'[v] = name[v] /\ (pc'[v] = "size" <=> pc[v] = "size")
    PROVE  LiveMap'
BY PosixStays DEF LiveMap

\* Steps that leave the names and the use of all slots as they are.
LEMMA LiveMidOutside ==
    ASSUME LockInv, RegistryInv, LiveMid, NEW u \in Users,
           \/ \E n \in Names : New(u, n) \/ Attach(u, n) \/ Clear(u, n)
           \/ Delete(u) \/ Crash(u) \/ Acquire(u) \/ Post(u) \/ ReserveMax(u) \/ Fill(u)
           \/ OpenSem(u) \/ OpenMem(u) \/ Size(u) \/ InitLock(u)
           \/ AttachSem(u) \/ AttachMem(u) \/ DecTail(u) \/ ClearUnlink(u)
    PROVE  LiveMid'
<1>1. objects \in [Slots -> RegisteredObject] /\ pc \in [Users -> Locking \cup Unlocked]
      /\ cs \in [Users -> {"out", "in", "mid", "done"}] /\ name \in [Users -> Names \cup {NoName}]
      /\ ro \in [Users -> Slots \cup {NoSlot}] /\ alive \in [Users -> BOOLEAN]
  BY DEF LockInv, TypeOK
<1>2. \A t \in Slots : objects'[t].name = objects[t].name /\ (InUse(objects'[t]) <=> InUse(objects[t]))
  <2>1. CASE Fill(u)
    <3>1. objects' = [objects EXCEPT ![ro[u]].type = KindOf(name[u])]
      BY <2>1 DEF Fill
    <3> QED
      BY <1>1, <3>1 DEF InUse, RegisteredObject
  <2>2. CASE ~Fill(u)
    <3>1. objects' = objects
      BY <2>2 DEF New, Attach, Clear, Delete, Crash, Acquire, Post, ReserveMax, OpenSem, OpenMem, Size, InitLock,
                  AttachSem, AttachMem, OpenExisting, DecTail, ClearUnlink, registry
    <3> QED
      BY <3>1
  <2> QED
    BY <2>1, <2>2
<1>3. ASSUME NEW v \in Users, alive'[v], cs'[v] = "mid", pc'[v] \in {"detach", "abort", "giveup"}
      PROVE  /\ alive[v] /\ cs[v] = "mid" /\ pc[v] = pc'[v]
             /\ name'[v] = name[v] /\ ro'[v] = ro[v]
  <2>1. CASE \/ \E n \in Names : New(u, n) \/ Attach(u, n) \/ Clear(u, n)
             \/ Delete(u) \/ Crash(u) \/ Acquire(u) \/ Post(u) \/ ReserveMax(u) \/ Fill(u)
    BY <1>1, <1>3, <2>1 DEF New, Attach, Clear, Delete, Crash, Acquire, Post, ReserveMax, Fill, At, Inside,
                            Goto, Phase
  <2>2. CASE OpenSem(u) \/ OpenMem(u) \/ Size(u) \/ InitLock(u)
    <3>1. cs[u] = "out" /\ UNCHANGED <<cs, name, ro, alive>> /\ \A w \in Users \ {u} : pc'[w] = pc[w]
      BY <1>1, <2>2 DEF OpenSem, OpenMem, Size, InitLock, OpenExclusive, CreateFails, At, Goto
    <3> QED
      BY <1>3, <3>1
  <2>3. CASE AttachSem(u) \/ AttachMem(u)
    <3>1. cs[u] = "out" /\ UNCHANGED <<cs, name, ro, alive>> /\ \A w \in Users \ {u} : pc'[w] = pc[w]
      BY <1>1, <2>3 DEF AttachSem, AttachMem, OpenExisting, At, Goto
    <3> QED
      BY <1>3, <3>1
  <2>4. CASE DecTail(u)
    BY <1>1, <1>3, <2>4 DEF DecTail, Goto, Phase
  <2>5. CASE ClearUnlink(u)
    BY <1>1, <1>3, <2>5 DEF ClearUnlink, Inside, Goto, Phase
  <2> QED
    BY <2>1, <2>2, <2>3, <2>4, <2>5
<1>4. ASSUME NEW v \in Users, alive'[v], cs'[v] = "mid", pc'[v] \in {"detach", "abort", "giveup"}
      PROVE  ro[v] \in Slots
  <2>1. alive[v] /\ pc[v] \in {"detach", "abort", "giveup"}
    BY <1>3, <1>4
  <2>2. ro[v] # NoSlot
    BY <2>1 DEF RegistryInv, SlotInv, Counting, Reserving
  <2> QED
    BY <1>1, <2>2
<1> QED
  BY <1>2, <1>3, <1>4, LiveMidKept

\* Steps by which a slot changes hands: the registry is the user's own.
LEMMA LiveMidInside ==
    ASSUME LockInv, RegistryInv, LiveMid, NEW u \in Users,
           ReserveSlot(u) \/ Commit(u) \/ Lookup(u) \/ DecHead(u) \/ ClearSlot(u)
    PROVE  LiveMid'
<1>1. objects \in [Slots -> RegisteredObject] /\ pc \in [Users -> Locking \cup Unlocked]
      /\ cs \in [Users -> {"out", "in", "mid", "done"}] /\ ro \in [Users -> Slots \cup {NoSlot}]
  BY DEF LockInv, TypeOK
<1>2. alive[u] /\ cs[u] \in {"in", "mid"} /\ alive' = alive /\ \A v \in Users \ {u} : cs'[v] = cs[v]
  BY <1>1 DEF ReserveSlot, Commit, Lookup, DecHead, ClearSlot, Inside, Phase
<1>3. \A v \in Users \ {u} : alive[v] => cs[v] = "out"
  BY <1>2 DEF LockInv, MutualExclusion
<1>4. CASE ReserveSlot(u) \/ Commit(u) \/ Lookup(u) \/ ClearSlot(u)
  <2>1. cs'[u] # "mid" \/ pc'[u] = "reserve"
    BY <1>1, <1>4 DEF ReserveSlot, Commit, Lookup, ClearSlot, Inside, Phase
  <2> QED
    BY <1>2, <1>3, <2>1 DEF LiveMid
<1>5. CASE DecHead(u)
  <2>1. /\ pc[u] \in {"detach", "abort", "giveup"} /\ cs[u] = "in"
        /\ objects' = [objects EXCEPT ![ro[u]] = DecCount(@)]
        /\ UNCHANGED <<pc, name, ro>>
    BY <1>5 DEF DecHead, DecSlot, RegistryInv, SlotInv
  <2>2. ro[u] \in Slots /\ (Counts(u, ro[u]) \/ Reserves(u, ro[u]))
    BY <1>1, <1>2, <2>1 DEF RegistryInv, SlotInv, Counting, Reserving, Counts, Reserves
  <2>3. objects[ro[u]].name = name[u]
    BY <2>2 DEF RegistryInv, SlotInv
  <2>4. InUse(objects[ro[u]])
    BY <2>2, CountedSlots DEF RegistryInv, ReservationOwned, InUse
  <2>5. \A t \in Slots : objects'[t].name = objects[t].name /\ (t # ro[u] => objects'[t] = objects[t])
    BY <1>1, <2>1 DEF DecCount, RegisteredObject
  <2>6. \A t \in Slots : InUse(objects'[t]) /\ objects'[t].name = name[u] => t = ro[u]
    BY <2>2, <2>3, <2>4, <2>5 DEF RegistryInv, UniqueNames
  <2> QED
    BY <1>2, <1>3, <2>1, <2>2, <2>3, <2>5, <2>6 DEF LiveMid
<1> QED
  BY <1>4, <1>5

\* Steps that leave the objects of the operating system alone.
LEMMA LiveMapQuiet ==
    ASSUME PosixDistinct, "init" \notin Faults, LockInv, RegistryInv, LiveMap, NEW u \in Users,
           \/ \E n \in Names : New(u, n) \/ Attach(u, n) \/ Clear(u, n)
           \/ Delete(u) \/ Crash(u) \/ Acquire(u) \/ Post(u)
           \/ ReserveSlot(u) \/ ReserveMax(u) \/ InitLock(u) \/ Fill(u) \/ Commit(u)
           \/ Lookup(u) \/ DecHead(u) \/ ClearSlot(u)
    PROVE  LiveMap'
<1>1. /\ pc \in [Users -> Locking \cup Unlocked] /\ name \in [Users -> Names \cup {NoName}]
      /\ ro \in [Users -> Slots \cup {NoSlot}] /\ alive \in [Users -> BOOLEAN]
  BY DEF LockInv, TypeOK
<1>2. UNCHANGED <<os, map, setting>>
  BY DEF New, Attach, Clear, Delete, Crash, Acquire, Post, ReserveSlot, ReserveMax, InitLock, Fill, Commit,
         Lookup, DecHead, ClearSlot
<1> DEFINE Mapped == {"init", "fill", "commit", "idle", "free", "size", "detach"}
<1>3. /\ \A v : Linked(v) <=> ro[v] # NoSlot /\ pc[v] \in Mapped
      /\ \A v : Linked(v)' <=> ro'[v] # NoSlot /\ pc'[v] \in Mapped
      /\ \A n : ~FreesFirst(n)
  BY <1>2, PosixFacts, PosixStays
<1>4. ASSUME NEW v \in Users, alive'[v]
      PROVE  /\ alive[v] /\ pc'[v] # "free"
             /\ ro'[v] # NoSlot /\ pc'[v] \in Mapped =>
                  /\ ro[v] # NoSlot /\ pc[v] \in Mapped /\ name'[v] = name[v]
                  /\ pc'[v] = "size" <=> pc[v] = "size"
  <2>1. alive[v] => pc[v] # "free"
    BY DEF LiveMap
  <2>2. CASE \/ \E n \in Names : New(u, n) \/ Attach(u, n) \/ Clear(u, n)
             \/ Delete(u) \/ Crash(u) \/ Acquire(u) \/ Post(u)
    BY <1>1, <1>3, <1>4, <2>1, <2>2 DEF New, Attach, Clear, Delete, Crash, Acquire, Post, At, Goto
  <2>3. CASE ReserveSlot(u) \/ Lookup(u)
    <3>1. /\ alive' = alive /\ pc'[u] \in {"reserve", "idle", "attach"}
          /\ pc'[u] = "idle" => ro'[u] = ro[u]
          /\ \A w \in Users \ {u} : pc'[w] = pc[w] /\ name'[w] = name[w] /\ ro'[w] = ro[w]
      BY <1>1, <2>3 DEF ReserveSlot, Lookup, Inside, Goto
    <3>2. ro[u] = NoSlot
      BY <2>3 DEF ReserveSlot, Lookup, Inside, LockInv, EarlyInv
    <3> QED
      BY <1>4, <2>1, <3>1, <3>2
  <2>4. CASE ReserveMax(u) \/ Fill(u) \/ Commit(u) \/ DecHead(u)
    BY <1>1, <1>4, <2>1, <2>4 DEF ReserveMax, Fill, Commit, DecHead, At, Inside, Goto
  <2>5. CASE InitLock(u)
    BY <1>1, <1>4, <2>1, <2>5 DEF InitLock, Fault, At, Goto
  <2>6. CASE ClearSlot(u)
    <3>1. alive' = alive /\ ro'[u] = NoSlot
          /\ pc'[u] = "idle"
          /\ \A w \in Users \ {u} : /\ pc'[w] = pc[w] /\ name'[w] = name[w]
                                    /\ ro'[w] = ro[w] \/ ro'[w] = NoSlot
      BY <1>1, <2>6 DEF ClearSlot, Goto
    <3> QED
      BY <1>4, <2>1, <3>1
  <2> QED
    BY <2>2, <2>3, <2>4, <2>5, <2>6
<1> QED
  BY <1>2, <1>3, <1>4, LiveMapKept

\* A creation or an attachment opens its object: one made is nobody else's.
LEMMA LiveMapOpens ==
    ASSUME PosixDistinct, LockInv, LiveMap, NEW u \in Users,
           OpenSem(u) \/ OpenMem(u) \/ AttachSem(u) \/ (AttachMem(u) /\ os' = os)
    PROVE  LiveMap'
<1> DEFINE n == SysName(name[u])
<1>1. /\ pc \in [Users -> Locking \cup Unlocked] /\ map \in [Users -> {"none", "linked", "unlinked"}]
      /\ os \in [SysNames -> {"absent", "empty", "ready"}] /\ alive \in [Users -> BOOLEAN]
  BY DEF LockInv, TypeOK
<1>2. UNCHANGED <<setting, name, ro, alive>> /\ alive[u] /\ pc[u] \in {"open", "attach"}
  BY DEF OpenSem, OpenMem, AttachSem, AttachMem, OpenExisting, At
<1>3. name[u] \in Names /\ n \in SysNames
  BY <1>2, PosixFacts DEF LockInv, NameInv
<1>4. \A v : Linked(v)' <=> ro'[v] # NoSlot /\ pc'[v] \in {"init", "fill", "commit", "idle", "free", "size", "detach"}
  BY <1>2, PosixStays
<1>5. \/ pc'[u] \in {"abort", "giveup"} /\ UNCHANGED <<os, map>>
      \/ /\ pc'[u] \in {"fill", "size", "idle"} /\ map' = [map EXCEPT ![u] = "linked"]
         /\ os'[n] = IF pc'[u] = "size" THEN "empty" ELSE "ready"
         /\ os' = os \/ (os[n] = "absent" /\ os' = [os EXCEPT ![n] = os'[n]])
         /\ pc'[u] = "size" => KindOf(name[u]) # Sem
  <2>1. CASE OpenSem(u)
    BY <1>1, <1>3, <2>1 DEF OpenSem, OpenExclusive, CreateFails, Goto
  <2>2. CASE OpenMem(u)
    BY <1>1, <1>3, <2>2 DEF OpenMem, OpenExclusive, CreateFails, Goto
  <2>3. CASE AttachSem(u)
    <3>1. os[n] # "empty"
      BY <1>3, <2>3 DEF AttachSem, LiveMap
    <3> QED
      BY <1>1, <1>3, <2>3, <3>1 DEF AttachSem, OpenExisting, Goto
  <2>4. CASE AttachMem(u) /\ os' = os
    <3>1. CASE /\ os[SysName(name[u])] = "empty"
               /\ Unlink(name[u], u, "none")
      BY <1>1, <1>3, <2>4, <3>1 DEF Unlink
    <3>2. CASE /\ os[SysName(name[u])] # "absent"
               /\ Unlink(name[u], u, "none")
      BY <1>1, <1>3, <2>4, <3>2 DEF Unlink
    <3> QED
      BY <1>1, <1>3, <2>4, <3>1, <3>2 DEF AttachMem, Goto
  <2> QED
    BY <2>1, <2>2, <2>3, <2>4
<1>6. \A v \in Users \ {u} : pc'[v] = pc[v]
  BY <1>1 DEF OpenSem, OpenMem, OpenExclusive, CreateFails, AttachSem, AttachMem, OpenExisting, Goto
<1>7. \A v \in Users \ {u} : Linked(v)' <=> Linked(v)
  BY <1>2, <1>4, <1>6, PosixFacts
<1>8. \A m : SysName(m)' = SysName(m) /\ KindOf(m)' = KindOf(m)
  BY <1>2, PosixStays
<1>9. \A v \in Users : alive[v] => pc'[v] # "free"
  BY <1>5, <1>6 DEF LiveMap
<1>10. ASSUME NEW v \in Users, alive[v], Linked(v)'
       PROVE  map'[v] = "linked" /\ os'[SysName(name[v])] = IF pc'[v] = "size" THEN "empty" ELSE "ready"
  <2>1. CASE v = u
    BY <1>1, <1>4, <1>5, <1>10, <2>1
  <2>2. CASE v # u
    <3>1. Linked(v) /\ map[v] = "linked" /\ os[SysName(name[v])] = IF pc[v] = "size" THEN "empty" ELSE "ready"
      BY <1>7, <1>10, <2>2 DEF LiveMap
    <3>2. map'[v] = map[v]
      BY <1>1, <1>5, <2>2
    <3>3. os'[SysName(name[v])] = os[SysName(name[v])]
      <4>1. CASE os' = os
        BY <4>1
      <4>2. CASE os[n] = "absent" /\ os' = [os EXCEPT ![n] = os'[n]]
        <5>1. SysName(name[v]) # n
          BY <3>1, <4>2
        <5>2. SysName(name[v]) \in SysNames
          <6>1. name[v] \in Names
            BY <3>1 DEF LockInv, NameInv, Linked
          <6> QED
            BY <6>1, PosixFacts
        <5> QED
          BY <1>1, <4>2, <5>1, <5>2
      <4> QED
        BY <1>5, <4>1, <4>2
    <3> QED
      BY <1>6, <2>2, <3>1, <3>2, <3>3
  <2> QED
    BY <2>1, <2>2
<1>11. ASSUME NEW m \in Names, KindOf(m) = Sem PROVE os'[SysName(m)] # "empty"
  <2>1. os[SysName(m)] # "empty" /\ SysName(m) \in SysNames
    BY <1>11, PosixFacts DEF LiveMap
  <2>2. m = name[u] \/ SysName(m) # n
    BY <1>3, PosixFacts
  <2> QED
    BY <1>1, <1>5, <1>11, <2>1, <2>2
<1> QED
  BY <1>2, <1>8, <1>9, <1>10, <1>11 DEF LiveMap

\* u is left without its mapping; the object goes with it or stays.
LEMMA LiveMapLeaves ==
    ASSUME PosixDistinct, LockInv, LiveMap, NEW u \in Users, NEW n \in Names,
           \/ Unmap(u, "none")
           \/ /\ Unlink(n, u, "none")
              /\ \A v \in Users \ {u} : alive[v] /\ Linked(v) => name[v] # n,
           setting' = setting, alive' = alive, ~Linked(u)', pc'[u] # "free",
           \A v \in Users \ {u} : pc'[v] = pc[v] /\ name'[v] = name[v] /\ ro'[v] = ro[v]
    PROVE  LiveMap'
<1>1. /\ map \in [Users -> {"none", "linked", "unlinked"}] /\ os \in [SysNames -> {"absent", "empty", "ready"}]
  BY DEF LockInv, TypeOK
<1>2. \A v \in Users \ {u} : Linked(v)' <=> Linked(v)
  BY PosixFacts, PosixStays
<1>3. \A m : SysName(m)' = SysName(m) /\ KindOf(m)' = KindOf(m)
  BY PosixStays
<1>4. \A v \in Users : alive[v] => pc'[v] # "free"
  BY DEF LiveMap
<1>5. ASSUME NEW v \in Users, alive[v], Linked(v)'
      PROVE  map'[v] = "linked" /\ os'[SysName(name'[v])] = IF pc'[v] = "size" THEN "empty" ELSE "ready"
  <2>1. v # u /\ Linked(v)
    BY <1>2, <1>5
  <2>2. map[v] = "linked" /\ os[SysName(name[v])] = IF pc[v] = "size" THEN "empty" ELSE "ready"
    BY <1>5, <2>1 DEF LiveMap
  <2>3. name[v] \in Names /\ SysName(name[v]) \in SysNames
    <3>1. name[v] \in Names
      BY <2>1 DEF LockInv, NameInv, Linked
    <3> QED
      BY <3>1, PosixFacts
  <2>4. map'[v] = map[v] /\ os'[SysName(name[v])] = os[SysName(name[v])]
    <3>1. CASE Unmap(u, "none")
      BY <1>1, <2>1, <3>1 DEF Unmap
    <3>2. CASE Unlink(n, u, "none") /\ \A w \in Users \ {u} : alive[w] /\ Linked(w) => name[w] # n
      <4>1. name[v] # n
        BY <1>5, <2>1, <3>2
      <4>2. SysName(name[v]) # SysName(n)
        BY <2>3, <4>1, PosixFacts
      <4> QED
        BY <1>1, <2>1, <2>3, <3>2, <4>2 DEF Unlink, Maps
    <3> QED
      BY <3>1, <3>2
  <2> QED
    BY <2>1, <2>2, <2>4
<1>6. ASSUME NEW m \in Names, KindOf(m) = Sem PROVE os'[SysName(m)] # "empty"
  <2>1. os[SysName(m)] # "empty" /\ SysName(m) \in SysNames
    BY <1>6, PosixFacts DEF LiveMap
  <2> QED
    BY <1>1, <2>1 DEF Unlink, Unmap
<1> QED
  BY <1>3, <1>4, <1>5, <1>6 DEF LiveMap

\* Two users with objects mapped under one name have the same slot.
LEMMA LiveSameSlot ==
    ASSUME PosixDistinct, LockInv, RegistryInv, LiveMid, LiveMap, NEW v \in Users, alive[v], Linked(v),
           NEW s \in Slots, InUse(objects[s]), objects[s].name = name[v], cs[v] # "mid"
    PROVE  ro[v] = s
<1>1. pc[v] # "free"
  BY DEF LiveMap
<1>2. ro[v] \in Slots /\ objects[ro[v]].name = name[v] /\ (objects[ro[v]].count > 0 \/ objects[ro[v]].reserved)
  BY <1>1, LiveSlots
<1> QED
  BY <1>2 DEF InUse, RegistryInv, UniqueNames

\* A user whose object is not complete yet is alone with it.
LEMMA LiveCreatorAlone ==
    ASSUME PosixDistinct, LockInv, RegistryInv, LiveMid, LiveMap, NEW u \in Users, At(u, "size") \/ At(u, "attach"),
           NEW v \in Users \ {u}, alive[v], Linked(v), name[v] = name[u],
           At(u, "attach") => os[SysName(name[u])] = "empty"
    PROVE  FALSE
<1>0. ro[u] # NoSlot
  BY DEF At, RegistryInv, SlotInv, Counting, Reserving
<1>1. ro[u] \in Slots /\ (Counts(u, ro[u]) \/ Reserves(u, ro[u]))
  BY <1>0 DEF At, LockInv, TypeOK, Counts, Reserves
<1>2. objects[ro[u]].name = name[u]
  BY <1>1 DEF RegistryInv, SlotInv
<1>3. InUse(objects[ro[u]])
  BY <1>1, CountedSlots DEF RegistryInv, ReservationOwned, InUse
<1>4. CASE cs[v] # "mid"
  <2>1. ro[v] = ro[u]
    BY <1>1, <1>2, <1>3, <1>4, LiveSameSlot
  <2>2. pc[v] # "free"
    BY DEF LiveMap
  <2>3. Counts(v, ro[u]) \/ Reserves(v, ro[u])
    BY <1>4, <2>1, <2>2, LiveSlots
  <2>4. CASE At(u, "size")
    <3>1. Reserves(u, ro[u]) /\ objects[ro[u]].reserved /\ objects[ro[u]].count = 0
      BY <1>1, <2>4 DEF At, Reserves, Counts, RegistryInv, ReservationOwned
    <3>2. ~Counts(v, ro[u])
      BY <1>1, <3>1, CountedSlots
    <3> QED
      BY <1>1, <2>3, <3>1, <3>2 DEF RegistryInv, ReservationOwned
  <2>5. CASE At(u, "attach")
    <3>1. objects[ro[u]].count > 0
      BY <1>1, <2>5, CountedSlots DEF At, Counts, Reserves
    <3>2. ~Reserves(v, ro[u])
      BY <1>1, <3>1 DEF RegistryInv, ReservationOwned
    <3>3. pc[v] # "size"
      BY <2>3, <3>2 DEF Counts
    <3>4. os[SysName(name[v])] = "ready"
      BY <3>3 DEF LiveMap
    <3> QED
      BY <2>5, <3>4
  <2> QED
    BY <2>4, <2>5
<1>5. CASE cs[v] = "mid"
  <2>1. pc[v] = "detach"
    BY <1>5, PosixFacts DEF RegistryInv, SlotInv
  <2>2. ro[v] = ro[u]
    BY <1>1, <1>2, <1>3, <1>5, <2>1 DEF LiveMid
  <2>3. ~objects[ro[u]].reserved
    BY <1>5, <2>1, <2>2 DEF RegistryInv, IndexInv
  <2>4. os[SysName(name[v])] = "ready"
    BY <2>1 DEF LiveMap
  <2>5. At(u, "size")
    BY <2>4
  <2> QED
    BY <1>1, <2>3, <2>5 DEF At, Reserves, Counts, RegistryInv, ReservationOwned
<1> QED
  BY <1>4, <1>5

\* ftruncate and mmap of a creation.
LEMMA LiveMapSize ==
    ASSUME PosixDistinct, LockInv, RegistryInv, LiveMap, LiveMid, NEW u \in Users, Size(u)
    PROVE  LiveMap'
<1>1. /\ pc \in [Users -> Locking \cup Unlocked] /\ os \in [SysNames -> {"absent", "empty", "ready"}]
  BY DEF LockInv, TypeOK
<1>2. At(u, "size") /\ UNCHANGED <<setting, alive, name, ro>>
  BY DEF Size
<1>3. name[u] \in Names /\ SysName(name[u]) \in SysNames
  BY <1>2, PosixFacts DEF At, LockInv, NameInv
<1>4. \A v \in Users \ {u} : pc'[v] = pc[v]
  BY <1>1 DEF Size, Goto
<1>5. \A v \in Users \ {u} : alive[v] /\ Linked(v) => name[v] # name[u]
  BY <1>2, LiveCreatorAlone DEF At
<1>6. CASE pc'[u] = "abort"
  <2>1. Unlink(name[u], u, "none")
    BY <1>1, <1>6 DEF Size, Goto
  <2>2. ~Linked(u)' /\ pc'[u] # "free"
    BY <1>2, <1>6, PosixStays
  <2> QED
    BY <1>2, <1>3, <1>4, <1>5, <2>1, <2>2, LiveMapLeaves
<1>7. CASE pc'[u] # "abort"
  <2>1. /\ pc'[u] \in {"init", "fill"} /\ map' = map
        /\ os' = [os EXCEPT ![SysName(name[u])] = IF map[u] = "linked" THEN "ready" ELSE @]
    BY <1>1, <1>2, <1>7 DEF Size, Goto, At
  <2>2. Linked(u)
    BY <1>2, PosixFacts DEF At, RegistryInv, SlotInv, Counting, Reserving
  <2>3. map[u] = "linked" /\ KindOf(name[u]) # Sem
    BY <1>2, <1>3, <2>2 DEF LiveMap, At
  <2>4. os' = [os EXCEPT ![SysName(name[u])] = "ready"]
    BY <2>1, <2>3
  <2>5. \A v \in Users \ {u} : Linked(v)' <=> Linked(v)
    BY <1>2, <1>4, PosixFacts, PosixStays
  <2>6. \A m : SysName(m)' = SysName(m) /\ KindOf(m)' = KindOf(m)
    BY <1>2, PosixStays
  <2>7. \A v \in Users : alive[v] => pc'[v] # "free"
    BY <1>4, <2>1 DEF LiveMap
  <2>8. ASSUME NEW v \in Users, alive[v], Linked(v)'
        PROVE  map'[v] = "linked" /\ os'[SysName(name[v])] = IF pc'[v] = "size" THEN "empty" ELSE "ready"
    <3>1. CASE v = u
      BY <1>1, <1>3, <2>1, <2>3, <2>4, <3>1
    <3>2. CASE v # u
      <4>1. Linked(v) /\ name[v] # name[u]
        BY <1>5, <2>5, <2>8, <3>2
      <4>2. name[v] \in Names
        BY <4>1 DEF LockInv, NameInv, Linked
      <4>3. os'[SysName(name[v])] = os[SysName(name[v])]
        BY <1>1, <1>3, <2>4, <4>1, <4>2, PosixFacts
      <4> QED
        BY <1>4, <2>1, <2>8, <3>2, <4>1, <4>3 DEF LiveMap
    <3> QED
      BY <3>1, <3>2
  <2>9. ASSUME NEW m \in Names, KindOf(m) = Sem PROVE os'[SysName(m)] # "empty"
    <3>1. os[SysName(m)] # "empty" /\ SysName(m) \in SysNames
      BY <2>9, PosixFacts DEF LiveMap
    <3> QED
      BY <1>1, <2>4, <3>1
  <2> QED
    BY <1>2, <2>6, <2>7, <2>8, <2>9 DEF LiveMap
<1> QED
  BY <1>6, <1>7

\* An attachment whose object is not complete unlinks what nobody has.
LEMMA LiveMapAttaches ==
    ASSUME PosixDistinct, LockInv, RegistryInv, LiveMap, LiveMid, NEW u \in Users, AttachMem(u),
           "attach_map" \notin faults'
    PROVE  LiveMap'
<1>1. /\ pc \in [Users -> Locking \cup Unlocked]
  BY DEF LockInv, TypeOK
<1>2. At(u, "attach") /\ UNCHANGED <<setting, alive, name, ro>>
  BY DEF AttachMem
<1>3. name[u] \in Names
  BY <1>2 DEF At, LockInv, NameInv
<1>4. CASE os' = os
  BY <1>4, LiveMapOpens
<1>5. CASE os' # os
  <2>1. /\ os[SysName(name[u])] = "empty" /\ Unlink(name[u], u, "none") /\ Goto(u, "giveup")
    BY <1>5 DEF AttachMem, Fault
  <2>2. \A v \in Users \ {u} : pc'[v] = pc[v]
    BY <1>1, <2>1 DEF Goto
  <2>3. ~Linked(u)' /\ pc'[u] # "free"
    BY <1>1, <1>2, <2>1, PosixStays DEF Goto
  <2>4. \A v \in Users \ {u} : alive[v] /\ Linked(v) => name[v] # name[u]
    BY <1>2, <2>1, LiveCreatorAlone DEF At
  <2> QED
    BY <1>2, <1>3, <2>1, <2>2, <2>3, <2>4, LiveMapLeaves
<1> QED
  BY <1>4, <1>5

\* The last user unlinks the object; urt_clear that of a name only the dead hold.
LEMMA LiveMapReleases ==
    ASSUME PosixDistinct, LockInv, RegistryInv, LiveMap, LiveMid, NEW u \in Users, DecTail(u)
    PROVE  LiveMap'
<1>1. /\ pc \in [Users -> Locking \cup Unlocked] /\ name \in [Users -> Names \cup {NoName}]
      /\ ro \in [Users -> Slots \cup {NoSlot}]
  BY DEF LockInv, TypeOK
<1>2. /\ alive[u] /\ cs[u] = "mid" /\ pc[u] \in {"detach", "abort", "giveup"}
      /\ Release(u) /\ UNCHANGED <<setting, alive>>
      /\ Goto(u, "idle") /\ name' = [name EXCEPT ![u] = NoName] /\ ro' = [ro EXCEPT ![u] = NoSlot]
  BY DEF DecTail, RegistryInv, SlotInv
<1>3. /\ \A v \in Users \ {u} : pc'[v] = pc[v] /\ name'[v] = name[v] /\ ro'[v] = ro[v]
      /\ ~Linked(u)' /\ pc'[u] # "free"
  BY <1>1, <1>2, PosixStays DEF Goto
<1>4. name[u] \in Names /\ ro[u] \in Slots /\ objects[ro[u]].name = name[u] /\ ~objects[ro[u]].reserved
  <2>1. ro[u] \in Slots
    BY <1>1, <1>2 DEF RegistryInv, SlotInv, Counting, Reserving
  <2> QED
    BY <1>2, <2>1 DEF LockInv, NameInv, LiveMid, RegistryInv, IndexInv
<1>5. DecSlot(u) = ro[u]
  BY <1>2 DEF DecSlot
<1>6. Unmap(u, "none") \/ (Unlink(name[u], u, "none") /\ objects[ro[u]].count = 0)
  BY <1>2, <1>4, <1>5, PosixFacts DEF Release, ReleaseSem, ReleaseLock, ReleaseMem
<1>7. ASSUME NEW v \in Users \ {u}, alive[v], Linked(v), objects[ro[u]].count = 0 PROVE name[v] # name[u]
  <2>1. cs[v] = "out" /\ pc[v] # "free"
    BY <1>2, <1>7 DEF LockInv, MutualExclusion, LiveMap
  <2>2. /\ ro[v] \in Slots /\ objects[ro[v]].name = name[v]
        /\ objects[ro[v]].count > 0 \/ objects[ro[v]].reserved
    BY <1>7, <2>1, LiveSlots
  <2>3. name[v] = name[u] => ro[v] = ro[u]
    BY <1>2, <2>2 DEF LiveMid, InUse
  <2> QED
    BY <1>4, <1>7, <2>2, <2>3
<1> QED
  BY <1>2, <1>3, <1>4, <1>6, <1>7, LiveMapLeaves

LEMMA LiveMapClears ==
    ASSUME PosixDistinct, LockInv, RegistryInv, LiveMap, LiveMid, NEW u \in Users, ClearUnlink(u)
    PROVE  LiveMap'
<1>1. /\ pc \in [Users -> Locking \cup Unlocked] /\ name \in [Users -> Names \cup {NoName}]
      /\ ro \in [Users -> Slots \cup {NoSlot}]
  BY DEF LockInv, TypeOK
<1>2. alive[u] /\ cs[u] = "in" /\ pc[u] = "clear" /\ UNCHANGED <<setting, alive>> /\ ro[u] = NoSlot
  BY DEF ClearUnlink, Inside, LockInv, EarlyInv
<1>3. name[u] \in Names
  BY <1>2 DEF LockInv, NameInv
<1>4. /\ \A v \in Users \ {u} : pc'[v] = pc[v] /\ name'[v] = name[v] /\ ro'[v] = ro[v]
      /\ pc'[u] = "clear" \/ (pc'[u] = "idle" /\ ro'[u] = NoSlot)
  BY <1>1, <1>2 DEF ClearUnlink, Goto, Inside
<1>5. ~Linked(u)' /\ pc'[u] # "free"
  BY <1>2, <1>4, PosixStays
<1>6. \A v \in Users \ {u} : alive[v] /\ Linked(v) => name[v] # name[u]
  <2> SUFFICES ASSUME NEW v \in Users \ {u}, alive[v], Linked(v) PROVE name[v] # name[u]
    OBVIOUS
  <2>1. pc[v] # "free" /\ ro[v] # NoSlot
    BY DEF LiveMap, Linked
  <2>2. objects[ro[v]].name = name[v]
    BY <2>1, LiveSlots
  <2> QED
    BY <1>2, <2>1, <2>2 DEF RegistryInv, GuardInv
<1>7. CASE Unlink(name[u], u, "none")
  BY <1>2, <1>3, <1>4, <1>5, <1>6, <1>7, LiveMapLeaves
<1>8. CASE UNCHANGED <<os, map>>
  <2>1. \A v \in Users \ {u} : Linked(v)' <=> Linked(v)
    BY <1>2, <1>4, PosixFacts, PosixStays
  <2>2. \A v \in Users : alive[v] => pc'[v] # "free"
    BY <1>4 DEF LiveMap
  <2> QED
    BY <1>2, <1>4, <1>5, <1>8, <2>1, <2>2, LiveMapKept
<1> QED
  BY <1>7, <1>8 DEF ClearUnlink

LEMMA LiveInvNext ==
    ASSUME PosixDistinct, "init" \notin Faults, LockInv, RegistryInv, LiveMap, LiveMid,
           [Next]_vars, "attach_map" \notin faults'
    PROVE  LiveMap' /\ LiveMid'
<1>1. CASE UNCHANGED vars
  <2>1. /\ \A u : Linked(u)' <=> Linked(u)
        /\ \A n : SysName(n)' = SysName(n) /\ KindOf(n)' = KindOf(n)
    BY <1>1, PosixFacts, PosixStays DEF vars
  <2> QED
    BY <1>1, <2>1 DEF vars, LiveMap, LiveMid
<1>2. CASE Recover
  <2>1. UNCHANGED <<objects, os, pc, cs, name, ro, map, alive, setting>>
    BY <1>2 DEF Recover
  <2>2. /\ \A u : Linked(u)' <=> Linked(u)
        /\ \A n : SysName(n)' = SysName(n) /\ KindOf(n)' = KindOf(n)
    BY <2>1, PosixFacts, PosixStays
  <2> QED
    BY <2>1, <2>2 DEF LiveMap, LiveMid
<1>3. ASSUME NEW u \in Users, OpenNamed(u) \/ CheckShm(u) \/ AllocShm(u) \/ AttachNamed(u) \/ AttachShm(u) \/ FreeShm(u)
      PROVE  FALSE
  BY <1>3, PosixFacts DEF OpenNamed, CheckShm, AllocShm, AttachNamed, AttachShm, FreeShm, At, LiveMap
<1>4. ASSUME NEW u \in Users,
             \/ \E n \in Names : New(u, n) \/ Attach(u, n) \/ Clear(u, n)
             \/ Delete(u) \/ Crash(u) \/ Acquire(u) \/ Post(u) \/ ReserveMax(u) \/ Fill(u) \/ InitLock(u)
      PROVE  LiveMap' /\ LiveMid'
  BY <1>4, LiveMapQuiet, LiveMidOutside
<1>5. ASSUME NEW u \in Users, ReserveSlot(u) \/ Commit(u) \/ Lookup(u) \/ DecHead(u) \/ ClearSlot(u)
      PROVE  LiveMap' /\ LiveMid'
  BY <1>5, LiveMapQuiet, LiveMidInside
<1>6. ASSUME NEW u \in Users, OpenSem(u) \/ OpenMem(u) \/ AttachSem(u) PROVE LiveMap' /\ LiveMid'
  BY <1>6, LiveMapOpens, LiveMidOutside
<1>7. ASSUME NEW u \in Users, AttachMem(u) \/ Size(u) PROVE LiveMap' /\ LiveMid'
  BY <1>7, LiveMapAttaches, LiveMapSize, LiveMidOutside
<1>8. ASSUME NEW u \in Users, DecTail(u) \/ ClearUnlink(u) PROVE LiveMap' /\ LiveMid'
  BY <1>8, LiveMapReleases, LiveMapClears, LiveMidOutside
<1> QED
  BY <1>1, <1>2, <1>3, <1>4, <1>5, <1>6, <1>7, <1>8 DEF Next, Proceed

\* Whoever lives and was given a handle keeps its slot and its object under
\* POSIX, whoever dies in whatever call, is cleared away or recovered from: a
\* slot that the dead still count in is not given away, what a dead creation
\* left is not taken for an object, and a clearing, even one that dies between
\* unlinking and freeing the slot, touches nothing of the living.  Names are
\* distinct to the operating system; nobody attaches early and no shared lock
\* fails to initialise, as above.
THEOREM HandleValidDespiteDeaths ==
    ASSUME ~EarlyAttach, "init" \notin Faults, PosixDistinct
    PROVE  Spec => []HandleValid
<1>1. Init => LiveInv
  <2> SUFFICES ASSUME Init PROVE LiveMap /\ LiveMid
    BY DEF LiveInv
  <2>1. \A u \in Users : ~Linked(u) /\ pc[u] = "idle" /\ cs[u] = "out"
    BY DEF Init, Linked
  <2>2. \A n \in Names : os[SysName(n)] = "absent"
    BY LockInvInit, PosixFacts DEF Init
  <2> QED
    BY <2>1, <2>2 DEF LiveMap, LiveMid
<1>2. LockInv /\ RegistryInv /\ LiveInv /\ [Next]_vars => LiveInv'
  BY LiveInvNext, FaultsGrow DEF LiveInv
<1>3. ASSUME LockInv, RegistryInv, LiveInv PROVE HandleValid
  <2> SUFFICES ASSUME "attach_map" \notin faults, NEW u \in Users, alive[u], Holds(u)
               PROVE  /\ InUse(objects[ro[u]]) /\ objects[ro[u]].name = name[u]
                      /\ map[u] = "linked" /\ os[SysName(name[u])] = "ready"
    BY DEF HandleValid
  <2>1. LiveMap /\ LiveMid
    BY <1>3 DEF LiveInv
  <2>2. Linked(u) /\ cs[u] # "mid" /\ pc[u] \notin {"size", "free"}
    BY <1>3, <2>1, PosixFacts DEF Holds, LiveMap
  <2>3. objects[ro[u]].name = name[u] /\ (objects[ro[u]].count > 0 \/ objects[ro[u]].reserved)
    BY <1>3, <2>1, <2>2, LiveSlots
  <2>4. map[u] = "linked" /\ os[SysName(name[u])] = "ready"
    BY <2>1, <2>2 DEF LiveMap
  <2> QED
    BY <2>3, <2>4 DEF InUse
<1> QED
  BY <1>1, <1>2, <1>3, RegistryInvHolds, PTL DEF Spec
=============================================================================
