------------------------------ MODULE Registry ------------------------------
(***************************************************************************)
(* The table of shared objects that every URT process maps (struct         *)
(* urt_internal, src/urt_internal.h) and what the functions of             *)
(* src/registry.c compute on it.  The operators take the array `objs` and  *)
(* the index `max` (objects_max_index) and return the new value of one of  *)
(* them; the modules that extend this one decide when, and under which     *)
(* lock, they are applied.                                                 *)
(***************************************************************************)
EXTENDS Integers

CONSTANTS
    Names,       \* names of shared objects
    Kinds,       \* values of the type field (URT_TYPE_*)
    MaxObjects,  \* URT_MAX_OBJECTS
    NDEBUG       \* whether _internal_mem_check is compiled out

ASSUME NamesAssumption == "" \notin Names
ASSUME KindsAssumption == "" \notin Kinds
ASSUME MaxObjectsAssumption == MaxObjects \in Nat \ {0}
ASSUME NDEBUGAssumption == NDEBUG \in BOOLEAN

NoName == ""     \* the empty string of a slot never used
NoType == ""     \* the zero of a type not written yet
NoSlot == -1     \* the NULL urt_registered_object pointer

Slots == 0 .. MaxObjects - 1

\* Definitions whose name ends in "Bug" are seeded mistakes: each stands for a
\* slip in the code that one of the properties must notice.

\* struct urt_registered_object.  The size and has_bookkeeping fields are
\* written together with type and carry no control.
RegisteredObject ==
    [name : Names \cup {NoName}, reserved : BOOLEAN, count : Nat,
     type : Kinds \cup {NoType}]

\* A slot of the zeroed struct urt_internal that urt_registry_init writes.
EmptyObject == [name |-> NoName, reserved |-> FALSE, count |-> 0, type |-> NoType]

InUseBug(o) == o.count # 0
InUse(o) == o.reserved \/ o.count # 0

\* The slots of _find_by_name's scan that carry the name: only the indices
\* up to objects_max_index are looked at.
MatchesShortBug(objs, max, n) ==
    {i \in 0 .. max - 1 : InUse(objs[i]) /\ objs[i].name = n}
Matches(objs, max, n) == {i \in 0 .. max : InUse(objs[i]) /\ objs[i].name = n}

\* The smallest and the largest element of a set of slots.
First(T) == CHOOSE i \in T : \A j \in T : i <= j
Last(T) == CHOOSE i \in T : \A j \in T : j <= i

\* _find_by_name: the first match, or NULL.
FindByName(objs, max, n) ==
    IF Matches(objs, max, n) = {} THEN NoSlot ELSE First(Matches(objs, max, n))

\* The scan of urt_reserve_name, over the whole array.
FreeSlots(objs) == {i \in Slots : ~InUse(objs[i])}

\* What urt_reserve_name writes in the slot it takes.
ReservedObject(n) ==
    [name |-> n, reserved |-> TRUE, count |-> 0, type |-> NoType]

RaisedMaxCountBug(max, i) == IF i >= max THEN i + 1 ELSE max
RaisedMax(max, i) == IF i > max THEN i ELSE max

\* ++count, reserved = false: urt_inc_name_count and the body of
\* urt_get_object_by_name_and_inc_count.
IncCountBug(o) == [o EXCEPT !.reserved = FALSE]
IncCount(o) == [o EXCEPT !.count = @ + 1, !.reserved = FALSE]

\* The head of _dec_count_common.
DecCountReservedBug(o) == [o EXCEPT !.count = IF @ > 0 THEN @ - 1 ELSE 0]
DecCountWrapBug(o) ==
    [o EXCEPT !.count = (@ - 1) % 65536, !.reserved = FALSE]
DecCount(o) ==
    [o EXCEPT !.count = IF @ > 0 THEN @ - 1 ELSE 0, !.reserved = FALSE]

\* The loop of _dec_count_common: it starts at the freed slot, only when that
\* is the highest one, and stops at a slot in use or at slot 0.
LoweredMaxNeverBug(objs, max, i) == max
LoweredMax(objs, max, i) ==
    IF i = max
      THEN Last({0} \cup {j \in 0 .. i : InUse(objs[j])})
      ELSE max

\* _internal_mem_check: debug builds repair an index that is too low.
CheckedMax(objs, max) ==
    IF NDEBUG THEN max
              ELSE Last({max} \cup {j \in Slots : InUse(objs[j])})

\* The tail of _dec_count_common, reached only when nobody is attached.
MaxAfterDec(objs, max, i) ==
    IF objs[i].count > 0 THEN max
                         ELSE CheckedMax(objs, LoweredMax(objs, max, i))

\* The do-while of urt_force_clear_name: _dec_count_common until count is 0.
ClearedObjectBug(o) == [o EXCEPT !.count = IF @ > 0 THEN @ - 1 ELSE 0, !.reserved = FALSE]
ClearedObject(o) == [o EXCEPT !.count = 0, !.reserved = FALSE]

\* The scan of urt_recover.
RecoveredMax(objs) == Last({0} \cup {j \in Slots : InUse(objs[j])})
=============================================================================
