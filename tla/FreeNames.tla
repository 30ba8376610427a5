----------------------------- MODULE FreeNames -----------------------------
(***************************************************************************)
(* Generation of free names (urt_get_free_name and its helpers in          *)
(* src/registry.c): a counter in shared memory, written with the           *)
(* characters _, 0-9 and A-Z, and a mark that it has gone round once.      *)
(* Callers get a name and may register a shared object under it later, or  *)
(* use it without the registry, as tasks of the RTAI back-end do           *)
(* (_task_wrapper in sys/rtai/src/task.c).                                 *)
(*                                                                         *)
(* A character is its place in the order _ 0 .. 9 A .. Z.  Everything      *)
(* urt_get_free_name does is under the global semaphore, so a call is one  *)
(* step; that the counter holds a character of no name, the only way to    *)
(* its error returns, takes corrupted memory.                              *)
(***************************************************************************)
EXTENDS Integers, FiniteSets

CONSTANTS
    Callers,
    Base,         \* number of characters
    Len,          \* length of a name without its final $
    MaxObjects    \* URT_MAX_OBJECTS

ASSUME FreeNamesAssumption ==
    /\ IsFiniteSet(Callers)
    /\ Base \in Nat \ {0, 1} /\ Len \in Nat \ {0}
    /\ MaxObjects \in Nat
    /\ MaxObjects < Cardinality([1 .. Len -> 0 .. Base - 1])

Names == [1 .. Len -> 0 .. Base - 1]
FirstName == [i \in 1 .. Len |-> 0]
NoName == [i \in 1 .. Len |-> Base]

VARIABLES
    next_free_name, names_exhausted,
    registered,   \* names in the registry
    held,         \* name a caller holds, or NoName
    owns,         \* whether it registered an object under it
    runs,         \* whether it is a task under it
    refused,      \* a task did not run because its name was in use
    given         \* how many names were given before the counter went round

names == <<next_free_name, names_exhausted, registered, held, owns, runs, refused, given>>

NamesTypeOK ==
    /\ next_free_name \in Names /\ names_exhausted \in BOOLEAN
    /\ registered \subseteq Names /\ Cardinality(registered) <= MaxObjects
    /\ held \in [Callers -> Names \cup {NoName}]
    /\ owns \in [Callers -> BOOLEAN] /\ runs \in [Callers -> BOOLEAN]
    /\ refused \in BOOLEAN
    /\ given \in Nat

NamesInit ==
    /\ next_free_name = FirstName /\ names_exhausted = FALSE
    /\ registered = {}
    /\ held = [c \in Callers |-> NoName]
    /\ owns = [c \in Callers |-> FALSE] /\ runs = [c \in Callers |-> FALSE]
    /\ refused = FALSE
    /\ given = 0

-----------------------------------------------------------------------------
\* _increment_name: characters from the right go back to the first one until
\* one can be raised; a name of last characters goes back to the first name.
CanRaise(name) == {i \in 1 .. Len : name[i] # Base - 1}

IncrementNameBug(name) ==
    [i \in 1 .. Len |-> IF \E j \in CanRaise(name) : j > i THEN name[i]
                        ELSE IF i \in CanRaise(name) THEN name[i] + 1 ELSE name[i]]
IncrementName(name) ==
    [i \in 1 .. Len |-> IF \E j \in CanRaise(name) : j > i THEN name[i]
                        ELSE IF i \in CanRaise(name) THEN name[i] + 1 ELSE 0]
Wraps(name) == CanRaise(name) = {}

\* The k-th name from name on.
NameAfter(name, k) ==
    LET after[n \in 0 .. MaxObjects] == IF n = 0 THEN name ELSE IncrementName(after[n - 1])
    IN  after[k]

\* _check_and_get_free_name: the first name from the counter on that is not
\* in the registry.
FreeFromBug(name) == 0
FreeFrom(name) ==
    CHOOSE k \in 0 .. MaxObjects :
        /\ NameAfter(name, k) \notin registered
        /\ \A j \in 0 .. k - 1 : NameAfter(name, j) \in registered

\* urt_get_free_name.
GetFreeName(c) ==
    /\ held[c] = NoName
    /\ LET k == IF names_exhausted THEN FreeFrom(next_free_name) ELSE 0
           name == NameAfter(next_free_name, k)
       IN  /\ held' = [held EXCEPT ![c] = name]
           /\ next_free_name' = IncrementName(name)
           /\ names_exhausted' = (names_exhausted \/ Wraps(name))
    /\ given' = IF names_exhausted THEN given ELSE given + 1
    /\ UNCHANGED <<registered, owns, runs, refused>>

\* An object is created under the name, as far as the registry allows
\* (urt_reserve_name).
Register(c) ==
    /\ held[c] \in Names /\ ~owns[c] /\ ~runs[c]
    /\ IF held[c] \in registered \/ Cardinality(registered) = MaxObjects
         THEN UNCHANGED <<registered, owns>>
         ELSE /\ registered' = registered \cup {held[c]}
              /\ owns' = [owns EXCEPT ![c] = TRUE]
    /\ UNCHANGED <<next_free_name, names_exhausted, held, runs, refused, given>>

\* rt_task_init_schmod: RTAI has one task of a name, and the thread of another
\* one ends without a word.
TaskInit(c) ==
    /\ held[c] \in Names /\ ~owns[c] /\ ~runs[c]
    /\ IF \E d \in Callers : runs[d] /\ held[d] = held[c]
         THEN /\ refused' = TRUE
              /\ held' = [held EXCEPT ![c] = NoName]
              /\ UNCHANGED runs
         ELSE /\ runs' = [runs EXCEPT ![c] = TRUE]
              /\ UNCHANGED <<held, refused>>
    /\ UNCHANGED <<next_free_name, names_exhausted, registered, owns, given>>

\* The task ends, or the object is deleted: the name leaves the registry
\* unless others, the set users, are still attached to it.
Forget(c, users) ==
    /\ held[c] \in Names
    /\ registered' = IF owns[c] /\ users = {} THEN registered \ {held[c]} ELSE registered
    /\ owns' = [owns EXCEPT ![c] = FALSE] /\ runs' = [runs EXCEPT ![c] = FALSE]
    /\ held' = [held EXCEPT ![c] = NoName]
    /\ UNCHANGED <<next_free_name, names_exhausted, refused, given>>

-----------------------------------------------------------------------------
\* The order in which the counter goes through the names.
Before(m, n) == \E i \in 1 .. Len : m[i] < n[i] /\ \A j \in 1 .. i - 1 : m[j] = n[j]
Place(name) == Cardinality({m \in Names : Before(m, name)})

\* Every name is given once before any is given again: as many were given as
\* come before the counter, carry by carry, and the mark is set when all were.
\* Until then every task gets a name of its own.
GoesRoundOnce ==
    /\ NamesTypeOK
    /\ given = IF names_exhausted THEN Cardinality(Names) ELSE Place(next_free_name)
    /\ refused => names_exhausted

\* The name given is not one of the registry's.
NotRegistered ==
    [][\A c \in Callers : held[c] = NoName /\ held'[c] # NoName => held'[c] \notin registered]_names
=============================================================================
