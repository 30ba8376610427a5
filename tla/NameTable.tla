----------------------------- MODULE NameTable -----------------------------
(***************************************************************************)
(* What the registry promises (doc/Style, "Shared Resource Allocation"): a *)
(* name is unused, or being created by one user, or shared by the users    *)
(* attached to it; there are at most MaxObjects names; a name becomes      *)
(* unused with its last user, or when it is cleared after all of them are  *)
(* gone.  No slots, indices, counts or locks.                              *)
(***************************************************************************)
EXTENDS Integers, FiniteSets

CONSTANTS Users, Names, MaxObjects

VARIABLES
    creating,  \* for each name, the users creating it
    attached,  \* for each name, the users attached to it
    gone       \* the users that crashed

vars == <<creating, attached, gone>>

Init ==
    /\ creating = [n \in Names |-> {}]
    /\ attached = [n \in Names |-> {}]
    /\ gone = {}

Used(n) == creating[n] # {} \/ attached[n] # {}
UsedNames == {n \in Names : Used(n)}
Busy(u) == \E n \in Names : u \in creating[n] \cup attached[n]

\* Fails, that is, does not happen, when the name is used (EEXIST) or the
\* table is full (ENOSPC).
Create(u, n) ==
    /\ u \notin gone /\ ~Busy(u)
    /\ ~Used(n)
    /\ Cardinality(UsedNames) < MaxObjects
    /\ creating' = [creating EXCEPT ![n] = {u}]
    /\ UNCHANGED <<attached, gone>>

Created(u, n) ==
    /\ u \notin gone /\ u \in creating[n]
    /\ creating' = [creating EXCEPT ![n] = {}]
    /\ attached' = [attached EXCEPT ![n] = {u}]
    /\ UNCHANGED gone

GiveUp(u, n) ==
    /\ u \notin gone /\ u \in creating[n]
    /\ creating' = [creating EXCEPT ![n] = {}]
    /\ UNCHANGED <<attached, gone>>

\* Fails when nobody shares the name (ENOENT).
Attach(u, n) ==
    /\ u \notin gone /\ ~Busy(u)
    /\ attached[n] # {}
    /\ attached' = [attached EXCEPT ![n] = @ \cup {u}]
    /\ UNCHANGED <<creating, gone>>

Detach(u, n) ==
    /\ u \notin gone /\ u \in attached[n]
    /\ attached' = [attached EXCEPT ![n] = @ \ {u}]
    /\ UNCHANGED <<creating, gone>>

Clear(n) ==
    /\ Used(n)
    /\ creating[n] \cup attached[n] \subseteq gone
    /\ creating' = [creating EXCEPT ![n] = {}]
    /\ attached' = [attached EXCEPT ![n] = {}]
    /\ UNCHANGED gone

Crash(u) ==
    /\ u \notin gone
    /\ gone' = gone \cup {u}
    /\ UNCHANGED <<creating, attached>>

Next ==
    \/ \E u \in Users, n \in Names :
         \/ Create(u, n) \/ Created(u, n) \/ GiveUp(u, n)
         \/ Attach(u, n) \/ Detach(u, n)
    \/ \E n \in Names : Clear(n)
    \/ \E u \in Users : Crash(u)

Spec == Init /\ [][Next]_vars
=============================================================================
