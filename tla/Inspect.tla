------------------------------- MODULE Inspect -------------------------------
(***************************************************************************)
(* urt_dump_memory (src/registry.c), which looks an object up, gives the   *)
(* global semaphore back, attaches to the name and shows as much as it     *)
(* read the size of, beside the callers of FreeNames that create shared    *)
(* memory under their names and delete it.                                 *)
(*                                                                         *)
(* Creation is cut where SHOBJ_NEW writes the fields of the slot without   *)
(* the semaphore.  An attachment that meets a creation too early to open   *)
(* its object is the subject of SharedObjects, and fails here.             *)
(***************************************************************************)
EXTENDS FreeNames

CONSTANTS
    Sizes,     \* sizes of shared memory
    Book,      \* size of the book keeping in front of it
    SizeMax    \* number of values of a size_t

ASSUME InspectAssumption == Book \in Nat \ {0} /\ SizeMax \in Nat \ {0} /\ Sizes \subseteq 0 .. SizeMax - 1

VARIABLES
    stage,     \* how far a caller's creation has got
    bytes,     \* size of the memory it creates, without the book keeping
    size,      \* the size field of its slot
    dump       \* the call of urt_dump_memory

vars == <<names, stage, bytes, size, dump>>
objs == <<stage, bytes, size>>

NoDump == [pc |-> "idle", name |-> NoName, size |-> 0, bytes |-> 0, steady |-> FALSE]

Init ==
    /\ NamesInit
    /\ stage = [c \in Callers |-> "none"]
    /\ bytes = [c \in Callers |-> 0] /\ size = [c \in Callers |-> 0]
    /\ dump = NoDump

-----------------------------------------------------------------------------
\* urt_reserve_name clears the slot.
Reserve(c, b) ==
    /\ Register(c)
    /\ IF owns'[c]
         THEN /\ stage' = [stage EXCEPT ![c] = "reserved"]
              /\ bytes' = [bytes EXCEPT ![c] = b]
              /\ size' = [size EXCEPT ![c] = 0]
         ELSE UNCHANGED objs
    /\ UNCHANGED dump

\* SHOBJ_NEW: has_bookkeeping and type, then size, then size again.
SetType(c) ==
    /\ stage[c] = "reserved"
    /\ stage' = [stage EXCEPT ![c] = "typed"]
    /\ UNCHANGED <<names, bytes, size, dump>>

SetSize(c) ==
    /\ stage[c] = "typed"
    /\ stage' = [stage EXCEPT ![c] = "sized"]
    /\ size' = [size EXCEPT ![c] = bytes[c]]
    /\ UNCHANGED <<names, bytes, dump>>

AddBook(c) ==
    /\ stage[c] = "sized"
    /\ stage' = [stage EXCEPT ![c] = "made"]
    /\ size' = [size EXCEPT ![c] = @ + Book]
    /\ UNCHANGED <<names, bytes, dump>>

\* The caller is done with its name.
Leave(c) ==
    /\ stage[c] \in {"none", "made"}
    /\ Forget(c, {n \in {dump.name} : dump.pc = "showing" /\ n = held[c]})
    /\ stage' = [stage EXCEPT ![c] = "none"]
    /\ dump' = IF owns[c] /\ dump.pc = "looked" /\ dump.name = held[c]
                 THEN [dump EXCEPT !.steady = FALSE] ELSE dump
    /\ bytes' = [bytes EXCEPT ![c] = 0] /\ size' = [size EXCEPT ![c] = 0]

-----------------------------------------------------------------------------
\* urt_dump_memory up to its post of the semaphore: nothing happens to a name
\* that is not found, or whose type is not set yet.
ShownBug(s) == s % SizeMax
Shown(s) == (s - Book) % SizeMax

Look(c) ==
    /\ dump.pc = "idle"
    /\ owns[c] /\ stage[c] # "reserved"
    /\ dump' = [NoDump EXCEPT !.pc = "looked", !.name = held[c], !.size = Shown(size[c]),
                              !.steady = (stage[c] = "made")]
    /\ UNCHANGED <<names, objs>>

\* The attachment, to whatever has the name by now, and the display.
AttachDump ==
    /\ dump.pc = "looked"
    /\ \/ \E c \in Callers :
            /\ owns[c] /\ held[c] = dump.name /\ stage[c] # "reserved"
            /\ dump' = [dump EXCEPT !.pc = "showing", !.bytes = bytes[c]]
       \/ dump' = NoDump
    /\ UNCHANGED <<names, objs>>

\* The detachment; the name goes with its last user.
DetachDump ==
    /\ dump.pc = "showing"
    /\ registered' = {n \in registered : \E c \in Callers : owns[c] /\ held[c] = n}
    /\ dump' = NoDump
    /\ UNCHANGED <<next_free_name, names_exhausted, held, owns, runs, refused, given, objs>>

Next ==
    \/ \E c \in Callers :
         \/ (GetFreeName(c) \/ TaskInit(c)) /\ UNCHANGED <<objs, dump>>
         \/ \E b \in Sizes : Reserve(c, b)
         \/ SetType(c) \/ SetSize(c) \/ AddBook(c) \/ Leave(c) \/ Look(c)
    \/ AttachDump \/ DetachDump

Spec == Init /\ [][Next]_vars

-----------------------------------------------------------------------------
\* What urt_dump_memory shows is the memory that users of the name share, all
\* of it and nothing else, although it takes the size before it attaches;
\* unless it looked at a slot that was still being filled, or the object was
\* deleted between the look and the attachment.
DumpWithin == dump.pc = "showing" /\ dump.steady => dump.size = dump.bytes
=============================================================================
