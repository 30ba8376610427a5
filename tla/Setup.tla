------------------------------- MODULE Setup -------------------------------
(***************************************************************************)
(* urt_init, urt_exit and urt_recover (src/setup_common.c) of processes    *)
(* that share the global semaphore and the memory of the registry, POSIX   *)
(* back-end in user space.                                                 *)
(*                                                                         *)
(* Processes may be of different builds, that is, configured with          *)
(* different numbers of shared objects: sizeof(urt_internal) differs, and  *)
(* so does the place of its last member, initialized.  A build is          *)
(* identified with that size.                                              *)
(***************************************************************************)
EXTENDS Integers, FiniteSets

CONSTANTS
    Procs,
    Builds,       \* the builds that may meet
    Faults,       \* calls that may fail: "sem_open", "shm_open", "mmap"
    MaxSegments,  \* bound on the memory segments ever created
    MaxCrashes    \* bound on the crashes

ASSUME SetupAssumption ==
    /\ IsFiniteSet(Procs)
    /\ Builds \subseteq Nat \ {0}
    /\ Faults \subseteq {"sem_open", "shm_open", "mmap"}
    /\ MaxSegments \in Nat /\ MaxCrashes \in Nat

Segments == 1 .. MaxSegments

VARIABLES
    buildOf,   \* the build a process belongs to, fixed
    failed,    \* the calls that have failed
    gsem,      \* value of the global semaphore
    linked,    \* the segment that has the global name, or 0
    created,   \* number of segments created
    initBy,    \* build that last initialized a segment, or 0
    kept,      \* the smallest size the segment had since: what lies beyond is 0
    filled,    \* whether its next_free_name is written
    pc,
    hsem,      \* urt_global_sem # NULL
    hmem,      \* the segment urt_global_mem points to, or 0
    ret,       \* what the last urt_init returned
    ready,     \* an urt_init succeeded and no urt_exit followed
    stuck,     \* a crash left the semaphore taken
    crashes

vars == <<buildOf, failed, gsem, linked, created, initBy, kept, filled, pc, hsem, hmem, ret, ready, stuck, crashes>>

shared == <<linked, created, initBy, kept, filled>>

Locked == {"get_mem", "registry_init", "fill", "post"}

TypeOK ==
    /\ buildOf \in [Procs -> Builds] /\ failed \subseteq Faults
    /\ gsem \in 0 .. 1 /\ linked \in 0 .. MaxSegments /\ created \in 0 .. MaxSegments
    /\ initBy \in [Segments -> Builds \cup {0}] /\ kept \in [Segments -> Builds \cup {0}]
    /\ filled \in [Segments -> BOOLEAN]
    /\ pc \in [Procs -> {"out", "wait"} \cup Locked]
    /\ hsem \in [Procs -> BOOLEAN] /\ hmem \in [Procs -> 0 .. MaxSegments]
    /\ ret \in [Procs -> {"none", "ok", "EALREADY", "EBUSY", "error"}]
    /\ ready \in [Procs -> BOOLEAN]
    /\ stuck \in 0 .. MaxCrashes /\ crashes \in 0 .. MaxCrashes

Init ==
    /\ buildOf \in [Procs -> Builds] /\ failed = {}
    /\ gsem = 1 /\ linked = 0 /\ created = 0
    /\ initBy = [s \in Segments |-> 0] /\ kept = [s \in Segments |-> 0]
    /\ filled = [s \in Segments |-> FALSE]
    /\ pc = [p \in Procs |-> "out"]
    /\ hsem = [p \in Procs |-> FALSE] /\ hmem = [p \in Procs |-> 0]
    /\ ret = [p \in Procs |-> "none"]
    /\ ready = [p \in Procs |-> FALSE]
    /\ stuck = 0 /\ crashes = 0

Goto(p, s) == pc' = [pc EXCEPT ![p] = s]

-----------------------------------------------------------------------------
\* urt_init up to the wait for the global semaphore.
UrtInit(p) ==
    /\ pc[p] = "out"
    /\ \/ /\ hmem[p] # 0
          /\ ret' = [ret EXCEPT ![p] = "EALREADY"]
          /\ UNCHANGED <<pc, hsem, failed>>
       \/ /\ hmem[p] = 0 /\ "sem_open" \in Faults
          /\ failed' = failed \cup {"sem_open"}
          /\ hsem' = [hsem EXCEPT ![p] = FALSE]
          /\ ret' = [ret EXCEPT ![p] = "error"]
          /\ UNCHANGED pc
       \/ /\ hmem[p] = 0
          /\ hsem' = [hsem EXCEPT ![p] = TRUE]
          /\ ret' = [ret EXCEPT ![p] = "none"]
          /\ Goto(p, "wait")
          /\ UNCHANGED failed
    /\ UNCHANGED <<buildOf, gsem, shared, hmem, ready, stuck, crashes>>

Wait(p) ==
    /\ pc[p] = "wait" /\ gsem > 0
    /\ gsem' = gsem - 1
    /\ Goto(p, "get_mem")
    /\ UNCHANGED <<buildOf, shared, hsem, hmem, ret, ready, stuck, crashes, failed>>

\* A build opens the segment of the global name, or creates it, and sets its
\* size, which cuts off what a larger one has at the end; the name stays, or is
\* taken away when the segment cannot be mapped.
Open(build, mapped) ==
    /\ linked = 0 => created < MaxSegments
    /\ LET s == IF linked = 0 THEN created + 1 ELSE linked IN
       /\ linked' = IF mapped THEN s ELSE 0
       /\ created' = IF linked = 0 THEN s ELSE created
       /\ kept' = [kept EXCEPT ![s] = IF build < @ THEN build ELSE @]
    /\ UNCHANGED <<initBy, filled>>

\* urt_global_mem_get of a build fails.
OpenFails(build) ==
    \/ "shm_open" \in Faults /\ failed' = failed \cup {"shm_open"} /\ UNCHANGED shared
    \/ "mmap" \in Faults /\ failed' = failed \cup {"mmap"} /\ Open(build, FALSE)

Fail(p) ==
    /\ ret' = [ret EXCEPT ![p] = "error"]
    /\ Goto(p, "post")

\* urt_global_mem_get.
GetMem(p) ==
    /\ pc[p] = "get_mem"
    /\ \/ /\ OpenFails(buildOf[p])
          /\ Fail(p)
          /\ UNCHANGED hmem
       \/ /\ Open(buildOf[p], TRUE)
          /\ hmem' = [hmem EXCEPT ![p] = linked']
          /\ Goto(p, "registry_init")
          /\ UNCHANGED <<ret, failed>>
    /\ UNCHANGED <<buildOf, gsem, hsem, ready, stuck, crashes>>

\* What a process reads as initialized: zero in new memory, beyond what a
\* smaller build wrote and where one has cut the mark off, its own build's mark,
\* or, where a larger build keeps its objects, anything.
Initialized(p, s) ==
    IF kept[s] < buildOf[p] THEN {FALSE}
    ELSE IF initBy[s] = buildOf[p] THEN {TRUE}
    ELSE BOOLEAN

\* urt_registry_init: the sizes are compared, or everything is set.
RegistryInitBug(p) ==
    /\ pc[p] = "registry_init"
    /\ initBy' = [initBy EXCEPT ![hmem[p]] = buildOf[p]]
    /\ kept' = [kept EXCEPT ![hmem[p]] = buildOf[p]]
    /\ filled' = [filled EXCEPT ![hmem[p]] = FALSE]
    /\ Goto(p, "fill")
    /\ UNCHANGED <<buildOf, gsem, linked, created, hsem, hmem, ret, ready, stuck, crashes, failed>>
RegistryInit(p) ==
    /\ pc[p] = "registry_init"
    /\ LET s == hmem[p] IN
       \E initialized \in Initialized(p, s) :
          IF initialized
            THEN /\ ret' = [ret EXCEPT ![p] = IF initBy[s] = buildOf[p] THEN "ok" ELSE "EBUSY"]
                 /\ Goto(p, "post")
                 /\ UNCHANGED <<initBy, kept, filled>>
            ELSE /\ initBy' = [initBy EXCEPT ![s] = buildOf[p]]
                 /\ kept' = [kept EXCEPT ![s] = buildOf[p]]
                 /\ filled' = [filled EXCEPT ![s] = FALSE]
                 /\ Goto(p, "fill")
                 /\ UNCHANGED ret
    /\ UNCHANGED <<buildOf, gsem, linked, created, hsem, hmem, ready, stuck, crashes, failed>>

\* The last loop of urt_registry_init writes next_free_name.
Fill(p) ==
    /\ pc[p] = "fill"
    /\ filled' = [filled EXCEPT ![hmem[p]] = TRUE]
    /\ ret' = [ret EXCEPT ![p] = "ok"]
    /\ Goto(p, "post")
    /\ UNCHANGED <<buildOf, gsem, linked, created, initBy, kept, hsem, hmem, ready, stuck, crashes, failed>>

Post(p) ==
    /\ pc[p] = "post"
    /\ gsem' = gsem + 1
    /\ ready' = [ready EXCEPT ![p] = ret[p] = "ok"]
    /\ Goto(p, "out")
    /\ UNCHANGED <<buildOf, shared, hsem, hmem, ret, stuck, crashes, failed>>

\* urt_exit leaves the semaphore and the memory where they are.
UrtExitBug(p) ==
    /\ pc[p] = "out" /\ hmem[p] # 0
    /\ linked' = 0
    /\ hmem' = [hmem EXCEPT ![p] = 0]
    /\ hsem' = [hsem EXCEPT ![p] = FALSE]
    /\ ready' = [ready EXCEPT ![p] = FALSE]
    /\ UNCHANGED <<buildOf, gsem, created, initBy, kept, filled, pc, ret, stuck, crashes, failed>>
UrtExitKeepBug(p) ==
    /\ pc[p] = "out" /\ hmem[p] # 0
    /\ hsem' = [hsem EXCEPT ![p] = FALSE]
    /\ ready' = [ready EXCEPT ![p] = FALSE]
    /\ UNCHANGED <<buildOf, gsem, shared, pc, hmem, ret, stuck, crashes, failed>>
UrtExit(p) ==
    /\ pc[p] = "out" /\ hmem[p] # 0
    /\ hmem' = [hmem EXCEPT ![p] = 0]
    /\ hsem' = [hsem EXCEPT ![p] = FALSE]
    /\ ready' = [ready EXCEPT ![p] = FALSE]
    /\ UNCHANGED <<buildOf, gsem, shared, pc, ret, stuck, crashes, failed>>

\* A process dies; another one of its build may take its place.
Crash(p) ==
    /\ crashes < MaxCrashes
    /\ crashes' = crashes + 1
    /\ stuck' = IF pc[p] \in Locked THEN stuck + 1 ELSE stuck
    /\ Goto(p, "out")
    /\ hmem' = [hmem EXCEPT ![p] = 0]
    /\ hsem' = [hsem EXCEPT ![p] = FALSE]
    /\ ret' = [ret EXCEPT ![p] = "none"]
    /\ ready' = [ready EXCEPT ![p] = FALSE]
    /\ UNCHANGED <<buildOf, gsem, shared, failed>>

\* urt_recover of a build, run when nobody uses URT: trying to take the
\* semaphore and posting it leave it at 1.
RecoverBug(build) ==
    /\ \A p \in Procs : pc[p] = "out" /\ hmem[p] = 0
    /\ gsem' = gsem + 1 /\ stuck' = 0
    /\ OpenFails(build) \/ (Open(build, TRUE) /\ UNCHANGED failed)
    /\ UNCHANGED <<buildOf, pc, hsem, hmem, ret, ready, crashes>>
Recover(build) ==
    /\ \A p \in Procs : pc[p] = "out" /\ hmem[p] = 0
    /\ gsem' = (IF gsem > 0 THEN gsem - 1 ELSE 0) + 1 /\ stuck' = 0
    /\ OpenFails(build) \/ (Open(build, TRUE) /\ UNCHANGED failed)
    /\ UNCHANGED <<buildOf, pc, hsem, hmem, ret, ready, crashes>>

Next ==
    \/ \E p \in Procs :
         \/ UrtInit(p) \/ Wait(p) \/ GetMem(p) \/ RegistryInit(p) \/ Fill(p) \/ Post(p)
         \/ UrtExit(p) \/ Crash(p)
    \/ \E b \in Builds : Recover(b)

Spec == Init /\ [][Next]_vars

-----------------------------------------------------------------------------
\* The semaphore is free, held by one process that is in urt_init, or taken
\* by one that died there; urt_recover makes up for that and for nothing else.
SemAccounted ==
    /\ TypeOK
    /\ gsem + stuck + Cardinality({p \in Procs : pc[p] \in Locked}) = 1

\* Every user of the name has the same build.
OneBuild == \A p, q \in Procs : buildOf[p] = buildOf[q]

\* Processes that initialized URT use one and the same registry, as long as
\* no failed mmap took the name away from under them.
OneRegistry ==
    OneBuild /\ "mmap" \notin failed =>
        \A p, q \in Procs : ready[p] /\ ready[q] => hmem[p] = hmem[q]

\* Processes of one build initialize the registry while nobody uses it: no
\* urt_init resets it under another process.
NeverReset ==
    [][OneBuild =>
         \A s \in Segments : initBy'[s] # initBy[s] \/ (filled[s] /\ ~filled'[s]) =>
            \A p \in Procs : ready[p] => hmem[p] # s]_vars

\* Among processes of one build, whoever still has the registry's memory after
\* urt_init is one that has initialized URT, so that the EALREADY of its next
\* urt_init is true; and, unless somebody died half way through urt_registry_init,
\* the counter of free names is in place for it.
AlreadyTrue ==
    OneBuild =>
        \A p \in Procs : pc[p] = "out" /\ hmem[p] # 0 =>
            ready[p] /\ (crashes = 0 => filled[hmem[p]])
=============================================================================
