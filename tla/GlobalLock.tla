----------------------------- MODULE GlobalLock -----------------------------
(***************************************************************************)
(* The global semaphore of a bi-space build (src/lock_common.c,            *)
(* src/kern_main.c): a semaphore of the kernel module, taken directly by   *)
(* kernel threads and through a sysfs file by user-space threads, which    *)
(* first take a mutex of their process.  The main module is loaded, its    *)
(* files may be missing, and it is unloaded and loaded again whatever      *)
(* user-space processes do: only other kernel modules hold it in place.    *)
(*                                                                         *)
(* down_interruptible may be cut short by a signal.  The code then logs an *)
(* error and goes on as if it had the semaphore.                           *)
(***************************************************************************)
EXTENDS Integers, FiniteSets

CONSTANTS
    Threads,
    Procs,          \* user-space processes
    Kernel,         \* kernel space
    SpaceOf,        \* the process of a thread, or Kernel
    NoThread,
    MaxInterrupts,  \* bound on the interrupted waits
    MaxCrashes,     \* bound on the processes that die
    MaxLoads        \* bound on the loads of the main module

ASSUME GlobalLockAssumption ==
    /\ IsFiniteSet(Threads) /\ NoThread \notin Threads
    /\ Kernel \notin Procs
    /\ \A t \in Threads : SpaceOf[t] \in Procs \cup {Kernel}
    /\ MaxInterrupts \in Nat /\ MaxCrashes \in Nat /\ MaxLoads \in Nat

VARIABLES
    urt_global_sem,  \* value of the semaphore in the kernel module
    sysfs_lock,      \* the thread that has the mutex of a process
    pc,
    owns,            \* the thread took the semaphore and has not given it back
    interrupts,      \* waits cut short by a signal
    crashes,
    lost,            \* units of the semaphore taken along by the dead, or
                     \* by a post that no longer reached the module
    stage,           \* of the main module: out, in, or leaving
    loads,           \* how often it was loaded
    file,            \* whether its sysfs file could be made
    handle           \* the load whose file a process has open, or 0 for -1

module == <<stage, loads, file>>
vars == <<urt_global_sem, sysfs_lock, pc, owns, interrupts, crashes, lost, module, handle>>

InUser(t) == SpaceOf[t] # Kernel
Locked == {"locked", "recovering"}

TypeOK ==
    /\ urt_global_sem \in 0 .. 1 + MaxInterrupts
    /\ sysfs_lock \in [Procs -> Threads \cup {NoThread}]
    /\ pc \in [Threads -> {"idle", "mutex", "write", "down", "unlock", "recovered", "dead"} \cup Locked]
    /\ owns \in [Threads -> BOOLEAN]
    /\ interrupts \in 0 .. MaxInterrupts /\ crashes \in 0 .. MaxCrashes
    /\ lost \in 0 .. 1 + MaxInterrupts
    /\ stage \in {"out", "in", "leaving"} /\ loads \in 0 .. MaxLoads
    /\ file \in BOOLEAN /\ handle \in [Procs -> 0 .. MaxLoads]

Init ==
    /\ urt_global_sem = 0
    /\ sysfs_lock = [p \in Procs |-> NoThread]
    /\ pc = [t \in Threads |-> "idle"]
    /\ owns = [t \in Threads |-> FALSE]
    /\ interrupts = 0 /\ crashes = 0 /\ lost = 0
    /\ stage = "out" /\ loads = 0 /\ file = FALSE
    /\ handle = [p \in Procs |-> 0]

Idle(p) == \A t \in Threads : SpaceOf[t] = p => pc[t] = "idle"

-----------------------------------------------------------------------------
(* _urt_main_init: the semaphore is made anew.  The module stays loaded    *)
(* when its sysfs file cannot be made.                                     *)
Load ==
    /\ stage = "out" /\ loads < MaxLoads
    /\ stage' = "in" /\ loads' = loads + 1 /\ file' \in BOOLEAN
    /\ urt_global_sem' = 1
    /\ UNCHANGED <<sysfs_lock, pc, owns, interrupts, crashes, lost, handle>>

(* _urt_main_exit.  kobject_put takes the file away: open descriptors fail *)
(* from now on.  Modules that use the semaphore keep this one loaded.      *)
KobjectPut ==
    /\ stage = "in" /\ Idle(Kernel)
    /\ stage' = "leaving"
    /\ UNCHANGED <<urt_global_sem, sysfs_lock, pc, owns, interrupts, crashes, lost, loads, file, handle>>

(* It returns when no thread is inside _lock_op any more, and the module   *)
(* goes, with the semaphore.                                               *)
Unload ==
    /\ stage = "leaving"
    /\ \A t \in Threads : pc[t] # "down"
    /\ stage' = "out" /\ file' = FALSE
    /\ urt_global_sem' = 0 /\ lost' = 0
    /\ owns' = [t \in Threads |-> FALSE]
    /\ UNCHANGED <<sysfs_lock, pc, interrupts, crashes, loads, handle>>

\* Whether a write of the thread reaches the module.
Served(t) == stage = "in" /\ (InUser(t) => file /\ handle[SpaceOf[t]] = loads)

(* urt_init of a process: urt_global_sem_get, which fails without the      *)
(* file, then the wait.                                                    *)
SemGet(t) ==
    /\ InUser(t) /\ Idle(SpaceOf[t])
    /\ handle[SpaceOf[t]] = 0
    /\ stage = "in" /\ file
    /\ handle' = [handle EXCEPT ![SpaceOf[t]] = loads]
    /\ pc' = [pc EXCEPT ![t] = "mutex"]
    /\ UNCHANGED <<urt_global_sem, sysfs_lock, owns, interrupts, crashes, lost, module>>

(* urt_global_sem_free, in the urt_exit of a process that ends; another    *)
(* process may take its place.                                             *)
SemFree(p) ==
    /\ Idle(p) /\ handle[p] # 0
    /\ handle' = [handle EXCEPT ![p] = 0]
    /\ UNCHANGED <<urt_global_sem, sysfs_lock, pc, owns, interrupts, crashes, lost, module>>

(* urt_global_sem_wait.  urt_recover is not called in a process with other *)
(* users of URT, so none of its threads starts a call meanwhile.           *)

Wait(t) ==
    /\ pc[t] = "idle"
    /\ IF InUser(t) THEN handle[SpaceOf[t]] # 0 ELSE stage = "in"
    /\ \A u \in Threads : SpaceOf[u] = SpaceOf[t] => pc[u] \notin {"recovering", "recovered"}
    /\ pc' = [pc EXCEPT ![t] = IF InUser(t) THEN "mutex" ELSE "down"]
    /\ UNCHANGED <<urt_global_sem, sysfs_lock, owns, interrupts, crashes, lost, module, handle>>

\* mutation: the mutex of the process is not taken
LockSysfsBug(t) ==
    /\ pc[t] = "mutex"
    /\ pc' = [pc EXCEPT ![t] = "write"]
    /\ UNCHANGED <<urt_global_sem, sysfs_lock, owns, interrupts, crashes, lost, module, handle>>

LockSysfs(t) ==
    /\ pc[t] = "mutex"
    /\ sysfs_lock[SpaceOf[t]] = NoThread
    /\ sysfs_lock' = [sysfs_lock EXCEPT ![SpaceOf[t]] = t]
    /\ pc' = [pc EXCEPT ![t] = "write"]
    /\ UNCHANGED <<urt_global_sem, owns, interrupts, crashes, lost, module, handle>>

(* The write of URT_GLOBAL_SEM_WAIT.  When it fails the thread goes on.    *)
Write(t) ==
    /\ pc[t] = "write"
    /\ pc' = [pc EXCEPT ![t] = IF Served(t) THEN "down" ELSE "locked"]
    /\ UNCHANGED <<urt_global_sem, sysfs_lock, owns, interrupts, crashes, lost, module, handle>>

\* mutation: down_trylock in place of down_interruptible
DownTryBug(t) ==
    /\ pc[t] = "down"
    /\ urt_global_sem' = IF urt_global_sem > 0 THEN urt_global_sem - 1 ELSE 0
    /\ owns' = [owns EXCEPT ![t] = TRUE]
    /\ pc' = [pc EXCEPT ![t] = "locked"]
    /\ UNCHANGED <<sysfs_lock, interrupts, crashes, lost, module, handle>>

Down(t) ==
    /\ pc[t] = "down"
    /\ urt_global_sem > 0
    /\ urt_global_sem' = urt_global_sem - 1
    /\ owns' = [owns EXCEPT ![t] = TRUE]
    /\ pc' = [pc EXCEPT ![t] = "locked"]
    /\ UNCHANGED <<sysfs_lock, interrupts, crashes, lost, module, handle>>

\* A signal ends the wait: _lock_op returns count all the same.
Interrupted(t) ==
    /\ pc[t] = "down"
    /\ urt_global_sem = 0
    /\ interrupts < MaxInterrupts
    /\ interrupts' = interrupts + 1
    /\ pc' = [pc EXCEPT ![t] = "locked"]
    /\ UNCHANGED <<urt_global_sem, sysfs_lock, owns, crashes, lost, module, handle>>

\* mutation: urt_recover posts without the try-wait
TryWaitBug(t) ==
    /\ pc[t] = "idle" /\ InUser(t)
    /\ \A u \in Threads : pc[u] \in {"idle", "dead"}
    /\ stage = "in" /\ file
    /\ handle' = [handle EXCEPT ![SpaceOf[t]] = loads]
    /\ lost' = 0
    /\ pc' = [pc EXCEPT ![t] = "recovering"]
    /\ UNCHANGED <<urt_global_sem, owns, sysfs_lock, interrupts, crashes, module>>

(* urt_recover: called when nobody uses URT, it opens the file, again if   *)
(* it is open, and needs no urt_init.  A unit that was lost to a crash     *)
(* counts as found again.                                                  *)
TryWait(t) ==
    /\ pc[t] = "idle" /\ InUser(t)
    /\ \A u \in Threads : pc[u] \in {"idle", "dead"}
    /\ stage = "in" /\ file
    /\ handle' = [handle EXCEPT ![SpaceOf[t]] = loads]
    /\ urt_global_sem' = IF urt_global_sem > 0 THEN urt_global_sem - 1 ELSE 0
    /\ owns' = [owns EXCEPT ![t] = TRUE]
    /\ lost' = IF urt_global_sem > 0 THEN lost ELSE lost - 1
    /\ pc' = [pc EXCEPT ![t] = "recovering"]
    /\ UNCHANGED <<sysfs_lock, interrupts, crashes, module>>

AfterUp(t) ==
    IF pc[t] = "recovering" THEN "recovered" ELSE IF InUser(t) THEN "unlock" ELSE "idle"

(* urt_global_sem_post: up, then, in user space, the mutex.  A write that  *)
(* fails is logged.                                                        *)
Up(t) ==
    /\ pc[t] \in Locked
    /\ urt_global_sem' = IF Served(t) THEN urt_global_sem + 1 ELSE urt_global_sem
    /\ lost' = IF owns[t] /\ ~Served(t) THEN lost + 1 ELSE lost
    /\ owns' = [owns EXCEPT ![t] = FALSE]
    /\ pc' = [pc EXCEPT ![t] = AfterUp(t)]
    /\ UNCHANGED <<sysfs_lock, interrupts, crashes, module, handle>>

(* urt_recover also closes the file.                                       *)
CloseAfter(t) == IF pc[t] = "recovered" THEN [handle EXCEPT ![SpaceOf[t]] = 0] ELSE handle

\* mutation: the mutex is left locked
UnlockSysfsBug(t) ==
    /\ pc[t] \in {"unlock", "recovered"}
    /\ handle' = CloseAfter(t)
    /\ pc' = [pc EXCEPT ![t] = "idle"]
    /\ UNCHANGED <<urt_global_sem, sysfs_lock, owns, interrupts, crashes, lost, module>>

UnlockSysfs(t) ==
    /\ pc[t] \in {"unlock", "recovered"}
    /\ handle' = CloseAfter(t)
    /\ sysfs_lock' = [sysfs_lock EXCEPT ![SpaceOf[t]] = NoThread]
    /\ pc' = [pc EXCEPT ![t] = "idle"]
    /\ UNCHANGED <<urt_global_sem, owns, interrupts, crashes, lost, module>>

\* A process dies: its mutex goes with it, the kernel's semaphore stays.
Crash(p) ==
    /\ crashes < MaxCrashes
    /\ crashes' = crashes + 1
    /\ pc' = [t \in Threads |-> IF SpaceOf[t] = p THEN "dead" ELSE pc[t]]
    /\ sysfs_lock' = [sysfs_lock EXCEPT ![p] = NoThread]
    /\ lost' = lost + Cardinality({t \in Threads : SpaceOf[t] = p /\ owns[t]})
    /\ owns' = [t \in Threads |-> owns[t] /\ SpaceOf[t] # p]
    /\ handle' = [handle EXCEPT ![p] = 0]
    /\ UNCHANGED <<urt_global_sem, interrupts, module>>

Go(t) == LockSysfs(t) \/ Write(t) \/ Down(t) \/ Up(t) \/ UnlockSysfs(t)

Next ==
    \/ Load \/ KobjectPut \/ Unload
    \/ \E t \in Threads : SemGet(t) \/ Wait(t) \/ TryWait(t) \/ Interrupted(t) \/ Go(t)
    \/ \E p \in Procs : SemFree(p) \/ Crash(p)

(* Whoever has the semaphore gives it back, and a thread is not kept from  *)
(* a lock it alone asks for; neither lock promises an order.               *)
Spec == Init /\ [][Next]_vars /\ \A t \in Threads : WF_vars(Go(t))

-----------------------------------------------------------------------------
Owners == {t \in Threads : owns[t]}

(* As long as the module is in place, the threads inside the sections that *)
(* urt_global_sem_wait opens, in the kernel and in the processes that      *)
(* opened the file of this load: one, and at most one more for each wait   *)
(* that a signal cut short.  A process that kept the file of an earlier    *)
(* load is not kept out.                                                   *)
MutualExclusion ==
    stage = "in" => Cardinality({t \in Threads : pc[t] \in Locked /\ Served(t)}) <= 1 + interrupts

(* No unit of the semaphore is lost but by a crash or the unloading of the *)
(* module, and none appears except by the post of a thread whose wait was  *)
(* interrupted: neither urt_recover's try-wait and post nor a process that *)
(* waited at an earlier load and posts at this one adds to it.             *)
SemAccounted ==
    /\ TypeOK
    /\ IF stage = "out" THEN urt_global_sem = 0 /\ lost = 0
       ELSE urt_global_sem + Cardinality(Owners) + lost \in 1 .. 1 + interrupts
    /\ stage = "in" /\ crashes = 0 => lost = 0

(* The workaround of lock_common.c: the threads of one process use the     *)
(* sysfs file one at a time, whatever signals, crashes and loads do.       *)
OneInSysfs ==
    \A p \in Procs :
        Cardinality({t \in Threads : SpaceOf[t] = p /\ pc[t] \in Locked \cup {"write", "down"}}) <= 1

\* rmmod waits for a thread inside _lock_op, to which no post comes through.
RmmodHangs == stage = "leaving" /\ \E t \in Threads : pc[t] = "down"

(* The two locks, taken in that order, never leave everyone waiting: when  *)
(* a thread waits, some thread gets in, unless a process dies or the       *)
(* module is being taken away under a thread that waits inside it.         *)
Progress ==
    (\E t \in Threads : pc[t] \in {"mutex", "write", "down"})
        ~> (crashes > 0 \/ RmmodHangs \/ \E t \in Threads : pc[t] \in Locked)
=============================================================================
