--------------------------- MODULE SharedObjects ---------------------------
(***************************************************************************)
(* Creation, attachment, deletion and forced clearing of named shared      *)
(* objects by concurrent users (src/new_common.c, src/registry.c, mem.c    *)
(* and lock.c of sys/posix/src and sys/rtai/src), with the operating       *)
(* system objects they stand for, failing system calls, crashes and        *)
(* urt_recover.                                                            *)
(*                                                                         *)
(* A user is one thread working on at most one object at a time; a process *)
(* that holds several objects is several users.  pc[u] is the call u is in *)
(* and how far it got; cs[u] is its position in the critical section of    *)
(* the global semaphore that every registry function opens and closes.     *)
(***************************************************************************)
EXTENDS Registry, FiniteSets

CONSTANTS
    Users,        \* threads that use the library
    SysNames,     \* names of the operating system's objects
    Settings,     \* back-ends, with what each name is agreed to stand for
    EarlyAttach,  \* may a name be attached to before its creation returned?
    Crashes,      \* may users crash?
    Faults,       \* system calls that may fail
    MaxFaults     \* bound on the number of kinds that fail, once each

Mem == "mem"      \* urt_shmem_*
Sem == "sem"      \* urt_shsem_*
Lock == "lock"    \* urt_sh{mutex,rwlock,cond}_*

FaultKinds ==
    {"open",         \* shm_open or sem_open of a creation
     "size",         \* ftruncate or mmap, or rt_shm_alloc, of a creation
     "init",         \* pthread_*_init of a shared lock
     "attach_open",  \* shm_open or sem_open of an attachment
     "attach_map"}   \* fstat or mmap of an attachment

ASSUME UsersAssumption == IsFiniteSet(Users)
ASSUME SettingsAssumption ==
    /\ Kinds = {Mem, Sem, Lock}
    /\ Settings \subseteq [backend : {"posix", "rtai"}, kind : [Names -> Kinds],
                           sysname : [Names -> SysNames]]
ASSUME EnvAssumption ==
    /\ EarlyAttach \in BOOLEAN
    /\ Crashes \in BOOLEAN
    /\ Faults \subseteq FaultKinds
    /\ MaxFaults \in Nat

VARIABLES
    gsem,               \* value of urt_global_sem
    objects,            \* urt_global_mem->objects
    objects_max_index,  \* urt_global_mem->objects_max_index
    os,                 \* the operating system's object under each of its names
    pc,                 \* the call a user is in
    cs,                 \* its position in the critical section
    name,               \* the name argument of that call or of the handle
    ro,                 \* the registry slot it refers to
    map,                \* its mapping: of the object linked under name, or not
    alive,              \* FALSE once crashed
    setting,            \* the back-end and the names' meaning, never changed
    faults              \* the system calls that failed so far

registry == <<objects, objects_max_index>>
vars == <<gsem, objects, objects_max_index, os, pc, cs, name, ro, map, alive, setting, faults>>

\* Calls that wait for the global semaphore when outside of it.
Locking == {"reserve", "commit", "abort", "misfree", "lookup", "giveup", "detach"}
Unlocked == {"idle", "open", "size", "init", "fill", "attach", "free", "clear"}

KindOf(n) == setting.kind[n]
OnRTAI == setting.backend = "rtai"

\* urt_convert_name: names that differ in case, or after a character that the
\* operating system's names cannot have, are one name to it.
SysName(n) == setting.sysname[n]

TypeOK ==
    /\ gsem \in {0, 1}
    /\ objects \in [Slots -> RegisteredObject]
    /\ objects_max_index \in Slots
    /\ os \in [SysNames -> {"absent", "empty", "ready"}]
    /\ pc \in [Users -> Locking \cup Unlocked]
    /\ cs \in [Users -> {"out", "in", "mid", "done"}]
    /\ name \in [Users -> Names \cup {NoName}]
    /\ ro \in [Users -> Slots \cup {NoSlot}]
    /\ map \in [Users -> {"none", "linked", "unlinked"}]
    /\ alive \in [Users -> BOOLEAN]
    /\ setting \in Settings
    /\ faults \subseteq Faults

\* The registry as urt_registry_init leaves it, the semaphore as
\* urt_global_sem_get creates it, and nobody in a call.
Init ==
    /\ gsem = 1
    /\ objects = [i \in Slots |-> EmptyObject]
    /\ objects_max_index = 0
    /\ os = [n \in SysNames |-> "absent"]
    /\ pc = [u \in Users |-> "idle"]
    /\ cs = [u \in Users |-> "out"]
    /\ name = [u \in Users |-> NoName]
    /\ ro = [u \in Users |-> NoSlot]
    /\ map = [u \in Users |-> "none"]
    /\ alive = [u \in Users |-> TRUE]
    /\ setting \in Settings
    /\ faults = {}

-----------------------------------------------------------------------------
\* Steps of a user outside (At) and inside (Inside) the critical section.
At(u, p) == alive[u] /\ cs[u] = "out" /\ pc[u] = p
Inside(u, p, c) == alive[u] /\ cs[u] = c /\ pc[u] = p

Goto(u, p) == pc' = [pc EXCEPT ![u] = p]
Phase(u, c) == cs' = [cs EXCEPT ![u] = c]

Fault(k) ==
    /\ k \in Faults \ faults /\ Cardinality(faults) < MaxFaults
    /\ faults' = faults \cup {k}

\* v has the object that n stands for mapped.
Maps(v, n) == map[v] = "linked" /\ SysName(name[v]) = SysName(n)

\* shm_unlink or sem_unlink of n by a user that is left with mapping m: who
\* has the object mapped keeps it, without a name.
Unlink(n, u, m) ==
    /\ os' = [os EXCEPT ![SysName(n)] = "absent"]
    /\ map' = [v \in Users |->
                 CASE v = u -> m
                   [] v # u /\ Maps(v, n) -> "unlinked"
                   [] OTHER -> map[v]]

Unmap(u, m) == map' = [map EXCEPT ![u] = m] /\ UNCHANGED os

-----------------------------------------------------------------------------
\* Use of the library: without EarlyAttach, a lookup does not find a name whose
\* creation is still in progress.
AttachInTime(u) ==
    \/ EarlyAttach
    \/ pc[u] # "lookup"
    \/ \A s \in Slots : objects[s].name = name[u] => ~objects[s].reserved

\* Use of the library: the clear tool is given names that no live user holds.
Abandoned(n) ==
    \A u \in Users : alive[u] /\ ro[u] # NoSlot => objects[ro[u]].name # n

\* urt_global_sem_wait and urt_global_sem_post around a registry function.
Acquire(u) ==
    /\ alive[u] /\ cs[u] = "out" /\ pc[u] \in Locking
    /\ gsem > 0
    /\ AttachInTime(u)
    /\ gsem' = gsem - 1
    /\ Phase(u, "in")
    /\ UNCHANGED <<registry, os, pc, name, ro, map, alive, setting, faults>>

Post(u) ==
    /\ alive[u] /\ cs[u] = "done"
    /\ gsem' = gsem + 1
    /\ Phase(u, "out")
    /\ UNCHANGED <<registry, os, pc, name, ro, map, alive, setting, faults>>

-----------------------------------------------------------------------------
\* SHOBJ_NEW, the body of urt_sh{mem,sem,mutex,rwlock,cond}_new.
New(u, n) ==
    /\ At(u, "idle") /\ ro[u] = NoSlot
    /\ Goto(u, "reserve")
    /\ name' = [name EXCEPT ![u] = n]
    /\ UNCHANGED <<gsem, registry, os, cs, ro, map, alive, setting, faults>>

\* urt_reserve_name up to the write of the slot.  EEXIST and ENOSPC return
\* NULL, and SHOBJ_NEW with it.
ReserveSlot(u) ==
    /\ Inside(u, "reserve", "in")
    /\ IF FindByName(objects, objects_max_index, name[u]) = NoSlot /\ FreeSlots(objects) # {}
         THEN LET s == First(FreeSlots(objects)) IN
              /\ objects' = [objects EXCEPT ![s] = ReservedObject(name[u])]
              /\ ro' = [ro EXCEPT ![u] = s]
              /\ Phase(u, "mid")
              /\ UNCHANGED <<pc, name>>
         ELSE /\ Goto(u, "idle") /\ Phase(u, "done")
              /\ name' = [name EXCEPT ![u] = NoName]
              /\ UNCHANGED <<objects, ro>>
    /\ UNCHANGED <<gsem, objects_max_index, os, map, alive, setting, faults>>

\* The rest of it: objects_max_index follows the slot.
ReserveMax(u) ==
    /\ Inside(u, "reserve", "mid")
    /\ objects_max_index' = RaisedMax(objects_max_index, ro[u])
    /\ Goto(u, "open") /\ Phase(u, "done")
    /\ UNCHANGED <<gsem, objects, os, name, ro, map, alive, setting, faults>>

\* The back-end's creation fails, and SHOBJ_NEW deregisters the name.
CreateFailsBug(u) == Goto(u, "abort") /\ Unlink(name[u], u, "none")
CreateFails(u) == Goto(u, "abort") /\ UNCHANGED <<os, map>>

\* Opening with O_CREAT | O_EXCL: the name was free or the call fails.
OpenExclusive(u, made, next) ==
    \/ /\ os[SysName(name[u])] = "absent"
       /\ os' = [os EXCEPT ![SysName(name[u])] = made]
       /\ map' = [map EXCEPT ![u] = "linked"]
       /\ Goto(u, next)
       /\ UNCHANGED faults
    \/ os[SysName(name[u])] # "absent" /\ CreateFails(u) /\ UNCHANGED faults
    \/ Fault("open") /\ CreateFails(u)

\* urt_sys_shsem_new of POSIX: sem_open makes a complete semaphore.
OpenSem(u) ==
    /\ At(u, "open") /\ ~OnRTAI /\ KindOf(name[u]) = Sem
    /\ OpenExclusive(u, "ready", "fill")
    /\ UNCHANGED <<gsem, registry, cs, name, ro, alive, setting>>

\* urt_sys_shmem_new of POSIX: shm_open makes shared memory of size zero.
OpenMem(u) ==
    /\ At(u, "open") /\ ~OnRTAI /\ KindOf(name[u]) # Sem
    /\ OpenExclusive(u, "empty", "size")
    /\ UNCHANGED <<gsem, registry, cs, name, ro, alive, setting>>

\* urt_sys_sh{sem,mutex,rwlock,cond}_new of RTAI: a named object that exists
\* already is taken as it is.
OpenNamed(u) ==
    /\ At(u, "open") /\ OnRTAI /\ KindOf(name[u]) # Mem
    /\ \/ /\ os' = [os EXCEPT ![SysName(name[u])] = "ready"]
          /\ map' = [map EXCEPT ![u] = "linked"]
          /\ Goto(u, "fill")
          /\ UNCHANGED faults
       \/ Fault("open") /\ CreateFails(u)
    /\ UNCHANGED <<gsem, registry, cs, name, ro, alive, setting>>

\* urt_sys_shmem_new of RTAI: rt_get_adr first.
CheckShm(u) ==
    /\ At(u, "open") /\ OnRTAI /\ KindOf(name[u]) = Mem
    /\ Goto(u, IF os[SysName(name[u])] = "absent" THEN "size" ELSE "abort")
    /\ UNCHANGED <<gsem, registry, os, cs, name, ro, map, alive, setting, faults>>

\* Then rt_shm_alloc, which would also take memory that exists by now.
AllocShm(u) ==
    /\ At(u, "size") /\ OnRTAI
    /\ \/ /\ os' = [os EXCEPT ![SysName(name[u])] = "ready"]
          /\ map' = [map EXCEPT ![u] = "linked"]
          /\ Goto(u, "fill")
          /\ UNCHANGED faults
       \/ Fault("size") /\ CreateFails(u)
    /\ UNCHANGED <<gsem, registry, cs, name, ro, alive, setting>>

\* ftruncate and mmap of _shmem_common; a failure unlinks the name.
Size(u) ==
    /\ At(u, "size") /\ ~OnRTAI
    /\ \/ /\ os' = [os EXCEPT ![SysName(name[u])] = IF map[u] = "linked" THEN "ready" ELSE @]
          /\ Goto(u, IF KindOf(name[u]) = Lock THEN "init" ELSE "fill")
          /\ UNCHANGED <<map, faults>>
       \/ /\ Fault("size")
          /\ Unlink(name[u], u, "none")
          /\ Goto(u, "abort")
    /\ UNCHANGED <<gsem, registry, cs, name, ro, alive, setting>>

\* The init of _pthread_shlock_new.  A failure calls urt_shmem_delete.
InitLock(u) ==
    /\ At(u, "init")
    /\ \/ Goto(u, "fill") /\ UNCHANGED faults
       \/ Fault("init") /\ Goto(u, "misfree")
    /\ UNCHANGED <<gsem, registry, os, cs, name, ro, map, alive, setting>>

\* The book keeping and the type and size fields, written without the lock.
Fill(u) ==
    /\ At(u, "fill")
    /\ objects' = [objects EXCEPT ![ro[u]].type = KindOf(name[u])]
    /\ Goto(u, "commit")
    /\ UNCHANGED <<gsem, objects_max_index, os, cs, name, ro, map, alive, setting, faults>>

\* urt_inc_name_count.
Commit(u) ==
    /\ Inside(u, "commit", "in")
    /\ objects' = [objects EXCEPT ![ro[u]] = IncCount(@)]
    /\ Goto(u, "idle") /\ Phase(u, "done")
    /\ UNCHANGED <<gsem, objects_max_index, os, name, ro, map, alive, setting, faults>>

-----------------------------------------------------------------------------
\* SHOBJ_ATTACH, the body of urt_sh{mem,sem,mutex,rwlock,cond}_attach.
Attach(u, n) ==
    /\ At(u, "idle") /\ ro[u] = NoSlot
    /\ Goto(u, "lookup")
    /\ name' = [name EXCEPT ![u] = n]
    /\ UNCHANGED <<gsem, registry, os, cs, ro, map, alive, setting, faults>>

\* urt_get_object_by_name_and_inc_count; ENOENT returns NULL.
LookupBug(u) ==
    /\ Inside(u, "lookup", "in")
    /\ LET s == FindByName(objects, objects_max_index, name[u]) IN
       IF s = NoSlot
         THEN UNCHANGED <<pc, objects, name, ro>>
         ELSE /\ objects' = [objects EXCEPT ![s] = IncCount(@)]
              /\ ro' = [ro EXCEPT ![u] = s]
              /\ Goto(u, "attach")
              /\ UNCHANGED name
    /\ Phase(u, "done")
    /\ UNCHANGED <<gsem, objects_max_index, os, map, alive, setting, faults>>
Lookup(u) ==
    /\ Inside(u, "lookup", "in")
    /\ LET s == FindByName(objects, objects_max_index, name[u]) IN
       IF s = NoSlot
         THEN /\ Goto(u, "idle")
              /\ name' = [name EXCEPT ![u] = NoName]
              /\ UNCHANGED <<objects, ro>>
         ELSE /\ objects' = [objects EXCEPT ![s] = IncCount(@)]
              /\ ro' = [ro EXCEPT ![u] = s]
              /\ Goto(u, "attach")
              /\ UNCHANGED name
    /\ Phase(u, "done")
    /\ UNCHANGED <<gsem, objects_max_index, os, map, alive, setting, faults>>

\* Opening what must exist.
OpenExisting(u) ==
    /\ \/ /\ os[SysName(name[u])] # "absent"
          /\ map' = [map EXCEPT ![u] = "linked"]
          /\ Goto(u, "idle")
          /\ UNCHANGED faults
       \/ /\ os[SysName(name[u])] = "absent"
          /\ Goto(u, "giveup")
          /\ UNCHANGED <<map, faults>>
       \/ /\ Fault("attach_open")
          /\ Goto(u, "giveup")
          /\ UNCHANGED map
    /\ UNCHANGED <<gsem, registry, os, cs, name, ro, alive, setting>>

\* urt_sys_shsem_attach of POSIX: sem_open without O_CREAT.
AttachSem(u) == At(u, "attach") /\ ~OnRTAI /\ KindOf(name[u]) = Sem /\ OpenExisting(u)

\* urt_sys_sh{sem,mutex,rwlock,cond}_attach of RTAI: rt_get_adr, which counts
\* no users.
AttachNamed(u) == At(u, "attach") /\ OnRTAI /\ KindOf(name[u]) # Mem /\ OpenExisting(u)

\* urt_sys_shmem_attach of RTAI: rt_shm_alloc of size zero.
AttachShm(u) == At(u, "attach") /\ OnRTAI /\ KindOf(name[u]) = Mem /\ OpenExisting(u)

\* urt_sys_shmem_attach of POSIX: shm_open without O_CREAT, fstat, mmap.  Memory of
\* size zero cannot be mapped, and _shmem_common unlinks the name whatever
\* failed after shm_open.
AttachMem(u) ==
    /\ At(u, "attach") /\ ~OnRTAI /\ KindOf(name[u]) # Sem
    /\ \/ /\ os[SysName(name[u])] = "ready"
          /\ map' = [map EXCEPT ![u] = "linked"]
          /\ Goto(u, "idle")
          /\ UNCHANGED <<os, faults>>
       \/ /\ os[SysName(name[u])] = "absent"
          /\ Goto(u, "giveup")
          /\ UNCHANGED <<os, map, faults>>
       \/ /\ os[SysName(name[u])] = "empty"
          /\ Unlink(name[u], u, "none")
          /\ Goto(u, "giveup")
          /\ UNCHANGED faults
       \/ /\ Fault("attach_open")
          /\ Goto(u, "giveup")
          /\ UNCHANGED <<os, map>>
       \/ /\ os[SysName(name[u])] # "absent"
          /\ Fault("attach_map")
          /\ Unlink(name[u], u, "none")
          /\ Goto(u, "giveup")
    /\ UNCHANGED <<gsem, registry, cs, name, ro, alive, setting>>

-----------------------------------------------------------------------------
\* RTAI's urt_shmem_detach frees the memory before it deregisters.
FreesFirst(n) == OnRTAI /\ KindOf(n) = Mem

\* urt_sh*_delete (urt_sh*_detach).
Delete(u) ==
    /\ At(u, "idle") /\ ro[u] # NoSlot
    /\ Goto(u, IF FreesFirst(name[u]) THEN "free" ELSE "detach")
    /\ UNCHANGED <<gsem, registry, os, cs, name, ro, map, alive, setting, faults>>

\* rt_shm_free of the name in the slot, outside of the critical section: RTAI
\* counts the users of shared memory itself.
FreeShm(u) ==
    /\ At(u, "free")
    /\ LET n == objects[ro[u]].name
       IN  IF \E v \in Users \ {u} : Maps(v, n)
             THEN Unmap(u, "none")
             ELSE Unlink(n, u, "none")
    /\ Goto(u, "detach")
    /\ UNCHANGED <<gsem, registry, cs, name, ro, alive, setting, faults>>

\* The slot urt_deregister is called with.  _pthread_shlock_new reads it from
\* the book keeping of memory in which none was written yet.
DecSlot(u) == IF pc[u] = "misfree" THEN 0 ELSE ro[u]

\* urt_deregister: the head of _dec_count_common.
DecHead(u) ==
    /\ alive[u] /\ cs[u] = "in" /\ pc[u] \in {"detach", "abort", "giveup", "misfree"}
    /\ objects' = [objects EXCEPT ![DecSlot(u)] = DecCount(@)]
    /\ Phase(u, "mid")
    /\ UNCHANGED <<gsem, objects_max_index, os, pc, name, ro, map, alive, setting, faults>>

\* _shsem_detach: sem_close, and sem_unlink of the name in the slot when
\* nobody is left.
ReleaseSem(u) ==
    LET o == objects[DecSlot(u)]
    IN  IF o.count = 0 /\ o.name \in Names /\ KindOf(o.name) = Sem
          THEN Unlink(o.name, u, "none")
          ELSE Unmap(u, "none")

\* _shsem_detach, _shrwlock_detach and _shcond_detach of RTAI: the last user
\* deletes the object its handle points to.
ReleaseNamed(u) ==
    IF objects[ro[u]].count = 0 /\ map[u] = "linked"
      THEN Unlink(name[u], u, "none")
      ELSE Unmap(u, "none")

\* _shmem_detach: munmap, and shm_unlink of the name in the slot when nobody
\* is left.
ReleaseMemBug(u) ==
    LET o == objects[DecSlot(u)]
    IN  IF o.name \in Names /\ KindOf(o.name) # Sem
          THEN Unlink(o.name, u, "none")
          ELSE Unmap(u, "none")
ReleaseMem(u) ==
    LET o == objects[DecSlot(u)]
    IN  IF o.count = 0 /\ o.name \in Names /\ KindOf(o.name) # Sem
          THEN Unlink(o.name, u, "none")
          ELSE Unmap(u, "none")

\* The same for a lock; first its destroy function, which does nothing unless
\* nobody is left, and then destroys what goes with the memory.
ReleaseLock(u) == ReleaseMem(u)

\* The callback of urt_deregister.  The failure paths of SHOBJ_NEW and
\* SHOBJ_ATTACH, and RTAI's shared memory, pass none.
ReleaseBug(u) == Unmap(u, "none")
Release(u) ==
    IF pc[u] \in {"abort", "giveup"} \/ FreesFirst(name[u])
      THEN Unmap(u, "none")
      ELSE CASE OnRTAI -> ReleaseNamed(u)
             [] ~OnRTAI /\ KindOf(name[u]) = Sem -> ReleaseSem(u)
             [] ~OnRTAI /\ KindOf(name[u]) = Lock -> ReleaseLock(u)
             [] OTHER -> ReleaseMem(u)

\* The tail: the callback, then objects_max_index.
DecTailBug(u) ==
    /\ alive[u] /\ cs[u] = "mid" /\ pc[u] \in {"detach", "abort", "giveup", "misfree"}
    /\ IF \A i \in 0 .. DecSlot(u) : ~InUse(objects[i])
         THEN UNCHANGED <<objects_max_index, os, map, cs, pc, name, ro>>
         ELSE /\ Release(u)
              /\ objects_max_index' = MaxAfterDec(objects, objects_max_index, DecSlot(u))
              /\ Phase(u, "done") /\ Goto(u, "idle")
              /\ name' = [name EXCEPT ![u] = NoName]
              /\ ro' = [ro EXCEPT ![u] = NoSlot]
    /\ UNCHANGED <<gsem, objects, alive, setting, faults>>
DecTail(u) ==
    /\ alive[u] /\ cs[u] = "mid" /\ pc[u] \in {"detach", "abort", "giveup", "misfree"}
    /\ Release(u)
    /\ objects_max_index' = MaxAfterDec(objects, objects_max_index, DecSlot(u))
    /\ Phase(u, "done")
    /\ IF pc[u] = "misfree"
         THEN Goto(u, "abort") /\ UNCHANGED <<name, ro>>
         ELSE /\ Goto(u, "idle")
              /\ name' = [name EXCEPT ![u] = NoName]
              /\ ro' = [ro EXCEPT ![u] = NoSlot]
    /\ UNCHANGED <<gsem, objects, alive, setting, faults>>

-----------------------------------------------------------------------------
\* urt_force_clear_name, called by the urt_clear tool, up to its wait for the
\* global semaphore.
Clear(u, n) ==
    /\ At(u, "idle") /\ ro[u] = NoSlot
    /\ Abandoned(n)
    /\ gsem > 0
    /\ gsem' = gsem - 1
    /\ Goto(u, "clear") /\ Phase(u, "in")
    /\ name' = [name EXCEPT ![u] = n]
    /\ UNCHANGED <<registry, os, ro, map, alive, setting, faults>>

\* urt_sys_force_clear_name unlinks by the type in the slot; a slot whose
\* type was not written yet leaves the operating system's object alone.
ClearUnlink(u) ==
    /\ Inside(u, "clear", "in")
    /\ LET s == FindByName(objects, objects_max_index, name[u]) IN
       IF s = NoSlot
         THEN /\ Goto(u, "idle") /\ Phase(u, "done")
              /\ name' = [name EXCEPT ![u] = NoName]
              /\ UNCHANGED <<os, map, ro>>
         ELSE /\ IF objects[s].type = NoType
                   THEN UNCHANGED <<os, map>>
                   ELSE Unlink(name[u], u, "none")
              /\ ro' = [ro EXCEPT ![u] = s]
              /\ Phase(u, "mid")
              /\ UNCHANGED <<pc, name>>
    /\ UNCHANGED <<gsem, registry, alive, setting, faults>>

\* The references of crashed users are gone with the slot.
ClearSlot(u) ==
    /\ Inside(u, "clear", "mid")
    /\ LET s == ro[u]
           cleared == [objects EXCEPT ![s] = ClearedObject(@)]
       IN  /\ objects' = cleared
           /\ objects_max_index' = MaxAfterDec(cleared, objects_max_index, s)
           /\ ro' = [v \in Users |->
                      IF ro[v] = s /\ (v = u \/ ~alive[v]) THEN NoSlot ELSE ro[v]]
    /\ Goto(u, "idle") /\ Phase(u, "done")
    /\ name' = [name EXCEPT ![u] = NoName]
    /\ UNCHANGED <<gsem, os, map, alive, setting, faults>>

-----------------------------------------------------------------------------
\* A user dies wherever it is; what it holds in the registry stays.
Crash(u) ==
    /\ Crashes /\ alive[u]
    /\ alive' = [alive EXCEPT ![u] = FALSE]
    /\ UNCHANGED <<gsem, registry, os, pc, cs, name, ro, map, setting, faults>>

\* urt_recover: try_wait, recompute objects_max_index, post.  It is called
\* when no users of the library are present (doc/urt).
RecoverTwiceBug ==
    /\ \A u \in Users : alive[u] => At(u, "idle") /\ ro[u] = NoSlot
    /\ \E u \in Users : ~alive[u]
    /\ objects_max_index' = RecoveredMax(objects)
    /\ gsem' = IF gsem < 2 THEN gsem + 1 ELSE gsem
    /\ UNCHANGED <<objects, os, pc, cs, name, ro, map, alive, setting, faults>>
RecoverLockBug ==
    /\ \A u \in Users : alive[u] => At(u, "idle") /\ ro[u] = NoSlot
    /\ \E u \in Users : ~alive[u]
    /\ gsem' = 1
    /\ UNCHANGED <<registry, os, pc, cs, name, ro, map, alive, setting, faults>>
Recover ==
    /\ \A u \in Users : alive[u] => At(u, "idle") /\ ro[u] = NoSlot
    /\ \E u \in Users : ~alive[u]
    /\ objects_max_index' = RecoveredMax(objects)
    /\ gsem' = (IF gsem > 0 THEN gsem - 1 ELSE gsem) + 1
    /\ UNCHANGED <<objects, os, pc, cs, name, ro, map, alive, setting, faults>>

\* What a call does by itself once made.
Proceed(u) ==
    \/ Acquire(u) \/ Post(u)
    \/ ReserveSlot(u) \/ ReserveMax(u) \/ Fill(u) \/ Commit(u)
    \/ OpenSem(u) \/ OpenMem(u) \/ Size(u) \/ InitLock(u)
    \/ OpenNamed(u) \/ CheckShm(u) \/ AllocShm(u)
    \/ Lookup(u) \/ AttachSem(u) \/ AttachMem(u) \/ AttachNamed(u) \/ AttachShm(u)
    \/ FreeShm(u) \/ DecHead(u) \/ DecTail(u)
    \/ ClearUnlink(u) \/ ClearSlot(u)

Next ==
    \/ \E u \in Users :
         \/ \E n \in Names : New(u, n) \/ Attach(u, n) \/ Clear(u, n)
         \/ Delete(u)
         \/ Proceed(u)
         \/ Crash(u)
    \/ Recover

Spec == Init /\ [][Next]_vars

\* A call steps on when it can and the semaphore's holder is scheduled; calls
\* are made, and users crash, or not.  sem_wait promises no order between its
\* waiters, so the wait is only weakly fair.
FairSpec == Spec /\ \A u \in Users : WF_vars(Proceed(u))

-----------------------------------------------------------------------------
\* u contributes one to the count of slot s.
Counts(u, s) ==
    /\ ro[u] = s
    /\ pc[u] \in {"idle", "attach", "giveup", "free", "detach"}
    /\ cs[u] # "mid"

\* u is the creation that slot s is reserved for.
Reserves(u, s) ==
    /\ ro[u] = s
    /\ \/ pc[u] \in {"open", "size", "init", "misfree", "fill", "commit"}
       \/ pc[u] = "reserve"
       \/ pc[u] = "abort" /\ cs[u] # "mid"

\* u was given a handle and has not started to give it back.
Holds(u) ==
    /\ ro[u] # NoSlot /\ cs[u] # "mid"
    /\ pc[u] \in {"idle", IF FreesFirst(name[u]) THEN "free" ELSE "detach"}

\* The global semaphore admits one live user at a time to the registry,
\* whatever crashes and recoveries came before.
MutualExclusion ==
    \A u, v \in Users :
        alive[u] /\ alive[v] /\ cs[u] # "out" /\ cs[v] # "out" => u = v /\ gsem = 0

\* The count of a slot is the number of users, crashed ones included, that
\* are attached to it, at every instant of every call: urt_inc_name_count,
\* the lookup's increment and _dec_count_common never lose or double one.
RefCount ==
    \A s \in Slots : objects[s].count = Cardinality({u \in Users : Counts(u, s)})

\* Where references can be lost (an attachment that is too early, a lock whose
\* init failed), they are never invented: no count is higher than the number
\* of attached users.
NoPhantomReference ==
    \A s \in Slots : objects[s].count <= Cardinality({u \in Users : Counts(u, s)})

\* A reservation belongs to exactly one creation in progress, and nobody is
\* attached to the slot meanwhile.
ReservationOwned ==
    \A s \in Slots :
        /\ objects[s].reserved <=> \E u \in Users : Reserves(u, s)
        /\ objects[s].reserved => objects[s].count = 0
        /\ \A u, v \in Users : Reserves(u, s) /\ Reserves(v, s) => u = v

\* No name is registered twice, although _find_by_name only looks at the
\* slots up to objects_max_index.
UniqueNames ==
    \A s, t \in Slots :
        InUse(objects[s]) /\ InUse(objects[t]) /\ objects[s].name = objects[t].name => s = t

\* Whenever the registry can be entered, the index that urt_reserve_name
\* raises and _dec_count_common lowers is the one urt_recover would compute.
MaxIndexExact == gsem = 1 => objects_max_index = RecoveredMax(objects)

\* _internal_mem_check never finds a slot in use above objects_max_index.
MemCheckSilent ==
    gsem = 1 => \A s \in Slots : InUse(objects[s]) => s <= objects_max_index

\* A handle refers to the slot registered under its name and maps the object
\* that others attach to under that name, as long as its user lives.  Only
\* the error path of an attachment that could not map its object unlinks an
\* object in use.
HandleValid ==
    "attach_map" \notin faults => \A u \in Users :
        alive[u] /\ Holds(u) =>
            /\ InUse(objects[ro[u]]) /\ objects[ro[u]].name = name[u]
            /\ map[u] = "linked" /\ os[SysName(name[u])] = "ready"

\* When nobody is in the registry, an object of the operating system exists
\* only under a registered name: it was freed with its last user, unless that
\* was an attachment that could not open it.
NoOrphan ==
    gsem = 1 /\ "attach_open" \notin faults =>
        \A n \in SysNames :
            os[n] # "absent" => \E s \in Slots : InUse(objects[s]) /\ SysName(objects[s].name) = n

\* The registry's slots, counts and index decide as the table of names in
\* which every user is listed would: the calls implement NameTable.
Table == INSTANCE NameTable WITH
    creating <- [n \in Names |-> {u \in Users : name[u] = n /\ ro[u] # NoSlot /\ Reserves(u, ro[u])}],
    attached <- [n \in Names |-> {u \in Users : name[u] = n /\ ro[u] # NoSlot /\ Counts(u, ro[u])}],
    gone <- {u \in Users : ~alive[u]}
ImplementsNameTable == Table!Spec

\* Unless users crash, the global semaphore is always available again.
LockReleased == []<>(gsem = 1)

\* A call returns, unless other users keep calling for ever.
CallsReturn ==
    \A u \in Users :
        (<>[](\A v \in Users \ {u} : pc[v] = "idle")) => []<>(pc[u] = "idle")
=============================================================================
