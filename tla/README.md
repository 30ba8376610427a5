# URT in TLA+

URT is a C library that gives real-time programs one interface to tasks, time,
shared memory and locks, in user space (POSIX), under RTAI, and in kernel
modules. This directory holds TLA+ models of its core, the TLC runs that check
them on small instances, and TLAPS proofs of the parts that hold for every
instance. Paths below are relative to the repository.

## 1. The system

### Components, their state and operations

| Component | State | Operations |
|---|---|---|
| Registry (`src/registry.c`) | In shared memory: a table of `URT_MAX_OBJECTS` slots (name, type, count, reserved flag), the highest index in use, the next free name | reserve, count up, count down and free, look up and count up, force clear, give a free name, print, dump |
| Shared objects (`src/new_common.c`, `mem.c` and `lock.c` of `sys/posix/src` and `sys/rtai/src`, `sys/posix/src/names.c`) | One object of the operating system per converted name; per process a mapping and, before shared memory, a bookkeeping block with the slot's index | new, attach, delete for memory, semaphores, mutexes, readers-writers locks, condition variables |
| Global semaphore (`sys/posix/src/lock.c`; bi-space: `src/lock_common.c`, `src/kern_main.c`) | A named semaphore, or a semaphore of the kernel module behind a sysfs file and a mutex per process | get, wait, try-wait, post, free; load and unload the module |
| Set-up (`src/setup_common.c`, `sys/posix/src/setup.c`) | Pointers of the process to the semaphore and to the registry | `urt_init`, `urt_exit`, `urt_recover` |
| Locks (`sys/posix/src/lock.c`, `sys/rtai/src/lock.c`) | The primitive of the operating system | wait with a stop condition, with a time limit, without; try; post, unlock |
| Condition variables (same files) | The primitive and a mutex | the same waits, signal, broadcast |
| Tasks and time (`task.c` and `urt_sys_time.h` of both back-ends, `src/task_common.c`, `_calibrate`) | Start time, period, whether the next period was computed; the offset of the clock | new, start, wait for the period, ask for it, sleep, delete, calibrate |
| Application glue (`include/urt_setup.h`) | `interrupted`, `done`, where main, body and the tasks are | the macros `URT_GLUE` and `URT_GLUE_NO_INTERRUPT`, in two spaces |
| Parameters (`src/param.c`, `include/urt_param.h`) | The application's variables, counts, allocated strings | `urt_parse_args`, `urt_free_args` |
| Tools (`tools/`) | none | clear and recover change the registry, names and dump print it |

### How they interact

Every operation of the registry is a critical section of the global semaphore.
Creating or attaching to an object is several of them with system calls in
between: *new* reserves the name, makes the object without the semaphore, fills
in the slot, and only then counts itself and drops the reservation; *attach*
counts itself first and opens the object afterwards; *delete* counts down and,
if it was the last, removes the object inside the critical section; the RTAI
back-end frees its object first and counts down afterwards. Processes
share the registry and the objects, nothing else; a process that dies leaves
its counts, its reservations and perhaps the semaphore behind, which
`urt_recover` and `urt_clear` repair.

### What is hard here

- calls of several processes interleave between their critical sections;
- a system call of several fails, and the error path undoes what was done;
- processes die anywhere, and the repair must not hurt those that live;
- waits that can be cancelled are loops of short timed waits, with gaps;
- signals cut waits and sleeps short;
- time is read, then used;
- tables and counters have ends: the last slot, slot 0, the last free name;
- an application has two lives, one per space, and ends asynchronously.

The hazards in `PROJECT.json` place each of these at its line.

### What makes each part correct

- Registry: one user at a time inside; no name twice; a reservation has one
  owner; a count is the number of users; the index is exact; a handle stays
  valid; an object lives exactly as long as it has users. In one sentence: the
  slots behave as the table of names of `NameTable`.
- Set-up: the semaphore is never lost or doubled; nobody resets a registry in
  use; those who succeeded share one registry.
- Locks: cancellation and time-outs are neither early nor late; waits end; no
  wake-up is lost.
- Tasks: no period early, left out or other than announced, and none repeated
  but where the next one was asked for before the clock had gone past its start.
- Free names: all are given once before any is given again; none that is
  registered.
- Glue and parameters: what was made is unmade, once, after its last user; an
  interrupt ends the program; a bad command line never starts it.

## 2. Modules

| Module | Models | State | Actions |
|---|---|---|---|
| `Registry` | pure parts of `src/registry.c` | operators on a table | `FindByName`, `FreeSlots`, `IncCount`, `DecCount`, `RaisedMax`, `MaxAfterDec`, `RecoveredMax`, ... |
| `SharedObjects` | new, attach, delete, clear, crash, recover, in both back-ends | registry, semaphore, objects of the system by converted name, position and handle of each user, the setting (back-end, kinds and spellings of the names, fixed) | one per critical section or system call: `Acquire`, `ReserveSlot`, `ReserveMax`, `OpenNamed`, `CheckShm`, `AllocShm`, `Size`, `InitLock`, `Fill`, `Commit`, `Lookup`, `AttachNamed`, `AttachShm`, `FreeShm`, `DecHead`, `DecTail`, `Clear...`, `Post`, `Crash`, `Recover` |
| `NameTable` | what the registry promises (abstract) | users creating and attached per name | `Create`, `Created`, `GiveUp`, `Attach`, `Detach`, `Clear`, `Crash` |
| `Setup` | `urt_init`, `urt_exit`, `urt_recover` | semaphore, memory segments, who initialized them and how much of that is kept, handles | one per step between two system calls |
| `StopLock` | waits of semaphores, mutexes, readers-writers locks | permits, deadlines relative to now | `LockfPosix`, `LockfRtai`, `TimedLock`, `TryLock`, `TimeOut`, `Interrupt`, `Retry`, ... |
| `CondVar` | condition variables as `doc/urt_lock` uses them | mutex, items, stop | `CondWait`, `CheckStop`, `Block`, `Expire`, `Signal`, `Broadcast`, ... |
| `PeriodicTask` | a task and `urt_sleep`: POSIX, RTAI user space, RTAI kernel space | clock and its offset, attributes, what was announced | `New`, `Start`, `StartKernel`, `Wrapper`, `WrapperRTAI`, `WaitPeriod`, `RtWaitPeriod`, `NextPeriod`, `RtNextPeriod`, `Sleep`, `USleep`, `Slew`, `Interrupt`, ... |
| `FreeNames` | `urt_get_free_name` and its users, the registry and RTAI's tasks (no specification of its own) | the counter as digits, names held, registered and run under | `GetFreeName`, `Register`, `TaskInit`, `Forget` |
| `Inspect` | `urt_dump_memory` beside `FreeNames`, with the writes of `SHOBJ_NEW` to the slot one by one | sizes of the objects and of the slots, the dump | `Reserve`, `SetType`, `SetSize`, `AddBook`, `Leave`, `Look`, `AttachDump`, `DetachDump` |
| `GlobalLock` | the bi-space global semaphore and the main module | kernel semaphore, mutex and open file per process, the module's stage and number of loads | `Load`, `KobjectPut`, `Unload`, `SemGet`, `SemFree`, `Wait`, `LockSysfs`, `Write`, `Down`, `Interrupted`, `TryWait`, `Up`, `UnlockSysfs`, `Crash` |
| `Glue` | `URT_GLUE` and `URT_GLUE_NO_INTERRUPT` | threads of main, rmmod, body, tasks; whether the glue waits | one per call the macros make |
| `Params` | `src/param.c` | variables, counts, heap | one per argument and per value |
| `Application` | an application: `Glue` and `Params` together | both | `Parsing`, `Parsed`, `CleanUp`, the steps of the glue and of the application |
| `...Proofs` | theorems and proofs: section 4 | | |

`SharedObjects` EXTENDS `Registry` and INSTANCEs `NameTable`; `Inspect` EXTENDS
`FreeNames`; `Application` EXTENDS `Glue` and `Params`; a
`...Proofs` module EXTENDS the module it is about, an `MC...` module gives each
its instances. The definitions named `...Bug` are mutations of the
definition that follows them: a plausible slip in the code, with which the run
named in `PROJECT.json` must fail.

Where the code's steps are finer than the model's: what one critical section
does to private memory, and statements between two accesses to shared state,
are one step with the access they belong to. `SharedObjects` splits
`urt_reserve_name` and `_dec_count_common` in two all the same, because a crash
between the write of the slot and the write of the index matters, and keeps the
code's order of unlinking before the slot is freed; that the slot is zeroed before
the name is copied into it, all inside the critical section, is one step. A user is one
thread working on one object; a process with several objects is several users.

External, modelled from how the code uses them: `sem_*`, `shm_*`, `mmap`,
`pthread_*`, RTAI's `rt_*`, sysfs, the clock, signals, the death of a process, and the functions an
application gives to `URT_GLUE` (taken from `tests/task/main.c` and the example
in `doc/urt`).

## 3. Runs

`tlc -config X.cfg MCModule`; `PROJECT.json` lists for each run its properties
and for each property the mutation that breaks it.

| Run | Instance | Shows |
|---|---|---|
| `shared_objects` | 3 users, 3 names, 2 slots; POSIX memory with two spellings of one system name, or RTAI with a memory and two semaphores; release build; one of three calls of creations and attachments fails once | `TypeOK`, `RefCount`, `ReservationOwned`, `UniqueNames`, `MaxIndexExact`, `HandleValid`, `NoOrphan`; the calls implement `NameTable`, whatever the order of release and the spelling |
| `crash_recover` | 3 users, a memory and a semaphore, 2 slots; debug build; everybody may die, `urt_clear`, `urt_recover` | `MutualExclusion`, `MaxIndexExact` after the repair, `HandleValid` for those that live; the calls, deaths and clearings implement `NameTable` |
| `early_attach_faults` | 2 users, a lock and a semaphore; attachments to names under construction; `open`, `init`, or the opening or mapping of an attachment fails; fair | `NoPhantomReference`, `LockReleased`, `CallsReturn` |
| `early_attach` (violation) | 3 users, 2 names, no failures | `MemCheckSilent` does not hold: see Findings |
| `setup` | 3 processes of builds 1 and 2 in any combination, every call may fail any number of times, one death, 2 segments | `SemAccounted`, `OneRegistry`, `AlreadyTrue`, `NeverReset` |
| `stop_lock` | 2 threads; each of 3 primitives of 2 back-ends; delay 3, waits up to 2, latency 1, 2 signals; fair | `WaitBounded`, `NotEarly`, `WaitsEnd` |
| `cond_var` | 3 consumers with any of 3 kinds of wait, a producer of 2 items, both back-ends; fair | `TypeOK`, `NoLostWakeup`, `CancelReturns` |
| `cond_lost_wakeup` (violation) | 1 consumer with a stop condition, 1 producer | `SignalWakes` does not hold: see Findings |
| `periodic_task` | POSIX, RTAI user and kernel space; offsets of one and of two calibrations; periods none and 3, start now, at 4 and at 11; a microsecond of 2 ticks, a second of 4, clock from 4 to 21, 2 signals, a sleep may be one tick short | `NeverEarly`, `PeriodsInOrder`, `ToldTrue` |
| `free_names` | 3 callers, names of 2 characters of 2, 2 slots, memory of 1 or 3 units behind a book keeping of 2, sizes modulo 16, a dump at any time | `GoesRoundOnce`, `NotRegistered`, `DumpWithin` |
| `bispace_lock` | 2 processes of 2 threads, a kernel thread, one interrupted wait, one death, two loads of the module with and without its file; fair | `MutualExclusion`, `SemAccounted`, `OneInSysfs`, `Progress` |
| `application` | both spaces, with and without the waiting of the glue, 3 tasks, command lines of up to 2 of 29 arguments, some of them in quotes, failing allocations, `init` and `kthread_run`; fair | `ParsedAsGiven`, `FreedOnce`, `ExitSafe`, `NothingLeft`, `Stops` |

### Why the bounds are enough

- Two slots have a first, a last, a full and an empty table, and an index that
  is raised, lowered and kept; a third name and a third user make creations
  compete for the last slot while another user attaches or leaves. The
  properties relate at most two users and two slots.
- One failing call in a behaviour covers every error path next to every
  interleaving of the other users.
- Two memory segments are what one unlinking of the registry's memory takes.
- The delay of the stop loop is longer than the longest timed wait and the
  latency, so that a flag raised at the start, inside and at the end of a wait
  are different cases.
- A second of two microseconds gives sleeps of the two parts of `urt_sleep`,
  with and without rounding; the clock goes far enough for a late task to be
  several periods behind, and any number of readings fall into one tick.
- One tick by which the clock of `sleep` may be ahead of that of `urt_get_time`
  is enough for a task to wake in the tick of its start or before it.
- Four names against two slots: the counter goes round and must then skip one
  and two names that are registered.
- A book keeping that is larger than the smaller memory makes the subtraction
  from a size that is not written yet wrap.
- Two loads of the module leave processes with the file of the first one.
- Four system names for three names: the names of one setting share one, those
  of the other have one each. The failure of the mapping of an attachment ends
  what `HandleValid` promises, so it is part of `early_attach_faults`.
- Two arguments suffice for a parameter to be given twice, and for an error to
  come before or after a good argument.

Symmetry is used where users, names, processes or callers are interchangeable
and no liveness is checked; in `shared_objects` names 2 and 3 are exchanged
together with their system names, since both settings say the same of them.

### Usage assumed

- `EarlyAttach = FALSE`: nobody attaches to a name before its creation has
  returned (the documents' examples hand the name over afterwards). The two
  runs named after it drop the assumption. Nor does the dump of `Inspect`, which
  could take the last reference of a name under construction by the same way.
- `urt_clear` is given names that no live user holds, `urt_recover` is run when
  nobody uses URT, as the documents of the tools ask.
- A name stands for one kind of object.
- Names that URT distinguishes are distinct to RTAI (`nam2num`); processes die
  under POSIX only.
- User-space tasks of RTAI are deleted after they have ended, as
  `tests/task/main.c` does; the RTAI clocks of the two spaces are the same one.
- A process that calls `urt_exit` ends; see Findings for one that does not.
- Condition variables are used in the loop that `doc/urt_lock` prescribes.

### Fairness

Weak fairness only, of steps that a thread takes by itself: a thread that can go
on is eventually scheduled, time passes, and whoever is in a critical section
leaves it. Nothing is assumed about the order in which semaphores and mutexes
serve their waiters, since neither POSIX nor the kernel promises one; hence
`CallsReturn` asks that the others have stopped calling, `CancelReturns` that no
other consumer comes back for the mutex again and again, and `Progress` that
somebody gets in, not everybody. Producers, signals, failures, deaths and new
calls are never forced. An application ends its work once interrupted, as the
loops of `doc/urt` do.

Deadlock is checked wherever the system cannot stop by design: an idle user
can always call. It is not checked where processes die, where an application or
a task ends, and where all producers are done.

## 4. Proofs

TLAPS checks the theorems below for every value of the constants: any number of
users, processes, threads, names and slots, any periods, delays and limits, any
set of failing calls. The constants keep the assumptions named in the modules
that declare them (`UsersAssumption`, `SettingsAssumption`, `SetupAssumption`,
...), which TLC evaluates on every run. Every invariant was checked by TLC on
the runs' instances before it was proved, `TableInv` also with two locks whose
initialisation fails, of three users, and of two that may die.

| Module | Theorems | Inductive invariant |
|---|---|---|
| `SharedObjectsProofs` | `TypeCorrect`, `MutualExclusionHolds`, `RefCountHolds`, `ReservationOwnedHolds`, `NoPhantomReferenceHolds` | `LockInv`, `RegistryInv` |
| | `UniqueNamesHolds`, `MaxIndexExactHolds`, `MisfreeConfinedHolds` | `LockInv`, `TableInv` |
| | `ImplementsNameTableHolds` (refinement) | `LockInv`, `RegistryInv` |
| | `HandleValidHolds`, `NoOrphanHolds` | these and `ObjectInv` |
| | `HandleValidDespiteDeaths` | these and `LiveInv` |
| `SetupProofs` | `SemAccountedHolds`, `OneRegistryHolds`, `AlreadyTrueHolds`, `NeverResetHolds` | `SetupInv` |
| `StopLockProofs` | `WaitBoundedHolds`, `NotEarlyHolds` | `StopInv` |
| `CondVarProofs` | `TypeCorrect`, `NoLostWakeupHolds` | `CondInv` |
| `PeriodicTaskProofs` | `TypeCorrect`, `NeverEarlyHolds`, `PeriodsInOrderHolds`, `ToldTrueHolds` | `TaskInv` |
| `GlobalLockProofs` | `SemAccountedHolds`, `MutualExclusionHolds`, `OneInSysfsHolds` | `GlobalInv` |
| `InspectProofs` | `DumpWithinHolds` | `InspectInv` |
| | `GoesRoundOnceHolds`, `NotRegisteredHolds` | `RoundInv` |
| `ApplicationProofs` | `ParsedAsGivenHolds`, `FreedOnceHolds`, `ExitSafeHolds`, `NothingLeftHolds` | `AppInv` |

### The registry

The operators come first, as lemmas: `FindByNameFinds` (a lookup returns a slot
in use with that name, at most the index), `FreeSlotIsFree`,
`RecoveredMaxExact` (nothing in use above the recovered index, which is in use
or 0) and `MaxAfterDecExact` (if the index was exact before a slot is freed, it
is exact afterwards).

`LockInv` is `TypeOK`, `MutualExclusion` and two helpers. That the semaphore
stays binary when a call posts it needs that it is 0 while a live user is
inside; that a reservation writes a registered object needs that a user in a
call has a name (`NameInv`); that a call which fails leaves no slot behind needs
that it had none before it found or took one (`EarlyInv`).

`RegistryInv` is `RefCount`, `ReservationOwned` and `UniqueNames`, which need
each other (a lookup that stops at the first match is right only where names are
unique, and a creation takes a slot only because a free one has no user), and
- `SlotInv`: a user past its search has a slot that carries its name;
- `GuardInv`: what `Acquire` and `Clear` found still holds while they are inside;
- `IndexInv`: in the middle of a critical section the index is too low for the
  slot just reserved, or at the slot just given back, and exact otherwise. This
  is what makes a death between the two writes repairable.

A count is a cardinality: `CardinalityAfter` says what becomes of one when a
single user enters or leaves, and each step of a call concerns one user.

`~EarlyAttach` is assumed, since an attachment to a name under construction
drops another call's reservation (first finding). `RefCountHolds`,
`ReservationOwnedHolds`, the refinement and the theorems about handles and
objects also assume `"init"` not among the failing calls, since the code then
drops a reference of slot 0. Deaths, clearings, recoveries and all other
failures are included. `NoPhantomReferenceHolds` needs neither: no count is ever
too high.

What is proved to be inductive is `TableInv`, which is `RegistryInv` without the
assumption on `"init"`: counts and reservations are asked of the other slots
only (`Sure`), and so `MisfreeConfinedHolds` says that the damage is confined.
Names stay unique and the index exact all the same (`UniqueNamesHolds`,
`MaxIndexExactHolds`). A creation whose reservation of slot 0 was dropped counts
itself in a slot that is free, or that has become another's; this makes no name
appear twice only because a free slot 0 is the first to be taken
(`FreeSlotIsFirst`), so that no other slot ever takes the name it still carries
(`NamesInv`). `TableIsRegistry` is the step to `RegistryInv` where no
initialisation fails.

`ImplementsNameTableHolds`: the initial state maps to an initial state of
`NameTable`, and each action of the calls to one action of the table or to none
(`CreateStep`, `CreatedStep`, `AttachStep`, `LeaveStep`, `ClearStep`,
`TableNext`). The guard of each abstract action is what the concrete call read
from slots and counts: `SlotHasUser` and `ListedHasSlot` turn one into the
other.

`HandleValidHolds` and `NoOrphanHolds` are about the objects of the operating
system, which may be one for several names of URT. `ObjectInv` says where in a
call an object is mapped (`MapInv`), that of the names with one system name one
slot has the object (`OwnerInv`), in which state the object is for those who
have it or may open it (`OsInv`), that somebody is left to free it
(`OrphanInv`), and that a slot being given back is still the only one with its
name (`MidInv`: the object is unlinked before the slot is freed). It holds until
an attachment cannot map its object and unlinks it. More is assumed than above:
nobody dies (`~Crashes`), since the dead keep objects; and RTAI tells the names
apart (`RTAIDistinct`), because with RTAI the object, not the slot, would be
shared otherwise.

`HandleValidDespiteDeaths` is the same promise to the living where others die,
their names are cleared and the registry is recovered. What `LiveInv` says about
an object is said of live users only (`LiveMap`): the count of a slot includes
the dead, so the slot of a live user is not given away before it leaves, and a
clearing meets no name that a live user has. Whoever is alive between unlinking
the object and freeing the slot is at the only slot with that name (`LiveMid`).
One who dies there leaves a slot in use without an object: an attachment to it
fails to open the object and gets no handle. In place of `~Crashes` the theorem assumes that the system tells the names apart
(`PosixDistinct`). With several spellings the slot that a dead clearing leaves
would stand for an object that another spelling has made since.

### Set-up

`SetupInv`: the semaphore is accounted for; a process has the memory of the
registry from `urt_global_mem_get` on, which is the memory of the name as long
as no `mmap` failed (`HandleInv`); among processes of one build the memory is
marked once (`BuildInv`) and its mark is not cut off while it is used
(`KeptInv`), and without deaths whoever marked it fills it (`FillInv`).
`OneRegistry`, `AlreadyTrue` and the action property `NeverReset` follow;
`SemAccounted` holds for any mix of builds.

### Waits, condition variables, tasks, the bi-space semaphore

- `StopInv`: the time since the stop condition holds plus what is left of the
  present deadline is at most one delay, because the deadline moves only where
  nothing is left of it and the condition does not hold (`HeedInv`). For a timed
  wait the sum is `max_wait` exactly (`LimitInv`), however often it is started
  again: hence neither late nor early.
- `CondInv`: `NoLostWakeup` is inductive with the number of items bounded by the
  puts begun, and with the fact that a wait without a stop condition is entered
  with the data as seen (`WaitInv`), which is just what the loop of
  `urt_cond_waitf` breaks (second finding).
- `TaskInv`: what is left to sleep, with the ticks that the clock of `sleep`
  gained, reaches to the start time (`TimeInv`; the lemma `SleptEnough` is about
  the two parts of `urt_sleep`, `CalibratedBounds` about the offset of the
  clocks), and the start time is that of the running period until it is moved,
  once, to that of the next, just if the clock had gone past it when the task
  first asked (`PeriodInv`; `asked` is the history variable that holds this
  reading). The three properties are about steps and follow from it at each
  release. The clock of the model begins above 0 and inside its bound (part of
  `PeriodicTaskAssumption`).
- `GlobalInv`: the units of the semaphore, its owners, the dead and those that
  interrupted waits are about to add (`CountInv`); a post reaches the semaphore
  it is meant for (`ServedInv`, `HandleInv`); the mutex of a process belongs to
  its thread inside (`MutexInv`).

### Free names

The counter of `urt_get_free_name` is a number in some base, and what has to be
shown of it, that it meets every name once in a round, is an induction over its
digits, which the prover does not do. The proofs go round it: the names are
ordered (`Before`), the place of a name is how many come before it (`Place`),
and the increment is the next name of the order (`IncrementIsNext`: nothing lies
between), so that its place is one more (`PlaceOfNext`). Where an induction
would be needed the least counterexample is taken instead (`LeastElement`, which
follows from the finiteness of the set). The function by which `NameAfter` is
defined exists for every length (`NamesFromExists`), and the search of
`_check_and_get_free_name` ends: fewer names are registered than it meets in one
round (`FreeFromFinds`, by counting). `RoundInv` says that as many names were
given as the place of the counter, and that until the counter has come round the
names registered and held lie before it and no two callers hold the same.

The assumption is that the registry has fewer slots than there are names
(`FreeNamesAssumption`); a default build has 4096 of them (`configure.ac:130`)
against five characters of 37.

### The dump of memory and the application

- `InspectInv`: one caller owns an object and its name (`OwnersInv`), the size
  field of a slot is determined by how many of the writes of `SHOBJ_NEW` were
  made (`StageInv`), and a size taken from a filled slot stays that of the
  object (`LookedInv`). The lemma `ShownIsSize`: the subtraction of the book
  keeping does not wrap once it was added. A size fits a `size_t`
  (`Sizes \subseteq 0 .. SizeMax - 1` in `InspectAssumption`).
- `AppInv` has a part for each module and one for where they meet.
  - `ParamsInv`: the values converted so far were accepted and are the first of
    the argument, and what is left is the rest of it (`ArgInv`); an error is
    never forgotten and has a cause (`ErrInv`); an array holds what the last
    argument for it says (`ArrayInv`); elements of string parameters are unset
    or distinct allocated strings (`HeapInv`), which is why no pointer is freed
    twice although `num` is left from an earlier argument when a later one
    fails; as long as no parameter is repeated every string has an element that
    is counted (`LeakInv`). `RestFacts` is the lemma about `get_next_value`: the
    loop takes the values of the argument and not one more, with a comma at the
    end or without. What of an argument the code accepts (`Taken`, `Accepted`,
    `Good`, in the proofs only) and what the document says of it (`Documented`,
    `Wrong`, `Meaning`, in `Params`, without any reference to the conversions)
    are related by lemmas: what is documented is accepted, but for a bool given
    as `1` (`DocumentedGood`), with the value it means (`DocumentedValue`), and
    nothing wrong is (`WrongBad`). `ValuesTaken`: an open quote changes no count.
  - `GlueInv`: which of main, `__exit` and body may be where, and what init and
    exit did by then (`PlaceInv`); once `done` is set, or body is over where
    nobody waits for it, no task runs or will be started (`DoneInv`).
  - `LinkInv`: init runs after a command line without errors, the strings are
    freed last.

### Only model-checked

Liveness (`LockReleased`, `CallsReturn`, `WaitsEnd`, `CancelReturns`,
`Progress`, `Stops`), since the prover does not treat fairness. Every safety
property that a passing run checks is also a theorem.

## 5. Findings

Two runs show where the code does not do what it says:

- **An attachment finds a name under construction** (`src/registry.c:85`,
  `early_attach`). The lookup also matches reserved names. The attachment drops
  the reservation, fails to open the object, frees the slot, and the creator
  then revives it with the index left too low, which `_internal_mem_check`
  calls an internal error.
- **A signal between two timed waits is lost** (`sys/posix/src/lock.c:689`,
  `cond_lost_wakeup`; the same in `sys/rtai/src/lock.c:563`). `urt_cond_waitf`
  with a stop condition does not return when its inner wait runs out, so the
  caller does not look at its data and sleeps on.

Other disagreements met while modelling appear as conditions of the properties:

| Where | What the code does | Condition |
|---|---|---|
| `sys/posix/src/mem.c:75` | An attachment that cannot map its object unlinks it under its users (`doc/urt_mem:90` ties freeing to the last user) | `HandleValid` up to such a failure; `OneRegistry` likewise for the registry's own memory |
| `src/new_common.c:75` | An attachment that fails and turns out to be the last user does not free the object | `NoOrphan` up to such a failure |
| `sys/posix/src/lock.c:308` | A shared lock whose init fails drops a reference of slot 0, whoever has it | `NoPhantomReference` in place of `RefCount`; by `MisfreeConfinedHolds` no other slot is touched |
| `sys/posix/src/lock.c:216` | A lock that becomes free after the stop condition holds, within one timed wait, is still acquired (`doc/urt_lock:141` says `ECANCELED`) | none: `WaitBounded` is about the time only |
| `sys/posix/include/urt_sys_time.h:68` | A signal ends `urt_sleep` early | `NeverEarly` without signals |
| `sys/posix/include/urt_sys_time.h:68` | `urt_sleep` measures the duration with the clock of `sleep` and `usleep`, not with that of `urt_get_time` (`:48`), from which it was computed; no document says how long the difference may be | `NeverEarly` up to what that clock gained during the sleep |
| `sys/posix/src/task.c:88` | A task that waits in the very tick in which its period was to start (or before, after a signal) is given the same period again, where `doc/urt_task` says that it sleeps until the next one | `PeriodsInOrder` says that the period repeats exactly then |
| `sys/rtai/include/urt_sys_task.h:58` | The next period that RTAI announces to a task that missed deadlines need not be the one it is released for (`doc/urt_task:93` says so) | `ToldTrue` and `PeriodsInOrder` are about POSIX |
| `src/registry.c:298` | A free name is not reserved once the counter has gone round (`include/urt_utils.h:30` says it is) | `NotRegistered` is about the registry only |
| `src/registry.c:59` | A build with another table size resizes the memory before, or instead of, noticing | the properties of `Setup` but `SemAccounted` are for one build |
| `src/setup_common.c:114` | After `EBUSY` the next `urt_init` says `EALREADY` (`doc/urt:25`) | `AlreadyTrue` for one build |
| `src/param.c:110` | A bool given as `1` is refused, since the character is compared with the number 1 (`doc/urt:252` allows it) | `OneForBool`, an exception of the first part of `ParsedAsGiven` |
| `src/param.c:65` | A text is taken as the integer 0, and so is an empty value before a comma | neither `Documented` nor `Wrong`: `ParsedAsGiven` leaves open whether it is accepted |
| `src/param.c:154` | A quote that is not closed is part of the first value; a quote that is the whole value is its own end and gives the empty value | neither `Documented` nor `Wrong` |
| `include/urt_setup.h:193` | In user space `exit` follows `done` without any interrupt (`:69` says it waits for one) | none of the properties asks for an interrupt |
| `include/urt_setup.h:123` | In kernel space `exit` may run before `body` has returned | `ExitSafe` asks for body in user space only |
| `include/urt_setup.h:136` | With `URT_GLUE_NO_INTERRUPT` rmmod runs `exit` at once, under a running body and running tasks | `ExitSafe` where the glue waits, and in user space |
| `include/urt_setup.h:104` | Errors of `kthread_run` other than `ENOMEM` go unnoticed; rmmod then waits for ever | an alternative of `Stops` |
| `src/lock_common.c:76` | A wait that a signal interrupts goes on without the semaphore | `MutualExclusion` and `SemAccounted` of `GlobalLock` count such waits |
| `src/lock_common.c:81` | A process that keeps the file of an unloaded module open goes on without the semaphore for good | `MutualExclusion` is about processes with the file of the present load |
| `src/kern_main.c:113` | `kobject_put` fails the post of the process that has the semaphore, and waits for the one that waits for it | `RmmodHangs`, the exception of `Progress` |
| `sys/rtai/src/mem.c:59` | Unlike POSIX, RTAI's `urt_global_mem_free` leaves `urt_global_mem` set: after `urt_exit`, `urt_init` answers `EALREADY` without opening anything (`doc/urt:25`) | `AlreadyTrue` is about POSIX; under RTAI a process that left is not used again |
| `src/setup_common.c:54` | A second `urt_init` compares the kernel clock with one that is already corrected, and replaces the offset by the small difference | none: `NeverEarly` holds for every offset |
| `sys/rtai/src/task.c:83` | RTAI takes the start time, which is in URT's time, for its own: periods are off by the offset, and `urt_task_period_time_left` mixes the clocks | `NeverEarly` measures periods after the first in RTAI's clock |
| `src/registry.c:391` | The size of a slot that is being filled is taken minus 16 and wraps; that of an object which is deleted and created anew is out of date. The dump then reads past the object, though it means to "limit the result to sane values" (`:427`) | `DumpWithin` excepts both |
| `tools/dump/main.c:24` | The help names `--range`, and 1 for the end; the code takes `--size` (`:62`), and 0 (`src/registry.c:430`) | not modelled |
| `sys/rtai/src/task.c:69` | A task whose name is in use ends without running and without an error | `GoesRoundOnce`: not before the counter has gone round |

## 6. Not modelled

The set-up of RTAI (its timer, locked memory), its forced clearing of names, and
processes that die under it: RTAI's own names would then outlive them, which is
a matter of RTAI. `urt_print_names`, which only prints, inside one critical
section. Priorities and stacks of tasks, and failures to create a thread. The
rounding of `urt_sleep` outside of real-time context in the kernel. Logging,
macros, the Python bindings, build files and tests have no state that a property
could be about. Objects on the heap of one process (`LOCAL_NEW`) are not shared.

## 7. Plan

The code that changes shared state is modelled, and the safety properties that
the passing runs check are proved. What is left:

1. `HandleValid` with deaths and several spellings of one name, as long as no
   clearing dies half-way.
2. `HandleValid` for the other slots where the initialisation of a lock fails.
