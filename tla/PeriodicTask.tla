---------------------------- MODULE PeriodicTask ----------------------------
(***************************************************************************)
(* The life of a task (src/task_common.c) of the POSIX back-end            *)
(* (sys/posix/src/task.c), with the sleeping it is made of (urt_sleep in   *)
(* sys/posix/include/urt_sys_time.h), and of the RTAI back-end in user and *)
(* kernel space (sys/rtai/src/task.c), which leaves the periods to RTAI.   *)
(*                                                                         *)
(* now is the system's clock, in ticks, and what urt_get_time returns is   *)
(* off by urt_time_offset.  Any number of readings may fall into one tick, *)
(* and the clock that sleep() and usleep() run on may be faster or slower  *)
(* than the one that urt_get_time reads.                                   *)
(***************************************************************************)
EXTENDS Integers, FiniteSetsExt

CONSTANTS
    Systems,      \* "posix", RTAI's "user" and "kernel" space
    Latencies,    \* between reading the kernel's time and one's own
    Periods,      \* periods given to urt_task_new
    StartTimes,   \* start times given to urt_task_new, 0 for none
    Micro,        \* ticks in a microsecond
    Second,       \* ticks in a second
    Boot,         \* the clock when the application starts
    Horizon,      \* bound on the clock
    MaxSignals,   \* bound on the signals delivered to the sleeping task
    MaxGain       \* ticks by which a sleep may be short of those of urt_get_time

ASSUME PeriodicTaskAssumption ==
    /\ Systems \subseteq {"posix", "user", "kernel"} /\ Latencies \subseteq 0 .. Boot - 1
    /\ Periods \subseteq Int /\ StartTimes \subseteq Int
    /\ Micro \in Nat \ {0} /\ Second \in Nat \ {0} /\ Second % Micro = 0
    /\ Boot \in Nat \ {0} /\ Horizon \in Nat /\ Boot <= Horizon /\ MaxSignals \in Nat /\ MaxGain \in Nat

VARIABLES
    now,
    env,       \* the system and urt_time_offset, fixed before the task is made
    start_time, period,        \* attr of the task
    next_period_calculated,
    pc,
    caller,    \* who called urt_sleep: "start" or "wait"
    t,         \* the duration asked of urt_sleep
    rest,      \* what is left of the current sleep(), then usleep()
    usec,      \* ticks of the usleep() that follows
    gained,    \* ticks of this sleep that urt_get_time's clock did not make
    last,      \* start time of the period that is running
    told,      \* what urt_task_next_period answered in this period, or 0
    asked,     \* the clock when this period first asked for the next one, or 0
    signals

vars == <<now, env, start_time, period, next_period_calculated, pc, caller, t, rest, usec,
          gained, last, told, asked, signals>>

attr == <<start_time, period>>
sleeping == <<caller, t, rest, usec, gained>>
history == <<last, told, asked>>

Created == {"paused", "spawned"}
Asleep == {"sleep", "usleep"}
OnRTAI == {"rt_sleep", "aligned", "blocked", "rt_wait"}

TypeOK ==
    /\ now \in Boot .. Horizon
    /\ env \in [sys : Systems, offset : Int]
    /\ start_time \in Nat /\ period \in Nat
    /\ next_period_calculated \in BOOLEAN
    /\ pc \in {"none", "running", "waiting", "urt_sleep", "ended", "deleted"} \cup Created \cup Asleep \cup OnRTAI
    /\ caller \in {"start", "wait"}
    /\ t \in Int /\ rest \in Nat /\ usec \in Nat
    /\ gained \in Nat
    /\ last \in Nat /\ told \in Nat /\ asked \in Nat
    /\ signals \in 0 .. MaxSignals

\* _calibrate: the least difference to the kernel's time, which the user's is
\* read after; urt_get_time already has the offset of an earlier urt_init.
Calibrated(offset, latencies) ==
    IF latencies = {} THEN 0 ELSE Min({-offset - l : l \in latencies})

\* urt_time_offset after urt_init, and after another one.  The kernel's clock
\* is the reference, and POSIX knows one space.
Offsets(sys) ==
    LET once == {Calibrated(0, ls) : ls \in SUBSET Latencies}
    IN  IF sys # "user" THEN {0}
        ELSE once \cup {Calibrated(o, ls) : o \in once, ls \in SUBSET Latencies}

Init ==
    /\ now = Boot
    /\ \E sys \in Systems : \E o \in Offsets(sys) : env = [sys |-> sys, offset |-> o]
    /\ start_time = 0 /\ period = 0
    /\ next_period_calculated = FALSE
    /\ pc = "none"
    /\ caller = "start" /\ t = 0 /\ rest = 0 /\ usec = 0
    /\ gained = 0
    /\ last = 0 /\ told = 0 /\ asked = 0
    /\ signals = 0

-----------------------------------------------------------------------------
\* urt_get_time.
UrtTime == now + env.offset

\* Attributes that are not positive are replaced by the defaults.
Attribute(a) == IF a > 0 THEN a ELSE 0

\* urt_task_new.
New(p, s) ==
    /\ pc = "none"
    /\ period' = Attribute(p) /\ start_time' = Attribute(s)
    /\ pc' = "paused"
    /\ UNCHANGED <<now, next_period_calculated, sleeping, history, signals, env>>

\* urt_task_start in user space: the thread is created, or not.
Start ==
    /\ pc = "paused" /\ env.sys # "kernel"
    /\ pc' \in Created
    /\ UNCHANGED <<now, attr, next_period_calculated, sleeping, history, signals, env>>

\* The period that begins at s runs.
Release(s) ==
    /\ pc' = "running"
    /\ last' = s /\ told' = 0 /\ asked' = 0

\* _task_wrapper of POSIX, up to its call of urt_sleep.
Wrapper ==
    /\ pc = "spawned" /\ env.sys = "posix"
    /\ IF start_time = 0
         THEN /\ start_time' = now
              /\ Release(now)
              /\ UNCHANGED sleeping
         ELSE /\ caller' = "start" /\ t' = start_time - now /\ gained' = 0
              /\ pc' = "urt_sleep"
              /\ UNCHANGED <<start_time, rest, usec, history>>
    /\ UNCHANGED <<now, period, next_period_calculated, signals, env>>

\* _update_start_time.
UpdateBug ==
    /\ IF period = 0
         THEN UNCHANGED <<start_time, next_period_calculated>>
         ELSE /\ start_time' = IF now > start_time THEN start_time + period ELSE start_time
              /\ next_period_calculated' = TRUE
UpdateStartTime ==
    /\ IF period = 0 \/ next_period_calculated
         THEN UNCHANGED <<start_time, next_period_calculated>>
         ELSE /\ start_time' = IF now > start_time THEN start_time + period ELSE start_time
              /\ next_period_calculated' = TRUE

Ask == asked' = IF asked = 0 THEN now ELSE asked

\* urt_task_next_period; urt_task_period_time_left reads the clock besides.
NextPeriod ==
    /\ pc = "running" /\ env.sys = "posix"
    /\ UpdateStartTime
    /\ told' = start_time' /\ Ask
    /\ UNCHANGED <<now, period, pc, sleeping, last, signals, env>>

\* urt_task_wait_period, in two readings of the clock.
WaitPeriod ==
    /\ pc = "running" /\ env.sys = "posix"
    /\ UpdateStartTime
    /\ Ask
    /\ pc' = "waiting"
    /\ UNCHANGED <<now, period, sleeping, last, told, signals, env>>

WaitSleep ==
    /\ pc = "waiting"
    /\ caller' = "wait" /\ t' = start_time - now /\ gained' = 0
    /\ pc' = "urt_sleep"
    /\ UNCHANGED <<now, attr, next_period_calculated, rest, usec, history, signals, env>>

\* urt_sleep returns to its caller.
ReturnBug ==
    /\ UNCHANGED next_period_calculated
    /\ Release(start_time)
Return ==
    /\ next_period_calculated' = (next_period_calculated /\ caller = "start")
    /\ Release(start_time)

\* The duration is rounded up to microseconds and slept in two parts.
RoundUp(d) == Micro * ((d + Micro - 1) \div Micro)

SleepBug ==
    /\ pc = "urt_sleep"
    /\ IF t <= 0
         THEN Return /\ UNCHANGED <<rest, usec>>
         ELSE LET d == Micro * (t \div Micro) IN
              /\ rest' = Second * (d \div Second) /\ usec' = d % Second
              /\ pc' = "sleep"
              /\ UNCHANGED <<next_period_calculated, history>>
    /\ UNCHANGED <<now, attr, caller, t, gained, signals, env>>
Sleep ==
    /\ pc = "urt_sleep"
    /\ IF t <= 0
         THEN Return /\ UNCHANGED <<rest, usec>>
         ELSE LET d == RoundUp(t) IN
              /\ rest' = Second * (d \div Second) /\ usec' = d % Second
              /\ pc' = "sleep"
              /\ UNCHANGED <<next_period_calculated, history>>
    /\ UNCHANGED <<now, attr, caller, t, gained, signals, env>>

USleep ==
    /\ pc = "sleep" /\ rest = 0
    /\ rest' = usec /\ usec' = 0
    /\ pc' = "usleep"
    /\ UNCHANGED <<now, attr, next_period_calculated, caller, t, gained, history, signals, env>>

Wake ==
    /\ pc = "usleep" /\ rest = 0
    /\ Return
    /\ UNCHANGED <<now, attr, sleeping, signals, env>>

\* A signal handler runs: sleep() or usleep() returns at once.
Interrupt ==
    /\ pc \in Asleep /\ signals < MaxSignals
    /\ signals' = signals + 1
    /\ rest' = 0
    /\ UNCHANGED <<now, attr, next_period_calculated, pc, caller, t, usec, gained, history, env>>

-----------------------------------------------------------------------------
(* RTAI *)

\* urt_task_start in kernel space: rt_task_init, then the task is given to
\* RTAI's periods, or resumed at once.  Each may fail.
StartKernel ==
    /\ pc = "paused" /\ env.sys = "kernel"
    /\ \/ UNCHANGED <<pc, start_time>>
       \/ /\ period > 0
          /\ start_time' = IF start_time = 0 THEN UrtTime ELSE start_time
          /\ pc' \in {"paused", "blocked"}
       \/ period = 0 /\ pc' = "spawned" /\ UNCHANGED start_time
    /\ UNCHANGED <<now, period, next_period_calculated, sleeping, history, signals, env>>

\* RTAI lets a task made periodic go when its start time has come.
Unblock ==
    /\ pc = "blocked" /\ now >= start_time
    /\ IF env.sys = "kernel"
         THEN pc' = "spawned" /\ UNCHANGED history
         ELSE Release(start_time)
    /\ UNCHANGED <<now, attr, next_period_calculated, sleeping, signals, env>>

\* _task_wrapper of RTAI, up to the start time.  In user space the thread ends
\* there and then when there is no free name or rt_task_init_schmod fails.
WrapperRTAI ==
    /\ pc = "spawned" /\ env.sys # "posix"
    /\ caller' = "start"
    /\ \/ env.sys = "user" /\ pc' = "ended" /\ UNCHANGED <<start_time, t, rest>>
       \/ /\ start_time = 0
          /\ start_time' = UrtTime
          /\ pc' = "aligned"
          /\ UNCHANGED <<t, rest>>
       \/ /\ start_time # 0
          /\ t' = start_time - UrtTime
          /\ rest' = IF t' > 0 THEN t' ELSE 0
          /\ pc' = "rt_sleep"
          /\ UNCHANGED start_time
    /\ UNCHANGED <<now, period, next_period_calculated, usec, gained, history, signals, env>>

\* urt_sleep in real-time context: rt_sleep.
RtSleep ==
    /\ pc = "rt_sleep" /\ rest = 0
    /\ pc' = "aligned"
    /\ UNCHANGED <<now, attr, next_period_calculated, sleeping, history, signals, env>>

\* The end of the wrapper: in user space rt_task_make_periodic, which may fail
\* and knows of no offset, then the function of the task.
Aligned ==
    /\ pc = "aligned"
    /\ IF env.sys = "user" /\ period > 0
         THEN pc' \in {"blocked", "ended"} /\ UNCHANGED history
         ELSE Release(start_time)
    /\ UNCHANGED <<now, attr, next_period_calculated, sleeping, signals, env>>

\* urt_task_wait_period: rt_task_wait_period counts the periods from the start
\* time it was given, and returns at once when the next one is due.
RtWaitPeriod ==
    /\ pc = "running" /\ env.sys # "posix"
    /\ caller' = "wait"
    /\ pc' = "rt_wait"
    /\ UNCHANGED <<now, attr, next_period_calculated, t, rest, usec, gained, history, signals, env>>

RtResume ==
    /\ pc = "rt_wait" /\ now >= last + period
    /\ Release(last + period)
    /\ UNCHANGED <<now, attr, next_period_calculated, sleeping, signals, env>>

\* urt_task_next_period: rt_task_next_period, which for a task that missed
\* deadlines may answer the first period that is still to come.
RtNextPeriod ==
    /\ pc = "running" /\ env.sys # "posix" /\ period > 0
    /\ \/ told' = last + period
       \/ /\ now >= last + period
          /\ told' \in {m \in now + 1 .. now + period : (m - last) % period = 0}
    /\ UNCHANGED <<now, attr, next_period_calculated, pc, sleeping, last, asked, signals, env>>

\* urt_task_delete in kernel space takes the task down wherever it is.
DeleteKernel ==
    /\ pc \notin {"none", "deleted"} /\ env.sys = "kernel"
    /\ pc' = "deleted"
    /\ UNCHANGED <<now, attr, next_period_calculated, sleeping, history, signals, env>>

-----------------------------------------------------------------------------
\* The task's function returns; urt_task_delete joins the thread.
Finish ==
    /\ pc = "running"
    /\ pc' = "ended"
    /\ UNCHANGED <<now, attr, next_period_calculated, sleeping, history, signals, env>>

Delete ==
    /\ pc = "ended" /\ env.sys # "kernel"
    /\ pc' = "deleted"
    /\ UNCHANGED <<now, attr, next_period_calculated, sleeping, history, signals, env>>

Tick ==
    /\ now < Horizon
    /\ now' = now + 1
    /\ rest' = IF pc \in Asleep \cup {"rt_sleep"} /\ rest > 0 THEN rest - 1 ELSE rest
    /\ UNCHANGED <<attr, next_period_calculated, pc, caller, t, usec, gained, history, signals, env>>

\* The clock of sleep() and usleep() gains on CLOCK_MONOTONIC_RAW.
Slew ==
    /\ pc \in Asleep /\ rest > 0 /\ gained < MaxGain
    /\ rest' = rest - 1 /\ gained' = gained + 1
    /\ UNCHANGED <<now, attr, next_period_calculated, pc, caller, t, usec, history, signals, env>>

Next ==
    \/ \E p \in Periods, s \in StartTimes : New(p, s)
    \/ Start \/ Wrapper \/ NextPeriod \/ WaitPeriod \/ WaitSleep
    \/ StartKernel \/ Unblock \/ WrapperRTAI \/ RtSleep \/ Aligned
    \/ RtWaitPeriod \/ RtResume \/ RtNextPeriod \/ DeleteKernel
    \/ Sleep \/ USleep \/ Wake \/ Interrupt \/ Finish \/ Delete \/ Tick \/ Slew

Spec == Init /\ [][Next]_vars

-----------------------------------------------------------------------------
Released == pc # "running" /\ pc' = "running"

\* Neither the task nor any of its periods starts before its time, whatever
\* passes between reading the clock and going to sleep, unless a signal cuts
\* urt_sleep short; early by no more than its sleep's clock gained on that of
\* urt_get_time.  The start is in the application's time and, as RTAI takes it
\* for its own, the periods after it are in RTAI's.
NeverEarly ==
    [][Released /\ signals = 0 =>
          (IF caller = "start" THEN UrtTime ELSE now) + gained >= last']_vars

\* urt_task_wait_period of POSIX leaves no period out, however late the task
\* is, and signals or not.  It runs one a second time just where the task,
\* when it first asked for its next period, had not gone past the start of the
\* present one: in the tick of its release, or woken too early.
PeriodsInOrder ==
    [][Released /\ pc \notin Created /\ caller = "wait" /\ period > 0 /\ env.sys = "posix" =>
          last' = IF asked > last THEN last + period ELSE last]_vars

\* The next period is the one that urt_task_next_period of POSIX announced,
\* however often and however late the task asked.
ToldTrue ==
    [][Released /\ told > 0 /\ period > 0 /\ env.sys = "posix" => last' = told]_vars
=============================================================================
