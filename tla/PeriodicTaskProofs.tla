------------------------- MODULE PeriodicTaskProofs -------------------------
(***************************************************************************)
(* The properties of PeriodicTask for every period, start time, clock,     *)
(* offset between the spaces' clocks and number of signals.                *)
(***************************************************************************)
EXTENDS PeriodicTask, WellFoundedInduction, TLAPS

InUrtSleep == {"urt_sleep"} \cup Asleep

\* The application's time is positive and, but in RTAI's user space, the
\* system's; the two back-ends keep to their parts of the code; nobody asked
\* for the next period of a task that does not run yet.
PlaceInv ==
    /\ 0 <= Boot + env.offset
    /\ env.sys # "user" => env.offset = 0
    /\ pc \in {"waiting"} \cup InUrtSleep => env.sys = "posix"
    /\ pc \in OnRTAI => env.sys # "posix"
    /\ pc \in {"none", "rt_sleep", "aligned", "blocked"} \cup Created => told = 0 /\ asked = 0
    /\ pc \in {"none"} \cup Created /\ env.sys = "posix" => ~next_period_calculated
    /\ pc \in {"rt_sleep", "aligned"} \/ (pc = "blocked" /\ env.sys = "user") => caller = "start"
    /\ pc = "rt_wait" => caller = "wait"

\* What is left to sleep reaches to the start time, and only a signal takes
\* some of it away.
TimeInv ==
    /\ pc = "urt_sleep" => start_time <= now + t
    /\ pc \in Asleep /\ signals = 0 => start_time <= now + rest + usec + gained
    /\ pc = "usleep" => usec = 0
    /\ pc = "rt_sleep" => start_time <= UrtTime + rest
    /\ pc = "aligned" \/ (pc = "blocked" /\ env.sys = "user") => start_time <= UrtTime

\* start_time is the start of the running period until the task asks for the
\* next one; then it is moved, once, if the clock had gone past it.
PeriodInv ==
    period > 0 /\ env.sys = "posix" =>
        /\ pc \in InUrtSleep /\ caller = "start" => ~next_period_calculated /\ told = 0 /\ asked = 0
        /\ pc = "waiting" \/ (pc \in InUrtSleep /\ caller = "wait") => next_period_calculated
        /\ pc = "running" /\ ~next_period_calculated => start_time = last /\ told = 0 /\ asked = 0
        /\ pc \in {"running", "waiting"} \cup InUrtSleep /\ next_period_calculated =>
             /\ asked > 0
             /\ start_time = IF asked > last THEN last + period ELSE last
             /\ told \in {0, start_time}

TaskInv == TypeOK /\ PlaceInv /\ TimeInv /\ PeriodInv
-----------------------------------------------------------------------------
\* The two parts urt_sleep sleeps are no less than the duration asked for.
LEMMA Division ==
    ASSUME NEW a \in Nat, NEW b \in Nat \ {0}
    PROVE  a \div b \in Nat /\ a % b \in Nat /\ a % b < b /\ a % b = a - b * (a \div b)
<1>1. a \div b \in Nat
  OBVIOUS
<1>2. a % b \in Nat /\ a % b < b
  OBVIOUS
<1>3. a % b = a - b * (a \div b)
  OBVIOUS
<1> QED
  BY ONLY <1>1, <1>2, <1>3, Zenon

LEMMA SleptEnough ==
    ASSUME NEW d \in Nat
    PROVE  \E e, r \in Nat : /\ e = Second * (RoundUp(d) \div Second) /\ r = RoundUp(d) % Second
                            /\ d <= e + r
<1>1. Micro \in Nat \ {0} /\ Second \in Nat \ {0}
  BY PeriodicTaskAssumption
<1>2. PICK a \in Nat : a = d + Micro - 1
  BY <1>1
<1>3. PICK q \in Nat : q = a \div Micro
  BY <1>1, Division
<1>4. a % Micro \in Nat /\ a % Micro < Micro /\ a % Micro = a - Micro * q
  BY <1>1, <1>3, Division
<1>5. PICK m \in Nat : m = Micro * q
  BY <1>1
<1>6. RoundUp(d) = m
  BY <1>2, <1>3, <1>5 DEF RoundUp
<1>7. d <= m
  BY <1>1, <1>2, <1>4, <1>5
<1>8. m % Second \in Nat /\ m % Second = m - Second * (m \div Second) /\ m \div Second \in Nat
  BY <1>1, Division
<1>9. PICK e \in Nat : e = Second * (m \div Second)
  BY <1>1, <1>8
<1>10. PICK r \in Nat : r = m % Second
  BY <1>8
<1>11. d <= e + r
  <2>1. r = m - e
    BY ONLY <1>8, <1>9, <1>10, Zenon
  <2> QED
    BY ONLY <1>7, <2>1, m \in Nat, e \in Nat, d \in Nat
<1> QED
  BY ONLY <1>6, <1>9, <1>10, <1>11, e \in Nat, r \in Nat, Zenon

\* A bounded set of natural numbers has a largest element.
LEMMA Largest ==
    ASSUME NEW n \in Nat, NEW T \in SUBSET (0 .. n), T # {}
    PROVE  \E i \in T : \A j \in T : j <= i
<1> DEFINE R == {ss \in Nat \X Nat : ss[1] < ss[2]}
           D == {n - j : j \in T}
<1>1. IsWellFoundedOn(R, Nat)
  BY NatLessThanWellFounded DEF OpToRel
<1>2. D \subseteq Nat /\ D # {}
  <2>1. \A j \in T : n - j \in Nat
    OBVIOUS
  <2> QED
    BY <2>1
<1> HIDE DEF R
<1>3. PICK d \in D : \A e \in D : ~(<<e, d>> \in R)
  BY <1>1, <1>2, WFMin
<1>4. PICK i \in T : d = n - i
  OBVIOUS
<1>5. ASSUME NEW j \in T PROVE j <= i
  <2>1. n - j \in D /\ n - j \in Nat /\ d \in Nat
    BY <1>2
  <2>2. ~(n - j < d)
    BY <1>3, <2>1 DEF R
  <2> QED
    BY <1>4, <2>2
<1> QED
  BY <1>5

\* _calibrate moves the clock by less than the time since the start.
LEMMA CalibratedBounds ==
    ASSUME NEW o \in Int, o <= 0, NEW ls \in SUBSET Latencies
    PROVE  Calibrated(o, ls) \in Int /\ 0 <= Boot + Calibrated(o, ls) /\ (o = 0 => Calibrated(o, ls) <= 0)
<1>1. CASE ls = {}
  BY <1>1, PeriodicTaskAssumption DEF Calibrated
<1>2. CASE ls # {}
  <2> DEFINE S == {-o - l : l \in ls}
  <2>1. Boot \in Nat /\ \A l \in ls : l \in 0 .. Boot - 1
    BY PeriodicTaskAssumption
  <2>2. Boot - 1 \in Nat /\ ls \in SUBSET (0 .. Boot - 1)
    BY <1>2, <2>1
  <2>3. PICK i \in ls : \A j \in ls : j <= i
    BY ONLY <1>2, <2>2, Largest
  <2>4. -o - i \in S /\ \A y \in S : -o - i <= y
    BY <2>1, <2>3
  <2>5. PICK m : m = Min(S)
    OBVIOUS
  <2>6. m \in S
    BY <2>4, <2>5 DEF Min
  <2>7. PICK l \in ls : m = -o - l
    BY <2>6
  <2>8. Calibrated(o, ls) = m
    BY <1>2, <2>5 DEF Calibrated
  <2> QED
    BY <2>1, <2>7, <2>8
<1> QED
  BY <1>1, <1>2

LEMMA OffsetBounds ==
    ASSUME NEW sys, NEW o \in Offsets(sys)
    PROVE  o \in Int /\ 0 <= Boot + o /\ (sys # "user" => o = 0)
<1> DEFINE once == {Calibrated(0, ls) : ls \in SUBSET Latencies}
<1>1. CASE sys # "user"
  BY <1>1, PeriodicTaskAssumption DEF Offsets
<1>2. CASE sys = "user"
  <2>1. \A x \in once : x \in Int /\ 0 <= Boot + x /\ x <= 0
    BY CalibratedBounds
  <2>2. o \in once \/ \E x \in once, ls \in SUBSET Latencies : o = Calibrated(x, ls)
    BY <1>2 DEF Offsets
  <2> QED
    BY <1>2, <2>1, <2>2, CalibratedBounds
<1> QED
  BY <1>1, <1>2

LEMMA TaskInvInit == Init => TaskInv
<1> SUFFICES ASSUME Init PROVE TaskInv
  OBVIOUS
<1>1. PICK sys \in Systems : \E o \in Offsets(sys) : env = [sys |-> sys, offset |-> o]
  BY DEF Init
<1>2. PICK o \in Offsets(sys) : env = [sys |-> sys, offset |-> o]
  BY <1>1
<1>3. env \in [sys : Systems, offset : Int] /\ 0 <= Boot + env.offset /\ (env.sys # "user" => env.offset = 0)
  BY <1>2, OffsetBounds
<1>4. TypeOK
  <2>1. next_period_calculated \in BOOLEAN
    BY Zenon DEF Init
  <2> QED
    BY <1>3, <2>1, PeriodicTaskAssumption DEF Init, TypeOK
<1>5. PlaceInv /\ TimeInv /\ PeriodInv
  BY <1>3 DEF Init, PlaceInv, TimeInv, PeriodInv, InUrtSleep, Asleep, OnRTAI, Created
<1> QED
  BY <1>4, <1>5 DEF TaskInv

LEMMA TaskInvNext == TaskInv /\ [Next]_vars => TaskInv'
<1> SUFFICES ASSUME TaskInv, [Next]_vars PROVE TaskInv'
  OBVIOUS
<1>0. /\ now \in Int /\ Boot \in Nat /\ Boot <= now /\ env.offset \in Int /\ UrtTime \in Nat
      /\ start_time \in Nat /\ period \in Nat /\ t \in Int /\ rest \in Nat /\ usec \in Nat
      /\ last \in Nat /\ told \in Nat /\ asked \in Nat /\ gained \in Nat /\ signals \in Nat
  BY PeriodicTaskAssumption DEF TaskInv, TypeOK, PlaceInv, UrtTime
<1> USE PeriodicTaskAssumption DEF TaskInv, TypeOK, PlaceInv, TimeInv, PeriodInv, InUrtSleep, Asleep, OnRTAI, Created,
        attr, sleeping, history
<1>1. ASSUME NEW p \in Periods, NEW s \in StartTimes, New(p, s) PROVE TaskInv'
  <2>1. period' \in Nat /\ start_time' \in Nat
    BY <1>1 DEF New, Attribute
  <2>2. TypeOK' /\ PlaceInv'
    BY <1>0, <1>1, <2>1 DEF New
  <2>3. TimeInv' /\ PeriodInv'
    BY <1>0, <1>1, <2>1 DEF New, UrtTime
  <2> QED
    BY <2>2, <2>3
<1>2. CASE Start
  BY <1>0, <1>2 DEF Start, UrtTime
<1>3. CASE Wrapper
  <2>1. next_period_calculated' \in BOOLEAN
    BY <1>3 DEF Wrapper, Release
  <2>2. TypeOK'
    BY <1>0, <1>3, <2>1 DEF Wrapper, Release
  <2>3. PlaceInv'
    BY <1>0, <1>3 DEF Wrapper, Release
  <2>4. TimeInv'
    BY <1>0, <1>3 DEF Wrapper, Release, UrtTime
  <2>5. PeriodInv'
    BY <1>0, <1>3 DEF Wrapper, Release
  <2> QED
    BY <2>2, <2>3, <2>4, <2>5
<1>4. CASE NextPeriod
  <2>1. next_period_calculated' \in BOOLEAN
    BY <1>4 DEF NextPeriod, UpdateStartTime, Ask
  <2>2. TypeOK'
    BY <1>0, <1>4, <2>1 DEF NextPeriod, UpdateStartTime, Ask
  <2>3. PlaceInv'
    BY <1>0, <1>4 DEF NextPeriod, UpdateStartTime, Ask
  <2>4. TimeInv'
    BY <1>0, <1>4 DEF NextPeriod, UpdateStartTime, Ask, UrtTime
  <2>5. PeriodInv'
    BY <1>0, <1>4 DEF NextPeriod, UpdateStartTime, Ask
  <2> QED
    BY <2>2, <2>3, <2>4, <2>5
<1>5. CASE WaitPeriod
  <2>1. next_period_calculated' \in BOOLEAN
    BY <1>5 DEF WaitPeriod, UpdateStartTime, Ask
  <2>2. TypeOK'
    BY <1>0, <1>5, <2>1 DEF WaitPeriod, UpdateStartTime, Ask
  <2>3. PlaceInv'
    BY <1>0, <1>5 DEF WaitPeriod, UpdateStartTime, Ask
  <2>4. TimeInv'
    BY <1>0, <1>5 DEF WaitPeriod, UpdateStartTime, Ask, UrtTime
  <2>5. PeriodInv'
    BY <1>0, <1>5 DEF WaitPeriod, UpdateStartTime, Ask
  <2> QED
    BY <2>2, <2>3, <2>4, <2>5
<1>6. CASE WaitSleep
  <2>1. next_period_calculated' \in BOOLEAN
    BY <1>6 DEF WaitSleep
  <2>2. TypeOK'
    BY <1>0, <1>6, <2>1 DEF WaitSleep
  <2>3. PlaceInv'
    BY <1>0, <1>6 DEF WaitSleep
  <2>4. TimeInv'
    BY <1>0, <1>6 DEF WaitSleep, UrtTime
  <2>5. PeriodInv'
    BY <1>0, <1>6 DEF WaitSleep
  <2> QED
    BY <2>2, <2>3, <2>4, <2>5
<1>7. CASE StartKernel
  BY <1>0, <1>7 DEF StartKernel, UrtTime
<1>8. CASE Unblock
  <2>1. next_period_calculated' \in BOOLEAN
    BY <1>8 DEF Unblock, Release
  <2>2. TypeOK'
    BY <1>0, <1>8, <2>1 DEF Unblock, Release
  <2>3. PlaceInv'
    BY <1>0, <1>8 DEF Unblock, Release
  <2>4. TimeInv'
    BY <1>0, <1>8 DEF Unblock, Release, UrtTime
  <2>5. PeriodInv'
    BY <1>0, <1>8 DEF Unblock, Release
  <2> QED
    BY <2>2, <2>3, <2>4, <2>5
<1>9. CASE WrapperRTAI
  BY <1>0, <1>9 DEF WrapperRTAI, UrtTime
<1>10. CASE RtSleep
  BY <1>0, <1>10 DEF RtSleep, UrtTime
<1>11. CASE Aligned
  BY <1>0, <1>11 DEF Aligned, Release, UrtTime
<1>12. CASE RtWaitPeriod
  BY <1>0, <1>12 DEF RtWaitPeriod, UrtTime
<1>13. CASE RtResume
  BY <1>0, <1>13 DEF RtResume, Release, UrtTime
<1>14. CASE RtNextPeriod
  BY <1>0, <1>14 DEF RtNextPeriod, UrtTime
<1>15. CASE DeleteKernel
  BY <1>0, <1>15 DEF DeleteKernel, UrtTime
<1>16. CASE Sleep
  <2>1. next_period_calculated' \in BOOLEAN
    BY <1>16 DEF Sleep, Return, Release
  <2>2. PlaceInv' /\ PeriodInv'
    BY <1>0, <1>16 DEF Sleep, Return, Release
  <2>3. CASE t <= 0
    <3>1. /\ pc = "urt_sleep" /\ pc' = "running" /\ last' = start_time /\ told' = 0 /\ asked' = 0
          /\ UNCHANGED <<now, env, start_time, period, caller, t, rest, usec, gained, signals>>
      BY <1>16, <2>3 DEF Sleep, Return, Release
    <3>2. TypeOK'
      BY <1>0, <2>1, <3>1
    <3>3. TimeInv'
      BY <1>0, <2>3, <3>1
    <3> QED
      BY <2>2, <3>2, <3>3
  <2>4. CASE ~(t <= 0)
    <3>1. t \in Nat
      BY <1>0, <2>4
    <3>2. PICK e, r \in Nat : e = Second * (RoundUp(t) \div Second) /\ r = RoundUp(t) % Second /\ t <= e + r
      BY ONLY <3>1, SleptEnough
    <3>3. /\ pc = "urt_sleep" /\ pc' = "sleep" /\ rest' = e /\ usec' = r
          /\ UNCHANGED <<now, env, start_time, period, next_period_calculated, caller, t, gained, last, told, asked, signals>>
      BY <1>16, <2>4, <3>2 DEF Sleep
    <3>4. TypeOK'
      BY <1>0, <2>1, <3>3
    <3>5. TimeInv'
      BY <1>0, <3>1, <3>2, <3>3
    <3> QED
      BY <2>2, <3>4, <3>5
  <2> QED
    BY <2>3, <2>4
<1>17. CASE USleep
  BY <1>0, <1>17 DEF USleep, UrtTime
<1>18. CASE Wake
  <2>1. next_period_calculated' \in BOOLEAN
    BY <1>18 DEF Wake, Return, Release
  <2>2. TypeOK'
    BY <1>0, <1>18, <2>1 DEF Wake, Return, Release
  <2>3. PlaceInv'
    BY <1>0, <1>18 DEF Wake, Return, Release
  <2>4. TimeInv'
    BY <1>0, <1>18 DEF Wake, Return, Release, UrtTime
  <2>5. PeriodInv'
    BY <1>0, <1>18 DEF Wake, Return, Release
  <2> QED
    BY <2>2, <2>3, <2>4, <2>5
<1>19. CASE Interrupt
  BY <1>0, <1>19 DEF Interrupt, UrtTime
<1>20. CASE Finish
  BY <1>0, <1>20 DEF Finish, UrtTime
<1>21. CASE Delete
  BY <1>0, <1>21 DEF Delete, UrtTime
<1>22. CASE Tick
  BY <1>0, <1>22 DEF Tick, UrtTime
<1>23. CASE Slew
  BY <1>0, <1>23 DEF Slew, UrtTime
<1>24. CASE UNCHANGED vars
  BY <1>24 DEF vars, UrtTime
<1> QED
  BY <1>1, <1>2, <1>3, <1>4, <1>5, <1>6, <1>7, <1>8, <1>9, <1>10, <1>11, <1>12, <1>13, <1>14, <1>15, <1>16, <1>17, <1>18, <1>19, <1>20, <1>21, <1>22, <1>23, <1>24 DEF Next

LEMMA TaskInvHolds == Spec => []TaskInv
  BY TaskInvInit, TaskInvNext, PTL DEF Spec

\* The steps that let a period run.
LEMMA ReleaseSteps ==
    ASSUME Next, Released
    PROVE  Wrapper \/ Unblock \/ Aligned \/ RtResume \/ Sleep \/ Wake
<1>1. ASSUME NEW p \in Periods, NEW s \in StartTimes, New(p, s) PROVE FALSE
  BY <1>1 DEF New, Released
<1>2. CASE Start \/ StartKernel \/ WaitSleep \/ WrapperRTAI \/ RtSleep \/ USleep \/ Interrupt \/ Delete \/ DeleteKernel \/ Tick \/ Slew
  BY <1>2 DEF Start, StartKernel, WaitSleep, WrapperRTAI, RtSleep, USleep, Interrupt, Delete, DeleteKernel, Tick, Slew,
              Released, Created
<1>3. CASE NextPeriod \/ WaitPeriod \/ RtWaitPeriod \/ RtNextPeriod \/ Finish
  BY <1>3 DEF NextPeriod, WaitPeriod, RtWaitPeriod, RtNextPeriod, Finish, Released
<1> QED
  BY <1>1, <1>2, <1>3 DEF Next

\* What the invariant and each of those steps say of the period that starts.
LEMMA ReleasedPeriod ==
    ASSUME TaskInv, Next, Released
    PROVE  /\ signals = 0 => (IF caller = "start" THEN UrtTime ELSE now) + gained >= last'
           /\ pc \notin Created /\ caller = "wait" /\ period > 0 /\ env.sys = "posix" =>
                last' = IF asked > last THEN last + period ELSE last
           /\ told > 0 /\ period > 0 /\ env.sys = "posix" => last' = told
<1>0. /\ now \in Int /\ Boot \in Nat /\ Boot <= now /\ env.offset \in Int /\ UrtTime = now + env.offset
      /\ start_time \in Nat /\ period \in Nat /\ t \in Int /\ rest \in Nat /\ usec \in Nat
      /\ last \in Nat /\ told \in Nat /\ asked \in Nat /\ gained \in Nat /\ signals \in Nat /\ caller \in {"start", "wait"}
  BY PeriodicTaskAssumption DEF TaskInv, TypeOK, PlaceInv, UrtTime
<1> USE DEF TaskInv, PlaceInv, TimeInv, PeriodInv, InUrtSleep, Asleep, OnRTAI, Created
<1>1. CASE Wrapper
  BY <1>0, <1>1 DEF Wrapper, Release, Released
<1>2. CASE Unblock
  <2>1. env.sys = "user" /\ pc = "blocked" /\ last' = start_time
    BY <1>2, PeriodicTaskAssumption DEF Unblock, Release, Released, TypeOK
  <2> QED
    BY <1>0, <2>1
<1>3. CASE Aligned
  BY <1>0, <1>3 DEF Aligned, Release, Released
<1>4. CASE RtResume
  BY <1>0, <1>4 DEF RtResume, Release, Released
<1>5. CASE Sleep
  <2>1. pc = "urt_sleep" /\ t <= 0 /\ last' = start_time
    BY <1>5 DEF Sleep, Return, Release, Released
  <2> QED
    BY <1>0, <2>1
<1>6. CASE Wake
  <2>1. pc = "usleep" /\ rest = 0 /\ last' = start_time
    BY <1>6 DEF Wake, Return, Release
  <2> QED
    BY <1>0, <2>1
<1> QED
  BY <1>1, <1>2, <1>3, <1>4, <1>5, <1>6, ReleaseSteps

-----------------------------------------------------------------------------
\* The types of the task's state, for all values of the attributes.
THEOREM TypeCorrect == Spec => []TypeOK
<1>1. TaskInv => TypeOK
  BY DEF TaskInv
<1> QED
  BY <1>1, TaskInvHolds, PTL

\* No period of a task starts before its time, unless a signal cuts urt_sleep
\* short or its clock is the faster one: _task_wrapper, urt_task_wait_period and RTAI's periodic tasks.
THEOREM NeverEarlyHolds == Spec => NeverEarly
<1>1. TaskInv /\ [Next]_vars =>
        [Released /\ signals = 0 => (IF caller = "start" THEN UrtTime ELSE now) + gained >= last']_vars
  BY ReleasedPeriod
<1> QED
  BY <1>1, TaskInvHolds, PTL DEF Spec, NeverEarly

\* urt_task_wait_period leaves no period out, and repeats one just where the
\* task asked for the next before the clock had gone past the start of it.
THEOREM PeriodsInOrderHolds == Spec => PeriodsInOrder
<1>1. TaskInv /\ [Next]_vars =>
        [Released /\ pc \notin Created /\ caller = "wait" /\ period > 0 /\ env.sys = "posix" =>
           last' = IF asked > last THEN last + period ELSE last]_vars
  BY ReleasedPeriod
<1> QED
  BY <1>1, TaskInvHolds, PTL DEF Spec, PeriodsInOrder

\* The answer of urt_task_next_period comes true in POSIX.
THEOREM ToldTrueHolds == Spec => ToldTrue
<1>1. TaskInv /\ [Next]_vars => [Released /\ told > 0 /\ period > 0 /\ env.sys = "posix" => last' = told]_vars
  BY ReleasedPeriod
<1> QED
  BY <1>1, TaskInvHolds, PTL DEF Spec, ToldTrue
=============================================================================
