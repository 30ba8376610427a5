-------------------------------- MODULE Glue --------------------------------
(***************************************************************************)
(* The life of an application as URT_GLUE lays it out (include/            *)
(* urt_setup.h): in user space main() parses the arguments and calls init, *)
(* body and exit in turn; in kernel space the module's __init calls init   *)
(* and runs body in a thread, and the module's __exit, in the process that *)
(* calls rmmod, calls exit.  Both wait for done before exit.               *)
(* URT_GLUE_NO_INTERRUPT has no signal handler, no done and no waiting.    *)
(*                                                                         *)
(* The application's own functions are those of tests/task/main.c: body    *)
(* either does the work and sets done, or starts the tasks and leaves; the *)
(* last task sets done when the others have ended.  Without done, body     *)
(* itself waits for its tasks.                                             *)
(***************************************************************************)
EXTENDS FiniteSets

CONSTANTS
    Spaces,       \* "user", "kernel" or both
    SpawnErrors,  \* how kthread_run may fail
    Tasks,        \* the tasks of the application
    Last          \* the one that waits for the others

ASSUME GlueAssumption ==
    /\ Spaces \subseteq {"user", "kernel"} /\ Spaces # {}
    /\ SpawnErrors \subseteq {"ENOMEM", "EAGAIN"}
    /\ IsFiniteSet(Tasks) /\ Last \in Tasks

VARIABLES
    space,
    waits,        \* URT_GLUE, and not URT_GLUE_NO_INTERRUPT
    main,         \* the thread of main(), or of the module's __init
    rm,           \* the thread of the module's __exit
    body,         \* the function body, wherever it runs
    task,
    interrupted, done,
    made,         \* init succeeded: the application's resources exist
    exited        \* exit has been called: they are gone

glue == <<space, waits, main, rm, body, task, interrupted, done, made, exited>>

GlueTypeOK ==
    /\ space \in Spaces /\ waits \in BOOLEAN
    /\ main \in {"parse", "init", "spawn", "body", "loaded", "wait", "exit",
                 "cleanup", "ended", "failed"}
    /\ rm \in {"no", "wait", "exit", "unloaded"}
    /\ body \in {"none", "running", "returning", "ended"}
    /\ task \in [Tasks -> {"none", "running", "ended"}]
    /\ {interrupted, done, made, exited} \subseteq BOOLEAN

GlueInit ==
    /\ space \in Spaces /\ waits \in BOOLEAN
    /\ main = IF space = "user" THEN "parse" ELSE "init"
    /\ rm = "no" /\ body = "none"
    /\ task = [t \in Tasks |-> "none"]
    /\ interrupted = FALSE /\ done = FALSE /\ made = FALSE /\ exited = FALSE

-----------------------------------------------------------------------------
(* urt_app_main_top_ and urt_app_init_ *)

\* urt_parse_args returned 0, or did not.
ParseArgs(ok) ==
    /\ main = "parse"
    /\ main' = IF ok THEN "init" ELSE "cleanup"
    /\ UNCHANGED <<space, waits, rm, body, task, interrupted, done, made, exited>>

InitSucceeds ==
    /\ main = "init"
    /\ made' = TRUE
    /\ IF space = "user"
       THEN main' = "body" /\ body' = "running"
       ELSE main' = "spawn" /\ UNCHANGED body
    /\ UNCHANGED <<space, waits, rm, task, interrupted, done, exited>>

\* mutation: a failed init falls through to exit
InitFailsExitBug ==
    /\ main = "init"
    /\ main' = IF space = "user" THEN "exit" ELSE "failed"
    /\ UNCHANGED <<space, waits, rm, body, task, interrupted, done, made, exited>>

\* mutation: a failed init falls through to the loop on done
InitFailsWaitBug ==
    /\ main = "init"
    /\ main' = IF space = "user" THEN "wait" ELSE "failed"
    /\ UNCHANGED <<space, waits, rm, body, task, interrupted, done, made, exited>>

InitFails ==
    /\ main = "init"
    /\ main' = IF space = "user" THEN "cleanup" ELSE "failed"
    /\ UNCHANGED <<space, waits, rm, body, task, interrupted, done, made, exited>>

\* kthread_run gives a thread, or ENOMEM and __init calls body itself; nobody
\* looks at another error.
Spawn ==
    /\ main = "spawn"
    /\ \/ main' = "loaded" /\ body' = "running"
       \/ "ENOMEM" \in SpawnErrors /\ main' = "body" /\ body' = "running"
       \/ "EAGAIN" \in SpawnErrors /\ main' = "loaded" /\ UNCHANGED body
    /\ UNCHANGED <<space, waits, rm, task, interrupted, done, made, exited>>

(* The application. *)
Start(t) ==
    /\ body = "running" /\ task[t] = "none"
    /\ task' = [task EXCEPT ![t] = "running"]
    /\ UNCHANGED <<space, waits, main, rm, body, interrupted, done, made, exited>>

BodyLeaves ==
    /\ body = "running"
    /\ \A t \in Tasks : task[t] \in IF waits THEN {"running", "ended"} ELSE {"ended"}
    /\ body' = "returning"
    /\ UNCHANGED <<space, waits, main, rm, task, interrupted, done, made, exited>>

BodyAlone ==
    /\ body = "running" /\ \A t \in Tasks : task[t] = "none"
    /\ done' = waits
    /\ body' = "returning"
    /\ UNCHANGED <<space, waits, main, rm, task, interrupted, made, exited>>

TaskEnds(t) ==
    /\ task[t] = "running"
    /\ t = Last => \A u \in Tasks \ {t} : task[u] = "ended"
    /\ task' = [task EXCEPT ![t] = "ended"]
    /\ done' = (done \/ (waits /\ t = Last))
    /\ UNCHANGED <<space, waits, main, rm, body, interrupted, made, exited>>

\* The call of body returns to main.
MainGoesOn ==
    /\ body = "returning" /\ space = "user"
    /\ body' = "ended"
    /\ main' = IF waits THEN "wait" ELSE "exit"
    /\ UNCHANGED <<space, waits, rm, task, interrupted, done, made, exited>>

\* In kernel space the thread of urt_app_body_ ends, or __init goes on.
BodyReturns ==
    /\ body = "returning" /\ space = "kernel"
    /\ body' = "ended"
    /\ main' = IF main = "body" THEN "loaded" ELSE main
    /\ UNCHANGED <<space, waits, rm, task, interrupted, done, made, exited>>

-----------------------------------------------------------------------------
(* urt_app_sig_handler_ *)
Signal ==
    /\ waits /\ space = "user" /\ main # "ended"
    /\ interrupted' = TRUE
    /\ UNCHANGED <<space, waits, main, rm, body, task, done, made, exited>>

(* urt_app_exit_ *)
Rmmod ==
    /\ waits /\ main = "loaded" /\ rm = "no"
    /\ interrupted' = TRUE
    /\ rm' = "wait"
    /\ UNCHANGED <<space, waits, main, body, task, done, made, exited>>

(* urt_app_exit_ of URT_GLUE_NO_INTERRUPT *)
RmmodAtOnce ==
    /\ ~waits /\ main = "loaded" /\ rm = "no"
    /\ rm' = "exit"
    /\ UNCHANGED <<space, waits, main, body, task, interrupted, done, made, exited>>

\* mutation: exit does not wait
WaitDoneBug ==
    /\ \/ main = "wait" /\ main' = "exit" /\ UNCHANGED rm
       \/ rm = "wait" /\ rm' = "exit" /\ UNCHANGED main
    /\ UNCHANGED <<space, waits, body, task, interrupted, done, made, exited>>

WaitDone ==
    /\ done
    /\ \/ main = "wait" /\ main' = "exit" /\ UNCHANGED rm
       \/ rm = "wait" /\ rm' = "exit" /\ UNCHANGED main
    /\ UNCHANGED <<space, waits, body, task, interrupted, done, made, exited>>

CallExit ==
    /\ \/ main = "exit" /\ main' = "cleanup" /\ UNCHANGED rm
       \/ rm = "exit" /\ rm' = "unloaded" /\ UNCHANGED main
    /\ exited' = TRUE
    /\ UNCHANGED <<space, waits, body, task, interrupted, done, made>>

(* exit_cleanup: urt_free_args *)
Cleanup ==
    /\ main = "cleanup"
    /\ main' = "ended"
    /\ UNCHANGED <<space, waits, rm, body, task, interrupted, done, made, exited>>

\* The glue between the arguments and the cleanup.
Glued ==
    \/ InitSucceeds \/ InitFails \/ Spawn
    \/ BodyLeaves \/ MainGoesOn \/ BodyReturns \/ WaitDone \/ CallExit

\* The application and whoever stops it.
Running == BodyAlone \/ Signal \/ Rmmod \/ RmmodAtOnce \/ \E t \in Tasks : Start(t) \/ TaskEnds(t)
=============================================================================
