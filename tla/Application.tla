---------------------------- MODULE Application ----------------------------
(***************************************************************************)
(* A whole application: URT_GLUE (Glue) and the command line it parses and *)
(* frees (Params).  In kernel space the parameters are the kernel's.       *)
(***************************************************************************)
EXTENDS Params, Glue

vars == <<params, glue>>

TypeOK == ParamsTypeOK /\ GlueTypeOK

Init ==
    /\ ParamsInit /\ GlueInit
    /\ space = "kernel" => argv = <<>>

\* urt_parse_args runs, and main goes on to init or to its cleanup.
Parsing == main = "parse" /\ Parse /\ UNCHANGED glue

Parsed ==
    /\ pc \in {"returned", "help"}
    /\ ParseArgs(pc = "returned" /\ err = "0")
    /\ UNCHANGED params

\* exit_cleanup: urt_free_args.
CleanUp == Free /\ Cleanup

Steps == Parsing \/ Parsed \/ CleanUp \/ (Glued /\ UNCHANGED params)

Next == Steps \/ (Running /\ UNCHANGED params)

(* The glue's own steps are taken.  The application may run as long as it  *)
(* likes until it is interrupted, and ends its work then (doc/urt: the     *)
(* loops of body look at _interrupted).                                    *)
Spec ==
    /\ Init /\ [][Next]_vars
    /\ WF_vars(Steps)
    /\ WF_vars(interrupted /\ BodyAlone /\ UNCHANGED params)
    /\ \A t \in Tasks :
         /\ WF_vars(interrupted /\ Start(t) /\ UNCHANGED params)
         /\ WF_vars(interrupted /\ TaskEnds(t) /\ UNCHANGED params)

-----------------------------------------------------------------------------
(* Neither the resources that exit frees nor the strings of the command    *)
(* line go away under a task or, in user space, under body: the loop on    *)
(* done holds exit back until the last of them is over, and main calls     *)
(* exit after body.  Nothing holds back the rmmod of a module that uses    *)
(* URT_GLUE_NO_INTERRUPT.                                                  *)
ExitSafe ==
    /\ TypeOK
    /\ (waits \/ space = "user") /\ (exited \/ pc = "freed") =>
         /\ \A t \in Tasks : task[t] # "running"
         /\ space = "user" => body # "running"

(* init, body and exit run only on a command line without a wrong          *)
(* argument; exit runs for an application whose init succeeded and for no  *)
(* other, and what init made is never left behind: when main ends, and     *)
(* when the module is unloaded, exit has run just where init had.          *)
NothingLeft ==
    /\ made /\ space = "user" => \A k \in DOMAIN argv : ~Wrong(argv[k])
    /\ exited => made
    /\ main \in {"ended", "failed"} \/ rm = "unloaded" => made = exited

(* A signal, or rmmod, at any time ends the application, unless body never *)
(* ran because its thread could not be created for another reason than     *)
(* ENOMEM.                                                                 *)
Stops ==
    interrupted ~> \/ main \in {"ended", "failed"}
                   \/ rm = "unloaded"
                   \/ main = "loaded" /\ body = "none"
=============================================================================
