------------------------------- MODULE Params -------------------------------
(***************************************************************************)
(* The command line of a user-space application (src/param.c):             *)
(* urt_parse_args converts the values of NAME=VALUE,VALUE,... arguments    *)
(* into the variables of the application, urt_free_args frees the strings. *)
(*                                                                         *)
(* A value is one of a few tokens, abstracting what the conversions tell   *)
(* apart: nothing at all, a number that fits the type or does not, the     *)
(* letters and digits of a bool, any other text.  A list may stand in      *)
(* quotes, and a quote may be left open.                                   *)
(***************************************************************************)
EXTENDS Integers, Sequences

CONSTANTS
    Names,       \* the parameters of the application
    TypeOf,      \* "int" (all the integers), "charp", "bool" or "invbool"
    IsArray,     \* Names -> BOOLEAN
    Max,         \* elements an array has
    Args,        \* the arguments a command line is made of
    MaxArgs,     \* bound on their number
    MallocFails  \* whether an allocation may fail

Tokens == {"", "fits", "big", "0", "1", "y", "n", "text"}

ASSUME ParamsAssumption ==
    /\ "--help" \notin Names /\ "unknown" \notin Names
    /\ \A p \in Names : /\ TypeOf[p] \in {"int", "charp", "bool", "invbool"}
                        /\ IsArray[p] \in BOOLEAN
                        /\ Max[p] \in Nat \ {0}
    /\ \A a \in Args : /\ a.name \in Names \cup {"--help", "unknown"}
                       /\ a.vals \in Seq(Tokens) /\ a.vals # <<>>
                       /\ a.quote \in {"none", "both", "open"}
    /\ MaxArgs \in Nat /\ MallocFails \in BOOLEAN

\* What an element of a variable holds: a string, numbered in the order malloc
\* hands them out, or one of these.
Strings == Nat \ {0}
Unset == 0
Zero == -1
Fits == -2
True == -3
False == -4
Values == Strings \cup {Unset, Zero, Fits, True, False}

VARIABLES
    argv,
    i,      \* arguments done
    rest,   \* values left of the current argument
    index,  \* values of it converted
    var,    \* the variables: what each element was last set to
    num, nump,
    err,
    heap,   \* strings allocated and not freed
    next,   \* the string malloc returns next
    twice,  \* a pointer was freed that was not allocated
    pc

params == <<argv, i, rest, index, var, num, nump, err, heap, next, twice, pc>>

ParseErrors == {"0", "EINVAL", "ERANGE", "E2BIG", "ENOMEM"}

ParamsTypeOK ==
    /\ argv \in Seq(Args) /\ i \in 0 .. Len(argv)
    /\ rest \in Seq(Tokens)
    /\ DOMAIN var = Names /\ num \in [Names -> Nat] /\ nump \in [Names -> Nat]
    /\ \A p \in Names : /\ var[p] \in [0 .. Max[p] - 1 -> Values]
                        /\ num[p] \in 0 .. Max[p] /\ nump[p] \in 0 .. Max[p]
    /\ index \in Nat
    /\ err \in ParseErrors
    /\ heap \subseteq Strings /\ next \in Strings /\ twice \in BOOLEAN
    /\ pc \in {"reset", "parse", "convert", "returned", "help", "freed"}

\* URT_MODULE_PARAM and URT_MODULE_PARAM_ARRAY: num is 0 to begin with.  The
\* application may have set defaults of its own in an array and its count.
ParamsInit ==
    /\ argv \in UNION {[1 .. n -> Args] : n \in 0 .. MaxArgs}
    /\ i = 0 /\ rest = <<>> /\ index = 0
    /\ var = [p \in Names |-> [k \in 0 .. Max[p] - 1 |-> Unset]]
    /\ num = [p \in Names |-> 0]
    /\ nump = [p \in Names |-> IF IsArray[p] THEN 1 ELSE 0]
    /\ err = "0" /\ heap = {} /\ next = 1 /\ twice = FALSE
    /\ pc = "reset"

-----------------------------------------------------------------------------
(* The conversions: an error, or the value that is stored.                 *)

\* r is what is left of the argument: nothing at all only when it is <<"">>,
\* since an empty value before another one still has its comma.  A digit is
\* compared with the character 1, not '1'.
BoolTaken(r) == r = <<"">> \/ Head(r) \in {"0", "y", "n"}
BoolTrue(r) == r = <<"">> \/ Head(r) \in {"1", "y"}
Bool(b) == IF b THEN True ELSE False

\* strtol and strtoul stop at what is not a digit: a text is 0.
Error(p, r) ==
    CASE TypeOf[p] = "int" /\ r = <<"">> -> "EINVAL"
      [] TypeOf[p] = "int" /\ Head(r) = "big" -> "ERANGE"
      [] TypeOf[p] \in {"bool", "invbool"} /\ ~ BoolTaken(r) -> "EINVAL"
      [] OTHER -> "0"

IntOf(v) == IF v \in {"fits", "1"} THEN Fits ELSE Zero

Number(p, r) ==
    CASE TypeOf[p] = "int" -> IntOf(Head(r))
      [] TypeOf[p] = "bool" -> Bool(BoolTrue(r))
      [] OTHER -> Bool(~ BoolTrue(r))

Stored(p, r) == IF TypeOf[p] = "charp" THEN next ELSE Number(p, r)

\* A quote at the start is dropped when the argument ends in one.  One that is
\* left open makes the first value a text; but one that is the whole value is
\* also the end of the argument, and the empty string is what follows it.
Unquoted(a) ==
    IF a.quote = "open" /\ a.vals # <<"">> THEN [a.vals EXCEPT ![1] = "text"] ELSE a.vals

Arg == argv[i + 1]
NextArg == i' = i + 1 /\ pc' = "parse"

(* urt_parse_args. *)
Reset ==
    /\ pc = "reset"
    /\ nump' = [p \in Names |-> 0]
    /\ pc' = "parse"
    /\ UNCHANGED <<argv, i, rest, index, var, num, err, heap, next, twice>>

Help ==
    /\ pc = "parse" /\ i < Len(argv) /\ Arg.name = "--help"
    /\ pc' = "help"
    /\ UNCHANGED <<argv, i, rest, index, var, num, nump, err, heap, next, twice>>

NoMatch ==
    /\ pc = "parse" /\ i < Len(argv) /\ Arg.name = "unknown"
    /\ err' = "EINVAL"
    /\ NextArg
    /\ UNCHANGED <<argv, rest, index, var, num, nump, heap, next, twice>>

\* mutation: the error of an earlier argument is forgotten
MatchBug ==
    /\ pc = "parse" /\ i < Len(argv) /\ Arg.name \in Names
    /\ rest' = Unquoted(Arg)
    /\ index' = 0
    /\ err' = "0"
    /\ pc' = "convert"
    /\ UNCHANGED <<argv, i, var, num, nump, heap, next, twice>>

Match ==
    /\ pc = "parse" /\ i < Len(argv) /\ Arg.name \in Names
    /\ rest' = Unquoted(Arg)
    /\ index' = 0
    /\ pc' = "convert"
    /\ UNCHANGED <<argv, i, var, num, nump, err, heap, next, twice>>

(* One turn of the loop of parse_arg. *)
TooMany ==
    /\ pc = "convert" /\ index >= Max[Arg.name]
    /\ err' = "E2BIG"
    /\ NextArg
    /\ UNCHANGED <<argv, rest, index, var, num, nump, heap, next, twice>>

Rejected ==
    /\ pc = "convert" /\ index < Max[Arg.name]
    /\ \/ Error(Arg.name, rest) # "0" /\ err' = Error(Arg.name, rest)
       \/ MallocFails /\ TypeOf[Arg.name] = "charp" /\ err' = "ENOMEM"
    /\ NextArg
    /\ UNCHANGED <<argv, rest, index, var, num, nump, heap, next, twice>>

\* What is left after a comma ends the loop when it is empty.
More(p, r) == IsArray[p] /\ Len(r) > 1 /\ Tail(r) # <<"">>

\* mutation: the number of elements of the array, not of the values given
CountedBug(p, n) ==
    /\ num' = [num EXCEPT ![p] = Max[p]]
    /\ nump' = [nump EXCEPT ![p] = IF IsArray[p] THEN n ELSE 0]

Counted(p, n) ==
    /\ num' = [num EXCEPT ![p] = n]
    /\ nump' = [nump EXCEPT ![p] = IF IsArray[p] THEN n ELSE 0]

Converted ==
    LET p == Arg.name IN
    /\ pc = "convert" /\ index < Max[p]
    /\ Error(p, rest) = "0"
    /\ var' = [var EXCEPT ![p][index] = Stored(p, rest)]
    /\ index' = index + 1
    /\ IF TypeOf[p] = "charp"
       THEN heap' = heap \cup {next} /\ next' = next + 1
       ELSE UNCHANGED <<heap, next>>
    /\ IF More(p, rest)
       THEN rest' = Tail(rest) /\ UNCHANGED <<i, pc, num, nump>>
       ELSE NextArg /\ Counted(p, index') /\ rest' = <<>>
    /\ UNCHANGED <<argv, err, twice>>

Return ==
    /\ pc = "parse" /\ i = Len(argv)
    /\ pc' = "returned"
    /\ UNCHANGED <<argv, i, rest, index, var, num, nump, err, heap, next, twice>>

(* urt_free_args, which main calls on all its paths. *)
Elements(p) == {k \in DOMAIN var[p] : k < num[p]}

\* The elements whose pointers are passed to free.
Freed == UNION {{p} \X Elements(p) : p \in {n \in Names : TypeOf[n] = "charp"}}
Pointer(e) == var[e[1]][e[2]]

Free ==
    /\ pc \in {"returned", "help"}
    /\ heap' = heap \ {Pointer(e) : e \in Freed}
    /\ twice' = \/ \E e \in Freed : Pointer(e) \notin heap
                \/ \E e, f \in Freed : e # f /\ Pointer(e) = Pointer(f)
    /\ pc' = "freed"
    /\ UNCHANGED <<argv, i, rest, index, var, num, nump, err, next>>

(* urt_parse_args, step by step. *)
Parse == Reset \/ Help \/ NoMatch \/ Match \/ TooMany \/ Rejected \/ Converted \/ Return

-----------------------------------------------------------------------------
(* Reference: what a command line means to who reads doc/urt.              *)

\* the values of an argument: a comma at the end adds none
ValuesOf(a) ==
    IF ~ IsArray[a.name] THEN <<a.vals[1]>>
    ELSE IF Len(a.vals) > 1 /\ a.vals[Len(a.vals)] = ""
         THEN SubSeq(a.vals, 1, Len(a.vals) - 1) ELSE a.vals

Bools == {p \in Names : TypeOf[p] \in {"bool", "invbool"}}
Some(a, vs) == \E k \in DOMAIN ValuesOf(a) : ValuesOf(a)[k] \in vs

\* A value of the type in each element, or a bool without a value.
OfType(a) ==
    CASE TypeOf[a.name] = "int" -> ~ Some(a, Tokens \ {"fits", "0", "1"})
      [] a.name \in Bools -> a.vals = <<"">> \/ ~ Some(a, Tokens \ {"0", "1", "y", "n"})
      [] OTHER -> TRUE

\* What the document allows.
Documented(a) ==
    /\ a.name \in Names /\ a.quote # "open"
    /\ Len(ValuesOf(a)) <= Max[a.name]
    /\ OfType(a)

\* A bool that is given as 1, the one thing it allows and the code does not.
OneForBool(a) == a.name \in Bools /\ Some(a, {"1"})

\* What cannot mean anything: no such parameter, too many values, no number or
\* one that does not fit, no bool.  (A text for a number, and a quote left
\* open, are neither documented nor wrong.)
Wrong(a) ==
    \/ a.name \notin Names
    \/ Len(ValuesOf(a)) > Max[a.name]
    \/ /\ a.quote # "open"
       /\ \/ TypeOf[a.name] = "int" /\ (a.vals = <<"">> \/ Some(a, {"big"}))
          \/ a.name \in Bools /\ a.vals # <<"">> /\ Some(a, {"", "fits", "big", "text"})

\* The element that a documented value makes.
Meaning(p, v) ==
    CASE TypeOf[p] = "int" -> IF v = "0" THEN Zero ELSE Fits
      [] TypeOf[p] = "bool" -> IF v \in {"0", "n"} THEN False ELSE True
      [] TypeOf[p] = "invbool" -> IF v \in {"0", "n"} THEN True ELSE False

\* the last argument for a parameter, or 0
LastFor(p) ==
    LET at == {k \in DOMAIN argv : argv[k].name = p}
    IN  IF at = {} THEN 0 ELSE CHOOSE k \in at : \A m \in at : m <= k

(* urt_parse_args accepts a command line that doc/urt allows, but for      *)
(* bools given as 1 and as far as memory goes, and reports an error for    *)
(* one in which something is wrong: a later good argument does not hide it, *)
(* and the application, which goes to its cleanup on an error, is never     *)
(* started on half a command line.  On success a parameter has the values   *)
(* of its last argument, and nump their number, however often it was given  *)
(* and whatever the application had there; an array that was not given      *)
(* counts none.                                                             *)
ParsedAsGiven ==
    pc = "returned" =>
        /\ (\A k \in DOMAIN argv : Documented(argv[k]) /\ ~ OneForBool(argv[k])) => err \in {"0", "ENOMEM"}
        /\ (\E k \in DOMAIN argv : Wrong(argv[k])) => err # "0"
        /\ err = "0" =>
             \A p \in Names :
                 IF LastFor(p) = 0 THEN nump[p] = 0
                 ELSE LET a == argv[LastFor(p)]
                          v == ValuesOf(a)
                      IN  /\ IsArray[p] => nump[p] = Len(v)
                          /\ Documented(a) /\ TypeOf[p] # "charp" =>
                                 \A k \in DOMAIN v : var[p][k - 1] = Meaning(p, v[k])

(* urt_free_args frees only what to_charp allocated, and that once, after  *)
(* repeated arguments, after arguments that failed half way and when memory *)
(* is short; the strings of a command line that is accepted and names no   *)
(* parameter twice are all freed.                                          *)
FreedOnce ==
    /\ ~ twice
    /\ pc = "freed" /\ i = Len(argv) /\ err = "0"
         /\ (\A j, k \in DOMAIN argv : argv[j].name = argv[k].name => j = k) => heap = {}
=============================================================================
