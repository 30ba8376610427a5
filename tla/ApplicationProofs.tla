------------------------- MODULE ApplicationProofs -------------------------
(***************************************************************************)
(* The safety properties of Application for every set of parameters, of    *)
(* arguments and of tasks, and command lines of any length.                *)
(***************************************************************************)
EXTENDS Application, SequenceTheorems, WellFoundedInduction, TLAPS

\* An argument as the conversions see it: without its quotes.
Taken(a) == [name |-> a.name, vals |-> Unquoted(a)]
Cur == Taken(Arg)

\* What is left of the argument that is being converted, and that the values
\* before it were accepted.
ArgInv ==
    /\ pc = "convert" =>
         /\ i < Len(argv) /\ Arg.name \in Names
         /\ index <= Max[Arg.name] /\ index < Len(Cur.vals)
         /\ rest = SubSeq(Cur.vals, index + 1, Len(Cur.vals))
         /\ index > 0 => IsArray[Arg.name] /\ rest # <<"">>
         /\ \A k \in 1 .. index : Error(Arg.name, SubSeq(Cur.vals, k, Len(Cur.vals))) = "0"
    /\ pc = "reset" => i = 0
    /\ pc = "returned" => i = Len(argv)
    /\ pc = "help" => i < Len(argv)

\* The argument that is taken as b is converted without an error.
Accepted(b) ==
    /\ b.name \in Names
    /\ Len(ValuesOf(b)) <= Max[b.name]
    /\ \A k \in DOMAIN ValuesOf(b) : Error(b.name, SubSeq(b.vals, k, Len(b.vals))) = "0"
Good(a) == Accepted(Taken(a))

\* An error stays, and is only reported for a bad argument or for memory.
ErrInv ==
    /\ err = "0" => \A k \in 1 .. i : Good(argv[k])
    /\ err \notin {"0", "ENOMEM"} => \E k \in DOMAIN argv : ~Good(argv[k])

Converting(p) == pc = "convert" /\ p = Arg.name

\* What the argument a says is what the parameter p holds.
Holds(p, a) ==
    /\ IsArray[p] => nump[p] = Len(ValuesOf(a))
    /\ TypeOf[p] # "charp" =>
         \A k \in 1 .. Len(ValuesOf(a)) : var[p][k - 1] = Number(p, SubSeq(a.vals, k, Len(a.vals)))

\* A parameter holds what the last argument for it so far says.
ArrayInv ==
    /\ err = "0" /\ pc # "reset" => \A p \in Names :
         /\ (\A k \in 1 .. i : argv[k].name # p) => nump[p] = 0
         /\ \A k \in 1 .. i :
              /\ argv[k].name = p /\ ~Converting(p)
              /\ \A m \in k + 1 .. i : argv[m].name # p
              => Holds(p, Taken(argv[k]))
    /\ pc = "convert" /\ TypeOf[Arg.name] # "charp" =>
         \A k \in 1 .. index :
             var[Arg.name][k - 1] = Number(Arg.name, SubSeq(Cur.vals, k, Len(Cur.vals)))

\* The elements that were set, by an argument that was accepted or by the
\* present one.
SetSoFar(p, k) == k < num[p] \/ (Converting(p) /\ k < index)

StringParams == {p \in Names : TypeOf[p] = "charp"}

\* An element of a string parameter is not set or is an allocated string that
\* no other element has.
HeapInv ==
    /\ ~twice
    /\ \A s \in heap : s < next
    /\ pc # "freed" => \A p \in StringParams : \A k \in 0 .. Max[p] - 1 : var[p][k] \in heap \cup {Unset}
    /\ \A p, q \in StringParams : \A k \in 0 .. Max[p] - 1, l \in 0 .. Max[q] - 1 :
         var[p][k] = var[q][l] /\ var[p][k] # Unset => p = q /\ k = l
    /\ \A p \in StringParams : \A k \in 0 .. Max[p] - 1 : SetSoFar(p, k) => var[p][k] # Unset

Distinct == \A j, k \in DOMAIN argv : argv[j].name = argv[k].name => j = k

\* A string is lost only when a parameter is given again, or on an error.
LeakInv ==
    /\ \A p \in Names : (\A k \in 1 .. i : argv[k].name # p) => num[p] = 0
    /\ err = "0" /\ Distinct =>
         IF pc = "freed" THEN i = Len(argv) => heap = {}
         ELSE \A s \in heap :
                \E p \in StringParams : \E k \in 0 .. Max[p] - 1 : var[p][k] = s /\ SetSoFar(p, k)

ParamsInv == ParamsTypeOK /\ ArgInv /\ ErrInv /\ ArrayInv /\ HeapInv /\ LeakInv

\* Where main, the module's __exit and body are, and what init and exit did.
PlaceInv ==
    /\ space = "user" =>
         /\ rm = "no" /\ main \notin {"spawn", "loaded", "failed"}
         /\ main = "body" <=> body \in {"running", "returning"}
    /\ space = "kernel" => main \notin {"parse", "wait", "exit", "cleanup", "ended"}
    /\ rm # "no" => main = "loaded"
    /\ main \in {"wait", "exit"} => body = "ended"
    /\ main \in {"parse", "init", "spawn"} => body = "none"
    /\ main \in {"parse", "init", "failed"} => ~made
    /\ main \in {"spawn", "body", "loaded", "wait", "exit"} => made
    /\ exited => main \in {"cleanup", "ended"} \/ rm = "unloaded"
    /\ main \in {"cleanup", "ended"} \/ rm = "unloaded" => made = exited

\* Once done is set, or body is over where nobody waits for done, no task runs
\* or will be started.
DoneInv ==
    /\ body = "none" => ~done /\ \A t \in Tasks : task[t] = "none"
    /\ done => /\ \A t \in Tasks : task[t] # "running"
               /\ body = "running" => \A t \in Tasks : task[t] = "ended"
    /\ ~waits /\ body \in {"returning", "ended"} => \A t \in Tasks : task[t] # "running"
    /\ waits /\ (main = "exit" \/ rm \in {"exit", "unloaded"}) => done
    /\ main \in {"exit", "cleanup", "ended"} => \A t \in Tasks : task[t] # "running"

GlueInv == GlueTypeOK /\ PlaceInv /\ DoneInv

AllRead == i = Len(argv)

\* main goes on to init after a command line without errors, and the strings
\* are freed in its last step.
LinkInv ==
    /\ pc = "freed" => space = "user" /\ main = "ended"
    /\ main = "init" /\ space = "user" => pc = "returned" /\ err = "0"
    /\ made /\ space = "user" => err = "0" /\ AllRead /\ pc \in {"returned", "freed"}

AppInv == ParamsInv /\ GlueInv /\ LinkInv
-----------------------------------------------------------------------------
(* The conversions and the values of an argument.                          *)

LEMMA ErrorType ==
    ASSUME NEW p \in Names, NEW r
    PROVE  Error(p, r) \in {"0", "EINVAL", "ERANGE"}
BY DEF Error

LEMMA StoredFacts ==
    ASSUME NEW p \in Names, NEW r, next \in Strings
    PROVE  /\ Stored(p, r) \in Values
           /\ TypeOf[p] = "charp" => Stored(p, r) = next
           /\ TypeOf[p] # "charp" => Stored(p, r) = Number(p, r)
<1>1. CASE TypeOf[p] = "int"
  BY <1>1 DEF Stored, Number, IntOf, Values, Fits, Zero
<1>2. CASE TypeOf[p] = "charp"
  BY <1>2 DEF Stored, Values
<1>3. CASE TypeOf[p] \notin {"int", "charp"}
  <2>1. \A b \in BOOLEAN : Bool(b) \in Values
    BY DEF Bool, Values, True, False
  <2>2. BoolTrue(r) \in BOOLEAN
    BY DEF BoolTrue
  <2> QED
    BY <1>3, <2>1, <2>2 DEF Stored, Number
<1> QED
  BY <1>1, <1>2, <1>3

LEMMA SubSeqFacts ==
    ASSUME NEW S, NEW v \in Seq(S), NEW m \in Nat \ {0}, NEW n \in Nat, n <= Len(v), m <= n + 1
    PROVE  /\ SubSeq(v, m, n) \in Seq(S) /\ Len(SubSeq(v, m, n)) = n - m + 1
           /\ \A k \in 1 .. n - m + 1 : SubSeq(v, m, n)[k] = v[m + k - 1]
<1>1. \A k \in m .. n : v[k] \in S
  BY ElementOfSeq, LenProperties
<1> QED
  BY <1>1, SubSeqProperties, LenProperties

LEMMA OnlyOne ==
    ASSUME NEW S, NEW e \in S, NEW s \in Seq(S)
    PROVE  s = <<e>> <=> Len(s) = 1 /\ s[1] = e
<1>1. ASSUME Len(s) = 1, s[1] = e PROVE s = <<e>>
  BY <1>1
<1> QED
  BY <1>1

LEMMA Front ==
    ASSUME NEW S, NEW v \in Seq(S), NEW n \in Nat, n <= Len(v)
    PROVE  /\ Len(SubSeq(v, 1, n)) = n /\ DOMAIN SubSeq(v, 1, n) = 1 .. n
           /\ \A k \in 1 .. n : SubSeq(v, 1, n)[k] = v[k]
<1>1. /\ SubSeq(v, 1, n) \in Seq(S) /\ Len(SubSeq(v, 1, n)) = n - 1 + 1
      /\ \A k \in 1 .. n - 1 + 1 : SubSeq(v, 1, n)[k] = v[1 + k - 1]
  BY SubSeqFacts
<1>2. n - 1 + 1 = n /\ \A k \in 1 .. n : 1 + k - 1 = k
  OBVIOUS
<1> QED
  BY <1>1, <1>2, LenProperties

LEMMA OneLeft ==
    ASSUME NEW l \in Nat, NEW m \in 1 .. l
    PROVE  (l - m + 1 = 1 <=> m = l) /\ m + 1 - 1 = m /\ 1 \in 1 .. l - m + 1
OBVIOUS

\* What is left of v from its m-th value on is e alone.
LEMMA LastElement ==
    ASSUME NEW v \in Seq(Tokens), NEW e \in Tokens, NEW m \in 1 .. Len(v)
    PROVE  /\ Len(SubSeq(v, m, Len(v))) = Len(v) - m + 1
           /\ SubSeq(v, m, Len(v)) = <<e>> <=> Len(v) = m /\ v[Len(v)] = e
<1>1. Len(v) \in Nat
  BY LenProperties
<1>2. m \in Nat \ {0} /\ m <= Len(v) + 1 /\ Len(v) <= Len(v)
  BY <1>1
<1>3. PICK r : r = SubSeq(v, m, Len(v))
  OBVIOUS
<1>4. r \in Seq(Tokens) /\ Len(r) = Len(v) - m + 1
  BY <1>1, <1>2, <1>3, SubSeqFacts, Zenon
<1>8. \A k \in 1 .. Len(v) - m + 1 : r[k] = v[m + k - 1]
  BY <1>1, <1>2, <1>3, SubSeqFacts, Zenon
<1>5. r = <<e>> <=> Len(r) = 1 /\ r[1] = e
  BY <1>4, OnlyOne, Zenon
<1>6. (Len(r) = 1 <=> m = Len(v)) /\ r[1] = v[m]
  <2>1. (Len(v) - m + 1 = 1 <=> m = Len(v)) /\ m + 1 - 1 = m /\ 1 \in 1 .. Len(v) - m + 1
    BY <1>1, OneLeft, Zenon
  <2> QED
    BY <1>4, <1>8, <2>1, Zenon
<1> QED
  BY <1>3, <1>4, <1>5, <1>6, Zenon

LEMMA FirstElement ==
    ASSUME NEW S, NEW v \in Seq(S), NEW m \in 1 .. Len(v)
    PROVE  /\ Head(SubSeq(v, m, Len(v))) = v[m]
           /\ Tail(SubSeq(v, m, Len(v))) = SubSeq(v, m + 1, Len(v))
<1>1. Len(v) \in m .. Len(v)
  BY LenProperties
<1> QED
  BY <1>1, HeadTailOfSubSeq, Zenon

\* A comma ends the argument, or it is empty.
EndsEmpty(v) == v[Len(v)] = ""
Blank(r) == r = <<"">>

LEMMA BlankFacts ==
    ASSUME NEW v \in Seq(Tokens), NEW m \in 1 .. Len(v)
    PROVE  /\ Len(SubSeq(v, m, Len(v))) = Len(v) - m + 1
           /\ Blank(SubSeq(v, m, Len(v))) <=> Len(v) = m /\ EndsEmpty(v)
<1>1. "" \in Tokens
  BY DEF Tokens
<1>2. PICK e \in Tokens : e = ""
  BY <1>1
<1>3. /\ Len(SubSeq(v, m, Len(v))) = Len(v) - m + 1
      /\ SubSeq(v, m, Len(v)) = <<e>> <=> Len(v) = m /\ v[Len(v)] = e
  BY LastElement, Zenon
<1> QED
  BY <1>2, <1>3, Zenon DEF Blank, EndsEmpty

\* A value is missing altogether.
LEMMA NoValue ==
    ASSUME NEW v \in Seq(Tokens)
    PROVE  v = <<"">> <=> Len(v) = 1 /\ EndsEmpty(v)
<1>1. PICK e \in Tokens : e = ""
  BY DEF Tokens
<1>2. v = <<e>> <=> Len(v) = 1 /\ v[1] = e
  BY OnlyOne, Zenon
<1>3. Len(v) = 1 => (v[1] = e <=> v[Len(v)] = e)
  OBVIOUS
<1> QED
  BY <1>1, <1>2, <1>3, Zenon DEF EndsEmpty

\* The values of an argument are its first ones.
LEMMA ValuesFacts ==
    ASSUME NEW a, a.name \in Names, a.vals \in Seq(Tokens), a.vals # <<>>
    PROVE  /\ a.vals \in Seq(Tokens) /\ Len(a.vals) \in Nat \ {0}
           /\ Len(ValuesOf(a)) \in 1 .. Len(a.vals)
           /\ DOMAIN ValuesOf(a) = 1 .. Len(ValuesOf(a))
           /\ Len(ValuesOf(a)) =
                IF ~IsArray[a.name] THEN 1
                ELSE IF Len(a.vals) > 1 /\ EndsEmpty(a.vals) THEN Len(a.vals) - 1 ELSE Len(a.vals)
           /\ \A k \in 1 .. Len(ValuesOf(a)) : ValuesOf(a)[k] = a.vals[k]
<1>1. a.vals \in Seq(Tokens) /\ a.vals # <<>> /\ IsArray[a.name] \in BOOLEAN
  BY ParamsAssumption
<1>2. Len(a.vals) \in Nat \ {0}
  BY <1>1, EmptySeq
<1>3. CASE ~IsArray[a.name]
  <2>1. ValuesOf(a) = <<a.vals[1]>>
    BY <1>3 DEF ValuesOf
  <2>2. Len(ValuesOf(a)) = 1 /\ DOMAIN ValuesOf(a) = 1 .. 1 /\ ValuesOf(a)[1] = a.vals[1]
    BY <2>1
  <2>3. 1 \in 1 .. Len(a.vals) /\ \A k \in 1 .. 1 : k = 1
    BY <1>2
  <2> QED
    BY <1>1, <1>2, <1>3, <2>2, <2>3
<1>4. CASE IsArray[a.name] /\ Len(a.vals) > 1 /\ EndsEmpty(a.vals)
  <2>1. ValuesOf(a) = SubSeq(a.vals, 1, Len(a.vals) - 1)
    BY <1>4 DEF ValuesOf, EndsEmpty
  <2>5. Len(a.vals) - 1 \in Nat /\ Len(a.vals) - 1 <= Len(a.vals) /\ Len(a.vals) - 1 \in 1 .. Len(a.vals)
    BY <1>2, <1>4
  <2>2. PICK n \in Nat : n = Len(a.vals) - 1 /\ n <= Len(a.vals)
    BY <2>5, Zenon
  <2>6. ValuesOf(a) = SubSeq(a.vals, 1, n)
    BY <2>1, <2>2, Zenon
  <2>3. /\ Len(ValuesOf(a)) = n /\ DOMAIN ValuesOf(a) = 1 .. n
        /\ \A k \in 1 .. n : ValuesOf(a)[k] = a.vals[k]
    <3>1. PICK v \in Seq(Tokens) : v = a.vals
      BY <1>1
    <3>2. n <= Len(v) /\ ValuesOf(a) = SubSeq(v, 1, n)
      BY <2>2, <2>6, <3>1, Zenon
    <3>3. /\ Len(SubSeq(v, 1, n)) = n /\ DOMAIN SubSeq(v, 1, n) = 1 .. n
          /\ \A k \in 1 .. n : SubSeq(v, 1, n)[k] = v[k]
      BY <3>2, Front, Zenon
    <3> QED
      BY <3>1, <3>2, <3>3, Zenon
  <2>4. n \in 1 .. Len(a.vals)
    BY <2>2, <2>5, Zenon
  <2> QED
    BY <1>1, <1>2, <1>4, <2>2, <2>3, <2>4, Zenon
<1>5. CASE IsArray[a.name] /\ ~(Len(a.vals) > 1 /\ EndsEmpty(a.vals))
  <2>1. ValuesOf(a) = a.vals
    BY <1>5 DEF ValuesOf, EndsEmpty
  <2>2. DOMAIN a.vals = 1 .. Len(a.vals) /\ Len(a.vals) \in 1 .. Len(a.vals)
    BY <1>1, <1>2, LenProperties
  <2> QED
    BY <1>1, <1>2, <1>5, <2>1, <2>2, Zenon
<1> QED
  BY <1>3, <1>4, <1>5

LEMMA TakenFacts ==
    ASSUME NEW a \in Args
    PROVE  /\ Taken(a).name = a.name /\ Taken(a).vals = Unquoted(a)
           /\ Taken(a).vals \in Seq(Tokens) /\ Taken(a).vals # <<>>
           /\ a.vals \in Seq(Tokens) /\ Len(a.vals) \in Nat \ {0} /\ Len(Unquoted(a)) = Len(a.vals)
           /\ \A k \in 1 .. Len(a.vals) : k > 1 => Unquoted(a)[k] = a.vals[k]
<1>1. a.vals \in Seq(Tokens) /\ a.vals # <<>> /\ "text" \in Tokens
  BY ParamsAssumption DEF Tokens
<1>2. Len(a.vals) \in Nat \ {0}
  BY <1>1, EmptySeq
<1>3. PICK e \in Tokens : e = "text"
  BY <1>1
<1>4. PICK v \in Seq(Tokens) : v = a.vals
  BY <1>1
<1>5. /\ [v EXCEPT ![1] = e] \in Seq(Tokens) /\ Len([v EXCEPT ![1] = e]) = Len(v)
      /\ \A k \in 1 .. Len(v) : k > 1 => [v EXCEPT ![1] = e][k] = v[k]
  <2>1. 1 \in 1 .. Len(v)
    BY <1>2, <1>4
  <2> QED
    BY <1>4, <2>1, ExceptSeq
<1>6. Unquoted(a) \in {v, [v EXCEPT ![1] = e]}
  BY <1>3, <1>4, Zenon DEF Unquoted
<1>7. /\ Unquoted(a) \in Seq(Tokens) /\ Len(Unquoted(a)) = Len(a.vals)
      /\ \A k \in 1 .. Len(a.vals) : k > 1 => Unquoted(a)[k] = a.vals[k]
  BY <1>4, <1>5, <1>6, Zenon
<1>8. Unquoted(a) # <<>>
  BY <1>2, <1>7, EmptySeq
<1> QED
  BY <1>1, <1>2, <1>7, <1>8 DEF Taken

LEMMA ArgFacts ==
    ASSUME ParamsTypeOK, i < Len(argv)
    PROVE  /\ Arg = argv[i + 1] /\ i + 1 \in DOMAIN argv /\ Arg \in Args
           /\ DOMAIN argv = 1 .. Len(argv) /\ Len(argv) \in Nat /\ i \in Nat
           /\ Cur.name = Arg.name /\ Cur.vals = Unquoted(Arg)
           /\ Cur.vals \in Seq(Tokens) /\ Cur.vals # <<>> /\ Len(Cur.vals) \in Nat \ {0}
<1>1. /\ Arg = argv[i + 1] /\ i + 1 \in DOMAIN argv /\ Arg \in Args
      /\ DOMAIN argv = 1 .. Len(argv) /\ Len(argv) \in Nat /\ i \in Nat
  BY DEF ParamsTypeOK, Arg
<1>2. /\ Cur.name = Arg.name /\ Cur.vals = Unquoted(Arg)
      /\ Cur.vals \in Seq(Tokens) /\ Cur.vals # <<>>
  BY <1>1, TakenFacts DEF Cur
<1> QED
  BY <1>1, <1>2, EmptySeq

\* The loop of parse_arg takes the values of the argument and no more.
LEMMA RestFacts ==
    ASSUME ParamsTypeOK, ArgInv, pc = "convert"
    PROVE  /\ Arg.name \in Names /\ index \in Nat
           /\ Head(rest) = Cur.vals[index + 1]
           /\ index + 1 <= Len(ValuesOf(Cur))
           /\ More(Arg.name, rest) =>
                /\ IsArray[Arg.name] /\ Tail(rest) # <<"">> /\ index + 1 < Len(Cur.vals)
                /\ Tail(rest) = SubSeq(Cur.vals, index + 2, Len(Cur.vals))
           /\ ~More(Arg.name, rest) => index + 1 = Len(ValuesOf(Cur))
<1> DEFINE v == Cur.vals
<1>1. /\ Arg \in Args /\ v \in Seq(Tokens) /\ Len(v) \in Nat \ {0} /\ index \in Nat /\ index < Len(v)
      /\ rest = SubSeq(v, index + 1, Len(v)) /\ Arg.name \in Names
      /\ Cur.name = Arg.name /\ v # <<>> /\ v = Cur.vals
  BY ArgFacts DEF ArgInv, ParamsTypeOK
<1> HIDE DEF v
<1>2. Len(v) \in Nat /\ index \in Nat /\ index < Len(v)
  BY <1>1
<1>3. PICK m : m = index + 1 /\ m \in 1 .. Len(v)
  BY <1>2
<1>4. PICK n : n = m + 1 /\ n = index + 2
  BY <1>2, <1>3
<1>5. Len(rest) = Len(v) - m + 1 /\ (Blank(rest) <=> Len(v) = m /\ EndsEmpty(v))
  <2>1. rest = SubSeq(v, m, Len(v))
    BY <1>1, <1>3
  <2> QED
    BY <1>1, <1>3, <2>1, BlankFacts, Zenon
<1>12. Head(rest) = v[index + 1] /\ Tail(rest) = SubSeq(v, index + 2, Len(v))
  <2>1. rest = SubSeq(v, m, Len(v))
    BY <1>1, <1>3
  <2>2. Head(rest) = v[m] /\ Tail(rest) = SubSeq(v, m + 1, Len(v))
    BY <1>1, <1>3, <2>1, FirstElement, Zenon
  <2> QED
    BY <1>3, <1>4, <2>2
<1>14. Len(rest) > 1 => n \in 1 .. Len(v)
  BY <1>2, <1>3, <1>4, <1>5
<1>15. Len(rest) > 1 => (Blank(Tail(rest)) <=> Len(v) = n /\ EndsEmpty(v))
  <2>1. Tail(rest) = SubSeq(v, n, Len(v))
    BY <1>4, <1>12
  <2> QED
    BY <1>1, <1>14, <2>1, BlankFacts, Zenon
<1>6. IsArray[Arg.name] \in BOOLEAN /\ (index > 0 => IsArray[Arg.name] /\ ~Blank(rest))
  BY <1>1, ParamsAssumption DEF ArgInv, Blank
<1>7. Len(ValuesOf(Cur)) =
        IF ~IsArray[Arg.name] THEN 1
        ELSE IF Len(v) > 1 /\ EndsEmpty(v) THEN Len(v) - 1 ELSE Len(v)
  BY <1>1, ValuesFacts, Zenon
<1>8. More(Arg.name, rest) <=> IsArray[Arg.name] /\ Len(rest) > 1 /\ ~Blank(Tail(rest))
  BY <1>6 DEF More, Blank
<1>9. index + 1 <= Len(ValuesOf(Cur))
  BY <1>2, <1>3, <1>5, <1>6, <1>7
<1>10. ~More(Arg.name, rest) => index + 1 = Len(ValuesOf(Cur))
  BY <1>2, <1>3, <1>4, <1>5, <1>6, <1>7, <1>8, <1>15
<1>11. More(Arg.name, rest) => index + 1 < Len(v)
  BY <1>2, <1>3, <1>5, <1>8
<1>13. More(Arg.name, rest) => IsArray[Arg.name] /\ Tail(rest) # <<"">>
  BY DEF More
<1> QED
  BY <1>1, <1>9, <1>10, <1>11, <1>12, <1>13, Zenon DEF v

-----------------------------------------------------------------------------
(* urt_parse_args and urt_free_args.                                       *)

LEMMA ParamsInvInit == ParamsInit => ParamsInv
<1> SUFFICES ASSUME ParamsInit PROVE ParamsInv
  OBVIOUS
<1>1. ParamsTypeOK
  <2>1. PICK n \in 0 .. MaxArgs : argv \in [1 .. n -> Args]
    BY DEF ParamsInit
  <2>2. argv \in Seq(Args) /\ Len(argv) \in Nat
    BY <2>1, ParamsAssumption
  <2>3. /\ DOMAIN var = Names /\ num \in [Names -> Nat] /\ nump \in [Names -> Nat]
        /\ \A p \in Names : num[p] = 0 /\ nump[p] \in {0, 1}
    BY DEF ParamsInit
  <2>4. \A p \in Names : var[p] \in [0 .. Max[p] - 1 -> Values]
    BY DEF ParamsInit, Values
  <2>5. \A p \in Names : Max[p] \in Nat \ {0}
    BY ParamsAssumption
  <2>6. ASSUME NEW p \in Names PROVE num[p] \in 0 .. Max[p] /\ nump[p] \in 0 .. Max[p]
    <3>1. Max[p] \in Nat \ {0} /\ num[p] = 0 /\ (nump[p] = 0 \/ nump[p] = 1)
      BY <2>3, <2>5
    <3> QED
      BY <3>1
  <2>7. rest \in Seq(Tokens)
    BY EmptySeq DEF ParamsInit
  <2>10. /\ i = 0 /\ index = 0 /\ err = "0" /\ heap = {} /\ next = 1 /\ twice = FALSE /\ pc = "reset"
    BY DEF ParamsInit
  <2>8. i \in 0 .. Len(argv) /\ index \in Nat /\ heap \subseteq Strings /\ next \in Strings
    BY <2>2, <2>10 DEF Strings
  <2>11. /\ twice \in BOOLEAN /\ err \in ParseErrors
         /\ pc \in {"reset", "parse", "convert", "returned", "help", "freed"}
    BY <2>10, Zenon DEF ParseErrors
  <2>9. \A p \in Names : /\ var[p] \in [0 .. Max[p] - 1 -> Values]
                         /\ num[p] \in 0 .. Max[p] /\ nump[p] \in 0 .. Max[p]
    BY <2>4, <2>6, Zenon
  <2> QED
    BY <2>2, <2>3, <2>7, <2>8, <2>9, <2>11, Zenon DEF ParamsTypeOK
<1>2. ArgInv /\ ErrInv /\ ArrayInv
  BY DEF ParamsInit, ArgInv, ErrInv, ArrayInv
<1>3. HeapInv
  <2>1. \A p \in Names : \A k \in 0 .. Max[p] - 1 : var[p][k] = Unset
    BY DEF ParamsInit
  <2>2. \A p \in Names : \A k \in 0 .. Max[p] - 1 : ~SetSoFar(p, k)
    BY ParamsAssumption DEF ParamsInit, SetSoFar, Converting
  <2> QED
    BY <2>1, <2>2 DEF ParamsInit, HeapInv, StringParams
<1>4. LeakInv
  BY DEF ParamsInit, LeakInv
<1> QED
  BY <1>1, <1>2, <1>3, <1>4 DEF ParamsInv

\* Steps that read no argument.
LEMMA QuietStep ==
    ASSUME ParamsInv, Reset \/ Help \/ Return
    PROVE  ParamsInv'
<1>1. /\ UNCHANGED <<argv, i, rest, index, var, num, err, heap, next, twice>>
      /\ pc \in {"reset", "parse"} /\ pc' \in {"parse", "help", "returned"}
      /\ pc' = "returned" => i = Len(argv)
      /\ pc' = "help" => i < Len(argv)
  BY DEF Reset, Help, Return
<1>2. \/ nump' = nump /\ pc # "reset"
      \/ nump' = [p \in Names |-> 0] /\ pc = "reset" /\ pc' = "parse"
  BY DEF Reset, Help, Return
<1>3. ParamsTypeOK'
  <2>1. nump' \in [Names -> Nat] /\ \A p \in Names : nump'[p] \in 0 .. Max[p]
    BY <1>2, ParamsAssumption DEF ParamsInv, ParamsTypeOK
  <2> QED
    BY <1>1, <2>1 DEF ParamsInv, ParamsTypeOK
<1>4. ArgInv' /\ ErrInv'
  BY <1>1 DEF ParamsInv, ArgInv, ErrInv
<1>5. \A p, k : SetSoFar(p, k)' <=> SetSoFar(p, k)
  BY <1>1 DEF SetSoFar, Converting
<1>6. HeapInv'
  BY <1>1, <1>5 DEF ParamsInv, HeapInv
<1>7. LeakInv'
  BY <1>1, <1>5 DEF ParamsInv, LeakInv, Distinct
<1>8. ArrayInv'
  <2>1. CASE pc # "reset"
    <3>1. \A p : ~Converting(p) /\ ~Converting(p)'
      BY <1>1 DEF Converting
    <3>2. \A p, a : Holds(p, a)' <=> Holds(p, a)
      BY <1>1, <1>2, <2>1 DEF Holds
    <3> QED
      BY <1>1, <1>2, <2>1, <3>1, <3>2 DEF ParamsInv, ArrayInv
  <2>2. CASE pc = "reset"
    <3>1. i = 0
      BY <2>2 DEF ParamsInv, ArgInv
    <3> QED
      BY <1>1, <1>2, <2>2, <3>1 DEF ArrayInv
  <2> QED
    BY <2>1, <2>2
<1> QED
  BY <1>3, <1>4, <1>6, <1>7, <1>8 DEF ParamsInv

\* An argument that names no parameter.
LEMMA NoMatchStep ==
    ASSUME ParamsInv, NoMatch
    PROVE  ParamsInv'
<1>1. /\ UNCHANGED <<argv, rest, index, var, num, nump, heap, next, twice>>
      /\ i' = i + 1 /\ err' = "EINVAL" /\ pc = "parse" /\ pc' = "parse" /\ i < Len(argv)
      /\ Arg.name = "unknown"
  BY DEF NoMatch, NextArg
<1>2. ParamsTypeOK'
  BY <1>1 DEF ParamsInv, ParamsTypeOK, ParseErrors
<1>3. ~Good(Arg)
  BY <1>1, ParamsAssumption DEF Good, Accepted, Taken
<1>4. ArgInv' /\ ErrInv' /\ ArrayInv'
  BY <1>1, <1>3, ArgFacts DEF ParamsInv, ArgInv, ErrInv, ArrayInv
<1>5. \A p, k : SetSoFar(p, k)' <=> SetSoFar(p, k)
  BY <1>1 DEF SetSoFar, Converting
<1>6. HeapInv'
  BY <1>1, <1>5 DEF ParamsInv, HeapInv
<1>7. LeakInv'
  BY <1>1, ArgFacts DEF ParamsInv, LeakInv
<1> QED
  BY <1>2, <1>4, <1>6, <1>7 DEF ParamsInv

LEMMA MatchStep ==
    ASSUME ParamsInv, Match
    PROVE  ParamsInv'
<1>1. /\ UNCHANGED <<argv, i, var, num, nump, err, heap, next, twice>>
      /\ pc = "parse" /\ pc' = "convert" /\ i < Len(argv)
      /\ Arg.name \in Names /\ rest' = Cur.vals /\ index' = 0
  BY DEF Match, Cur, Taken
<1>2. /\ Arg' = Arg /\ Cur' = Cur /\ Cur.vals \in Seq(Tokens) /\ Len(Cur.vals) \in Nat \ {0}
      /\ Max[Arg.name] \in Nat \ {0}
  BY <1>1, ArgFacts, ParamsAssumption DEF Arg, Cur, ParamsInv
<1>3. ParamsTypeOK'
  BY <1>1, <1>2 DEF ParamsInv, ParamsTypeOK
<1>4. rest' = SubSeq(Cur.vals, 1, Len(Cur.vals))
  BY <1>1, <1>2, SubSeqFull
<1>5. ArgInv'
  BY <1>1, <1>2, <1>4 DEF ArgInv
<1>6. ErrInv'
  BY <1>1 DEF ParamsInv, ErrInv
<1>7. ArrayInv'
  <2>1. \A p, a : Holds(p, a)' <=> Holds(p, a)
    BY <1>1 DEF Holds
  <2>2. \A p : ~Converting(p)
    BY <1>1 DEF Converting
  <2> QED
    BY <1>1, <1>2, <2>1, <2>2 DEF ParamsInv, ArrayInv
<1>8. \A p, k : k \in Nat => (SetSoFar(p, k)' <=> SetSoFar(p, k))
  BY <1>1 DEF SetSoFar, Converting
<1>9. \A p \in Names : \A k \in 0 .. Max[p] - 1 : k \in Nat
  BY ParamsAssumption
<1>10. HeapInv'
  BY <1>1, <1>8, <1>9 DEF ParamsInv, HeapInv, StringParams
<1>11. LeakInv'
  BY <1>1, <1>8, <1>9 DEF ParamsInv, LeakInv, Distinct, StringParams
<1> QED
  BY <1>3, <1>5, <1>6, <1>7, <1>10, <1>11 DEF ParamsInv

\* An argument that is given up half way.
LEMMA FailedStep ==
    ASSUME ParamsInv, TooMany \/ Rejected
    PROVE  ParamsInv'
<1>1. /\ UNCHANGED <<argv, rest, index, var, num, nump, heap, next, twice>>
      /\ i' = i + 1 /\ pc = "convert" /\ pc' = "parse"
  BY DEF TooMany, Rejected, NextArg
<1>2. ParamsTypeOK /\ ArgInv /\ i < Len(argv) /\ Arg.name \in Names
  BY <1>1 DEF ParamsInv, ArgInv
<1>3. /\ Arg \in Args /\ i + 1 \in DOMAIN argv /\ Arg = argv[i + 1]
      /\ i \in Nat /\ Len(argv) \in Nat /\ DOMAIN argv = 1 .. Len(argv)
  BY <1>2, ArgFacts
<1>4. err' \in ParseErrors \ {"0"}
  BY <1>2, ErrorType DEF TooMany, Rejected, ParseErrors
<1>5. ParamsTypeOK'
  BY <1>1, <1>2, <1>3, <1>4 DEF ParamsTypeOK
<1>6. err' # "ENOMEM" => ~Good(Arg)
  <2>1. index + 1 <= Len(ValuesOf(Cur)) /\ index \in Nat
    BY <1>1, <1>2, RestFacts
  <2>2. Max[Arg.name] \in Nat /\ Len(ValuesOf(Cur)) \in Nat /\ DOMAIN ValuesOf(Cur) = 1 .. Len(ValuesOf(Cur))
    BY <1>2, <1>3, ValuesFacts, ParamsAssumption
  <2>3. CASE TooMany
    <3>1. ~(Len(ValuesOf(Cur)) <= Max[Arg.name])
      BY <2>1, <2>2, <2>3 DEF TooMany
    <3> QED
      BY <1>3, <3>1, TakenFacts DEF Good, Accepted, Cur
  <2>4. CASE Rejected /\ err' # "ENOMEM"
    <3>1. Error(Arg.name, rest) # "0"
      BY <2>4 DEF Rejected
    <3>2. rest = SubSeq(Cur.vals, index + 1, Len(Cur.vals))
      BY <1>1, <1>2 DEF ArgInv
    <3>3. index + 1 \in DOMAIN ValuesOf(Cur)
      BY <2>1, <2>2
    <3> QED
      BY <1>3, <3>1, <3>2, <3>3, TakenFacts, Zenon DEF Good, Accepted, Cur
  <2> QED
    BY <2>3, <2>4
<1>7. ArgInv' /\ ArrayInv'
  BY <1>1, <1>4 DEF ArgInv, ArrayInv
<1>8. ErrInv'
  BY <1>1, <1>3, <1>4, <1>6 DEF ErrInv
<1>9. \A p, k : SetSoFar(p, k)' => SetSoFar(p, k)
  BY <1>1 DEF SetSoFar, Converting
<1>10. HeapInv'
  BY <1>1, <1>9 DEF ParamsInv, HeapInv
<1>11. LeakInv'
  <2>1. \A k \in 1 .. i : k \in 1 .. i'
    BY <1>1, <1>3
  <2> QED
    BY <1>1, <1>4, <2>1 DEF ParamsInv, LeakInv
<1> QED
  BY <1>5, <1>7, <1>8, <1>10, <1>11 DEF ParamsInv

\* What a value that is converted changes, whether or not it is the last one of
\* its argument.
LEMMA ConvertedFacts ==
    ASSUME ParamsInv, Converted, NEW p, p = Arg.name
    PROVE  /\ pc = "convert" /\ p \in Names /\ index \in 0 .. Max[p] - 1
           /\ i < Len(argv) /\ i \in Nat /\ Len(argv) \in Nat
           /\ DOMAIN argv = 1 .. Len(argv) /\ Arg \in Args /\ Arg = argv[i + 1]
           /\ DOMAIN var' = Names /\ \A q \in Names : q # p => var'[q] = var[q]
           /\ \A q \in Names : var'[q] \in [0 .. Max[q] - 1 -> Values]
           /\ \A q \in Names : \A k \in 0 .. Max[q] - 1 :
                var'[q][k] = IF q = p /\ k = index THEN Stored(p, rest) ELSE var[q][k]
           /\ UNCHANGED <<argv, err, twice>> /\ index' = index + 1
<1>1. /\ pc = "convert" /\ index < Max[p] /\ var' = [var EXCEPT ![p][index] = Stored(p, rest)]
      /\ UNCHANGED <<argv, err, twice>> /\ index' = index + 1
  BY DEF Converted
<1>2. ParamsTypeOK /\ ArgInv /\ i < Len(argv) /\ p \in Names
  BY <1>1 DEF ParamsInv, ArgInv
<1>3. /\ i \in Nat /\ Len(argv) \in Nat /\ DOMAIN argv = 1 .. Len(argv) /\ Arg \in Args
      /\ Arg = argv[i + 1]
  BY <1>2, ArgFacts
<1>4. Max[p] \in Nat /\ index \in Nat
  BY <1>2, ParamsAssumption DEF ParamsTypeOK
<1>5. index \in 0 .. Max[p] - 1
  BY <1>1, <1>4
<1>6. Stored(p, rest) \in Values
  BY <1>2, StoredFacts DEF ParamsTypeOK
<1>7. DOMAIN var = Names /\ \A q \in Names : var[q] \in [0 .. Max[q] - 1 -> Values]
  BY <1>2 DEF ParamsTypeOK
<1>8. PICK x \in Values : x = Stored(p, rest)
  BY <1>6
<1>9. var' = [var EXCEPT ![p] = [var[p] EXCEPT ![index] = x]]
  BY <1>1, <1>8
<1>10. /\ DOMAIN var' = Names /\ var'[p] = [var[p] EXCEPT ![index] = x]
       /\ \A q \in Names : q # p => var'[q] = var[q]
  BY <1>2, <1>7, <1>9
<1>11. /\ var'[p] \in [0 .. Max[p] - 1 -> Values]
       /\ \A k \in 0 .. Max[p] - 1 : var'[p][k] = IF k = index THEN x ELSE var[p][k]
  <2>1. \A D : \A f \in [D -> Values] : \A m \in D :
          /\ [f EXCEPT ![m] = x] \in [D -> Values]
          /\ \A k \in D : [f EXCEPT ![m] = x][k] = IF k = m THEN x ELSE f[k]
    OBVIOUS
  <2>2. var[p] \in [0 .. Max[p] - 1 -> Values]
    BY <1>2, <1>7, Zenon
  <2>3. /\ [var[p] EXCEPT ![index] = x] \in [0 .. Max[p] - 1 -> Values]
        /\ \A k \in 0 .. Max[p] - 1 :
             [var[p] EXCEPT ![index] = x][k] = IF k = index THEN x ELSE var[p][k]
    BY <1>5, <2>1, <2>2, Zenon
  <2> QED
    BY <1>10, <2>3, Zenon
<1>12. \A q \in Names : var'[q] \in [0 .. Max[q] - 1 -> Values]
  BY <1>7, <1>10, <1>11
<1>13. \A q \in Names : \A k \in 0 .. Max[q] - 1 :
         var'[q][k] = IF q = p /\ k = index THEN x ELSE var[q][k]
  BY <1>10, <1>11
<1> QED
  BY <1>1, <1>2, <1>3, <1>5, <1>8, <1>10, <1>12, <1>13

\* The elements that are set, and the strings, after a conversion.
LEMMA ConvertedHeap ==
    ASSUME ParamsInv, Converted, NEW p, p = Arg.name,
           \A q \in Names : \A k \in 0 .. Max[q] - 1 :
               SetSoFar(q, k)' => SetSoFar(q, k) \/ (q = p /\ k = index)
    PROVE  HeapInv' /\ next' \in Strings /\ heap' \subseteq Strings
<1>1. /\ p \in Names /\ index \in 0 .. Max[p] - 1
      /\ \A q \in Names : \A k \in 0 .. Max[q] - 1 :
           var'[q][k] = IF q = p /\ k = index THEN Stored(p, rest) ELSE var[q][k]
      /\ twice' = twice /\ pc = "convert" /\ pc' # "freed"
  BY ConvertedFacts DEF Converted, NextArg
<1>2. next \in Strings /\ heap \subseteq Strings /\ HeapInv
  BY DEF ParamsInv, ParamsTypeOK
<1>3. CASE TypeOf[p] # "charp"
  <2>1. UNCHANGED <<heap, next>>
    BY <1>3 DEF Converted
  <2>2. \A q \in StringParams : q \in Names /\ q # p
    BY <1>3 DEF StringParams
  <2>3. \A q \in StringParams : \A k \in 0 .. Max[q] - 1 :
          var'[q][k] = var[q][k] /\ (SetSoFar(q, k)' => SetSoFar(q, k))
    BY <1>1, <2>2
  <2> QED
    BY <1>1, <1>2, <2>1, <2>3 DEF HeapInv
<1>4. CASE TypeOf[p] = "charp"
  <2>1. heap' = heap \cup {next} /\ next' = next + 1
    BY <1>4 DEF Converted
  <2>2. Stored(p, rest) = next
    BY <1>1, <1>2, <1>4, StoredFacts
  <2>3. next \in Nat /\ next # 0 /\ next \notin heap /\ next # Unset
    BY <1>2 DEF Strings, HeapInv, Unset
  <2>4. next' \in Strings /\ heap' \subseteq Strings
    BY <1>2, <2>1 DEF Strings
  <2>5. \A s \in heap' : s < next'
    BY <1>2, <2>1, <2>3 DEF HeapInv, Strings
  <2>6. \A q \in StringParams : q \in Names
    BY DEF StringParams
  <2>7. \A q \in StringParams : \A k \in 0 .. Max[q] - 1 :
          /\ var'[q][k] = IF q = p /\ k = index THEN next ELSE var[q][k]
          /\ var[q][k] \in heap \cup {Unset}
    BY <1>1, <1>2, <2>2, <2>6 DEF HeapInv
  <2>8. \A q \in StringParams : \A k \in 0 .. Max[q] - 1 : var'[q][k] \in heap' \cup {Unset}
    BY <2>1, <2>7
  <2>9. \A q \in StringParams : \A k \in 0 .. Max[q] - 1 :
          SetSoFar(q, k)' => var'[q][k] # Unset
    BY <1>2, <2>3, <2>6, <2>7 DEF HeapInv
  <2>10. ASSUME NEW q \in StringParams, NEW r \in StringParams,
                NEW k \in 0 .. Max[q] - 1, NEW l \in 0 .. Max[r] - 1,
                var'[q][k] = var'[r][l], var'[q][k] # Unset
         PROVE  q = r /\ k = l
    <3>1. /\ var'[q][k] = IF q = p /\ k = index THEN next ELSE var[q][k]
          /\ var'[r][l] = IF r = p /\ l = index THEN next ELSE var[r][l]
          /\ var[q][k] # next /\ var[r][l] # next
      BY <2>3, <2>7
    <3>2. var[q][k] = var[r][l] /\ var[q][k] # Unset => q = r /\ k = l
      BY <1>2 DEF HeapInv
    <3> QED
      BY <2>10, <3>1, <3>2
  <2> QED
    BY <1>1, <1>2, <2>4, <2>5, <2>8, <2>9, <2>10 DEF HeapInv
<1> QED
  BY <1>3, <1>4

\* No string is lost by a conversion while every parameter is given once.
LEMMA ConvertedLeak ==
    ASSUME ParamsInv, Converted, NEW p, p = Arg.name,
           \A q \in Names : (\A k \in 1 .. i' : argv[k].name # q) => num'[q] = 0,
           \A q \in Names : \A k \in 0 .. Max[q] - 1 : num[p] = 0 =>
               ((q = p /\ k = index) \/ SetSoFar(q, k) => SetSoFar(q, k)')
    PROVE  LeakInv'
<1>1. /\ p \in Names /\ index \in 0 .. Max[p] - 1 /\ pc = "convert" /\ pc' # "freed"
      /\ \A q \in Names : \A k \in 0 .. Max[q] - 1 :
           var'[q][k] = IF q = p /\ k = index THEN Stored(p, rest) ELSE var[q][k]
      /\ i < Len(argv) /\ i \in Nat /\ Len(argv) \in Nat
      /\ DOMAIN argv = 1 .. Len(argv) /\ Arg = argv[i + 1] /\ UNCHANGED <<argv, err>>
  BY ConvertedFacts DEF Converted, NextArg
<1>2. SUFFICES ASSUME err = "0", Distinct, NEW s \in heap'
               PROVE  \E q \in StringParams : \E k \in 0 .. Max[q] - 1 : var'[q][k] = s /\ SetSoFar(q, k)'
  BY <1>1, Zenon DEF LeakInv, Distinct
<1>3. num[p] = 0
  <2>1. \A k \in 1 .. i : argv[k].name # p
    BY <1>1, <1>2 DEF Distinct
  <2> QED
    BY <1>1, <2>1 DEF ParamsInv, LeakInv
<1>4. CASE s \notin heap
  <2>1. TypeOf[p] = "charp" /\ s = next
    BY <1>2, <1>4 DEF Converted
  <2>2. Stored(p, rest) = next /\ p \in StringParams
    BY <1>1, <2>1, StoredFacts DEF StringParams, ParamsInv, ParamsTypeOK
  <2> PICK k \in 0 .. Max[p] - 1 : k = index
    BY <1>1
  <2>3. var'[p][k] = s
    BY <1>1, <2>1, <2>2, Zenon
  <2>4. SetSoFar(p, k)'
    BY <1>1, <1>3, Zenon
  <2> QED
    BY <1>1, <2>2, <2>3, <2>4, Zenon
<1>5. CASE s \in heap
  <2>1. PICK q \in StringParams : \E k \in 0 .. Max[q] - 1 : var[q][k] = s /\ SetSoFar(q, k)
    BY <1>1, <1>2, <1>5 DEF ParamsInv, LeakInv
  <2>2. PICK k \in 0 .. Max[q] - 1 : var[q][k] = s /\ SetSoFar(q, k)
    BY <2>1
  <2>3. q \in Names
    BY DEF StringParams
  <2>4. ~(q = p /\ k = index)
    <3>1. index \in Nat /\ num[p] = 0
      BY <1>3 DEF ParamsInv, ParamsTypeOK
    <3> QED
      BY <2>2, <3>1 DEF SetSoFar
  <2>5. var'[q][k] = s /\ SetSoFar(q, k)'
    BY <1>1, <1>3, <2>2, <2>3, <2>4
  <2> QED
    BY <2>5
<1> QED
  BY <1>4, <1>5

\* The values of the argument that were converted, with the present one.
LEMMA ConvertedValues ==
    ASSUME ParamsInv, Converted, NEW p, p = Arg.name
    PROVE  /\ \A k \in 1 .. index + 1 : Error(p, SubSeq(Cur.vals, k, Len(Cur.vals))) = "0"
           /\ TypeOf[p] # "charp" => \A k \in 1 .. index + 1 :
                var'[p][k - 1] = Number(p, SubSeq(Cur.vals, k, Len(Cur.vals)))
<1>1. /\ pc = "convert" /\ p \in Names /\ index \in 0 .. Max[p] - 1 /\ Max[p] \in Nat
      /\ \A k \in 0 .. Max[p] - 1 : var'[p][k] = IF k = index THEN Stored(p, rest) ELSE var[p][k]
  BY ConvertedFacts, ParamsAssumption
<1>2. index \in Nat /\ \A k \in 1 .. index + 1 : k \in 1 .. index \/ k = index + 1
  BY <1>1
<1>3. /\ rest = SubSeq(Cur.vals, index + 1, Len(Cur.vals)) /\ Error(p, rest) = "0"
      /\ \A k \in 1 .. index : Error(p, SubSeq(Cur.vals, k, Len(Cur.vals))) = "0"
  BY <1>1 DEF ParamsInv, ArgInv, Converted
<1>4. \A k \in 1 .. index + 1 : Error(p, SubSeq(Cur.vals, k, Len(Cur.vals))) = "0"
  BY <1>2, <1>3
<1>5. ASSUME TypeOf[p] # "charp", NEW k \in 1 .. index + 1
      PROVE  var'[p][k - 1] = Number(p, SubSeq(Cur.vals, k, Len(Cur.vals)))
  <2>1. k - 1 \in 0 .. Max[p] - 1 /\ k - 1 \in Nat /\ (k - 1 = index <=> k = index + 1)
    BY <1>1
  <2>2. CASE k = index + 1
    <3>1. Stored(p, rest) = Number(p, rest)
      BY <1>1, <1>5, StoredFacts DEF ParamsInv, ParamsTypeOK
    <3>2. rest = SubSeq(Cur.vals, k, Len(Cur.vals))
      BY <1>3, <2>2
    <3>3. var'[p][k - 1] = Stored(p, rest)
      BY <1>1, <2>1, <2>2
    <3> QED
      BY <2>2, <3>1, <3>2, <3>3
  <2>3. CASE k \in 1 .. index
    <3>1. var[p][k - 1] = Number(p, SubSeq(Cur.vals, k, Len(Cur.vals)))
      BY <1>1, <1>5, <2>3 DEF ParamsInv, ArrayInv
    <3>2. k # index + 1
      BY <1>2, <2>3
    <3> QED
      BY <1>1, <2>1, <3>1, <3>2
  <2> QED
    BY <1>2, <2>2, <2>3
<1> QED
  BY <1>4, <1>5

\* A value that another one follows.
LEMMA ConvertedMore ==
    ASSUME ParamsInv, Converted, More(Arg.name, rest)
    PROVE  ParamsInv'
<1> PICK p : p = Arg.name
  OBVIOUS
<1>1. /\ pc = "convert" /\ p \in Names /\ index \in 0 .. Max[p] - 1
      /\ i < Len(argv) /\ i \in Nat /\ Len(argv) \in Nat
      /\ DOMAIN var' = Names /\ \A q \in Names : q # p => var'[q] = var[q]
      /\ \A q \in Names : var'[q] \in [0 .. Max[q] - 1 -> Values]
      /\ UNCHANGED <<argv, err, twice>> /\ index' = index + 1
  BY ConvertedFacts
<1>2. UNCHANGED <<i, pc, num, nump>> /\ rest' = Tail(rest)
  BY DEF Converted
<1>3. Arg' = Arg /\ Cur' = Cur
  BY <1>1, <1>2 DEF Arg, Cur
<1>4. /\ IsArray[p] /\ Tail(rest) # <<"">> /\ index + 1 < Len(Cur.vals)
      /\ Tail(rest) = SubSeq(Cur.vals, index + 2, Len(Cur.vals)) /\ index \in Nat
      /\ Max[p] \in Nat /\ Cur.vals \in Seq(Tokens) /\ Len(Cur.vals) \in Nat
  BY <1>1, RestFacts, ArgFacts, ParamsAssumption DEF ParamsInv
<1>19. index \in Nat /\ Max[p] \in Nat /\ Len(Cur.vals) \in Nat /\ index + 1 < Len(Cur.vals)
  BY <1>4
<1>5. \A q, k : SetSoFar(q, k)' <=> k < num[q] \/ (q = p /\ k < index + 1)
  BY <1>1, <1>2, <1>3 DEF SetSoFar, Converting
<1>6. \A q, k : SetSoFar(q, k) <=> k < num[q] \/ (q = p /\ k < index)
  BY <1>1 DEF SetSoFar, Converting
<1>7. \A q \in Names : \A k \in 0 .. Max[q] - 1 : k \in Nat
  BY ParamsAssumption
<1>8. \A k \in Nat : k < index + 1 <=> k < index \/ k = index
  BY <1>19
<1>9. \A q \in Names : \A k \in 0 .. Max[q] - 1 :
        SetSoFar(q, k)' <=> SetSoFar(q, k) \/ (q = p /\ k = index)
  BY <1>5, <1>6, <1>7, <1>8, Zenon
<1>10. HeapInv' /\ next' \in Strings /\ heap' \subseteq Strings
  <2>1. \A q \in Names : \A k \in 0 .. Max[q] - 1 :
          SetSoFar(q, k)' => SetSoFar(q, k) \/ (q = p /\ k = index)
    BY <1>9, Zenon
  <2> QED
    BY <2>1, ConvertedHeap, Zenon
<1>11. LeakInv'
  <2>1. \A q \in Names : (\A k \in 1 .. i' : argv[k].name # q) => num'[q] = 0
    BY <1>2 DEF ParamsInv, LeakInv
  <2> QED
    BY <1>9, <2>1, ConvertedLeak, Zenon
<1>12. ParamsTypeOK'
  <2>1. rest' \in Seq(Tokens)
    <3>1. PICK m \in Nat \ {0} : m = index + 2 /\ m <= Len(Cur.vals) + 1
      BY <1>19
    <3>2. rest' = SubSeq(Cur.vals, m, Len(Cur.vals))
      BY <1>2, <1>4, <3>1, Zenon
    <3>3. Len(Cur.vals) <= Len(Cur.vals)
      BY <1>19
    <3> QED
      BY <1>4, <3>1, <3>2, <3>3, SubSeqFacts, Zenon
  <2>2. index' \in Nat
    BY <1>1, <1>19
  <2> QED
    BY <1>1, <1>2, <1>10, <2>1, <2>2 DEF ParamsInv, ParamsTypeOK
<1>13. ArgInv'
  <2>1. index' <= Max[p] /\ index' < Len(Cur.vals) /\ index' + 1 = index + 2
    BY <1>1, <1>19
  <2>2. \A k \in 1 .. index' : Error(p, SubSeq(Cur.vals, k, Len(Cur.vals))) = "0"
    BY <1>1, ConvertedValues
  <2> QED
    BY <1>1, <1>2, <1>3, <1>4, <2>1, <2>2 DEF ArgInv
<1>14. ErrInv'
  BY <1>1, <1>2 DEF ParamsInv, ErrInv
<1>15. ArrayInv'
  <2>1. \A q \in Names : \A a : q # p => (Holds(q, a)' <=> Holds(q, a))
    BY <1>1, <1>2 DEF Holds
  <2>2. \A q : (Converting(q)' <=> q = p) /\ (Converting(q) <=> q = p)
    BY <1>1, <1>2, <1>3 DEF Converting
  <2>3. TypeOf[p] # "charp" => \A k \in 1 .. index' :
          var'[p][k - 1] = Number(p, SubSeq(Cur.vals, k, Len(Cur.vals)))
    BY <1>1, ConvertedValues
  <2> QED
    BY <1>1, <1>2, <1>3, <2>1, <2>2, <2>3 DEF ParamsInv, ArrayInv
<1> QED
  BY <1>10, <1>11, <1>12, <1>13, <1>14, <1>15 DEF ParamsInv

\* The last value of an argument.
LEMMA ConvertedLast ==
    ASSUME ParamsInv, Converted, ~More(Arg.name, rest)
    PROVE  ParamsInv'
<1> PICK p : p = Arg.name
  OBVIOUS
<1>1. /\ pc = "convert" /\ p \in Names /\ index \in 0 .. Max[p] - 1
      /\ i < Len(argv) /\ i \in Nat /\ Len(argv) \in Nat
      /\ DOMAIN argv = 1 .. Len(argv) /\ Arg \in Args /\ Arg = argv[i + 1]
      /\ DOMAIN var' = Names /\ \A q \in Names : q # p => var'[q] = var[q]
      /\ \A q \in Names : var'[q] \in [0 .. Max[q] - 1 -> Values]
      /\ UNCHANGED <<argv, err, twice>> /\ index' = index + 1
  BY ConvertedFacts
<1>2. /\ i' = i + 1 /\ pc' = "parse" /\ rest' = <<>>
      /\ num' = [num EXCEPT ![p] = index + 1]
      /\ nump' = [nump EXCEPT ![p] = IF IsArray[p] THEN index + 1 ELSE 0]
  BY <1>1 DEF Converted, Counted, NextArg
<1>3. num \in [Names -> Nat] /\ nump \in [Names -> Nat] /\ index \in Nat /\ Max[p] \in Nat /\ IsArray[p] \in BOOLEAN
  BY <1>1, ParamsAssumption DEF ParamsInv, ParamsTypeOK
<1>4. /\ num' \in [Names -> Nat] /\ nump' \in [Names -> Nat]
      /\ \A q \in Names : num'[q] = IF q = p THEN index + 1 ELSE num[q]
      /\ \A q \in Names : q # p => nump'[q] = nump[q]
      /\ nump'[p] = IF IsArray[p] THEN index + 1 ELSE 0
  BY <1>1, <1>2, <1>3
<1>5. \A q \in Names : \A k : SetSoFar(q, k)' <=> k < num'[q]
  BY <1>2 DEF SetSoFar, Converting
<1>6. \A q, k : SetSoFar(q, k) <=> k < num[q] \/ (q = p /\ k < index)
  BY <1>1 DEF SetSoFar, Converting
<1>7. \A q \in Names : \A k \in 0 .. Max[q] - 1 : k \in Nat
  BY ParamsAssumption
<1>8. \A k \in Nat : (k < index + 1 <=> k < index \/ k = index) /\ ~(k < 0)
  BY <1>3
<1>9. \A q \in Names : \A k \in 0 .. Max[q] - 1 :
        SetSoFar(q, k)' => SetSoFar(q, k) \/ (q = p /\ k = index)
  BY <1>4, <1>5, <1>6, <1>7, <1>8, Zenon
<1>10. HeapInv' /\ next' \in Strings /\ heap' \subseteq Strings
  BY <1>9, ConvertedHeap, Zenon
<1>11. LeakInv'
  <2>1. \A q \in Names : (\A k \in 1 .. i' : argv[k].name # q) => num'[q] = 0
    <3>1. i + 1 \in 1 .. i' /\ \A k \in 1 .. i : k \in 1 .. i'
      BY <1>1, <1>2
    <3> QED
      BY <1>1, <1>4, <3>1, Zenon DEF ParamsInv, LeakInv
  <2>2. \A q \in Names : \A k \in 0 .. Max[q] - 1 : num[p] = 0 =>
          ((q = p /\ k = index) \/ SetSoFar(q, k) => SetSoFar(q, k)')
    BY <1>4, <1>5, <1>6, <1>7, <1>8, Zenon
  <2> QED
    BY <2>1, <2>2, ConvertedLeak, ZenonT(60)
<1>12. ParamsTypeOK'
  <2>1. rest' \in Seq(Tokens) /\ i' \in 0 .. Len(argv') /\ index' \in Nat
    BY <1>1, <1>2, <1>3, EmptySeq
  <2>2. ASSUME NEW q \in Names PROVE num'[q] \in 0 .. Max[q] /\ nump'[q] \in 0 .. Max[q]
    <3>1. num[q] \in 0 .. Max[q] /\ nump[q] \in 0 .. Max[q]
      BY DEF ParamsInv, ParamsTypeOK
    <3>2. index + 1 \in 0 .. Max[p] /\ 0 \in 0 .. Max[p]
      BY <1>1, <1>3
    <3> QED
      BY <1>3, <1>4, <3>1, <3>2
  <2> QED
    BY <1>1, <1>2, <1>4, <1>10, <2>1, <2>2 DEF ParamsInv, ParamsTypeOK
<1>13. ArgInv'
  BY <1>1, <1>2 DEF ArgInv
<1>16. Len(ValuesOf(Cur)) = index + 1 /\ DOMAIN ValuesOf(Cur) = 1 .. index + 1 /\ Cur.name = p
  <2>1. Len(ValuesOf(Cur)) = index + 1
    BY <1>1, RestFacts DEF ParamsInv
  <2>2. Cur.name = p /\ Cur.vals \in Seq(Tokens) /\ Cur.vals # <<>>
    BY <1>1, ArgFacts DEF ParamsInv
  <2> QED
    BY <1>1, <2>1, <2>2, ValuesFacts
<1>17. Good(Arg)
  <2>1. Len(ValuesOf(Cur)) <= Max[p]
    BY <1>1, <1>3, <1>16
  <2>2. \A k \in 1 .. index + 1 : Error(p, SubSeq(Cur.vals, k, Len(Cur.vals))) = "0"
    BY ConvertedValues
  <2> QED
    BY <1>1, <1>16, <2>1, <2>2, Zenon DEF Good, Accepted, Cur
<1>18. \A k \in 1 .. i' : k \in 1 .. i \/ k = i + 1
  BY <1>1, <1>2
<1>14. ErrInv'
  BY <1>1, <1>2, <1>17, <1>18, Zenon DEF ParamsInv, ErrInv
<1>15. ArrayInv'
  <2>1. \A q \in Names : \A a : q # p => (Holds(q, a)' <=> Holds(q, a))
    BY <1>1, <1>4 DEF Holds
  <2>2. \A q : ~Converting(q)' /\ (Converting(q) <=> q = p)
    BY <1>1, <1>2 DEF Converting
  <2> PICK a : a = Cur
    OBVIOUS
  <2>3. Holds(p, a)'
    <3>1. TypeOf[p] # "charp" => \A k \in 1 .. index + 1 :
            var'[p][k - 1] = Number(p, SubSeq(Cur.vals, k, Len(Cur.vals)))
      BY ConvertedValues
    <3> QED
      BY <1>4, <1>16, <3>1 DEF Holds
  <2>4. ASSUME err = "0", NEW q \in Names
        PROVE  /\ (\A k \in 1 .. i' : argv[k].name # q) => nump'[q] = 0
               /\ \A k \in 1 .. i' :
                    argv[k].name = q /\ (\A m \in k + 1 .. i' : argv[m].name # q)
                    => Holds(q, Taken(argv[k]))'
    <3>1. i + 1 \in 1 .. i' /\ (\A k \in 1 .. i : k \in 1 .. i' /\ i + 1 \in k + 1 .. i')
      BY <1>1, <1>2
    <3>2. \A k \in 1 .. i : \A m \in k + 1 .. i : m \in k + 1 .. i'
      BY <1>1, <1>2
    <3>3. /\ (\A k \in 1 .. i : argv[k].name # q) => nump[q] = 0
          /\ \A k \in 1 .. i :
               argv[k].name = q /\ q # p /\ (\A m \in k + 1 .. i : argv[m].name # q)
               => Holds(q, Taken(argv[k]))
      BY <1>1, <2>2, <2>4 DEF ParamsInv, ArrayInv
    <3>4. (\A k \in 1 .. i' : argv[k].name # q) => nump'[q] = 0
      BY <1>1, <1>4, <3>1, <3>3, Zenon
    <3>5. ASSUME NEW k \in 1 .. i', argv[k].name = q, \A m \in k + 1 .. i' : argv[m].name # q
          PROVE  Holds(q, Taken(argv[k]))'
      <4>1. CASE q = p
        <5>1. k = i + 1
          BY <1>1, <1>18, <3>1, <3>5, <4>1, Zenon
        <5>2. Taken(argv[k]) = a /\ argv' = argv
          BY <1>1, <5>1 DEF Cur
        <5> QED
          BY <2>3, <2>4, <4>1, <5>2
      <4>2. CASE q # p
        <5>1. k \in 1 .. i
          BY <1>1, <1>18, <3>5, <4>2, Zenon
        <5>2. Holds(q, Taken(argv[k]))
          BY <3>2, <3>3, <3>5, <4>2, <5>1, Zenon
        <5>3. PICK b : b = Taken(argv[k])
          OBVIOUS
        <5>4. Holds(q, b)'
          BY <2>1, <4>2, <5>2, <5>3, Zenon
        <5> QED
          BY <1>1, <5>3, <5>4
      <4> QED
        BY <4>1, <4>2
    <3> QED
      BY <3>4, <3>5
  <2> QED
    BY <1>1, <1>2, <2>2, <2>4 DEF ArrayInv
<1> QED
  BY <1>10, <1>11, <1>12, <1>13, <1>14, <1>15 DEF ParamsInv

LEMMA FreeStep ==
    ASSUME ParamsInv, Free
    PROVE  ParamsInv'
<1>1. /\ UNCHANGED <<argv, i, rest, index, var, num, nump, err, next>>
      /\ pc \in {"returned", "help"} /\ pc' = "freed"
      /\ heap' = heap \ {Pointer(e) : e \in Freed}
      /\ twice' = ((\E e \in Freed : Pointer(e) \notin heap)
                   \/ \E e, f \in Freed : e # f /\ Pointer(e) = Pointer(f))
  BY DEF Free
<1>2. ParamsTypeOK /\ HeapInv /\ LeakInv /\ ArgInv
  BY DEF ParamsInv
<1>3. \A p \in Names : DOMAIN var[p] = 0 .. Max[p] - 1
  BY <1>2 DEF ParamsTypeOK
<1>4. \A e : e \in Freed <=>
        \E p \in StringParams : \E k \in 0 .. Max[p] - 1 : e = <<p, k>> /\ k < num[p]
  <2>1. \A p \in StringParams : Elements(p) = {k \in 0 .. Max[p] - 1 : k < num[p]}
    BY <1>3 DEF Elements, StringParams
  <2>2. Freed = UNION {{p} \X Elements(p) : p \in StringParams}
    BY DEF Freed, StringParams
  <2> QED
    BY <2>1, <2>2
<1>5. \A p, k : SetSoFar(p, k) <=> k < num[p]
  BY <1>1 DEF SetSoFar, Converting
<1>6. ASSUME NEW e \in Freed
      PROVE  Pointer(e) \in heap /\ Pointer(e) # Unset
  <2>1. PICK p \in StringParams : \E k \in 0 .. Max[p] - 1 : e = <<p, k>> /\ k < num[p]
    BY <1>4
  <2>2. PICK k \in 0 .. Max[p] - 1 : e = <<p, k>> /\ k < num[p]
    BY <2>1
  <2>3. Pointer(e) = var[p][k]
    BY <2>2 DEF Pointer
  <2>4. var[p][k] \in heap \cup {Unset} /\ var[p][k] # Unset
    BY <1>1, <1>2, <1>5, <2>2 DEF HeapInv
  <2> QED
    BY <2>3, <2>4
<1>7. ASSUME NEW e \in Freed, NEW f \in Freed, Pointer(e) = Pointer(f)
      PROVE  e = f
  <2>1. PICK p \in StringParams : \E k \in 0 .. Max[p] - 1 : e = <<p, k>> /\ k < num[p]
    BY <1>4
  <2>2. PICK k \in 0 .. Max[p] - 1 : e = <<p, k>> /\ k < num[p]
    BY <2>1
  <2>3. PICK q \in StringParams : \E l \in 0 .. Max[q] - 1 : f = <<q, l>> /\ l < num[q]
    BY <1>4
  <2>4. PICK l \in 0 .. Max[q] - 1 : f = <<q, l>> /\ l < num[q]
    BY <2>3
  <2>5. Pointer(e) = var[p][k] /\ Pointer(f) = var[q][l]
    BY <2>2, <2>4 DEF Pointer
  <2>6. var[p][k] = var[q][l] /\ var[p][k] # Unset
    BY <1>6, <1>7, <2>5
  <2>7. p = q /\ k = l
    BY <1>2, <2>6 DEF HeapInv
  <2> QED
    BY <2>2, <2>4, <2>7
<1>8. twice' = FALSE
  BY <1>1, <1>6, <1>7
<1>9. ParamsTypeOK' /\ ArgInv' /\ ErrInv' /\ ArrayInv'
  <2>1. ParamsTypeOK'
    BY <1>1, <1>2, <1>8 DEF ParamsTypeOK
  <2>2. ArgInv' /\ ErrInv'
    BY <1>1 DEF ParamsInv, ArgInv, ErrInv
  <2>3. \A p, a : Holds(p, a)' <=> Holds(p, a)
    BY <1>1 DEF Holds
  <2>4. \A p : ~Converting(p) /\ ~Converting(p)'
    BY <1>1 DEF Converting
  <2>5. ArrayInv'
    BY <1>1, <2>3, <2>4 DEF ParamsInv, ArrayInv
  <2> QED
    BY <2>1, <2>2, <2>5
<1>10. \A p, k : SetSoFar(p, k)' <=> SetSoFar(p, k)
  BY <1>1 DEF SetSoFar, Converting
<1>11. HeapInv'
  BY <1>1, <1>2, <1>8, <1>10 DEF HeapInv
<1>12. LeakInv'
  <2>1. ASSUME err = "0", Distinct PROVE heap' = {}
    <3>1. ASSUME NEW s \in heap PROVE \E e \in Freed : Pointer(e) = s
      <4>1. PICK p \in StringParams : \E k \in 0 .. Max[p] - 1 : var[p][k] = s /\ SetSoFar(p, k)
        BY <1>1, <1>2, <2>1, <3>1 DEF LeakInv
      <4>2. PICK k \in 0 .. Max[p] - 1 : var[p][k] = s /\ SetSoFar(p, k)
        BY <4>1
      <4>3. <<p, k>> \in Freed
        BY <1>4, <1>5, <4>2
      <4>4. Pointer(<<p, k>>) = s
        BY <4>2 DEF Pointer
      <4> QED
        BY <4>3, <4>4
    <3> QED
      BY <1>1, <3>1
  <2>2. Distinct' <=> Distinct
    BY <1>1 DEF Distinct
  <2> QED
    BY <1>1, <1>2, <2>1, <2>2 DEF LeakInv
<1> QED
  BY <1>9, <1>11, <1>12 DEF ParamsInv

LEMMA ParseStep ==
    ASSUME ParamsInv, Parse
    PROVE  ParamsInv'
BY QuietStep, NoMatchStep, MatchStep, FailedStep, ConvertedMore, ConvertedLast, Zenon DEF Parse

LEMMA ParamsUnchanged ==
    ASSUME ParamsInv, UNCHANGED params
    PROVE  ParamsInv'
<1>1. UNCHANGED <<argv, i, rest, index, var, num, nump, err, heap, next, twice, pc>>
  BY DEF params
<1>2. \A p, k : SetSoFar(p, k)' <=> SetSoFar(p, k)
  BY <1>1 DEF SetSoFar, Converting, Arg
<1>3. Arg' = Arg /\ Cur' = Cur /\ \A p : Converting(p)' <=> Converting(p)
  BY <1>1 DEF Converting, Arg, Cur
<1>4. \A p, a : Holds(p, a)' <=> Holds(p, a)
  BY <1>1 DEF Holds
<1>5. ParamsTypeOK' /\ ArgInv' /\ ErrInv'
  BY <1>1, <1>3 DEF ParamsInv, ParamsTypeOK, ArgInv, ErrInv
<1>6. HeapInv' /\ LeakInv'
  BY <1>1, <1>2 DEF ParamsInv, HeapInv, LeakInv, Distinct
<1>7. ArrayInv'
  BY <1>1, <1>3, <1>4 DEF ParamsInv, ArrayInv
<1> QED
  BY <1>5, <1>6, <1>7 DEF ParamsInv

-----------------------------------------------------------------------------
(* The glue.                                                               *)

LEMMA GlueInvInit == GlueInit => GlueInv
BY GlueAssumption DEF GlueInit, GlueInv, GlueTypeOK, PlaceInv, DoneInv

LEMMA GlueUnchanged ==
    ASSUME GlueInv, UNCHANGED glue
    PROVE  GlueInv'
BY DEF GlueInv, GlueTypeOK, PlaceInv, DoneInv, glue

LEMMA ParseArgsStep ==
    ASSUME GlueInv, NEW ok \in BOOLEAN, ParseArgs(ok), space = "user"
    PROVE  GlueInv'
BY DEF ParseArgs, GlueInv, GlueTypeOK, PlaceInv, DoneInv

LEMMA InitStep ==
    ASSUME GlueInv, InitSucceeds \/ InitFails \/ Spawn
    PROVE  GlueInv'
<1>1. CASE InitSucceeds
  <2>1. GlueTypeOK'
    BY <1>1, GlueAssumption DEF InitSucceeds, GlueInv, GlueTypeOK
  <2>2. PlaceInv'
    BY <1>1, GlueAssumption DEF InitSucceeds, GlueInv, GlueTypeOK, PlaceInv
  <2>3. DoneInv'
    BY <1>1, GlueAssumption DEF InitSucceeds, GlueInv, GlueTypeOK, PlaceInv, DoneInv
  <2> QED
    BY <2>1, <2>2, <2>3 DEF GlueInv
<1>2. CASE InitFails
  BY <1>2, GlueAssumption DEF InitFails, GlueInv, GlueTypeOK, PlaceInv, DoneInv
<1>3. CASE Spawn
  <2>1. GlueTypeOK'
    BY <1>3, GlueAssumption DEF Spawn, GlueInv, GlueTypeOK
  <2>2. PlaceInv'
    BY <1>3, GlueAssumption DEF Spawn, GlueInv, GlueTypeOK, PlaceInv
  <2>3. DoneInv'
    BY <1>3, GlueAssumption DEF Spawn, GlueInv, GlueTypeOK, PlaceInv, DoneInv
  <2> QED
    BY <2>1, <2>2, <2>3 DEF GlueInv
<1> QED
  BY <1>1, <1>2, <1>3

LEMMA BodyStep ==
    ASSUME GlueInv, BodyLeaves \/ BodyAlone \/ MainGoesOn \/ BodyReturns
    PROVE  GlueInv'
<1>1. CASE BodyLeaves
  BY <1>1 DEF BodyLeaves, GlueInv, GlueTypeOK, PlaceInv, DoneInv
<1>2. CASE BodyAlone
  BY <1>2 DEF BodyAlone, GlueInv, GlueTypeOK, PlaceInv, DoneInv
<1>3. CASE MainGoesOn
  BY <1>3 DEF MainGoesOn, GlueInv, GlueTypeOK, PlaceInv, DoneInv
<1>4. CASE BodyReturns
  BY <1>4 DEF BodyReturns, GlueInv, GlueTypeOK, PlaceInv, DoneInv
<1> QED
  BY <1>1, <1>2, <1>3, <1>4

LEMMA TaskStep ==
    ASSUME GlueInv, NEW t \in Tasks, Start(t) \/ TaskEnds(t)
    PROVE  GlueInv'
<1>1. CASE Start(t)
  <2>1. GlueTypeOK'
    BY <1>1, GlueAssumption DEF Start, GlueInv, GlueTypeOK
  <2>2. PlaceInv'
    BY <1>1, GlueAssumption DEF Start, GlueInv, GlueTypeOK, PlaceInv
  <2>3. DoneInv'
    BY <1>1, GlueAssumption DEF Start, GlueInv, GlueTypeOK, PlaceInv, DoneInv
  <2> QED
    BY <2>1, <2>2, <2>3 DEF GlueInv
<1>2. CASE TaskEnds(t)
  BY <1>2, GlueAssumption DEF TaskEnds, GlueInv, GlueTypeOK, PlaceInv, DoneInv
<1> QED
  BY <1>1, <1>2

LEMMA StopStep ==
    ASSUME GlueInv, Signal \/ Rmmod \/ RmmodAtOnce \/ WaitDone \/ CallExit \/ Cleanup
    PROVE  GlueInv'
<1>1. CASE Signal
  BY <1>1 DEF Signal, GlueInv, GlueTypeOK, PlaceInv, DoneInv
<1>2. CASE Rmmod \/ RmmodAtOnce
  <2>1. GlueTypeOK'
    BY <1>2, GlueAssumption DEF Rmmod, RmmodAtOnce, GlueInv, GlueTypeOK
  <2>2. PlaceInv'
    BY <1>2, GlueAssumption DEF Rmmod, RmmodAtOnce, GlueInv, GlueTypeOK, PlaceInv
  <2>3. DoneInv'
    BY <1>2, GlueAssumption DEF Rmmod, RmmodAtOnce, GlueInv, GlueTypeOK, PlaceInv, DoneInv
  <2> QED
    BY <2>1, <2>2, <2>3 DEF GlueInv
<1>3. CASE WaitDone
  BY <1>3 DEF WaitDone, GlueInv, GlueTypeOK, PlaceInv, DoneInv
<1>4. CASE CallExit
  BY <1>4 DEF CallExit, GlueInv, GlueTypeOK, PlaceInv, DoneInv
<1>5. CASE Cleanup
  BY <1>5 DEF Cleanup, GlueInv, GlueTypeOK, PlaceInv, DoneInv
<1> QED
  BY <1>1, <1>2, <1>3, <1>4, <1>5

-----------------------------------------------------------------------------
(* The application.                                                        *)

LEMMA AppInvInit == Init => AppInv
<1> SUFFICES ASSUME Init PROVE AppInv
  OBVIOUS
<1>1. ParamsInv /\ GlueInv
  BY ParamsInvInit, GlueInvInit DEF Init
<1>2. LinkInv
  BY DEF Init, ParamsInit, GlueInit, LinkInv
<1> QED
  BY <1>1, <1>2 DEF AppInv

LEMMA AppInvNext == AppInv /\ [Next]_vars => AppInv'
<1> SUFFICES ASSUME AppInv, [Next]_vars PROVE AppInv'
  OBVIOUS
<1> USE DEF AppInv
<1>1. CASE Parsing
  <2>1. Parse /\ UNCHANGED glue /\ main = "parse"
    BY <1>1 DEF Parsing
  <2>2. pc' # "freed"
    BY <2>1 DEF Parse, Reset, Help, NoMatch, Match, TooMany, Rejected, Converted, Return, NextArg, ParamsInv, ArgInv
  <2>3. LinkInv'
    BY <2>1, <2>2 DEF LinkInv, GlueInv, PlaceInv, glue
  <2> QED
    BY <2>1, <2>3, ParseStep, GlueUnchanged
<1>2. CASE Parsed
  <2>1. PICK ok \in BOOLEAN : ok <=> pc = "returned" /\ err = "0"
    OBVIOUS
  <2>2. ParseArgs(ok) /\ UNCHANGED params /\ main = "parse" /\ pc \in {"returned", "help"}
    BY <1>2, <2>1 DEF Parsed, ParseArgs
  <2>3. space = "user"
    BY <2>2, GlueAssumption DEF GlueInv, GlueTypeOK, PlaceInv
  <2>4. GlueInv'
    BY <2>2, <2>3, ParseArgsStep
  <2>5. LinkInv'
    BY <2>1, <2>2, <2>3 DEF LinkInv, ParseArgs, params, GlueInv, PlaceInv
  <2> QED
    BY <2>2, <2>4, <2>5, ParamsUnchanged
<1>3. CASE CleanUp
  <2>1. Free /\ Cleanup
    BY <1>3 DEF CleanUp
  <2>2. space = "user"
    BY <2>1, GlueAssumption DEF Cleanup, GlueInv, GlueTypeOK, PlaceInv
  <2>3. LinkInv'
    BY <2>1, <2>2 DEF LinkInv, AllRead, Free, Cleanup
  <2> QED
    BY <2>1, <2>3, FreeStep, StopStep
<1>4. CASE Glued /\ UNCHANGED params
  <2>1. GlueInv'
    BY <1>4, InitStep, BodyStep, StopStep DEF Glued
  <2>2. UNCHANGED <<err, pc>> /\ (AllRead' <=> AllRead) /\ (pc = "returned" => AllRead)
    BY <1>4 DEF params, ParamsInv, ArgInv, AllRead
  <2>3. ASSUME InitSucceeds \/ InitFails \/ Spawn PROVE LinkInv'
    BY <2>2, <2>3, GlueAssumption DEF InitSucceeds, InitFails, Spawn, LinkInv, GlueInv, GlueTypeOK, PlaceInv
  <2>4. ASSUME BodyLeaves \/ MainGoesOn \/ BodyReturns PROVE LinkInv'
    BY <2>2, <2>4 DEF BodyLeaves, MainGoesOn, BodyReturns, LinkInv, GlueInv, PlaceInv
  <2>5. ASSUME WaitDone \/ CallExit PROVE LinkInv'
    BY <2>2, <2>5 DEF WaitDone, CallExit, LinkInv, GlueInv, PlaceInv
  <2>6. LinkInv'
    BY <1>4, <2>3, <2>4, <2>5 DEF Glued
  <2> QED
    BY <1>4, <2>1, <2>6, ParamsUnchanged
<1>5. CASE Running /\ UNCHANGED params
  <2>1. GlueInv'
    BY <1>5, BodyStep, TaskStep, StopStep DEF Running
  <2>2. UNCHANGED <<err, pc>> /\ (AllRead' <=> AllRead)
    BY <1>5 DEF params, AllRead
  <2>3. UNCHANGED <<space, main, made>>
    BY <1>5 DEF Running, BodyAlone, Signal, Rmmod, RmmodAtOnce, Start, TaskEnds
  <2>4. LinkInv'
    BY <2>2, <2>3 DEF LinkInv
  <2> QED
    BY <1>5, <2>1, <2>4, ParamsUnchanged
<1>6. CASE UNCHANGED vars
  <2>1. UNCHANGED params /\ UNCHANGED glue
    BY <1>6 DEF vars
  <2>2. LinkInv'
    BY <2>1 DEF LinkInv, AllRead, params, glue
  <2> QED
    BY <2>1, <2>2, ParamsUnchanged, GlueUnchanged
<1> QED
  BY <1>1, <1>2, <1>3, <1>4, <1>5, <1>6 DEF Next, Steps

LEMMA AppInvHolds == Spec => []AppInv
BY AppInvInit, AppInvNext, PTL DEF Spec

\* The last argument for a parameter.
LEMMA LastForFacts ==
    ASSUME NEW p, ParamsTypeOK
    PROVE  \/ LastFor(p) = 0 /\ \A k \in DOMAIN argv : argv[k].name # p
           \/ /\ LastFor(p) \in DOMAIN argv /\ argv[LastFor(p)].name = p
              /\ \A m \in DOMAIN argv : argv[m].name = p => m <= LastFor(p)
<1> DEFINE at == {k \in DOMAIN argv : argv[k].name = p}
           D == {Len(argv) - k : k \in at}
<1>1. Len(argv) \in Nat /\ DOMAIN argv = 1 .. Len(argv)
  BY DEF ParamsTypeOK
<1>2. LastFor(p) = IF at = {} THEN 0 ELSE CHOOSE k \in at : \A m \in at : m <= k
  BY DEF LastFor
<1>3. CASE at = {}
  BY <1>2, <1>3
<1>4. CASE at # {}
  <2>1. D \subseteq Nat /\ D # {}
    BY <1>1, <1>4
  <2>2. PICK d \in D : \A e \in D : ~(e < d)
    <3> DEFINE R == {ss \in Nat \X Nat : ss[1] < ss[2]}
    <3>1. IsWellFoundedOn(R, Nat)
      BY NatLessThanWellFounded DEF OpToRel
    <3> HIDE DEF R
    <3>2. PICK d \in D : \A e \in D : ~(<<e, d>> \in R)
      BY <2>1, <3>1, WFMin
    <3>3. ASSUME NEW e \in D PROVE ~(e < d)
      <4>1. d \in Nat /\ e \in Nat
        BY <2>1
      <4> QED
        BY <3>2, <4>1 DEF R
    <3> QED
      BY <3>3
  <2>3. PICK k \in at : d = Len(argv) - k
    OBVIOUS
  <2>4. \A m \in at : m <= k
    <3>1. \A m \in at : m \in 1 .. Len(argv) /\ Len(argv) - m \in D
      BY <1>1
    <3>2. ASSUME NEW m \in at PROVE m <= k
      <4>1. ~(Len(argv) - m < Len(argv) - k)
        BY <2>2, <2>3, <3>1
      <4>2. m \in 1 .. Len(argv) /\ k \in 1 .. Len(argv)
        BY <3>1
      <4> QED
        BY <1>1, <4>1, <4>2
    <3> QED
      BY <3>2
  <2>5. LastFor(p) \in at /\ \A m \in at : m <= LastFor(p)
    BY <1>2, <1>4, <2>4
  <2> QED
    BY <2>5
<1> QED
  BY <1>3, <1>4

\* An argument as it is given and as it is taken have as many values, and but
\* for a quote that is left open they are the same ones.
LEMMA ValuesTaken ==
    ASSUME NEW a \in Args, a.name \in Names
    PROVE  /\ Len(ValuesOf(Taken(a))) = Len(ValuesOf(a)) /\ Len(ValuesOf(a)) \in 1 .. Len(a.vals)
           /\ DOMAIN ValuesOf(a) = 1 .. Len(ValuesOf(a))
           /\ DOMAIN ValuesOf(Taken(a)) = 1 .. Len(ValuesOf(a))
           /\ \A k \in 1 .. Len(ValuesOf(a)) : ValuesOf(a)[k] = a.vals[k]
           /\ a.quote # "open" => Taken(a).vals = a.vals
<1>1. /\ Taken(a).name = a.name /\ Taken(a).vals = Unquoted(a)
      /\ Taken(a).vals \in Seq(Tokens) /\ Taken(a).vals # <<>>
      /\ a.vals \in Seq(Tokens) /\ Len(a.vals) \in Nat \ {0} /\ Len(Unquoted(a)) = Len(a.vals)
      /\ \A k \in 1 .. Len(a.vals) : k > 1 => Unquoted(a)[k] = a.vals[k]
      /\ a.vals # <<>>
  BY TakenFacts, ParamsAssumption
<1>2. PICK l \in Nat \ {0} : l = Len(a.vals)
  BY <1>1
<1>3. /\ Len(ValuesOf(a)) \in 1 .. l /\ DOMAIN ValuesOf(a) = 1 .. Len(ValuesOf(a))
      /\ Len(ValuesOf(a)) =
           IF ~IsArray[a.name] THEN 1 ELSE IF l > 1 /\ EndsEmpty(a.vals) THEN l - 1 ELSE l
      /\ \A k \in 1 .. Len(ValuesOf(a)) : ValuesOf(a)[k] = a.vals[k]
  BY <1>1, <1>2, ValuesFacts, Zenon
<1>4. /\ DOMAIN ValuesOf(Taken(a)) = 1 .. Len(ValuesOf(Taken(a)))
      /\ Len(ValuesOf(Taken(a))) =
           IF ~IsArray[a.name] THEN 1 ELSE IF l > 1 /\ EndsEmpty(Unquoted(a)) THEN l - 1 ELSE l
  <2>1. PICK b : b = Taken(a)
    OBVIOUS
  <2>2. b.name = a.name /\ b.vals = Unquoted(a) /\ b.vals \in Seq(Tokens) /\ b.vals # <<>> /\ Len(b.vals) = l
    BY <1>1, <1>2, <2>1, Zenon
  <2>3. b.name \in Names
    BY <2>2, Zenon
  <2>4. /\ DOMAIN ValuesOf(b) = 1 .. Len(ValuesOf(b))
        /\ Len(ValuesOf(b)) =
             IF ~IsArray[b.name] THEN 1
             ELSE IF Len(b.vals) > 1 /\ EndsEmpty(b.vals) THEN Len(b.vals) - 1 ELSE Len(b.vals)
    BY <2>2, <2>3, ValuesFacts, Zenon
  <2>5. IsArray[b.name] = IsArray[a.name] /\ EndsEmpty(b.vals) = EndsEmpty(Unquoted(a))
    BY <2>2, Zenon
  <2> QED
    BY <2>1, <2>2, <2>4, <2>5, Zenon
<1>5. l > 1 => (EndsEmpty(Unquoted(a)) <=> EndsEmpty(a.vals))
  <2>1. l \in 1 .. l
    BY <1>2
  <2> QED
    BY <1>1, <1>2, <2>1, Zenon DEF EndsEmpty
<1>6. Len(ValuesOf(Taken(a))) = Len(ValuesOf(a))
  BY <1>3, <1>4, <1>5
<1>7. a.quote # "open" => Taken(a).vals = a.vals
  BY <1>1 DEF Unquoted
<1> QED
  BY <1>2, <1>3, <1>4, <1>6, <1>7, Zenon

\* What the conversions make of a documented value.
LEMMA DocumentedValue ==
    ASSUME NEW a \in Args, Documented(a), NEW k \in 1 .. Len(ValuesOf(a)),
           NEW r, r = SubSeq(a.vals, k, Len(a.vals))
    PROVE  /\ ~OneForBool(a) => Error(a.name, r) = "0"
           /\ TypeOf[a.name] # "charp" => Number(a.name, r) = Meaning(a.name, ValuesOf(a)[k])
<1>1. /\ a.name \in Names /\ a.vals \in Seq(Tokens) /\ k \in 1 .. Len(a.vals)
      /\ k \in DOMAIN ValuesOf(a) /\ ValuesOf(a)[k] = a.vals[k]
      /\ TypeOf[a.name] \in {"int", "charp", "bool", "invbool"}
  <2>1. a.name \in Names /\ a.vals \in Seq(Tokens) /\ TypeOf[a.name] \in {"int", "charp", "bool", "invbool"}
    BY ParamsAssumption DEF Documented
  <2>2. /\ Len(ValuesOf(a)) \in 1 .. Len(a.vals) /\ DOMAIN ValuesOf(a) = 1 .. Len(ValuesOf(a))
        /\ ValuesOf(a)[k] = a.vals[k]
    BY <2>1, ValuesTaken
  <2>3. Len(a.vals) \in Nat
    BY <2>1, LenProperties
  <2> QED
    BY <2>1, <2>2, <2>3
<1>2. PICK v : v = ValuesOf(a)[k]
  OBVIOUS
<1>3. Head(r) = v /\ v \in Tokens
  <2>1. Head(r) = a.vals[k]
    BY <1>1, FirstElement, Zenon
  <2>2. a.vals[k] \in Tokens
    BY <1>1, ElementOfSeq, Zenon
  <2> QED
    BY <1>1, <1>2, <2>1, <2>2
<1>4. Blank(r) => v = ""
  <2>1. Blank(r) => Len(a.vals) = k /\ EndsEmpty(a.vals)
    BY <1>1, BlankFacts, Zenon
  <2> QED
    BY <1>1, <1>2, <2>1, Zenon DEF EndsEmpty
<1>5. a.vals = <<"">> => Blank(r) /\ v = ""
  <2>1. ASSUME a.vals = <<"">> PROVE Len(a.vals) = 1 /\ EndsEmpty(a.vals)
    BY <1>1, <2>1, NoValue, Zenon
  <2>2. ASSUME Len(a.vals) = 1, EndsEmpty(a.vals) PROVE Blank(r)
    <3>1. Len(a.vals) = k
      BY <1>1, <2>2
    <3> QED
      BY <1>1, <2>2, <3>1, BlankFacts, Zenon
  <2> QED
    BY <1>4, <2>1, <2>2, Zenon
<1>6. \A vs : v \in vs => Some(a, vs)
  BY <1>1, <1>2, Zenon DEF Some
<1>7. TypeOf[a.name] = "int" => v \in {"fits", "0", "1"}
  <2>1. TypeOf[a.name] = "int" => ~Some(a, Tokens \ {"fits", "0", "1"})
    BY DEF Documented, OfType, Bools
  <2>2. v \in Tokens \ {"fits", "0", "1"} => Some(a, Tokens \ {"fits", "0", "1"})
    BY <1>6, Zenon
  <2> QED
    BY <1>3, <2>1, <2>2
<1>8. TypeOf[a.name] \in {"bool", "invbool"} => Blank(r) \/ v \in {"0", "1", "y", "n"}
  <2>1. ASSUME TypeOf[a.name] \in {"bool", "invbool"}
        PROVE  a.name \in Bools /\ TypeOf[a.name] # "int"
    BY <1>1, <2>1 DEF Bools
  <2>2. ASSUME TypeOf[a.name] \in {"bool", "invbool"}
        PROVE  a.vals = <<"">> \/ ~Some(a, Tokens \ {"0", "1", "y", "n"})
    BY <2>1, <2>2 DEF Documented, OfType
  <2> QED
    <3>1. a.vals = <<"">> => Blank(r)
      BY <1>5, Zenon
    <3>2. ~Some(a, Tokens \ {"0", "1", "y", "n"}) => v \notin Tokens \ {"0", "1", "y", "n"}
      BY <1>6, Zenon
    <3> QED
      BY <1>3, <2>2, <3>1, <3>2
<1>9. CASE TypeOf[a.name] = "int"
  <2>1. ~Blank(r) /\ Head(r) # "big"
    BY <1>3, <1>4, <1>7, <1>9
  <2>2. Error(a.name, r) = "0"
    BY <1>9, <2>1 DEF Error, Blank
  <2>3. Number(a.name, r) = Meaning(a.name, v)
    BY <1>3, <1>7, <1>9 DEF Number, Meaning, IntOf
  <2> QED
    BY <1>2, <2>2, <2>3
<1>10. CASE TypeOf[a.name] = "charp"
  BY <1>10 DEF Error
<1>11. CASE TypeOf[a.name] \in {"bool", "invbool"}
  <2>1. BoolTrue(r) <=> Blank(r) \/ v \in {"1", "y"}
    BY <1>3 DEF BoolTrue, Blank
  <2>2. BoolTrue(r) <=> v \notin {"0", "n"}
    BY <1>4, <1>8, <1>11, <2>1
  <2>3. Number(a.name, r) = Meaning(a.name, v)
    BY <1>11, <2>2 DEF Number, Meaning, Bool
  <2>4. ~OneForBool(a) => BoolTaken(r)
    <3>1. a.name \in Bools
      BY <1>1, <1>11 DEF Bools
    <3>2. ~OneForBool(a) => v # "1"
      BY <1>6, <3>1 DEF OneForBool
    <3> QED
      BY <1>3, <1>8, <1>11, <3>2 DEF BoolTaken, Blank
  <2>5. BoolTaken(r) => Error(a.name, r) = "0"
    BY <1>11 DEF Error
  <2> QED
    BY <1>2, <2>3, <2>4, <2>5
<1> QED
  BY <1>1, <1>9, <1>10, <1>11

\* What doc/urt allows is accepted, but for a bool that is given as 1.
LEMMA DocumentedGood ==
    ASSUME NEW a \in Args, Documented(a), ~OneForBool(a)
    PROVE  Good(a)
<1>1. a.name \in Names /\ a.quote # "open" /\ Len(ValuesOf(a)) <= Max[a.name]
  BY DEF Documented
<1>2. /\ Taken(a).name = a.name /\ Taken(a).vals = a.vals
      /\ Len(ValuesOf(Taken(a))) = Len(ValuesOf(a)) /\ DOMAIN ValuesOf(Taken(a)) = 1 .. Len(ValuesOf(a))
  BY <1>1, ValuesTaken, TakenFacts
<1>3. \A k \in 1 .. Len(ValuesOf(a)) : Error(a.name, SubSeq(a.vals, k, Len(a.vals))) = "0"
  BY DocumentedValue
<1> QED
  BY <1>1, <1>2, <1>3 DEF Good, Accepted

\* What is wrong is not accepted.
LEMMA WrongBad ==
    ASSUME NEW a \in Args, Good(a)
    PROVE  ~Wrong(a)
<1>1. a.name \in Names /\ Accepted(Taken(a)) /\ Taken(a).name = a.name
  BY TakenFacts DEF Good, Accepted
<1>2. /\ Len(ValuesOf(Taken(a))) = Len(ValuesOf(a)) /\ DOMAIN ValuesOf(Taken(a)) = 1 .. Len(ValuesOf(a))
      /\ DOMAIN ValuesOf(a) = 1 .. Len(ValuesOf(a)) /\ Len(ValuesOf(a)) \in 1 .. Len(a.vals)
      /\ \A k \in 1 .. Len(ValuesOf(a)) : ValuesOf(a)[k] = a.vals[k]
      /\ a.quote # "open" => Taken(a).vals = a.vals
  BY <1>1, ValuesTaken
<1>3. Len(ValuesOf(a)) <= Max[a.name]
  BY <1>1, <1>2 DEF Accepted
<1>4. a.vals \in Seq(Tokens) /\ Len(a.vals) \in Nat
  BY ParamsAssumption, LenProperties
<1>5. ASSUME a.quote # "open", NEW k \in 1 .. Len(ValuesOf(a))
      PROVE  \E r : r = SubSeq(a.vals, k, Len(a.vals)) /\ Head(r) = ValuesOf(a)[k] /\ Error(a.name, r) = "0"
  <2>1. PICK r : r = SubSeq(a.vals, k, Len(a.vals))
    OBVIOUS
  <2>2. k \in 1 .. Len(a.vals)
    BY <1>2, <1>4
  <2>3. Head(r) = ValuesOf(a)[k]
    <3>1. Head(r) = a.vals[k]
      BY <1>4, <2>1, <2>2, FirstElement, Zenon
    <3> QED
      BY <1>2, <3>1, Zenon
  <2>4. Error(a.name, r) = "0"
    BY <1>1, <1>2, <1>5, <2>1 DEF Accepted
  <2> QED
    BY <2>1, <2>3, <2>4
<1>6. ASSUME a.quote # "open", TypeOf[a.name] = "int"
      PROVE  a.vals # <<"">> /\ ~Some(a, {"big"})
  <2>1. a.vals # <<"">>
    <3>1. SUFFICES ASSUME a.vals = <<"">> PROVE FALSE
      OBVIOUS
    <3>2. Len(a.vals) = 1 /\ EndsEmpty(a.vals)
      BY <1>4, <3>1, NoValue, Zenon
    <3>3. 1 \in 1 .. Len(ValuesOf(a)) /\ 1 \in 1 .. Len(a.vals)
      BY <1>2, <3>2
    <3>4. PICK r : r = SubSeq(a.vals, 1, Len(a.vals)) /\ Error(a.name, r) = "0"
      BY <1>5, <1>6, <3>3
    <3>5. Blank(r)
      BY <1>4, <3>2, <3>3, <3>4, BlankFacts, Zenon
    <3> QED
      BY <1>6, <3>4, <3>5 DEF Error, Blank
  <2>2. ASSUME NEW k \in DOMAIN ValuesOf(a), ValuesOf(a)[k] = "big" PROVE FALSE
    <3>1. PICK r : Head(r) = "big" /\ Error(a.name, r) = "0"
      BY <1>2, <1>5, <1>6, <2>2
    <3> QED
      BY <1>6, <3>1 DEF Error
  <2> QED
    BY <2>1, <2>2 DEF Some
<1>7. ASSUME a.quote # "open", a.name \in Bools, a.vals # <<"">>
      PROVE  ~Some(a, {"", "fits", "big", "text"})
  <2>1. TypeOf[a.name] \in {"bool", "invbool"}
    BY <1>7 DEF Bools
  <2>2. SUFFICES ASSUME NEW k \in DOMAIN ValuesOf(a), ValuesOf(a)[k] \in {"", "fits", "big", "text"}
                 PROVE  FALSE
    BY DEF Some
  <2>3. k \in 1 .. Len(ValuesOf(a)) /\ k \in 1 .. Len(a.vals)
    BY <1>2, <1>4
  <2>4. PICK r : r = SubSeq(a.vals, k, Len(a.vals)) /\ Head(r) = ValuesOf(a)[k] /\ Error(a.name, r) = "0"
    BY <1>5, <1>7, <2>3
  <2>5. BoolTaken(r)
    BY <2>1, <2>4 DEF Error
  <2>6. Blank(r)
    BY <2>2, <2>4, <2>5 DEF BoolTaken, Blank
  <2>7. Len(a.vals) = k /\ EndsEmpty(a.vals)
    BY <1>4, <2>3, <2>4, <2>6, BlankFacts, Zenon
  <2>8. Len(ValuesOf(a)) = Len(a.vals)
    BY <1>2, <1>4, <2>3, <2>7
  <2>9. a.vals = <<"">>
    <3>1. Len(ValuesOf(a)) =
            IF ~IsArray[a.name] THEN 1
            ELSE IF Len(a.vals) > 1 /\ EndsEmpty(a.vals) THEN Len(a.vals) - 1 ELSE Len(a.vals)
      BY <1>1, ValuesFacts, ParamsAssumption, Zenon
    <3>2. EndsEmpty(a.vals) => Len(ValuesOf(a)) = IF ~IsArray[a.name] THEN 1
                                                  ELSE IF Len(a.vals) > 1 THEN Len(a.vals) - 1 ELSE Len(a.vals)
      BY <3>1
    <3>3. Len(a.vals) = 1
      BY <1>4, <2>3, <2>7, <2>8, <3>2
    <3> QED
      BY <1>4, <2>7, <3>3, NoValue, Zenon
  <2> QED
    BY <1>7, <2>9
<1>8. ~(Len(ValuesOf(a)) > Max[a.name])
  <2>1. Max[a.name] \in Nat /\ Len(ValuesOf(a)) \in Nat
    BY <1>1, <1>2, <1>4, ParamsAssumption
  <2> QED
    BY <1>3, <2>1
<1> QED
  BY <1>1, <1>6, <1>7, <1>8 DEF Wrong

(* urt_parse_args accepts what doc/urt allows but for bools given as 1,    *)
(* reports an error for what is wrong, and gives each parameter the values *)
(* of its last argument, for command lines of any length.                  *)
THEOREM ParsedAsGivenHolds == Spec => []ParsedAsGiven
<1>1. ASSUME AppInv, pc = "returned" PROVE ParsedAsGiven
  <2>1. ParamsTypeOK /\ ErrInv /\ ArrayInv /\ i = Len(argv) /\ DOMAIN argv = 1 .. i /\ i \in Nat
    BY <1>1 DEF AppInv, ParamsInv, ParamsTypeOK, ArgInv
  <2>2. \A k \in DOMAIN argv : argv[k] \in Args
    BY <2>1 DEF ParamsTypeOK
  <2>3. (\A k \in DOMAIN argv : Documented(argv[k]) /\ ~OneForBool(argv[k])) => err \in {"0", "ENOMEM"}
    BY <2>1, <2>2, DocumentedGood DEF ErrInv
  <2>4. (\E k \in DOMAIN argv : Wrong(argv[k])) => err # "0"
    BY <2>1, <2>2, WrongBad DEF ErrInv
  <2>5. ASSUME err = "0", NEW p \in Names, LastFor(p) = 0
        PROVE  nump[p] = 0
    <3>1. \A k \in DOMAIN argv : argv[k].name # p
      BY <2>1, <2>5, LastForFacts
    <3> QED
      BY <1>1, <2>1, <2>5, <3>1 DEF ArrayInv
  <2>6. ASSUME err = "0", NEW p \in Names, LastFor(p) # 0, NEW a, a = argv[LastFor(p)], NEW v, v = ValuesOf(a)
        PROVE  /\ IsArray[p] => nump[p] = Len(v)
               /\ Documented(a) /\ TypeOf[p] # "charp" =>
                    \A k \in DOMAIN v : var[p][k - 1] = Meaning(p, v[k])
    <3>1. PICK l : l = LastFor(p)
      OBVIOUS
    <3>2. /\ l \in 1 .. i /\ argv[l].name = p
          /\ \A m \in 1 .. i : argv[m].name = p => m <= l
      BY <2>1, <2>6, <3>1, LastForFacts, Zenon
    <3>3. \A m \in l + 1 .. i : argv[m].name # p
      BY <2>1, <3>2
    <3>4. ~Converting(p)
      BY <1>1 DEF Converting
    <3>5. Holds(p, Taken(argv[l]))
      BY <1>1, <2>1, <2>6, <3>2, <3>3, <3>4 DEF ArrayInv
    <3>6. a \in Args /\ a = argv[l] /\ a.name = p
      BY <2>1, <2>2, <2>6, <3>1, <3>2
    <3>7. /\ DOMAIN v = 1 .. Len(v) /\ Len(ValuesOf(Taken(a))) = Len(v)
          /\ a.quote # "open" => Taken(a).vals = a.vals
      BY <2>6, <3>6, ValuesTaken
    <3>8. IsArray[p] => nump[p] = Len(v)
      BY <3>5, <3>6, <3>7 DEF Holds
    <3>9. ASSUME Documented(a), TypeOf[p] # "charp", NEW k \in DOMAIN v
          PROVE  var[p][k - 1] = Meaning(p, v[k])
      <4>1. Taken(a).vals = a.vals
        BY <3>7, <3>9 DEF Documented
      <4>2. var[p][k - 1] = Number(p, SubSeq(a.vals, k, Len(a.vals)))
        BY <3>5, <3>6, <3>7, <3>9, <4>1 DEF Holds
      <4>3. Number(p, SubSeq(a.vals, k, Len(a.vals))) = Meaning(p, v[k])
        BY <2>6, <3>6, <3>7, <3>9, DocumentedValue
      <4> QED
        BY <4>2, <4>3
    <3> QED
      BY <3>8, <3>9
  <2>7. ASSUME err = "0", NEW p \in Names
        PROVE  IF LastFor(p) = 0 THEN nump[p] = 0
               ELSE LET a == argv[LastFor(p)]
                        v == ValuesOf(a)
                    IN  /\ IsArray[p] => nump[p] = Len(v)
                        /\ Documented(a) /\ TypeOf[p] # "charp" =>
                               \A k \in DOMAIN v : var[p][k - 1] = Meaning(p, v[k])
    <3>1. CASE LastFor(p) = 0
      BY <2>5, <2>7, <3>1
    <3>2. CASE LastFor(p) # 0
      <4>1. PICK a : a = argv[LastFor(p)]
        OBVIOUS
      <4>2. PICK v : v = ValuesOf(a)
        OBVIOUS
      <4>3. IsArray[p] => nump[p] = Len(v)
        BY <2>6, <2>7, <3>2, <4>1, <4>2
      <4>4. Documented(a) /\ TypeOf[p] # "charp" =>
              \A k \in DOMAIN v : var[p][k - 1] = Meaning(p, v[k])
        BY <2>6, <2>7, <3>2, <4>1, <4>2
      <4> QED
        BY <3>2, <4>1, <4>2, <4>3, <4>4
    <3> QED
      BY <3>1, <3>2
  <2> QED
    BY <2>3, <2>4, <2>7, Zenon DEF ParsedAsGiven
<1>2. AppInv => ParsedAsGiven
  BY <1>1 DEF ParsedAsGiven
<1> QED
  BY <1>2, AppInvHolds, PTL

(* urt_free_args frees a string once and nothing else, and loses none of a *)
(* command line that names every parameter once.                           *)
THEOREM FreedOnceHolds == Spec => []FreedOnce
<1>1. AppInv => FreedOnce
  BY DEF AppInv, ParamsInv, HeapInv, LeakInv, Distinct, FreedOnce
<1> QED
  BY <1>1, AppInvHolds, PTL

(* exit and urt_free_args never run under a task or under body, whichever  *)
(* way the application is stopped.                                         *)
THEOREM ExitSafeHolds == Spec => []ExitSafe
<1>1. AppInv => ExitSafe
  BY GlueAssumption DEF AppInv, ParamsInv, GlueInv, GlueTypeOK, PlaceInv, DoneInv, LinkInv, ExitSafe, TypeOK
<1> QED
  BY <1>1, AppInvHolds, PTL

(* init runs only on a command line in which nothing is wrong, and exit    *)
(* runs just where init had succeeded.                                     *)
THEOREM NothingLeftHolds == Spec => []NothingLeft
<1>1. ASSUME AppInv PROVE NothingLeft
  <2>1. made /\ space = "user" => \A k \in DOMAIN argv : ~Wrong(argv[k])
    <3>1. DOMAIN argv = 1 .. Len(argv) /\ \A k \in DOMAIN argv : argv[k] \in Args
      BY <1>1 DEF AppInv, ParamsInv, ParamsTypeOK
    <3> QED
      BY <1>1, <3>1, WrongBad DEF AppInv, ParamsInv, ErrInv, LinkInv, AllRead
  <2>2. exited => made
    BY <1>1 DEF AppInv, GlueInv, PlaceInv
  <2>3. main \in {"ended", "failed"} \/ rm = "unloaded" => made = exited
    BY <1>1 DEF AppInv, GlueInv, GlueTypeOK, PlaceInv
  <2> QED
    BY <2>1, <2>2, <2>3 DEF NothingLeft
<1> QED
  BY <1>1, AppInvHolds, PTL
=============================================================================
