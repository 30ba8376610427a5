--------------------------- MODULE InspectProofs ---------------------------
(***************************************************************************)
(* What urt_dump_memory shows, for any number of callers, any sizes that a *)
(* size_t holds, and any generator of names; then the generator itself,    *)
(* for any number of characters, length of a name and size of the registry.*)
(***************************************************************************)
EXTENDS Inspect, FiniteSetTheorems, TLAPS

\* The shapes the steps rely on; nothing is said of the names themselves.
ShapeInv ==
    /\ DOMAIN held = Callers
    /\ owns \in [Callers -> BOOLEAN]
    /\ stage \in [Callers -> {"none", "reserved", "typed", "sized", "made"}]
    /\ bytes \in [Callers -> 0 .. SizeMax - 1]
    /\ size \in [Callers -> Nat]
    /\ dump = [pc |-> dump.pc, name |-> dump.name, size |-> dump.size,
               bytes |-> dump.bytes, steady |-> dump.steady]

\* Who owns an object has its name in the registry, and nobody else owns one
\* of that name.
OwnersInv ==
    /\ \A c \in Callers : owns[c] => held[c] \in registered /\ held[c] # NoName
    /\ \A c, d \in Callers : owns[c] /\ owns[d] /\ held[c] = held[d] => c = d

\* What the size field of a slot is after each write of SHOBJ_NEW.
StageInv ==
    \A c \in Callers :
        /\ stage[c] # "none" => owns[c]
        /\ stage[c] = "sized" => size[c] = bytes[c]
        /\ stage[c] = "made" => size[c] = bytes[c] + Book

\* A size taken from a slot that was filled in is that of the object of the
\* name until the object is deleted.
LookedInv ==
    dump.pc = "looked" /\ dump.steady =>
        \E c \in Callers : owns[c] /\ held[c] = dump.name /\ stage[c] = "made" /\ dump.size = bytes[c]

InspectInv == ShapeInv /\ OwnersInv /\ StageInv /\ LookedInv /\ DumpWithin
-----------------------------------------------------------------------------
LEMMA NoNameIsNone == NoName \notin Names
<1>1. 1 \in 1 .. Len
  BY FreeNamesAssumption
<1>2. NoName[1] \notin 0 .. Base - 1
  BY <1>1, FreeNamesAssumption DEF NoName
<1> QED
  BY <1>1, <1>2 DEF Names

\* The subtraction of the book keeping does not wrap once it was added.
LEMMA ShownIsSize ==
    ASSUME NEW b \in 0 .. SizeMax - 1
    PROVE  Shown(b + Book) = b
<1>1. (b + Book) - Book = b
  BY InspectAssumption
<1>2. b % SizeMax = b
  BY InspectAssumption
<1> QED
  BY <1>1, <1>2 DEF Shown

LEMMA InspectInvInit == Init => InspectInv
<1> SUFFICES ASSUME Init PROVE InspectInv
  OBVIOUS
<1>1. ShapeInv
  BY InspectAssumption DEF Init, NamesInit, NoDump, ShapeInv
<1>2. OwnersInv /\ StageInv /\ LookedInv /\ DumpWithin
  BY DEF Init, NamesInit, NoDump, OwnersInv, StageInv, LookedInv, DumpWithin
<1> QED
  BY <1>1, <1>2 DEF InspectInv

\* A caller that owns no object gets a name or runs a task under one.
LEMMA NameStep ==
    ASSUME InspectInv, NEW c \in Callers, GetFreeName(c) \/ TaskInit(c), UNCHANGED <<objs, dump>>
    PROVE  InspectInv'
<1>1. /\ ~owns[c] /\ UNCHANGED <<owns, registered, stage, bytes, size, dump>>
      /\ DOMAIN held' = Callers /\ \A d \in Callers : d # c => held'[d] = held[d]
  <2>1. CASE GetFreeName(c)
    BY <2>1 DEF GetFreeName, objs, InspectInv, ShapeInv, OwnersInv
  <2>2. CASE TaskInit(c)
    BY <2>2 DEF TaskInit, objs, InspectInv, ShapeInv
  <2> QED
    BY <2>1, <2>2
<1>2. ShapeInv' /\ StageInv' /\ DumpWithin'
  BY <1>1 DEF InspectInv, ShapeInv, StageInv, DumpWithin
<1>3. OwnersInv'
  BY <1>1 DEF InspectInv, OwnersInv
<1>4. LookedInv'
  BY <1>1 DEF InspectInv, LookedInv
<1> QED
  BY <1>2, <1>3, <1>4 DEF InspectInv

LEMMA ReserveStep ==
    ASSUME InspectInv, NEW c \in Callers, NEW b \in Sizes, Reserve(c, b)
    PROVE  InspectInv'
<1>1. CASE UNCHANGED <<registered, owns>>
  <2>1. ~owns'[c] /\ UNCHANGED <<registered, owns, held, stage, bytes, size, dump>>
    BY <1>1 DEF Reserve, Register, objs
  <2> QED
    BY <2>1 DEF InspectInv, ShapeInv, OwnersInv, StageInv, LookedInv, DumpWithin
<1>2. CASE ~(held[c] \in registered \/ Cardinality(registered) = MaxObjects)
  <2>1. /\ held[c] \in Names /\ ~owns[c] /\ held[c] \notin registered
        /\ registered' = registered \cup {held[c]} /\ owns' = [owns EXCEPT ![c] = TRUE]
        /\ UNCHANGED <<held, dump>>
    BY <1>2 DEF Reserve, Register
  <2>2. owns'[c]
    BY <2>1 DEF InspectInv, ShapeInv
  <2>3. /\ stage' = [stage EXCEPT ![c] = "reserved"] /\ bytes' = [bytes EXCEPT ![c] = b]
        /\ size' = [size EXCEPT ![c] = 0]
    BY <2>2 DEF Reserve
  <2>4. b \in 0 .. SizeMax - 1
    BY InspectAssumption
  <2>5. ShapeInv'
    BY <2>1, <2>3, <2>4 DEF InspectInv, ShapeInv
  <2>6. OwnersInv'
    BY <2>1, NoNameIsNone DEF InspectInv, ShapeInv, OwnersInv
  <2>7. StageInv'
    BY <2>1, <2>3 DEF InspectInv, ShapeInv, StageInv
  <2>8. LookedInv' /\ DumpWithin'
    BY <2>1, <2>3 DEF InspectInv, ShapeInv, LookedInv, DumpWithin
  <2> QED
    BY <2>5, <2>6, <2>7, <2>8 DEF InspectInv
<1> QED
  BY <1>1, <1>2 DEF Reserve, Register

\* The writes of SHOBJ_NEW.
LEMMA FillStep ==
    ASSUME InspectInv, NEW c \in Callers, SetType(c) \/ SetSize(c) \/ AddBook(c)
    PROVE  InspectInv'
<1>1. UNCHANGED <<registered, held, owns, bytes, dump>>
  BY DEF SetType, SetSize, AddBook, names
<1>2. /\ stage' \in [Callers -> {"none", "reserved", "typed", "sized", "made"}]
      /\ size' \in [Callers -> Nat]
      /\ \A d \in Callers : d # c => stage'[d] = stage[d] /\ size'[d] = size[d]
      /\ stage[c] \notin {"none", "made"}
      /\ stage'[c] = "sized" => size'[c] = bytes[c]
      /\ stage'[c] = "made" => size'[c] = bytes[c] + Book
  BY InspectAssumption DEF SetType, SetSize, AddBook, InspectInv, ShapeInv, StageInv
<1>3. ShapeInv' /\ OwnersInv'
  BY <1>1, <1>2 DEF InspectInv, ShapeInv, OwnersInv
<1>4. StageInv'
  BY <1>1, <1>2 DEF InspectInv, StageInv
<1>5. LookedInv' /\ DumpWithin'
  BY <1>1, <1>2 DEF InspectInv, LookedInv, DumpWithin
<1> QED
  BY <1>3, <1>4, <1>5 DEF InspectInv

LEMMA LeaveStep ==
    ASSUME InspectInv, NEW c \in Callers, Leave(c)
    PROVE  InspectInv'
<1>1. /\ registered' = registered \/ (owns[c] /\ registered' = registered \ {held[c]})
      /\ owns' = [owns EXCEPT ![c] = FALSE]
      /\ held' = [held EXCEPT ![c] = NoName]
  BY DEF Leave, Forget
<1>2. /\ stage' = [stage EXCEPT ![c] = "none"] /\ bytes' = [bytes EXCEPT ![c] = 0]
      /\ size' = [size EXCEPT ![c] = 0]
      /\ dump' = IF owns[c] /\ dump.pc = "looked" /\ dump.name = held[c]
                   THEN [dump EXCEPT !.steady = FALSE] ELSE dump
  BY DEF Leave
<1>3. ShapeInv'
  <2>1. /\ DOMAIN held' = Callers /\ owns' \in [Callers -> BOOLEAN]
        /\ stage' \in [Callers -> {"none", "reserved", "typed", "sized", "made"}]
        /\ bytes' \in [Callers -> 0 .. SizeMax - 1] /\ size' \in [Callers -> Nat]
    BY <1>1, <1>2, InspectAssumption DEF InspectInv, ShapeInv
  <2>2. dump' = [pc |-> dump'.pc, name |-> dump'.name, size |-> dump'.size,
                 bytes |-> dump'.bytes, steady |-> dump'.steady]
    BY <1>2 DEF InspectInv, ShapeInv
  <2> QED
    BY <2>1, <2>2 DEF ShapeInv
<1>4. OwnersInv'
  BY <1>1 DEF InspectInv, ShapeInv, OwnersInv
<1>5. StageInv'
  BY <1>1, <1>2 DEF InspectInv, ShapeInv, StageInv
<1>6. LookedInv'
  BY <1>1, <1>2 DEF InspectInv, ShapeInv, LookedInv
<1>7. DumpWithin'
  BY <1>2 DEF InspectInv, ShapeInv, DumpWithin
<1> QED
  BY <1>3, <1>4, <1>5, <1>6, <1>7 DEF InspectInv

\* The dump looks, attaches to whoever has the name by then, and detaches.
LEMMA DumpStep ==
    ASSUME InspectInv, (\E c \in Callers : Look(c)) \/ AttachDump \/ DetachDump
    PROVE  InspectInv'
<1>1. CASE \E c \in Callers : Look(c)
  <2>1. PICK c \in Callers : Look(c)
    BY <1>1
  <2>2. UNCHANGED <<registered, held, owns, stage, bytes, size>>
    BY <2>1 DEF Look, names, objs
  <2>3. /\ dump' = [pc |-> "looked", name |-> held[c], size |-> Shown(size[c]),
                    bytes |-> 0, steady |-> (stage[c] = "made")]
        /\ owns[c]
    BY <2>1 DEF Look, NoDump
  <2>4. ShapeInv' /\ OwnersInv' /\ StageInv' /\ DumpWithin'
    BY <2>2, <2>3 DEF InspectInv, ShapeInv, OwnersInv, StageInv, DumpWithin
  <2>5. stage[c] = "made" => Shown(size[c]) = bytes[c]
    BY ShownIsSize DEF InspectInv, ShapeInv, StageInv
  <2>6. LookedInv'
    BY <2>2, <2>3, <2>5 DEF LookedInv
  <2> QED
    BY <2>4, <2>6 DEF InspectInv
<1>2. CASE AttachDump
  <2>1. UNCHANGED <<registered, held, owns, stage, bytes, size>>
    BY <1>2 DEF AttachDump, names, objs
  <2>2. CASE dump' = NoDump
    BY <2>1, <2>2 DEF NoDump, InspectInv, ShapeInv, OwnersInv, StageInv, LookedInv, DumpWithin
  <2>3. CASE \E c \in Callers : /\ owns[c] /\ held[c] = dump.name /\ stage[c] # "reserved"
                                /\ dump' = [dump EXCEPT !.pc = "showing", !.bytes = bytes[c]]
    <3>1. PICK c \in Callers : /\ owns[c] /\ held[c] = dump.name
                               /\ dump' = [dump EXCEPT !.pc = "showing", !.bytes = bytes[c]]
      BY <2>3
    <3>2. /\ dump'.pc = "showing" /\ dump'.bytes = bytes[c] /\ dump'.size = dump.size
          /\ dump'.steady = dump.steady /\ ShapeInv'
      BY <2>1, <3>1 DEF InspectInv, ShapeInv
    <3>3. dump.steady => dump.size = bytes[c]
      BY <1>2, <3>1 DEF AttachDump, InspectInv, LookedInv, OwnersInv
    <3>4. OwnersInv' /\ StageInv' /\ LookedInv' /\ DumpWithin'
      BY <2>1, <3>2, <3>3 DEF InspectInv, OwnersInv, StageInv, LookedInv, DumpWithin
    <3> QED
      BY <3>2, <3>4 DEF InspectInv
  <2> QED
    BY <1>2, <2>2, <2>3 DEF AttachDump
<1>3. CASE DetachDump
  <2>1. UNCHANGED <<held, owns, stage, bytes, size>> /\ dump' = NoDump
    BY <1>3 DEF DetachDump, objs
  <2>2. registered' = {n \in registered : \E c \in Callers : owns[c] /\ held[c] = n}
    BY <1>3 DEF DetachDump
  <2>3. OwnersInv'
    BY <2>1, <2>2 DEF InspectInv, OwnersInv
  <2>4. ShapeInv' /\ StageInv' /\ LookedInv' /\ DumpWithin'
    BY <2>1 DEF NoDump, InspectInv, ShapeInv, StageInv, LookedInv, DumpWithin
  <2> QED
    BY <2>3, <2>4 DEF InspectInv
<1> QED
  BY <1>1, <1>2, <1>3

LEMMA InspectInvNext == InspectInv /\ [Next]_vars => InspectInv'
<1> SUFFICES ASSUME InspectInv, [Next]_vars PROVE InspectInv'
  OBVIOUS
<1>1. CASE UNCHANGED vars
  BY <1>1 DEF vars, names, InspectInv, ShapeInv, OwnersInv, StageInv, LookedInv, DumpWithin
<1>2. ASSUME NEW c \in Callers, (GetFreeName(c) \/ TaskInit(c)) /\ UNCHANGED <<objs, dump>>
      PROVE  InspectInv'
  BY <1>2, NameStep
<1>3. ASSUME NEW c \in Callers, NEW b \in Sizes, Reserve(c, b) PROVE InspectInv'
  BY <1>3, ReserveStep
<1>4. ASSUME NEW c \in Callers, SetType(c) \/ SetSize(c) \/ AddBook(c) PROVE InspectInv'
  BY <1>4, FillStep
<1>5. ASSUME NEW c \in Callers, Leave(c) PROVE InspectInv'
  BY <1>5, LeaveStep
<1>6. CASE (\E c \in Callers : Look(c)) \/ AttachDump \/ DetachDump
  BY <1>6, DumpStep
<1> QED
  BY <1>1, <1>2, <1>3, <1>4, <1>5, <1>6 DEF Next

-----------------------------------------------------------------------------
\* urt_dump_memory shows the whole memory that users of the name share and
\* nothing else, although it took the size before it attached, unless it read
\* a slot that was being filled or the object was deleted in between.
THEOREM DumpWithinHolds == Spec => []DumpWithin
<1>1. InspectInv => DumpWithin
  BY DEF InspectInv
<1> QED
  BY <1>1, InspectInvInit, InspectInvNext, PTL DEF Spec

-----------------------------------------------------------------------------
(* The order of the names.                                                 *)

\* The principle of the least element, in place of induction.
LEMMA LeastElement ==
    ASSUME NEW T, T \subseteq Nat, T # {}
    PROVE  \E i \in T : \A j \in T : i <= j
<1> DEFINE R == {ss \in Nat \X Nat : ss[1] < ss[2]}
<1>1. IsWellFoundedOn(R, Nat)
  BY NatLessThanWellFounded DEF OpToRel
<1> HIDE DEF R
<1>2. PICK i \in T : \A j \in T : ~(<<j, i>> \in R)
  BY <1>1, WFMin
<1>3. ASSUME NEW j \in T PROVE i <= j
  <2>1. i \in Nat /\ j \in Nat
    OBVIOUS
  <2>2. ~(j < i)
    BY <1>2, <2>1 DEF R
  <2> QED
    BY <2>1, <2>2
<1> QED
  BY <1>3

LEMMA NameFacts ==
    ASSUME NEW m \in Names
    PROVE  /\ m = [i \in 1 .. Len |-> m[i]]
           /\ \A i \in 1 .. Len : m[i] \in Nat /\ m[i] <= Base - 1
<1>1. m \in [1 .. Len -> 0 .. Base - 1]
  BY DEF Names
<1>2. \A i \in 1 .. Len : m[i] \in 0 .. Base - 1
  BY <1>1
<1> QED
  BY <1>1, <1>2, FreeNamesAssumption

LEMMA NamesFinite == IsFiniteSet(Names)
<1> DEFINE Pairs == (1 .. Len) \X (0 .. Base - 1)
           f == [n \in Names |-> {<<i, n[i]>> : i \in 1 .. Len}]
<1>1. IsFiniteSet(SUBSET Pairs)
  <2>1. 1 \in Int /\ Len \in Int /\ 0 \in Int /\ Base - 1 \in Int
    BY FreeNamesAssumption
  <2>2. IsFiniteSet(1 .. Len) /\ IsFiniteSet(0 .. Base - 1)
    BY <2>1, FS_Interval
  <2>3. IsFiniteSet(Pairs)
    BY <2>2, FS_Product
  <2> QED
    BY <2>3, FS_SUBSET
<1>2. f \in [Names -> SUBSET Pairs]
  <2>1. ASSUME NEW n \in Names PROVE {<<i, n[i]>> : i \in 1 .. Len} \in SUBSET Pairs
    <3>1. \A i \in 1 .. Len : n[i] \in 0 .. Base - 1
      BY DEF Names
    <3> QED
      BY <3>1
  <2> QED
    BY <2>1
<1>3. ASSUME NEW m \in Names, NEW n \in Names, f[m] = f[n] PROVE m = n
  <2>1. ASSUME NEW i \in 1 .. Len PROVE m[i] = n[i]
    <3>1. <<i, m[i]>> \in {<<j, n[j]>> : j \in 1 .. Len}
      BY <1>3
    <3> QED
      BY <3>1
  <2> QED
    BY <2>1, NameFacts
<1>4. f \in Injection(Names, SUBSET Pairs)
  BY <1>2, <1>3 DEF Injection, IsInjective
<1> QED
  BY <1>1, <1>4, FS_Injection

\* Two names that differ differ in a first place.
LEMMA FirstDifference ==
    ASSUME NEW m \in Names, NEW n \in Names, m # n
    PROVE  \E i \in 1 .. Len : m[i] # n[i] /\ \A j \in 1 .. i - 1 : m[j] = n[j]
<1> DEFINE T == {i \in 1 .. Len : m[i] # n[i]}
<1>1. T # {}
  <2> SUFFICES ASSUME \A i \in 1 .. Len : m[i] = n[i] PROVE m = n
    OBVIOUS
  <2> QED
    BY NameFacts
<1>2. T \subseteq Nat
  BY FreeNamesAssumption
<1>3. PICK i \in T : \A j \in T : i <= j
  BY <1>1, <1>2, LeastElement
<1>4. i \in 1 .. Len /\ m[i] # n[i]
  OBVIOUS
<1>5. ASSUME NEW j \in 1 .. i - 1 PROVE m[j] = n[j]
  <2>1. j \in 1 .. Len /\ ~(i <= j)
    BY <1>4, FreeNamesAssumption
  <2> QED
    BY <1>3, <2>1
<1> QED
  BY <1>4, <1>5

LEMMA BeforeIsOrder ==
    ASSUME NEW m \in Names, NEW n \in Names
    PROVE  /\ ~Before(m, m)
           /\ m = n \/ Before(m, n) \/ Before(n, m)
           /\ ~(Before(m, n) /\ Before(n, m))
<1>1. /\ \A i \in 1 .. Len : m[i] \in Nat
      /\ \A i \in 1 .. Len : n[i] \in Nat
  BY NameFacts
<1>2. ~Before(m, m)
  BY <1>1 DEF Before
<1>3. ASSUME m # n PROVE Before(m, n) \/ Before(n, m)
  <2>1. PICK i \in 1 .. Len : m[i] # n[i] /\ \A j \in 1 .. i - 1 : m[j] = n[j]
    BY <1>3, FirstDifference
  <2>2. m[i] < n[i] \/ n[i] < m[i]
    BY <1>1, <2>1
  <2> QED
    BY <2>1, <2>2 DEF Before
<1>4. ASSUME Before(m, n), Before(n, m) PROVE FALSE
  <2>1. PICK i \in 1 .. Len : m[i] < n[i] /\ \A j \in 1 .. i - 1 : m[j] = n[j]
    BY <1>4 DEF Before
  <2>2. PICK k \in 1 .. Len : n[k] < m[k] /\ \A j \in 1 .. k - 1 : n[j] = m[j]
    BY <1>4 DEF Before
  <2>3. i = k \/ i \in 1 .. k - 1 \/ k \in 1 .. i - 1
    BY FreeNamesAssumption
  <2> QED
    BY <1>1, <2>1, <2>2, <2>3
<1> QED
  BY <1>2, <1>3, <1>4

\* The character that _increment_name raises, those before it and those after.
LEMMA RaisedAt ==
    ASSUME NEW n \in Names, ~Wraps(n)
    PROVE  \E j \in 1 .. Len :
             /\ n[j] < Base - 1
             /\ \A i \in 1 .. j - 1 : IncrementName(n)[i] = n[i]
             /\ IncrementName(n)[j] = n[j] + 1
             /\ \A i \in j + 1 .. Len : n[i] = Base - 1 /\ IncrementName(n)[i] = 0
<1> DEFINE D == {Len - i : i \in CanRaise(n)}
<1>1. Len \in Nat /\ CanRaise(n) \subseteq 1 .. Len /\ CanRaise(n) # {} /\ Base \in Nat
  BY FreeNamesAssumption DEF CanRaise, Wraps
<1>2. D \subseteq Nat /\ D # {}
  BY <1>1
<1>3. PICK d \in D : \A e \in D : d <= e
  BY <1>2, LeastElement
<1>4. PICK j \in CanRaise(n) : d = Len - j
  OBVIOUS
<1>5. j \in 1 .. Len /\ n[j] # Base - 1
  BY DEF CanRaise
<1>6. ASSUME NEW i \in CanRaise(n) PROVE i <= j
  <2>1. Len - j <= Len - i
    BY <1>3, <1>4
  <2>2. i \in 1 .. Len
    BY <1>1
  <2> QED
    BY <1>1, <1>5, <2>1, <2>2
<1>7. \A i \in 1 .. Len : i > j => n[i] = Base - 1 /\ i \notin CanRaise(n)
  BY <1>1, <1>5, <1>6 DEF CanRaise
<1>8. n[j] < Base - 1
  BY <1>1, <1>5, NameFacts
<1>9. \A i \in 1 .. Len : IncrementName(n)[i] =
        IF \E k \in CanRaise(n) : k > i THEN n[i]
        ELSE IF i \in CanRaise(n) THEN n[i] + 1 ELSE 0
  BY DEF IncrementName
<1>10. ASSUME NEW i \in 1 .. j - 1 PROVE IncrementName(n)[i] = n[i]
  <2>1. i \in 1 .. Len /\ j > i
    BY <1>1, <1>5
  <2>2. \E k \in CanRaise(n) : k > i
    BY <2>1
  <2> QED
    BY <1>9, <2>1, <2>2
<1>11. IncrementName(n)[j] = n[j] + 1
  <2>1. ~\E k \in CanRaise(n) : k > j
    BY <1>1, <1>5, <1>6
  <2> QED
    BY <1>5, <1>9, <2>1
<1>12. ASSUME NEW i \in j + 1 .. Len PROVE n[i] = Base - 1 /\ IncrementName(n)[i] = 0
  <2>1. i \in 1 .. Len /\ i > j
    BY <1>1, <1>5
  <2>2. ~\E k \in CanRaise(n) : k > i
    BY <1>1, <1>5, <1>6, <2>1
  <2> QED
    BY <1>7, <1>9, <2>1, <2>2
<1> QED
  BY <1>5, <1>8, <1>10, <1>11, <1>12

LEMMA IncrementType ==
    ASSUME NEW n \in Names
    PROVE  IncrementName(n) \in Names
<1>1. \A i \in 1 .. Len : n[i] \in Nat /\ n[i] <= Base - 1 /\ (i \in CanRaise(n) => n[i] # Base - 1)
  BY NameFacts DEF CanRaise
<1>2. Base \in Nat /\ Base > 0
  BY FreeNamesAssumption
<1>3. ASSUME NEW i \in 1 .. Len
      PROVE  (IF \E j \in CanRaise(n) : j > i THEN n[i]
              ELSE IF i \in CanRaise(n) THEN n[i] + 1 ELSE 0) \in 0 .. Base - 1
  BY <1>1, <1>2
<1> QED
  BY <1>3 DEF IncrementName, Names

\* The names before the next one are those before this one, and this one.
LEMMA IncrementIsNext ==
    ASSUME NEW n \in Names, ~Wraps(n), NEW m \in Names
    PROVE  Before(m, IncrementName(n)) <=> Before(m, n) \/ m = n
<1> DEFINE p == IncrementName(n)
<1>1. PICK j \in 1 .. Len :
        /\ n[j] < Base - 1
        /\ \A i \in 1 .. j - 1 : p[i] = n[i]
        /\ p[j] = n[j] + 1
        /\ \A i \in j + 1 .. Len : n[i] = Base - 1 /\ p[i] = 0
  BY RaisedAt
<1> HIDE DEF p
<1>2. Len \in Nat /\ Base \in Nat
  BY FreeNamesAssumption
<1>3. \A i \in 1 .. Len : m[i] \in Nat /\ m[i] <= Base - 1
  BY NameFacts
<1>4. \A i \in 1 .. Len : n[i] \in Nat
  BY NameFacts
<1>5. \A i \in 1 .. Len : i \in 1 .. j - 1 \/ i = j \/ (i \in j + 1 .. Len /\ j \in 1 .. i - 1)
  BY <1>2
<1>6. \A i \in 1 .. j - 1 : i \in 1 .. Len /\ \A k \in 1 .. i - 1 : k \in 1 .. j - 1
  BY <1>2
<1>7. ASSUME \A k \in 1 .. j - 1 : m[k] = n[k], m[j] <= n[j]
      PROVE  Before(m, p)
  <2>1. m[j] < p[j]
    BY <1>1, <1>3, <1>4, <1>7
  <2>2. \A k \in 1 .. j - 1 : m[k] = p[k]
    BY <1>1, <1>7
  <2> QED
    BY <2>1, <2>2 DEF Before
<1>8. ASSUME Before(m, n) PROVE Before(m, p)
  <2>1. PICK i \in 1 .. Len : m[i] < n[i] /\ \A k \in 1 .. i - 1 : m[k] = n[k]
    BY <1>8 DEF Before
  <2>2. CASE i \in 1 .. j - 1
    <3>1. m[i] < p[i] /\ \A k \in 1 .. i - 1 : m[k] = p[k]
      BY <1>1, <1>6, <2>1, <2>2
    <3> QED
      BY <3>1 DEF Before
  <2>3. CASE i = j
    BY <1>3, <1>4, <1>7, <2>1, <2>3
  <2>4. CASE i \in j + 1 .. Len
    <3>1. \A k \in 1 .. j - 1 : k \in 1 .. i - 1
      BY <1>2, <2>4
    <3>2. m[j] = n[j]
      BY <1>2, <2>1, <2>4
    <3> QED
      BY <1>4, <1>7, <2>1, <3>1, <3>2
  <2> QED
    BY <1>5, <2>2, <2>3, <2>4
<1>9. ASSUME m = n PROVE Before(m, p)
  BY <1>4, <1>7, <1>9
<1>10. ASSUME Before(m, p), m # n PROVE Before(m, n)
  <2>1. PICK i \in 1 .. Len : m[i] < p[i] /\ \A k \in 1 .. i - 1 : m[k] = p[k]
    BY <1>10 DEF Before
  <2>2. CASE i \in 1 .. j - 1
    <3>1. m[i] < n[i] /\ \A k \in 1 .. i - 1 : m[k] = n[k]
      BY <1>1, <1>6, <2>1, <2>2
    <3> QED
      BY <3>1 DEF Before
  <2>3. CASE i = j
    <3>1. m[j] <= n[j] /\ \A k \in 1 .. j - 1 : m[k] = n[k]
      BY <1>1, <1>3, <1>4, <2>1, <2>3
    <3>2. CASE m[j] < n[j]
      BY <3>1, <3>2 DEF Before
    <3>3. CASE m[j] = n[j]
      <4>1. PICK l \in 1 .. Len : m[l] # n[l] /\ \A k \in 1 .. l - 1 : m[k] = n[k]
        BY <1>10, FirstDifference
      <4>2. l \in j + 1 .. Len
        BY <1>5, <3>1, <3>3, <4>1
      <4>3. m[l] < n[l]
        BY <1>1, <1>2, <1>3, <4>1, <4>2
      <4> QED
        BY <4>1, <4>3 DEF Before
    <3> QED
      BY <1>3, <1>4, <3>1, <3>2, <3>3
  <2>4. CASE i \in j + 1 .. Len
    BY <1>1, <1>3, <2>1, <2>4
  <2> QED
    BY <1>5, <2>2, <2>3, <2>4
<1> QED
  BY <1>8, <1>9, <1>10 DEF p

\* The last name is followed by the first one.
LEMMA WrapsToFirst ==
    ASSUME NEW n \in Names, Wraps(n), NEW m \in Names
    PROVE  /\ IncrementName(n) = FirstName
           /\ m = n \/ Before(m, n)
<1>1. IncrementName(n) = FirstName
  BY DEF Wraps, IncrementName, FirstName
<1>2. \A i \in 1 .. Len : n[i] = Base - 1
  BY DEF Wraps, CanRaise
<1>3. ASSUME m # n PROVE Before(m, n)
  <2>1. PICK i \in 1 .. Len : m[i] # n[i] /\ \A j \in 1 .. i - 1 : m[j] = n[j]
    BY <1>3, FirstDifference
  <2>2. m[i] < n[i]
    BY <1>2, <2>1, NameFacts, FreeNamesAssumption
  <2> QED
    BY <2>1, <2>2 DEF Before
<1> QED
  BY <1>1, <1>3

LEMMA FirstNameIsFirst ==
    /\ FirstName \in Names
    /\ \A m \in Names : ~Before(m, FirstName)
<1>1. FirstName \in Names
  BY FreeNamesAssumption DEF FirstName, Names
<1>2. \A i \in 1 .. Len : FirstName[i] = 0
  BY DEF FirstName
<1> QED
  BY <1>1, <1>2, NameFacts DEF Before

\* _increment_name moves a name one place on, from the last to the first.
LEMMA PlaceOfNext ==
    ASSUME NEW n \in Names
    PROVE  /\ Place(n) \in Nat /\ Cardinality(Names) \in Nat
           /\ Place(n) < Cardinality(Names)
           /\ ~Wraps(n) => Place(IncrementName(n)) = Place(n) + 1
           /\ Wraps(n) => Place(n) + 1 = Cardinality(Names) /\ Place(IncrementName(n)) = 0
<1> DEFINE B == {m \in Names : Before(m, n)}
<1>1. IsFiniteSet(Names) /\ Cardinality(Names) \in Nat
  BY NamesFinite, FS_CardinalityType
<1>2. B \subseteq Names /\ n \notin B
  BY BeforeIsOrder
<1>3. IsFiniteSet(B) /\ Place(n) = Cardinality(B) /\ Place(n) \in Nat
  BY <1>1, <1>2, FS_Subset, FS_CardinalityType DEF Place
<1>4. Cardinality(B \cup {n}) = Place(n) + 1 /\ Cardinality(B \cup {n}) <= Cardinality(Names)
  <2>1. Cardinality(B \cup {n}) = Cardinality(B) + 1
    BY <1>2, <1>3, FS_AddElement
  <2>2. B \cup {n} \subseteq Names
    BY <1>2
  <2> QED
    BY <1>1, <1>3, <2>1, <2>2, FS_Subset
<1>5. ASSUME ~Wraps(n) PROVE Place(IncrementName(n)) = Place(n) + 1
  <2>1. {m \in Names : Before(m, IncrementName(n))} = B \cup {n}
    BY <1>5, IncrementIsNext
  <2> QED
    BY <1>4, <2>1 DEF Place
<1>6. ASSUME Wraps(n) PROVE Place(n) + 1 = Cardinality(Names) /\ Place(IncrementName(n)) = 0
  <2>1. B \cup {n} = Names
    BY <1>6, WrapsToFirst
  <2>2. {m \in Names : Before(m, IncrementName(n))} = {}
    BY <1>6, WrapsToFirst, FirstNameIsFirst
  <2> QED
    BY <1>4, <2>1, <2>2, FS_EmptySet DEF Place
<1> QED
  BY <1>1, <1>3, <1>4, <1>5, <1>6

-----------------------------------------------------------------------------
(* The search of _check_and_get_free_name.                                 *)

\* f is the names from name on, up to the k-th.
NamesFrom(f, name, k) ==
    f = [n \in 0 .. k |-> IF n = 0 THEN name ELSE IncrementName(f[n - 1])]

LEMMA NamesFromExists ==
    ASSUME NEW name
    PROVE  \E f : NamesFrom(f, name, MaxObjects)
<1> DEFINE T == {k \in 0 .. MaxObjects : ~\E f : NamesFrom(f, name, k)}
<1>1. MaxObjects \in Nat
  BY FreeNamesAssumption
<1>2. ASSUME T # {} PROVE FALSE
  <2>10. T \subseteq Nat
    BY <1>1
  <2>1. PICK k \in T : \A j \in T : k <= j
    BY <1>2, <2>10, LeastElement, Zenon
  <2>2. k # 0
    <3>1. NamesFrom([n \in 0 .. 0 |-> name], name, 0)
      BY DEF NamesFrom
    <3> QED
      BY <3>1
  <2>3. k \in 0 .. MaxObjects /\ k - 1 \in 0 .. MaxObjects /\ ~(k <= k - 1)
    BY <1>1, <2>2
  <2>4. PICK f : NamesFrom(f, name, k - 1)
    BY <2>1, <2>3
  <2>5. \A n \in 0 .. k - 1 : f[n] = IF n = 0 THEN name ELSE IncrementName(f[n - 1])
    BY <2>4 DEF NamesFrom
  <2> DEFINE g == [n \in 0 .. k |-> IF n = k THEN IncrementName(f[k - 1]) ELSE f[n]]
  <2>6. \A n \in 0 .. k : g[n] = IF n = k THEN IncrementName(f[k - 1]) ELSE f[n]
    OBVIOUS
  <2>7. ASSUME NEW n \in 0 .. k PROVE g[n] = IF n = 0 THEN name ELSE IncrementName(g[n - 1])
    <3>1. CASE n = 0
      BY <2>2, <2>3, <2>5, <2>6, <3>1
    <3>2. CASE n # 0
      <4>1. n - 1 \in 0 .. k /\ n - 1 # k
        BY <2>3, <3>2
      <4>2. g[n - 1] = f[n - 1]
        BY <2>6, <4>1
      <4>3. n = k \/ n \in 0 .. k - 1
        BY <2>3
      <4> QED
        BY <2>5, <2>6, <3>2, <4>2, <4>3
    <3> QED
      BY <3>1, <3>2
  <2>8. g = [n \in 0 .. k |-> IF n = 0 THEN name ELSE IncrementName(g[n - 1])]
    BY <2>7
  <2> HIDE DEF g
  <2>9. NamesFrom(g, name, k)
    BY <2>8 DEF NamesFrom
  <2> QED
    BY <2>1, <2>9
<1> QED
  BY <1>1, <1>2

LEMMA NameAfterFacts ==
    ASSUME NEW name
    PROVE  /\ NameAfter(name, 0) = name
           /\ \A k \in 1 .. MaxObjects : NameAfter(name, k) = IncrementName(NameAfter(name, k - 1))
<1>1. PICK f : NamesFrom(f, name, MaxObjects) /\ \A k : NameAfter(name, k) = f[k]
  BY NamesFromExists DEF NameAfter, NamesFrom
<1>2. MaxObjects \in Nat
  BY FreeNamesAssumption
<1>3. \A k \in 0 .. MaxObjects : f[k] = IF k = 0 THEN name ELSE IncrementName(f[k - 1])
  BY <1>1 DEF NamesFrom
<1> QED
  BY <1>1, <1>2, <1>3

\* The search goes one place on at a time, and round.
PlaceAfter(name, k) ==
    IF Place(name) + k < Cardinality(Names) THEN Place(name) + k
    ELSE Place(name) + k - Cardinality(Names)

LEMMA NameAfterPlace ==
    ASSUME NEW name \in Names
    PROVE  \A k \in 0 .. MaxObjects :
             NameAfter(name, k) \in Names /\ Place(NameAfter(name, k)) = PlaceAfter(name, k)
<1> DEFINE Fine(k) == NameAfter(name, k) \in Names /\ Place(NameAfter(name, k)) = PlaceAfter(name, k)
           T == {k \in 0 .. MaxObjects : ~Fine(k)}
<1>1. MaxObjects \in Nat /\ MaxObjects < Cardinality(Names)
  BY FreeNamesAssumption DEF Names
<1>2. Place(name) \in Nat /\ Cardinality(Names) \in Nat /\ Place(name) < Cardinality(Names)
  BY PlaceOfNext
<1>3. ASSUME T # {} PROVE FALSE
  <2>8. T \subseteq Nat
    BY <1>1
  <2>1. PICK k \in T : \A j \in T : k <= j
    BY <1>3, <2>8, LeastElement, Zenon
  <2>2. k # 0
    <3>1. Fine(0)
      BY <1>2, NameAfterFacts DEF PlaceAfter
    <3> QED
      BY <3>1
  <2>3. k \in 1 .. MaxObjects /\ k - 1 \in 0 .. MaxObjects /\ ~(k <= k - 1)
    BY <1>1, <2>2
  <2>4. Fine(k - 1)
    BY <2>1, <2>3
  <2>5. PICK n \in Names : n = NameAfter(name, k - 1) /\ Place(n) = PlaceAfter(name, k - 1)
    BY <2>4
  <2>6. NameAfter(name, k) = IncrementName(n) /\ IncrementName(n) \in Names
    BY <2>3, <2>5, NameAfterFacts, IncrementType
  <2>7. Place(IncrementName(n)) = PlaceAfter(name, k)
    <3>1. Place(n) = IF Place(name) + (k - 1) < Cardinality(Names) THEN Place(name) + (k - 1)
                     ELSE Place(name) + (k - 1) - Cardinality(Names)
      BY <2>5 DEF PlaceAfter
    <3>2. /\ Place(n) \in Nat /\ Place(n) < Cardinality(Names)
          /\ Place(IncrementName(n)) = IF Place(n) + 1 = Cardinality(Names) THEN 0 ELSE Place(n) + 1
      <4>1. CASE Wraps(n)
        BY <4>1, PlaceOfNext
      <4>2. CASE ~Wraps(n)
        BY <2>6, <4>2, PlaceOfNext
      <4> QED
        BY <4>1, <4>2
    <3> QED
      BY <1>1, <1>2, <2>3, <3>1, <3>2 DEF PlaceAfter
  <2> QED
    BY <2>1, <2>6, <2>7
<1> QED
  BY <1>3

\* Fewer names are registered than there are, and the search finds a free one.
LEMMA FreeFromFinds ==
    ASSUME NEW name \in Names, registered \subseteq Names, Cardinality(registered) <= MaxObjects
    PROVE  /\ FreeFrom(name) \in 0 .. MaxObjects
           /\ NameAfter(name, FreeFrom(name)) \in Names \ registered
<1> DEFINE T == {k \in 0 .. MaxObjects : NameAfter(name, k) \notin registered}
           f == [k \in 0 .. MaxObjects |-> NameAfter(name, k)]
<1>1. MaxObjects \in Nat /\ MaxObjects < Cardinality(Names)
  BY FreeNamesAssumption DEF Names
<1>2. Place(name) \in Nat /\ Cardinality(Names) \in Nat /\ Place(name) < Cardinality(Names)
  BY PlaceOfNext
<1>3. T # {}
  <2> SUFFICES ASSUME T = {} PROVE FALSE
    OBVIOUS
  <2>1. f \in [0 .. MaxObjects -> registered]
    OBVIOUS
  <2>2. IsFiniteSet(registered) /\ Cardinality(registered) \in Nat
    BY NamesFinite, FS_Subset, FS_CardinalityType
  <2>3. IsFiniteSet(0 .. MaxObjects) /\ Cardinality(0 .. MaxObjects) = MaxObjects + 1
    BY <1>1, FS_Interval
  <2>4. Cardinality(registered) < Cardinality(0 .. MaxObjects)
    BY <1>1, <2>2, <2>3
  <2>5. PICK j, k \in 0 .. MaxObjects : j # k /\ f[j] = f[k]
    <3> HIDE DEF f
    <3>1. PICK S : S = 0 .. MaxObjects
      OBVIOUS
    <3>2. /\ IsFiniteSet(S) /\ IsFiniteSet(registered) /\ f \in [S -> registered]
          /\ Cardinality(registered) < Cardinality(S)
      BY <2>1, <2>2, <2>3, <2>4, <3>1, Zenon
    <3>3. \E x, y \in S : x # y /\ f[x] = f[y]
      BY <3>2, FS_PigeonHole
    <3> QED
      BY <3>1, <3>3, Zenon
  <2>6. PlaceAfter(name, j) = PlaceAfter(name, k)
    BY <2>5, NameAfterPlace
  <2> QED
    BY <1>1, <1>2, <2>5, <2>6 DEF PlaceAfter
<1>7. T \subseteq Nat
  BY <1>1
<1>4. PICK k \in T : \A j \in T : k <= j
  BY <1>3, <1>7, LeastElement, Zenon
<1>5. /\ k \in 0 .. MaxObjects /\ NameAfter(name, k) \notin registered
      /\ \A j \in 0 .. k - 1 : NameAfter(name, j) \in registered
  <2>1. \A j \in 0 .. k - 1 : j \in 0 .. MaxObjects /\ ~(k <= j)
    BY <1>1
  <2> QED
    BY <1>4, <2>1
<1>6. FreeFrom(name) \in 0 .. MaxObjects /\ NameAfter(name, FreeFrom(name)) \notin registered
  BY <1>5 DEF FreeFrom
<1> QED
  BY <1>6, NameAfterPlace

-----------------------------------------------------------------------------
(* The names that are given.                                               *)

\* Until the counter has gone round, every name in use comes before it and is
\* held once.
RoundInv ==
    /\ GoesRoundOnce
    /\ ~names_exhausted =>
         /\ \A n \in registered : Before(n, next_free_name)
         /\ \A c \in Callers : held[c] # NoName => Before(held[c], next_free_name)
         /\ \A c, d \in Callers : held[c] # NoName /\ held[c] = held[d] => c = d

\* urt_get_free_name gives a name that is not in the registry and moves the
\* counter behind it.
LEMMA NameGiven ==
    ASSUME RoundInv, NEW c \in Callers, GetFreeName(c)
    PROVE  \E name \in Names \ registered :
             /\ ~names_exhausted => name = next_free_name
             /\ held' = [held EXCEPT ![c] = name]
             /\ next_free_name' = IncrementName(name)
             /\ names_exhausted' = (names_exhausted \/ Wraps(name))
<1> DEFINE k == IF names_exhausted THEN FreeFrom(next_free_name) ELSE 0
           name == NameAfter(next_free_name, k)
<1>1. next_free_name \in Names /\ registered \subseteq Names /\ Cardinality(registered) <= MaxObjects
  BY DEF RoundInv, GoesRoundOnce, NamesTypeOK
<1>2. /\ held' = [held EXCEPT ![c] = name]
      /\ next_free_name' = IncrementName(name)
      /\ names_exhausted' = (names_exhausted \/ Wraps(name))
  BY DEF GetFreeName
<1>3. CASE names_exhausted
  <2>1. name \in Names \ registered
    BY <1>1, <1>3, FreeFromFinds
  <2> QED
    BY <1>2, <1>3, <2>1
<1>4. CASE ~names_exhausted
  <2>1. name = next_free_name
    BY <1>4, NameAfterFacts
  <2>2. name \notin registered
    BY <1>1, <1>4, <2>1, BeforeIsOrder DEF RoundInv
  <2> QED
    BY <1>1, <1>2, <2>1, <2>2
<1> QED
  BY <1>3, <1>4

LEMMA RoundInvInit == NamesInit => RoundInv
<1> SUFFICES ASSUME NamesInit PROVE RoundInv
  OBVIOUS
<1>1. Cardinality({}) = 0
  BY FS_EmptySet
<1>2. NamesTypeOK
  <2>1. next_free_name \in Names /\ names_exhausted \in BOOLEAN
    BY FirstNameIsFirst DEF NamesInit
  <2>2. registered \subseteq Names /\ Cardinality(registered) <= MaxObjects /\ given \in Nat
    BY <1>1, FreeNamesAssumption DEF NamesInit
  <2>3. /\ held \in [Callers -> Names \cup {NoName}]
        /\ owns \in [Callers -> BOOLEAN] /\ runs \in [Callers -> BOOLEAN]
        /\ refused \in BOOLEAN
    BY DEF NamesInit
  <2> QED
    BY <2>1, <2>2, <2>3 DEF NamesTypeOK
<1>3. Place(FirstName) = 0
  <2>1. {m \in Names : Before(m, FirstName)} = {}
    BY FirstNameIsFirst
  <2> QED
    BY <1>1, <2>1 DEF Place
<1> QED
  BY <1>2, <1>3 DEF NamesInit, RoundInv, GoesRoundOnce

LEMMA GetFreeNameStep ==
    ASSUME RoundInv, NEW c \in Callers, GetFreeName(c)
    PROVE  RoundInv'
<1>1. PICK name \in Names \ registered :
        /\ ~names_exhausted => name = next_free_name
        /\ held' = [held EXCEPT ![c] = name]
        /\ next_free_name' = IncrementName(name)
        /\ names_exhausted' = (names_exhausted \/ Wraps(name))
  BY NameGiven
<1>2. /\ given' = (IF names_exhausted THEN given ELSE given + 1)
      /\ UNCHANGED <<registered, owns, runs, refused>>
  BY DEF GetFreeName
<1>3. NamesTypeOK /\ given = (IF names_exhausted THEN Cardinality(Names) ELSE Place(next_free_name))
      /\ (refused => names_exhausted)
  BY DEF RoundInv, GoesRoundOnce
<1>4. NamesTypeOK'
  <2>1. next_free_name' \in Names
    BY <1>1, IncrementType
  <2>2. held' \in [Callers -> Names \cup {NoName}] /\ names_exhausted' \in BOOLEAN
    BY <1>1, <1>3 DEF NamesTypeOK, Wraps
  <2>3. given' \in Nat
    BY <1>2, <1>3 DEF NamesTypeOK
  <2> QED
    BY <1>2, <1>3, <2>1, <2>2, <2>3 DEF NamesTypeOK
<1>5. given' = IF names_exhausted' THEN Cardinality(Names) ELSE Place(next_free_name')
  BY <1>1, <1>2, <1>3, PlaceOfNext
<1>6. ASSUME ~names_exhausted'
      PROVE  /\ \A n \in registered' : Before(n, next_free_name')
             /\ \A d \in Callers : held'[d] # NoName => Before(held'[d], next_free_name')
             /\ \A d, e \in Callers : held'[d] # NoName /\ held'[d] = held'[e] => d = e
  <2>1. ~names_exhausted /\ name = next_free_name /\ ~Wraps(name)
    BY <1>1, <1>6
  <2>2. \A m \in Names : Before(m, next_free_name') <=> Before(m, name) \/ m = name
    BY <1>1, <2>1, IncrementIsNext
  <2>3. /\ registered \subseteq Names
        /\ \A d \in Callers : held[d] \in Names \cup {NoName}
        /\ \A d \in Callers : held'[d] = IF d = c THEN name ELSE held[d]
    BY <1>1, <1>3 DEF NamesTypeOK
  <2>4. /\ \A n \in registered : Before(n, name)
        /\ \A d \in Callers : held[d] # NoName => Before(held[d], name)
        /\ \A d, e \in Callers : held[d] # NoName /\ held[d] = held[e] => d = e
    BY <2>1 DEF RoundInv
  <2>5. \A d \in Callers : held[d] # NoName => held[d] # name
    BY <2>4, BeforeIsOrder
  <2> QED
    BY <1>2, <2>2, <2>3, <2>4, <2>5
<1> QED
  BY <1>2, <1>3, <1>1, <1>4, <1>5, <1>6 DEF RoundInv, GoesRoundOnce

LEMMA RegisterStep ==
    ASSUME RoundInv, NEW c \in Callers, Register(c)
    PROVE  RoundInv'
<1>1. /\ held[c] \in Names
      /\ UNCHANGED <<next_free_name, names_exhausted, held, runs, refused, given>>
      /\ \/ UNCHANGED <<registered, owns>>
         \/ /\ held[c] \notin registered /\ Cardinality(registered) # MaxObjects
            /\ registered' = registered \cup {held[c]}
            /\ owns' = [owns EXCEPT ![c] = TRUE]
  BY DEF Register
<1>2. NamesTypeOK
  BY DEF RoundInv, GoesRoundOnce
<1>3. registered' \subseteq Names /\ Cardinality(registered') <= MaxObjects
  <2>1. CASE registered' = registered
    BY <1>2, <2>1 DEF NamesTypeOK
  <2>2. CASE registered' # registered
    <3>1. /\ held[c] \notin registered /\ Cardinality(registered) # MaxObjects
          /\ registered' = registered \cup {held[c]}
      BY <1>1, <2>2
    <3>2. registered \subseteq Names /\ Cardinality(registered) <= MaxObjects
      BY <1>2 DEF NamesTypeOK
    <3>3. IsFiniteSet(registered) /\ Cardinality(registered) \in Nat
      BY <3>2, NamesFinite, FS_Subset, FS_CardinalityType
    <3>4. Cardinality(registered') = Cardinality(registered) + 1
      BY <3>1, <3>3, FS_AddElement
    <3> QED
      BY <1>1, <3>1, <3>2, <3>3, <3>4, FreeNamesAssumption
  <2> QED
    BY <2>1, <2>2
<1>4. NamesTypeOK'
  BY <1>1, <1>2, <1>3 DEF NamesTypeOK
<1>5. GoesRoundOnce'
  BY <1>1, <1>4 DEF RoundInv, GoesRoundOnce
<1>6. \A n \in registered' : n \in registered \/ n = held[c]
  BY <1>1
<1> QED
  BY <1>1, <1>5, <1>6, NoNameIsNone DEF RoundInv

\* A name is let go of, by a task that ends or is refused, or with an object.
LEMMA NameLeft ==
    ASSUME RoundInv,
           UNCHANGED <<next_free_name, names_exhausted, given>>,
           held' = held \/ \E c \in Callers : held' = [held EXCEPT ![c] = NoName],
           registered' \subseteq registered,
           owns' \in [Callers -> BOOLEAN], runs' \in [Callers -> BOOLEAN], refused' \in BOOLEAN,
           refused' => names_exhausted
    PROVE  RoundInv'
<1>1. NamesTypeOK
  BY DEF RoundInv, GoesRoundOnce
<1>2. held' \in [Callers -> Names \cup {NoName}]
  BY <1>1 DEF NamesTypeOK
<1>3. Cardinality(registered') <= MaxObjects
  <2>1. IsFiniteSet(registered) /\ Cardinality(registered) \in Nat /\ Cardinality(registered) <= MaxObjects
    BY <1>1, NamesFinite, FS_Subset, FS_CardinalityType DEF NamesTypeOK
  <2>2. IsFiniteSet(registered') /\ Cardinality(registered') <= Cardinality(registered)
    BY <2>1, FS_Subset
  <2>3. Cardinality(registered') \in Nat
    BY <2>2, FS_CardinalityType
  <2> QED
    BY <2>1, <2>2, <2>3, FreeNamesAssumption
<1>4. NamesTypeOK'
  BY <1>1, <1>2, <1>3 DEF NamesTypeOK
<1>5. GoesRoundOnce'
  BY <1>4 DEF RoundInv, GoesRoundOnce
<1>6. \A d \in Callers : held'[d] = held[d] \/ held'[d] = NoName
  BY <1>1 DEF NamesTypeOK
<1> QED
  BY <1>5, <1>6 DEF RoundInv

LEMMA RoundInvNext == RoundInv /\ [Next]_vars => RoundInv'
<1> SUFFICES ASSUME RoundInv, [Next]_vars PROVE RoundInv'
  OBVIOUS
<1>1. NamesTypeOK /\ (refused => names_exhausted)
  BY DEF RoundInv, GoesRoundOnce
<1>2. CASE UNCHANGED names
  BY <1>2 DEF names, RoundInv, GoesRoundOnce, NamesTypeOK
<1>3. ASSUME NEW c \in Callers, TaskInit(c) PROVE RoundInv'
  <2>1. refused' => names_exhausted
    <3>1. CASE \E d \in Callers : runs[d] /\ held[d] = held[c]
      <4>1. PICK d \in Callers : runs[d] /\ held[d] = held[c]
        BY <3>1
      <4>2. d # c /\ held[c] # NoName
        BY <1>3, <4>1, NoNameIsNone DEF TaskInit
      <4> QED
        BY <4>1, <4>2 DEF RoundInv
    <3>2. CASE ~\E d \in Callers : runs[d] /\ held[d] = held[c]
      BY <1>1, <1>3, <3>2 DEF TaskInit
    <3> QED
      BY <3>1, <3>2
  <2>2. /\ UNCHANGED <<next_free_name, names_exhausted, given, registered, owns>>
        /\ held' = held \/ held' = [held EXCEPT ![c] = NoName]
        /\ runs' = runs \/ runs' = [runs EXCEPT ![c] = TRUE]
        /\ refused' \in {refused, TRUE}
    BY <1>3 DEF TaskInit
  <2>3. owns' \in [Callers -> BOOLEAN] /\ runs' \in [Callers -> BOOLEAN] /\ refused' \in BOOLEAN
    BY <1>1, <2>2 DEF NamesTypeOK
  <2> QED
    BY <2>1, <2>2, <2>3, NameLeft
<1>4. ASSUME NEW c \in Callers, Leave(c) PROVE RoundInv'
  <2>1. /\ UNCHANGED <<next_free_name, names_exhausted, refused, given>>
        /\ held' = [held EXCEPT ![c] = NoName] /\ registered' \subseteq registered
        /\ owns' = [owns EXCEPT ![c] = FALSE] /\ runs' = [runs EXCEPT ![c] = FALSE]
    BY <1>4 DEF Leave, Forget
  <2>2. owns' \in [Callers -> BOOLEAN] /\ runs' \in [Callers -> BOOLEAN] /\ refused' \in BOOLEAN
    BY <1>1, <2>1 DEF NamesTypeOK
  <2> QED
    BY <1>1, <2>1, <2>2, NameLeft
<1>5. CASE DetachDump
  <2>1. /\ UNCHANGED <<next_free_name, names_exhausted, held, owns, runs, refused, given>>
        /\ registered' \subseteq registered
    BY <1>5 DEF DetachDump
  <2>2. owns' \in [Callers -> BOOLEAN] /\ runs' \in [Callers -> BOOLEAN] /\ refused' \in BOOLEAN
    BY <1>1, <2>1 DEF NamesTypeOK
  <2> QED
    BY <1>1, <2>1, <2>2, NameLeft
<1>6. ASSUME NEW c \in Callers, GetFreeName(c) PROVE RoundInv'
  BY <1>6, GetFreeNameStep
<1>7. ASSUME NEW c \in Callers, NEW b \in Sizes, Reserve(c, b) PROVE RoundInv'
  BY <1>7, RegisterStep DEF Reserve
<1>8. ASSUME NEW c \in Callers, SetType(c) \/ SetSize(c) \/ AddBook(c) \/ Look(c) PROVE UNCHANGED names
  BY <1>8 DEF SetType, SetSize, AddBook, Look
<1>9. ASSUME AttachDump PROVE UNCHANGED names
  BY <1>9 DEF AttachDump
<1>10. ASSUME UNCHANGED vars PROVE UNCHANGED names
  BY <1>10 DEF vars
<1> QED
  BY <1>2, <1>3, <1>4, <1>5, <1>6, <1>7, <1>8, <1>9, <1>10 DEF Next

(* The counter of urt_get_free_name goes through all the names in order    *)
(* before it is marked as gone round, whatever their length and number of  *)
(* characters, and until then no two callers have the same name.           *)
THEOREM GoesRoundOnceHolds == Spec => []GoesRoundOnce
<1>1. RoundInv => GoesRoundOnce
  BY DEF RoundInv
<1>2. Init => RoundInv
  BY RoundInvInit DEF Init
<1> QED
  BY <1>1, <1>2, RoundInvNext, PTL DEF Spec

(* urt_get_free_name never gives a name that is in the registry, before    *)
(* the counter has gone round and after.                                   *)
THEOREM NotRegisteredHolds == Spec => NotRegistered
<1> DEFINE A == \A c \in Callers : held[c] = NoName /\ held'[c] # NoName => held'[c] \notin registered
<1>1. RoundInv /\ [Next]_vars => [A]_names
  <2> SUFFICES ASSUME RoundInv, [Next]_vars, NEW c \in Callers, held[c] = NoName, held'[c] # NoName
               PROVE  held'[c] \notin registered
    OBVIOUS
  <2>1. \E d \in Callers : GetFreeName(d)
    BY DEF Next, vars, names, TaskInit, Reserve, Register, SetType, SetSize, AddBook, Leave, Forget,
           Look, AttachDump, DetachDump, RoundInv, GoesRoundOnce, NamesTypeOK
  <2>2. PICK d \in Callers : GetFreeName(d)
    BY <2>1
  <2>3. PICK name \in Names \ registered : held' = [held EXCEPT ![d] = name]
    BY <2>2, NameGiven
  <2> QED
    BY <2>3 DEF RoundInv, GoesRoundOnce, NamesTypeOK
<1>2. Init => RoundInv
  BY RoundInvInit DEF Init
<1> QED
  BY <1>1, <1>2, RoundInvNext, PTL DEF Spec, NotRegistered
=============================================================================
