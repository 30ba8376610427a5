---------------------------- MODULE SetupProofs ----------------------------
(***************************************************************************)
(* The properties of Setup for any number of processes, builds, segments   *)
(* and crashes.                                                            *)
(***************************************************************************)
EXTENDS Setup, FiniteSetTheorems, TLAPS

\* A crash is counted before it can leave the semaphore taken, and a segment
\* is created before it has the name.
SemInv ==
    /\ SemAccounted
    /\ stuck <= crashes
    /\ linked <= created

\* A process has the registry's memory from urt_global_mem_get on, and it is
\* the memory of the name unless a failed mmap took the name away.
HandleInv ==
    \A p \in Procs :
        /\ pc[p] \in {"wait", "get_mem"} => hmem[p] = 0
        /\ pc[p] \in {"registry_init", "fill"} => hmem[p] # 0
        /\ pc[p] = "post" /\ ret[p] = "ok" => hmem[p] # 0
        /\ ready[p] => pc[p] = "out" /\ hmem[p] # 0
        /\ hmem[p] # 0 /\ "mmap" \notin failed => hmem[p] = linked

\* A process that is through with urt_registry_init and has the memory.
Joined(p) == pc[p] \in {"post", "out"} /\ hmem[p] # 0

\* Processes of one build never mistake the registry for one not initialized.
BuildInv ==
    OneBuild =>
        /\ \A s \in Segments, p \in Procs : initBy[s] \in {0, buildOf[p]}
        /\ \A s \in Segments : filled[s] => initBy[s] # 0
        /\ \A p \in Procs : pc[p] = "fill" => initBy[hmem[p]] # 0
        /\ \A p \in Procs : Joined(p) =>
             initBy[hmem[p]] # 0 /\ IF pc[p] = "post" THEN ret[p] = "ok" ELSE ready[p]

\* Without crashes, whoever marked the registry goes on to fill it.
FillInv ==
    OneBuild /\ crashes = 0 =>
        /\ \A s \in Segments : initBy[s] # 0 => filled[s] \/ \E p \in Procs : pc[p] = "fill" /\ hmem[p] = s
        /\ \A p \in Procs : Joined(p) => filled[hmem[p]]

\* The segment was never smaller than the registry that was marked in it last,
\* unless another build opened it, which for processes of one build only
\* urt_recover does: the mark of a registry in use is not cut off.
KeptInv ==
    /\ \A s \in Segments : kept[s] <= initBy[s]
    /\ OneBuild => \A p \in Procs : Joined(p) \/ pc[p] = "fill" => kept[hmem[p]] = initBy[hmem[p]]

SetupInv == SemInv /\ HandleInv /\ BuildInv /\ FillInv /\ KeptInv

-----------------------------------------------------------------------------
LEMMA BuildsAreNumbers == 0 \notin Builds /\ \A b \in Builds \cup {0} : b \in Nat
<1>1. Builds \subseteq Nat \ {0}
  BY SetupAssumption
<1>2. \A b : b \in Builds => b \in Nat /\ b # 0
  BY <1>1, Zenon
<1> QED
  BY <1>2

Holders == {p \in Procs : pc[p] \in Locked}

LEMMA HoldersFinite == IsFiniteSet(Holders) /\ Cardinality(Holders) \in Nat
<1>1. Holders \in SUBSET Procs
  BY DEF Holders
<1> QED
  BY <1>1, SetupAssumption, FS_Subset, FS_CardinalityType

\* The number of holders after a step of p.
LEMMA HoldersAfter ==
    ASSUME NEW p \in Procs, \A q \in Procs : q # p => pc'[q] = pc[q]
    PROVE  /\ (pc'[p] \in Locked <=> pc[p] \in Locked) => Cardinality(Holders') = Cardinality(Holders)
           /\ pc'[p] \in Locked /\ pc[p] \notin Locked => Cardinality(Holders') = Cardinality(Holders) + 1
           /\ pc'[p] \notin Locked /\ pc[p] \in Locked => Cardinality(Holders') = Cardinality(Holders) - 1
<1>1. Holders' = {q \in Procs : pc'[q] \in Locked}
  BY DEF Holders, Locked
<1>2. (pc'[p] \in Locked <=> pc[p] \in Locked) => Holders' = Holders
  BY <1>1 DEF Holders
<1>3. pc'[p] \in Locked /\ pc[p] \notin Locked => Holders' = Holders \cup {p} /\ p \notin Holders
  BY <1>1 DEF Holders
<1>4. pc'[p] \notin Locked /\ pc[p] \in Locked => Holders' = Holders \ {p} /\ p \in Holders
  BY <1>1 DEF Holders
<1> QED
  BY <1>2, <1>3, <1>4, HoldersFinite, FS_AddElement, FS_RemoveElement

\* One process at a time is in urt_init with the semaphore.
LEMMA OneHolder ==
    ASSUME SemInv
    PROVE  /\ \A p, q \in Procs : pc[p] \in Locked /\ pc[q] \in Locked => p = q
           /\ \A p \in Procs : pc[p] \in Locked => gsem = 0 /\ stuck = 0 /\ Cardinality(Holders) = 1
<1>1. gsem + stuck + Cardinality(Holders) = 1 /\ gsem \in Nat /\ stuck \in Nat
  BY SetupAssumption DEF SemInv, SemAccounted, TypeOK, Holders
<1>2. Cardinality(Holders) \in Nat /\ Cardinality(Holders) <= 1
  BY <1>1, HoldersFinite
<1>3. ASSUME NEW p \in Procs, pc[p] \in Locked PROVE Cardinality(Holders) = 1 /\ Holders = {p}
  <2>1. p \in Holders
    BY <1>3 DEF Holders
  <2>2. Cardinality(Holders) = 1
    BY <1>2, <2>1, HoldersFinite, FS_EmptySet
  <2>3. PICK x : Holders = {x}
    BY <2>2, HoldersFinite, FS_Singleton
  <2> QED
    BY <2>1, <2>2, <2>3
<1>4. ASSUME NEW p \in Procs, NEW q \in Procs, pc[p] \in Locked, pc[q] \in Locked PROVE p = q
  <2>1. Holders = {p} /\ Holders = {q}
    BY <1>3, <1>4
  <2> QED
    BY <2>1
<1> QED
  BY <1>1, <1>3, <1>4

LEMMA KeptNumbers ==
    ASSUME SemInv
    PROVE  \A s \in Segments : kept[s] \in Nat /\ initBy[s] \in Nat /\ kept[s] <= kept[s]
<1>1. \A s \in Segments : kept[s] \in Builds \cup {0} /\ initBy[s] \in Builds \cup {0}
  BY DEF SemInv, SemAccounted, TypeOK
<1>2. \A b \in Builds \cup {0} : b \in Nat /\ b <= b
  BY BuildsAreNumbers
<1> QED
  BY <1>1, <1>2, Zenon

LEMMA SetupInvInit == Init => SetupInv
<1> SUFFICES ASSUME Init PROVE SetupInv
  OBVIOUS
<1> USE DEF Init
<1>1. TypeOK
  BY SetupAssumption DEF TypeOK, Segments, Locked
<1>2. Holders = {}
  BY DEF Holders, Locked
<1>3. SemInv
  <2>1. Cardinality(Holders) = 0
    BY <1>2, FS_EmptySet
  <2> QED
    BY <1>1, <2>1 DEF SemInv, SemAccounted, Holders
<1>4. HandleInv /\ BuildInv /\ FillInv /\ KeptInv
  BY DEF HandleInv, BuildInv, FillInv, KeptInv, Joined
<1> QED
  BY <1>3, <1>4 DEF SetupInv

\* What urt_global_mem_get does to the name and the segments.
LEMMA OpenSegment ==
    ASSUME SemInv, NEW b \in Builds, NEW mapped \in BOOLEAN, Open(b, mapped)
    PROVE  /\ linked' \in 0 .. MaxSegments /\ created' \in 0 .. MaxSegments /\ linked' <= created'
           /\ kept' \in [Segments -> Builds \cup {0}]
           /\ \A q \in Segments : kept'[q] <= kept[q] /\ (kept[q] <= b => kept'[q] = kept[q])
           /\ mapped => linked' # 0 /\ (linked # 0 => linked' = linked)
           /\ UNCHANGED <<initBy, filled>>
<1> DEFINE s == IF linked = 0 THEN created + 1 ELSE linked
<1>1. linked \in 0 .. MaxSegments /\ created \in 0 .. MaxSegments /\ MaxSegments \in Nat
      /\ kept \in [Segments -> Builds \cup {0}] /\ linked <= created
  BY SetupAssumption DEF SemInv, SemAccounted, TypeOK
<1>2. s \in 1 .. MaxSegments
  BY <1>1 DEF Open
<1>3. /\ linked' = IF mapped THEN s ELSE 0
      /\ created' = IF linked = 0 THEN s ELSE created
      /\ kept' = [kept EXCEPT ![s] = IF b < @ THEN b ELSE @]
      /\ UNCHANGED <<initBy, filled>>
  BY DEF Open
<1>4. kept' \in [Segments -> Builds \cup {0}]
  BY <1>1, <1>3
<1>5. ASSUME NEW q \in Segments PROVE kept'[q] <= kept[q] /\ (kept[q] <= b => kept'[q] = kept[q])
  <2>1. kept[q] \in Builds \cup {0}
    BY <1>1
  <2>2. kept[q] \in Nat /\ b \in Nat
    BY ONLY <2>1, b \in Builds, BuildsAreNumbers
  <2>3. kept'[q] = kept[q] \/ (b < kept[q] /\ kept'[q] = b)
    BY <1>1, <1>3
  <2> QED
    BY <2>2, <2>3
<1> QED
  BY <1>1, <1>2, <1>3, <1>4, <1>5

LEMMA InitAndWaitStep ==
    ASSUME SetupInv, NEW p \in Procs, UrtInit(p) \/ Wait(p)
    PROVE  SetupInv'
<1> USE DEF SetupInv
<1> USE SetupAssumption DEF SemInv, SemAccounted, TypeOK
<1>1. /\ UNCHANGED <<buildOf, linked, created, initBy, kept, filled, hmem, ready, stuck, crashes>>
      /\ \A q \in Procs : q # p => pc'[q] = pc[q] /\ ret'[q] = ret[q]
      /\ failed \subseteq failed' /\ ("mmap" \in failed' => "mmap" \in failed)
  BY DEF UrtInit, Wait, Goto, shared
<1>2. \/ pc[p] = "out" /\ pc'[p] = "out"
      \/ pc[p] = "out" /\ pc'[p] = "wait" /\ hmem[p] = 0
      \/ pc[p] = "wait" /\ pc'[p] = "get_mem" /\ UNCHANGED ret
  BY DEF UrtInit, Wait, Goto
<1>3. TypeOK'
  <2>1. pc' \in [Procs -> {"out", "wait"} \cup Locked]
    BY DEF UrtInit, Wait, Goto, Locked
  <2>2. hsem' \in [Procs -> BOOLEAN] /\ ret' \in [Procs -> {"none", "ok", "EALREADY", "EBUSY", "error"}]
    BY DEF UrtInit, Wait
  <2>3. failed' \subseteq Faults
    <3>1. failed' = failed \/ ("sem_open" \in Faults /\ failed' = failed \cup {"sem_open"})
      BY DEF UrtInit, Wait
    <3>2. failed \subseteq Faults
      OBVIOUS
    <3> QED
      BY ONLY <3>1, <3>2
  <2>4. gsem' \in 0 .. 1
    BY DEF UrtInit, Wait
  <2> QED
    BY <1>1, <2>1, <2>2, <2>3, <2>4
<1>4. SemInv'
  <2>1. gsem' + stuck' + Cardinality(Holders') = 1
    <3>1. gsem + stuck + Cardinality(Holders) = 1 /\ Cardinality(Holders) \in Nat
      BY HoldersFinite DEF Holders
    <3>2. CASE pc[p] = "wait"
      <4>1. gsem = 1 /\ gsem' = 0 /\ pc'[p] \in Locked /\ pc[p] \notin Locked
        BY <1>2, <3>2 DEF UrtInit, Wait, Locked
      <4> QED
        BY <1>1, <3>1, <4>1, HoldersAfter
    <3>3. CASE pc[p] = "out"
      <4>1. gsem' = gsem /\ pc'[p] \notin Locked /\ pc[p] \notin Locked
        BY <1>2, <3>3 DEF UrtInit, Wait, Locked
      <4> QED
        BY <1>1, <3>1, <4>1, HoldersAfter
    <3> QED
      BY <1>2, <3>2, <3>3
  <2> QED
    BY <1>1, <1>3, <2>1 DEF Holders
<1>5. HandleInv'
  BY <1>1, <1>2 DEF HandleInv
<1>6. BuildInv' /\ FillInv'
  <2>1. \A q \in Procs : /\ Joined(q)' <=> Joined(q)
                         /\ pc'[q] = "fill" <=> pc[q] = "fill"
                         /\ pc'[q] = "post" <=> pc[q] = "post"
                         /\ Joined(q) /\ pc[q] = "post" => ret'[q] = ret[q]
    BY <1>1, <1>2 DEF Joined, HandleInv
  <2>2. OneBuild' <=> OneBuild
    BY <1>1 DEF OneBuild
  <2>3. BuildInv'
    BY <1>1, <2>1, <2>2 DEF BuildInv
  <2>4. FillInv'
    BY <1>1, <2>1, <2>2 DEF FillInv
  <2> QED
    BY <2>3, <2>4
<1>7. KeptInv'
  <2>1. \A q \in Procs : (Joined(q)' \/ pc'[q] = "fill") <=> (Joined(q) \/ pc[q] = "fill")
    BY <1>1, <1>2 DEF Joined
  <2>2. OneBuild' <=> OneBuild
    BY <1>1 DEF OneBuild
  <2> QED
    BY <1>1, <2>1, <2>2 DEF KeptInv
<1> QED
  BY <1>4, <1>5, <1>6, <1>7

LEMMA GetMemStep ==
    ASSUME SetupInv, NEW p \in Procs, GetMem(p)
    PROVE  SetupInv'
<1> USE DEF SetupInv
<1> USE SetupAssumption DEF SemInv, SemAccounted, TypeOK
<1>1. /\ pc[p] = "get_mem" /\ hmem[p] = 0 /\ pc'[p] \in {"post", "registry_init"}
      /\ UNCHANGED <<buildOf, gsem, initBy, filled, hsem, ready, stuck, crashes>>
      /\ \A q \in Procs : q # p => pc'[q] = pc[q] /\ ret'[q] = ret[q] /\ hmem'[q] = hmem[q]
      /\ pc' \in [Procs -> {"out", "wait"} \cup Locked]
      /\ ret' \in [Procs -> {"none", "ok", "EALREADY", "EBUSY", "error"}]
  BY DEF GetMem, OpenFails, Open, Fail, Goto, HandleInv, Locked, shared
<1>2. /\ linked' \in 0 .. MaxSegments /\ created' \in 0 .. MaxSegments /\ linked' <= created'
      /\ kept' \in [Segments -> Builds \cup {0}]
      /\ \A q \in Segments : kept'[q] <= kept[q] /\ (kept[q] <= buildOf[p] => kept'[q] = kept[q])
      /\ "mmap" \notin failed' => linked = 0 \/ linked' = linked
      /\ pc'[p] = "registry_init" => linked' # 0
  <2>1. CASE UNCHANGED shared /\ pc'[p] # "registry_init"
    <3>1. \A q \in Segments : kept[q] <= kept[q]
      BY KeptNumbers
    <3> QED
      BY <2>1, <3>1 DEF shared
  <2>2. CASE "mmap" \in failed' /\ Open(buildOf[p], FALSE) /\ pc'[p] # "registry_init"
    BY <2>2, OpenSegment
  <2>3. CASE Open(buildOf[p], TRUE)
    BY <2>3, OpenSegment
  <2> QED
    BY <2>1, <2>2, <2>3 DEF GetMem, OpenFails, Fail, Goto
<1>3. /\ failed' \subseteq Faults /\ failed \subseteq failed'
      /\ hmem' \in [Procs -> 0 .. MaxSegments]
      /\ hmem'[p] = IF pc'[p] = "registry_init" THEN linked' ELSE 0
      /\ pc'[p] = "post" => ret'[p] = "error"
  <2>1. failed \subseteq Faults
    OBVIOUS
  <2>2. \/ failed' = failed
        \/ "shm_open" \in Faults /\ failed' = failed \cup {"shm_open"}
        \/ "mmap" \in Faults /\ failed' = failed \cup {"mmap"}
    BY DEF GetMem, OpenFails
  <2>3. failed' \subseteq Faults /\ failed \subseteq failed'
    BY ONLY <2>1, <2>2
  <2>4. \/ hmem' = hmem /\ ret'[p] = "error" /\ pc'[p] = "post"
        \/ hmem' = [hmem EXCEPT ![p] = linked'] /\ pc'[p] = "registry_init"
    BY DEF GetMem, Fail, Goto
  <2> QED
    BY <1>1, <1>2, <2>3, <2>4
<1>4. SemInv'
  <2>1. Cardinality(Holders') = Cardinality(Holders)
    BY <1>1, HoldersAfter DEF Locked
  <2> QED
    BY <1>1, <1>2, <1>3, <2>1 DEF Holders
<1>5. HandleInv'
  BY <1>1, <1>2, <1>3 DEF HandleInv
<1>6. BuildInv' /\ FillInv'
  <2>1. \A q \in Procs : /\ Joined(q)' <=> Joined(q)
                         /\ pc'[q] = "fill" <=> pc[q] = "fill"
                         /\ Joined(q) => q # p
    BY <1>1, <1>3 DEF Joined
  <2>2. OneBuild' <=> OneBuild
    BY <1>1 DEF OneBuild
  <2>3. BuildInv'
    BY <1>1, <2>1, <2>2 DEF BuildInv
  <2>4. FillInv'
    BY <1>1, <2>1, <2>2 DEF FillInv
  <2> QED
    BY <2>3, <2>4
<1>7. KeptInv'
  <2>1. \A q \in Segments : kept'[q] <= initBy'[q]
    <3>1. \A q \in Segments : kept'[q] <= kept[q] /\ kept[q] <= initBy[q] /\ initBy'[q] = initBy[q]
      BY <1>1, <1>2 DEF KeptInv
    <3>2. \A q \in Segments : kept'[q] \in Nat /\ kept[q] \in Nat /\ initBy[q] \in Nat
      BY <1>2, KeptNumbers, BuildsAreNumbers
    <3> QED
      BY ONLY <3>1, <3>2
  <2>2. ASSUME OneBuild, NEW q \in Procs, Joined(q)' \/ pc'[q] = "fill"
        PROVE  kept'[hmem'[q]] = initBy'[hmem'[q]]
    <3>1. q # p /\ (Joined(q) \/ pc[q] = "fill") /\ hmem'[q] = hmem[q] /\ hmem[q] \in Segments
      BY <1>1, <1>3, <2>2 DEF Joined, HandleInv, Segments
    <3>2. kept[hmem[q]] = initBy[hmem[q]] /\ initBy[hmem[q]] \in {0, buildOf[p]}
      BY <2>2, <3>1 DEF KeptInv, BuildInv
    <3>3. buildOf[p] \in Builds
      OBVIOUS
    <3>4. kept[hmem[q]] <= buildOf[p]
      BY ONLY <3>2, <3>3, BuildsAreNumbers
    <3> QED
      BY <1>1, <1>2, <3>1, <3>2, <3>4
  <2>3. OneBuild' <=> OneBuild
    BY <1>1 DEF OneBuild
  <2> QED
    BY <2>1, <2>2, <2>3 DEF KeptInv
<1> QED
  BY <1>4, <1>5, <1>6, <1>7

\* What urt_registry_init finds: its own build's mark or a larger build's
\* data, or something it takes for a registry not initialized.
LEMMA RegistryInitOutcome ==
    ASSUME SetupInv, NEW p \in Procs, RegistryInit(p), NEW s \in Segments, s = hmem[p]
    PROVE  \/ /\ pc' = [pc EXCEPT ![p] = "post"] /\ UNCHANGED <<initBy, kept, filled>>
              /\ initBy[s] >= buildOf[p] /\ ~(kept[s] < buildOf[p])
              /\ ret' = [ret EXCEPT ![p] = IF initBy[s] = buildOf[p] THEN "ok" ELSE "EBUSY"]
           \/ /\ pc' = [pc EXCEPT ![p] = "fill"] /\ UNCHANGED ret
              /\ kept[s] < buildOf[p] \/ initBy[s] # buildOf[p]
              /\ initBy' = [initBy EXCEPT ![s] = buildOf[p]]
              /\ kept' = [kept EXCEPT ![s] = buildOf[p]]
              /\ filled' = [filled EXCEPT ![s] = FALSE]
<1>1. PICK initialized \in Initialized(p, s) :
        IF initialized
          THEN /\ ret' = [ret EXCEPT ![p] = IF initBy[s] = buildOf[p] THEN "ok" ELSE "EBUSY"]
               /\ pc' = [pc EXCEPT ![p] = "post"] /\ UNCHANGED <<initBy, kept, filled>>
          ELSE /\ initBy' = [initBy EXCEPT ![s] = buildOf[p]]
               /\ kept' = [kept EXCEPT ![s] = buildOf[p]]
               /\ filled' = [filled EXCEPT ![s] = FALSE]
               /\ pc' = [pc EXCEPT ![p] = "fill"] /\ UNCHANGED ret
  BY DEF RegistryInit, Goto
<1>2. initBy[s] \in Nat /\ kept[s] \in Nat /\ buildOf[p] \in Nat /\ kept[s] <= initBy[s]
  <2>1. buildOf[p] \in Builds /\ kept[s] <= initBy[s]
    BY DEF HandleInv, SetupInv, SemInv, SemAccounted, TypeOK, KeptInv
  <2>2. initBy[s] \in Nat /\ kept[s] \in Nat
    BY KeptNumbers DEF SetupInv
  <2> QED
    BY ONLY <2>1, <2>2, BuildsAreNumbers
<1>3. CASE initialized
  <2>1. ~(kept[s] < buildOf[p])
    BY <1>1, <1>3 DEF Initialized
  <2>2. initBy[s] >= buildOf[p]
    BY ONLY <1>2, <2>1
  <2> QED
    BY <1>1, <1>3, <2>1, <2>2
<1>4. CASE ~initialized
  <2>1. ASSUME initBy[s] = buildOf[p], ~(kept[s] < buildOf[p]) PROVE FALSE
    <3>1. Initialized(p, s) = {TRUE}
      BY ONLY <2>1 DEF Initialized
    <3> QED
      BY ONLY <1>1, <1>4, <3>1
  <2> QED
    BY <1>1, <1>4, <2>1
<1> QED
  BY <1>3, <1>4

\* urt_registry_init.  Among processes of one build, a mark is that build's:
\* it is never read as missing where a process uses the registry, and never
\* as another build's.
LEMMA RegistryInitStep ==
    ASSUME SetupInv, NEW p \in Procs, RegistryInit(p)
    PROVE  SetupInv'
<1> USE DEF SetupInv
<1> USE SetupAssumption DEF SemInv, SemAccounted, TypeOK
<1>0. PICK s : s = hmem[p]
  OBVIOUS
<1>1. /\ pc[p] = "registry_init" /\ s \in Segments
      /\ UNCHANGED <<buildOf, gsem, linked, created, hsem, hmem, ready, stuck, crashes, failed>>
      /\ \A q \in Procs : q # p => pc'[q] = pc[q] /\ ret'[q] = ret[q]
  BY <1>0 DEF RegistryInit, Goto, HandleInv, Segments
<1>2. \/ /\ pc' = [pc EXCEPT ![p] = "post"] /\ UNCHANGED <<initBy, kept, filled>>
         /\ initBy[s] >= buildOf[p] /\ ~(kept[s] < buildOf[p])
         /\ ret' = [ret EXCEPT ![p] = IF initBy[s] = buildOf[p] THEN "ok" ELSE "EBUSY"]
      \/ /\ pc' = [pc EXCEPT ![p] = "fill"] /\ UNCHANGED ret
         /\ kept[s] < buildOf[p] \/ initBy[s] # buildOf[p]
         /\ initBy' = [initBy EXCEPT ![s] = buildOf[p]]
         /\ kept' = [kept EXCEPT ![s] = buildOf[p]]
         /\ filled' = [filled EXCEPT ![s] = FALSE]
  BY <1>0, <1>1, RegistryInitOutcome
<1>3. TypeOK'
  <2>1. pc' \in [Procs -> {"out", "wait"} \cup Locked]
    BY <1>2 DEF Locked
  <2>2. ret' \in [Procs -> {"none", "ok", "EALREADY", "EBUSY", "error"}]
    BY <1>2
  <2>3. /\ initBy' \in [Segments -> Builds \cup {0}] /\ kept' \in [Segments -> Builds \cup {0}]
        /\ filled' \in [Segments -> BOOLEAN]
    <3>1. /\ initBy \in [Segments -> Builds \cup {0}] /\ kept \in [Segments -> Builds \cup {0}]
          /\ filled \in [Segments -> BOOLEAN] /\ buildOf[p] \in Builds
      OBVIOUS
    <3>2. \/ UNCHANGED <<initBy, kept, filled>>
          \/ /\ initBy' = [initBy EXCEPT ![s] = buildOf[p]] /\ kept' = [kept EXCEPT ![s] = buildOf[p]]
             /\ filled' = [filled EXCEPT ![s] = FALSE]
      BY <1>2
    <3> QED
      BY ONLY <3>1, <3>2
  <2> QED
    BY <1>1, <2>1, <2>2, <2>3
<1>4. SemInv'
  <2>1. Cardinality(Holders') = Cardinality(Holders)
    <3>1. pc'[p] \in Locked /\ pc[p] \in Locked
      BY <1>1, <1>2 DEF Locked
    <3> QED
      BY <1>1, <3>1, HoldersAfter
  <2> QED
    BY <1>1, <1>3, <2>1 DEF Holders
<1>5. HandleInv'
  BY <1>1, <1>2 DEF HandleInv
<1>6. BuildInv' /\ FillInv'
  <2> SUFFICES ASSUME OneBuild PROVE BuildInv' /\ FillInv'
    BY <1>1 DEF BuildInv, FillInv, OneBuild
  <2>1. \A q \in Procs : buildOf[q] = buildOf[p]
    BY DEF OneBuild
  <2>2. buildOf[p] # 0 /\ initBy[s] \in {0, buildOf[p]}
    <3>1. buildOf[p] \in Builds
      OBVIOUS
    <3> QED
      BY <1>1, <3>1, BuildsAreNumbers DEF BuildInv
  <2>3. /\ pc'[p] = "post" => /\ UNCHANGED <<initBy, kept, filled>> /\ initBy[s] >= buildOf[p]
                             /\ ret'[p] = IF initBy[s] = buildOf[p] THEN "ok" ELSE "EBUSY"
        /\ pc'[p] = "fill" => /\ kept[s] < buildOf[p] \/ initBy[s] # buildOf[p]
                             /\ initBy' = [initBy EXCEPT ![s] = buildOf[p]]
                             /\ filled' = [filled EXCEPT ![s] = FALSE]
        /\ pc'[p] \in {"post", "fill"}
    BY <1>2
  <2>4. buildOf[p] \in Nat /\ buildOf[p] # 0
    <3>1. buildOf[p] \in Builds
      OBVIOUS
    <3> QED
      BY ONLY <3>1, BuildsAreNumbers
  <2>5. \A q \in Procs : pc[q] # "fill"
    BY <1>1, OneHolder DEF Locked
  <2>6. CASE pc'[p] = "post"
    <3>1. /\ UNCHANGED <<initBy, filled>> /\ initBy[s] = buildOf[p] /\ ret'[p] = "ok"
      BY ONLY <2>2, <2>3, <2>4, <2>6
    <3>2. \A q \in Procs : (Joined(q)' <=> Joined(q) \/ q = p) /\ pc'[q] # "fill"
      BY <1>0, <1>1, <2>5, <2>6 DEF Joined, Segments
    <3>3. BuildInv'
      BY <1>0, <1>1, <2>2, <2>6, <3>1, <3>2 DEF BuildInv
    <3>4. FillInv'
      BY <1>0, <1>1, <2>2, <2>5, <3>1, <3>2 DEF FillInv
    <3> QED
      BY <3>3, <3>4
  <2>7. CASE pc'[p] = "fill"
    <3>1. /\ kept[s] # initBy[s] \/ initBy[s] = 0
          /\ initBy' = [initBy EXCEPT ![s] = buildOf[p]]
          /\ filled' = [filled EXCEPT ![s] = FALSE]
      BY ONLY <2>2, <2>3, <2>4, <2>7
    <3>2. \A q \in Procs : (Joined(q)' <=> Joined(q)) /\ (Joined(q) => q # p /\ hmem[q] # s /\ hmem[q] \in Segments)
      BY <1>1, <2>7, <3>1 DEF Joined, BuildInv, KeptInv, Segments
    <3>3. \A t \in Segments : t # s => initBy'[t] = initBy[t] /\ filled'[t] = filled[t]
      BY <3>1
    <3>4. initBy'[s] = buildOf[p] /\ ~filled'[s]
      BY <1>1, <3>1
    <3>5. \A q \in Procs : pc'[q] = "fill" <=> q = p
      BY <1>1, <2>5, <2>7
    <3>6. BuildInv'
      BY <1>0, <1>1, <2>1, <2>2, <3>2, <3>3, <3>4, <3>5 DEF BuildInv
    <3>7. FillInv'
      BY <1>0, <1>1, <2>5, <3>2, <3>3, <3>4, <3>5 DEF FillInv
    <3> QED
      BY <3>6, <3>7
  <2> QED
    BY <2>3, <2>6, <2>7
<1>7. KeptInv'
  <2>0. \A t \in Segments :
          \/ kept'[t] = kept[t] /\ initBy'[t] = initBy[t]
          \/ t = s /\ kept'[t] = buildOf[p] /\ initBy'[t] = buildOf[p]
    <3>1. \/ UNCHANGED <<initBy, kept>>
          \/ initBy' = [initBy EXCEPT ![s] = buildOf[p]] /\ kept' = [kept EXCEPT ![s] = buildOf[p]]
      BY ONLY <1>2
    <3>2. initBy \in [Segments -> Builds \cup {0}] /\ kept \in [Segments -> Builds \cup {0}]
      OBVIOUS
    <3> QED
      BY ONLY <3>1, <3>2
  <2>1. \A t \in Segments : kept'[t] <= initBy'[t]
    <3>1. \A t \in Segments :
            \/ kept'[t] = kept[t] /\ initBy'[t] = initBy[t]
            \/ kept'[t] = buildOf[p] /\ initBy'[t] = buildOf[p]
      BY ONLY <2>0
    <3>2. buildOf[p] \in Builds
      OBVIOUS
    <3>3. buildOf[p] <= buildOf[p]
      BY ONLY <3>2, BuildsAreNumbers
    <3> QED
      BY <3>1, <3>3 DEF KeptInv
  <2>2. ASSUME OneBuild, NEW q \in Procs, Joined(q)' \/ pc'[q] = "fill"
        PROVE  kept'[hmem'[q]] = initBy'[hmem'[q]]
    <3>1. hmem'[q] = hmem[q] /\ hmem[q] \in Segments
      <4>1. hmem' = hmem /\ hmem \in [Procs -> 0 .. MaxSegments] /\ MaxSegments \in Nat
        BY <1>1
      <4>2. q # p => pc'[q] = pc[q]
        BY <1>1
      <4>3. hmem[q] # 0
        <5>1. CASE q = p
          BY <1>0, <1>1, <5>1 DEF Segments
        <5>2. CASE q # p
          BY <2>2, <4>1, <4>2, <5>2 DEF Joined, HandleInv
        <5> QED
          BY <5>1, <5>2
      <4> QED
        BY ONLY <4>1, <4>3, q \in Procs DEF Segments
    <3>2. CASE hmem[q] = s
      <4>1. CASE pc'[p] = "fill"
        BY <1>1, <1>2, <3>1, <3>2, <4>1
      <4>2. CASE pc'[p] = "post"
        <5>1. UNCHANGED <<initBy, kept>> /\ ~(kept[s] < buildOf[p]) /\ initBy[s] \in {0, buildOf[p]} /\ kept[s] <= initBy[s]
          BY <1>0, <1>1, <1>2, <2>2, <4>2 DEF BuildInv, KeptInv
        <5>2. kept[s] \in Nat /\ initBy[s] \in Nat
          BY <1>1, KeptNumbers
        <5>3. buildOf[p] \in Builds
          OBVIOUS
        <5>4. kept[s] = initBy[s]
          BY ONLY <5>1, <5>2, <5>3, BuildsAreNumbers
        <5> QED
          BY <3>1, <3>2, <5>1, <5>4
      <4> QED
        BY <1>2, <4>1, <4>2
    <3>3. CASE hmem[q] # s
      <4>1. Joined(q) \/ pc[q] = "fill"
        BY <1>0, <1>1, <2>2, <3>3 DEF Joined
      <4>2. kept'[hmem[q]] = kept[hmem[q]] /\ initBy'[hmem[q]] = initBy[hmem[q]]
        BY ONLY <2>0, <3>1, <3>3
      <4> QED
        BY <2>2, <3>1, <4>1, <4>2 DEF KeptInv
    <3> QED
      BY <3>2, <3>3
  <2>3. OneBuild' <=> OneBuild
    BY <1>1 DEF OneBuild
  <2> QED
    BY <2>1, <2>2, <2>3 DEF KeptInv
<1> QED
  BY <1>4, <1>5, <1>6, <1>7

LEMMA FillStep ==
    ASSUME SetupInv, NEW p \in Procs, Fill(p)
    PROVE  SetupInv'
<1> USE DEF SetupInv
<1> USE SetupAssumption DEF SemInv, SemAccounted, TypeOK
<1>0. PICK s : s = hmem[p]
  OBVIOUS
<1>1. /\ pc[p] = "fill" /\ s \in Segments
      /\ UNCHANGED <<buildOf, gsem, linked, created, initBy, kept, hsem, hmem, ready, stuck, crashes, failed>>
      /\ \A q \in Procs : q # p => pc'[q] = pc[q] /\ ret'[q] = ret[q]
      /\ pc'[p] = "post" /\ ret'[p] = "ok"
      /\ filled' = [filled EXCEPT ![s] = TRUE]
  BY <1>0 DEF Fill, Goto, HandleInv, Segments
<1>2. TypeOK'
  <2>1. pc' \in [Procs -> {"out", "wait"} \cup Locked]
    BY DEF Fill, Goto, Locked
  <2>2. ret' \in [Procs -> {"none", "ok", "EALREADY", "EBUSY", "error"}]
    BY DEF Fill
  <2>3. filled' \in [Segments -> BOOLEAN]
    BY <1>1
  <2> QED
    BY <1>1, <2>1, <2>2, <2>3
<1>3. SemInv'
  <2>1. Cardinality(Holders') = Cardinality(Holders)
    <3>1. pc'[p] \in Locked /\ pc[p] \in Locked
      BY <1>1 DEF Locked
    <3> QED
      BY <1>1, <3>1, HoldersAfter
  <2> QED
    BY <1>1, <1>2, <2>1 DEF Holders
<1>4. HandleInv'
  <2>1. s # 0
    BY <1>1 DEF Segments
  <2> QED
    BY <1>0, <1>1, <2>1 DEF HandleInv
<1>5. \A q \in Procs : pc[q] = "fill" => q = p
  BY <1>1, OneHolder DEF Locked
<1>6. \A q \in Procs : (Joined(q)' <=> Joined(q) \/ q = p) /\ pc'[q] # "fill"
  BY <1>0, <1>1, <1>5 DEF Joined, Segments
<1>7. filled'[s] /\ \A t \in Segments : t # s => filled'[t] = filled[t]
  BY <1>1
<1>8. OneBuild' <=> OneBuild
  BY <1>1 DEF OneBuild
<1>9. BuildInv'
  BY <1>0, <1>1, <1>6, <1>7, <1>8 DEF BuildInv
<1>10. FillInv'
  BY <1>0, <1>1, <1>5, <1>6, <1>7, <1>8 DEF FillInv, Joined, Segments
<1>11. KeptInv'
  <2>1. \A q \in Procs : Joined(q)' => Joined(q) \/ pc[q] = "fill"
    BY <1>1, <1>6
  <2> QED
    BY <1>1, <1>6, <1>8, <2>1 DEF KeptInv
<1> QED
  BY <1>3, <1>4, <1>9, <1>10, <1>11

\* A process leaves urt_init, leaves URT, or dies: it alone changes, and it
\* is out afterwards.
LEMMA LeaveStep ==
    ASSUME SetupInv, NEW p \in Procs, Post(p) \/ UrtExit(p) \/ Crash(p)
    PROVE  SetupInv'
<1> USE DEF SetupInv
<1> USE SetupAssumption DEF SemInv, SemAccounted, TypeOK
<1>1. /\ UNCHANGED <<buildOf, linked, created, initBy, kept, filled, failed>>
      /\ \A q \in Procs : q # p => pc'[q] = pc[q] /\ ret'[q] = ret[q] /\ hmem'[q] = hmem[q] /\ ready'[q] = ready[q]
      /\ pc'[p] = "out"
      /\ \/ pc[p] = "post" /\ hmem'[p] = hmem[p] /\ ready'[p] = (ret[p] = "ok") /\ gsem' = gsem + 1
            /\ UNCHANGED <<stuck, crashes>>
         \/ pc[p] = "out" /\ hmem'[p] = 0 /\ ~ready'[p] /\ UNCHANGED <<gsem, stuck, crashes>>
         \/ /\ hmem'[p] = 0 /\ ~ready'[p] /\ crashes' = crashes + 1 /\ crashes' \in 0 .. MaxCrashes /\ UNCHANGED gsem
            /\ stuck' = IF pc[p] \in Locked THEN stuck + 1 ELSE stuck
  BY DEF Post, UrtExit, Crash, Goto, shared
<1>2. gsem' \in 0 .. 1 /\ stuck' \in 0 .. MaxCrashes /\ stuck' <= crashes' /\ crashes' \in 0 .. MaxCrashes
  <2>1. pc[p] = "post" => gsem = 0
    BY OneHolder DEF Locked
  <2> QED
    BY <1>1, <2>1
<1>3. TypeOK'
  <2>1. pc' \in [Procs -> {"out", "wait"} \cup Locked]
    BY DEF Post, UrtExit, Crash, Goto
  <2>2. ret' \in [Procs -> {"none", "ok", "EALREADY", "EBUSY", "error"}] /\ hsem' \in [Procs -> BOOLEAN]
    BY DEF Post, UrtExit, Crash
  <2>3. hmem' \in [Procs -> 0 .. MaxSegments] /\ ready' \in [Procs -> BOOLEAN]
    <3>1. hmem \in [Procs -> 0 .. MaxSegments] /\ ready \in [Procs -> BOOLEAN] /\ 0 \in 0 .. MaxSegments
      OBVIOUS
    <3>2. hmem' = hmem \/ hmem' = [hmem EXCEPT ![p] = 0]
      BY DEF Post, UrtExit, Crash
    <3>3. \E b \in BOOLEAN : ready' = [ready EXCEPT ![p] = b]
      BY DEF Post, UrtExit, Crash
    <3> QED
      BY ONLY <3>1, <3>2, <3>3
  <2> QED
    BY <1>1, <1>2, <2>1, <2>2, <2>3
<1>4. SemInv'
  <2>1. gsem' + stuck' + Cardinality(Holders') = 1
    <3>1. gsem + stuck + Cardinality(Holders) = 1 /\ Cardinality(Holders) \in Nat
      BY HoldersFinite DEF Holders
    <3>2. pc'[p] \notin Locked
      BY <1>1 DEF Locked
    <3>3. CASE pc[p] \in Locked
      <4>1. Cardinality(Holders') = Cardinality(Holders) - 1
        BY <1>1, <3>2, <3>3, HoldersAfter
      <4>2. gsem' + stuck' = gsem + stuck + 1
        BY <1>1, <3>3 DEF Locked
      <4> QED
        BY <3>1, <4>1, <4>2
    <3>4. CASE pc[p] \notin Locked
      <4>1. Cardinality(Holders') = Cardinality(Holders)
        BY <1>1, <3>2, <3>4, HoldersAfter
      <4>2. gsem' + stuck' = gsem + stuck
        BY <1>1, <3>4 DEF Locked
      <4> QED
        BY <3>1, <4>1, <4>2
    <3> QED
      BY <3>3, <3>4
  <2> QED
    BY <1>1, <1>2, <1>3, <2>1 DEF Holders
<1>5. HandleInv'
  BY <1>1 DEF HandleInv
<1>6. OneBuild' <=> OneBuild
  BY <1>1 DEF OneBuild
<1>7. \A q \in Procs : Joined(q)' => Joined(q) /\ hmem'[q] = hmem[q]
  BY <1>1 DEF Joined
<1>8. \A q \in Procs : pc'[q] = "fill" => q # p
  BY <1>1
<1>9. BuildInv'
  <2>1. \A q \in Procs : OneBuild /\ Joined(q)' => IF pc'[q] = "post" THEN ret'[q] = "ok" ELSE ready'[q]
    <3> SUFFICES ASSUME NEW q \in Procs, OneBuild, Joined(q)'
                 PROVE  IF pc'[q] = "post" THEN ret'[q] = "ok" ELSE ready'[q]
      OBVIOUS
    <3>1. Joined(q) /\ IF pc[q] = "post" THEN ret[q] = "ok" ELSE ready[q]
      BY <1>7 DEF BuildInv
    <3>2. CASE q = p
      <4>1. pc[p] = "post" /\ ready'[p] = (ret[p] = "ok") /\ pc'[p] # "post"
        BY <1>1, <3>2 DEF Joined
      <4> QED
        BY ONLY <3>1, <3>2, <4>1
    <3>3. CASE q # p
      <4>1. pc'[q] = pc[q] /\ ret'[q] = ret[q] /\ ready'[q] = ready[q]
        BY <1>1, <3>3
      <4> QED
        BY ONLY <3>1, <4>1
    <3> QED
      BY <3>2, <3>3
  <2>2. \A q \in Procs : OneBuild /\ Joined(q)' => initBy'[hmem'[q]] # 0
    BY <1>1, <1>7 DEF BuildInv
  <2>3. \A q \in Procs : OneBuild /\ pc'[q] = "fill" => initBy'[hmem'[q]] # 0
    BY <1>1, <1>8 DEF BuildInv
  <2> QED
    BY <1>1, <1>6, <2>1, <2>2, <2>3 DEF BuildInv
<1>10. FillInv'
  <2>1. crashes' = 0 => crashes = 0 /\ pc[p] # "fill"
    BY <1>1
  <2> QED
    BY <1>1, <1>6, <1>7, <1>8, <2>1 DEF FillInv
<1>11. KeptInv'
  <2>1. \A q \in Procs : pc'[q] = "fill" => pc[q] = "fill" /\ hmem'[q] = hmem[q]
    BY <1>1, <1>8
  <2> QED
    BY <1>1, <1>6, <1>7, <2>1 DEF KeptInv
<1> QED
  BY <1>4, <1>5, <1>9, <1>10, <1>11

\* urt_recover while nobody uses URT.
LEMMA RecoverStep ==
    ASSUME SetupInv, NEW b \in Builds, Recover(b)
    PROVE  SetupInv'
<1> USE DEF SetupInv
<1> USE SetupAssumption DEF SemInv, SemAccounted, TypeOK
<1>1. /\ \A p \in Procs : pc[p] = "out" /\ hmem[p] = 0
      /\ gsem' = 1 /\ stuck' = 0
      /\ UNCHANGED <<buildOf, pc, hsem, hmem, ret, ready, crashes, initBy, filled>>
  BY DEF Recover, OpenFails, Open, shared
<1>2. /\ linked' \in 0 .. MaxSegments /\ created' \in 0 .. MaxSegments /\ linked' <= created'
      /\ kept' \in [Segments -> Builds \cup {0}] /\ \A s \in Segments : kept'[s] <= kept[s]
  <2>1. CASE UNCHANGED shared
    <3>1. \A s \in Segments : kept[s] <= kept[s]
      BY KeptNumbers
    <3> QED
      BY <2>1, <3>1 DEF shared
  <2>2. CASE \E mapped \in BOOLEAN : Open(b, mapped)
    BY <2>2, OpenSegment
  <2> QED
    BY <2>1, <2>2 DEF Recover, OpenFails
<1>3. failed' \subseteq Faults /\ failed \subseteq failed'
  <2>1. failed \subseteq Faults
    OBVIOUS
  <2>2. \/ failed' = failed
        \/ "shm_open" \in Faults /\ failed' = failed \cup {"shm_open"}
        \/ "mmap" \in Faults /\ failed' = failed \cup {"mmap"}
    BY DEF Recover, OpenFails
  <2> QED
    BY ONLY <2>1, <2>2
<1>4. SemInv'
  <2>1. Holders' = {}
    BY <1>1 DEF Holders, Locked
  <2>2. Cardinality(Holders') = 0
    BY <2>1, FS_EmptySet
  <2> QED
    BY <1>1, <1>2, <1>3, <2>2 DEF Holders
<1>5. HandleInv'
  BY <1>1, <1>3 DEF HandleInv
<1>6. BuildInv' /\ FillInv'
  BY <1>1 DEF BuildInv, FillInv, OneBuild, Joined
<1>7. KeptInv'
  <2>1. \A s \in Segments : kept'[s] <= kept[s] /\ kept[s] <= initBy[s] /\ initBy'[s] = initBy[s]
    BY <1>1, <1>2 DEF KeptInv
  <2>2. \A s \in Segments : kept'[s] \in Nat /\ kept[s] \in Nat /\ initBy[s] \in Nat
    BY <1>2, KeptNumbers, BuildsAreNumbers
  <2>3. \A s \in Segments : kept'[s] <= initBy'[s]
    BY ONLY <2>1, <2>2
  <2> QED
    BY <1>1, <2>3 DEF KeptInv, Joined
<1> QED
  BY <1>4, <1>5, <1>6, <1>7

LEMMA SetupInvNext == SetupInv /\ [Next]_vars => SetupInv'
<1> SUFFICES ASSUME SetupInv, [Next]_vars PROVE SetupInv'
  OBVIOUS
<1>1. ASSUME NEW p \in Procs, UrtInit(p) \/ Wait(p) PROVE SetupInv'
  BY <1>1, InitAndWaitStep
<1>2. ASSUME NEW p \in Procs, GetMem(p) PROVE SetupInv'
  BY <1>2, GetMemStep
<1>3. ASSUME NEW p \in Procs, RegistryInit(p) PROVE SetupInv'
  BY <1>3, RegistryInitStep
<1>4. ASSUME NEW p \in Procs, Fill(p) PROVE SetupInv'
  BY <1>4, FillStep
<1>5. ASSUME NEW p \in Procs, Post(p) \/ UrtExit(p) \/ Crash(p) PROVE SetupInv'
  BY <1>5, LeaveStep
<1>6. ASSUME NEW b \in Builds, Recover(b) PROVE SetupInv'
  BY <1>6, RecoverStep
<1>7. CASE UNCHANGED vars
  BY <1>7 DEF vars, SetupInv, SemInv, SemAccounted, TypeOK, HandleInv, BuildInv, FillInv, KeptInv, OneBuild, Joined
<1> QED
  BY <1>1, <1>2, <1>3, <1>4, <1>5, <1>6, <1>7 DEF Next

LEMMA SetupInvHolds == Spec => []SetupInv
  BY SetupInvInit, SetupInvNext, PTL DEF Spec

-----------------------------------------------------------------------------
\* The global semaphore is taken by at most one process in urt_init, and is
\* missing only when one died there (urt_init and urt_recover).
THEOREM SemAccountedHolds == Spec => []SemAccounted
<1>1. SetupInv => SemAccounted
  BY DEF SetupInv, SemInv
<1> QED
  BY <1>1, SetupInvHolds, PTL

\* Processes of one build that initialized URT use one registry, unless a
\* failed mmap in urt_global_mem_get removed the name.
THEOREM OneRegistryHolds == Spec => []OneRegistry
<1>1. SetupInv => OneRegistry
  BY DEF SetupInv, HandleInv, OneRegistry
<1> QED
  BY <1>1, SetupInvHolds, PTL

\* EALREADY of urt_init is true among processes of one build, and, without
\* crashes, the counter of free names is in place for whoever gets it.
THEOREM AlreadyTrueHolds == Spec => []AlreadyTrue
<1>1. SetupInv => AlreadyTrue
  BY DEF SetupInv, BuildInv, FillInv, AlreadyTrue, Joined
<1> QED
  BY <1>1, SetupInvHolds, PTL

\* No urt_registry_init of the same build resets the registry of a process
\* that has initialized URT.
THEOREM NeverResetHolds == Spec => NeverReset
<1> DEFINE Kept == OneBuild =>
       \A s \in Segments : initBy'[s] # initBy[s] \/ (filled[s] /\ ~filled'[s]) =>
          \A p \in Procs : ready[p] => hmem[p] # s
<1>1. SetupInv /\ [Next]_vars => [Kept]_vars
  <2> SUFFICES ASSUME SetupInv, Next, OneBuild, NEW s \in Segments,
                      initBy'[s] # initBy[s] \/ (filled[s] /\ ~filled'[s]),
                      NEW p \in Procs, ready[p]
               PROVE  hmem[p] # s
    OBVIOUS
  <2>1. \A t \in Segments : filled[t] \in BOOLEAN
    BY DEF SetupInv, SemInv, SemAccounted, TypeOK
  <2>2. PICK q \in Procs : RegistryInit(q)
    <3>1. ASSUME NEW q \in Procs, Fill(q) PROVE FALSE
      <4>1. initBy' = initBy /\ filled' = [filled EXCEPT ![hmem[q]] = TRUE] /\ filled \in [Segments -> BOOLEAN]
        BY <3>1 DEF Fill, SetupInv, SemInv, SemAccounted, TypeOK
      <4> QED
        BY ONLY <4>1, (filled[s] /\ ~filled'[s]) \/ initBy'[s] # initBy[s]
    <3>2. ASSUME NEW q \in Procs, UrtInit(q) \/ Wait(q) \/ GetMem(q) \/ Post(q) \/ UrtExit(q) \/ Crash(q)
          PROVE  FALSE
      BY <3>2 DEF UrtInit, Wait, GetMem, OpenFails, Open, Post, UrtExit, Crash, shared
    <3>3. ASSUME NEW b \in Builds, Recover(b) PROVE FALSE
      BY <3>3 DEF Recover, OpenFails, Open, shared
    <3> QED
      BY <3>1, <3>2, <3>3 DEF Next
  <2>3. (kept[s] < buildOf[q] \/ initBy[s] # buildOf[q]) /\ s = hmem[q]
    <3>1. PICK t : t = hmem[q]
      OBVIOUS
    <3>2. t \in Segments
      BY <2>2, <3>1 DEF RegistryInit, SetupInv, HandleInv, SemInv, SemAccounted, TypeOK, Segments
    <3>3. /\ kept[t] < buildOf[q] \/ initBy[t] # buildOf[q]
          /\ initBy' = [initBy EXCEPT ![t] = buildOf[q]]
          /\ filled' = [filled EXCEPT ![t] = FALSE]
      BY <2>2, <3>1, <3>2, RegistryInitOutcome
    <3> QED
      BY <3>1, <3>3
  <2>4. buildOf[q] \in Builds /\ initBy[s] \in {0, buildOf[q]}
    BY DEF SetupInv, SemInv, SemAccounted, TypeOK, BuildInv
  <2>5. initBy[hmem[p]] # 0 /\ kept[hmem[p]] = initBy[hmem[p]]
    BY DEF SetupInv, BuildInv, KeptInv, HandleInv, Joined
  <2>6. ASSUME hmem[p] = s PROVE FALSE
    <3>1. initBy[s] = buildOf[q] /\ kept[s] = buildOf[q]
      BY <2>4, <2>5, <2>6
    <3> QED
      BY ONLY <2>3, <2>4, <3>1, BuildsAreNumbers
  <2> QED
    BY <2>6
<1> QED
  BY <1>1, SetupInvHolds, PTL DEF Spec, NeverReset
=============================================================================
