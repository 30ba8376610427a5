-------------------------- MODULE MCSharedObjects --------------------------
(* Instances of SharedObjects for TLC. *)
EXTENDS SharedObjects, TLC

CONSTANTS u1, u2, u3, n1, n2, n3, s0, s1, s2, s3

MCKinds == {Mem, Sem, Lock}

\* A back-end, with one name for k and the others for l.
Setting(b, k, l, f) ==
    [backend |-> b, kind |-> [n \in Names |-> IF n = n1 THEN k ELSE l], sysname |-> f]

\* Names that are distinct to the operating system, and two spellings of one.
Distinct == [n \in Names |-> CASE n = n1 -> s1 [] n = n2 -> s2 [] OTHER -> s3]
Spellings == [n \in Names |-> IF n = n1 THEN s1 ELSE s0]

PosixMem == {Setting("posix", Mem, Mem, Distinct)}
PosixMemAndSem == {Setting("posix", Mem, Sem, Distinct)}
PosixLockAndSem == {Setting("posix", Lock, Sem, Distinct)}
AliasesAndRTAI == {Setting("posix", Mem, Mem, Spellings), Setting("rtai", Mem, Sem, Distinct)}

\* The settings say the same of n2 and n3.
UserSymmetry == Permutations(Users)
NameSymmetry ==
    Permutations(Users) \cup {n2 :> n3 @@ n3 :> n2 @@ s2 :> s3 @@ s3 :> s2}
=============================================================================
