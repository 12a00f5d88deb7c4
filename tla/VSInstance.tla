----------------------------- MODULE VSInstance -----------------------------
(***************************************************************************)
(* Visual Studio instances as the window of Clangbuilder orders them       *)
(* (include/vsinstance.hpp) and as the scripts choose among them           *)
(* (modules/VisualStudio).                                                 *)
(***************************************************************************)
EXTENDS Integers, Sequences

\* An instance: its id, the main version, the whole version as one number, and
\* is it a preview?
VSInstances(Ids, Mains, Versions) ==
    [id : Ids, main : Mains, ver : Versions, pre : BOOLEAN]

\* Mutant: the whole version decides before the preview does.
LessByVersion(a, b) ==
    \/ a.main < b.main
    \/ a.main = b.main /\ a.ver < b.ver
    \/ a.main = b.main /\ a.ver = b.ver /\ a.pre /\ ~b.pre

\* operator<: the main version decides, then a preview comes before a release,
\* then the whole version decides.
Less(a, b) ==
    \/ a.main < b.main
    \/ a.main = b.main /\ a.pre /\ ~b.pre
    \/ a.main = b.main /\ a.pre = b.pre /\ a.ver < b.ver

\* What std::sort may make of the instances S: equal ones come in any order.
Sorted(s) == \A i, j \in DOMAIN s : i < j => ~Less(s[j], s[i])
Arrangements(S, n) == {s \in [1 .. n -> S] : \A i, j \in 1 .. n : s[i] = s[j] => i = j}

\* Mutant: the first of the sorted instances is proposed.
IndexFirst(s) == 0

\* Index(): the last instance is the one the window proposes; positions count
\* from 0, and an empty list gives 0.
Index(s) == IF s = <<>> THEN 0 ELSE Len(s) - 1

\* DefaultVisualStudio.  ".Split" on the list of versions joins the parts of
\* all of them, so each turn of the loop looks at the first instance: the last
\* one is taken if the first is 16.2 or later, or else the first.
DefaultPosition(s) == IF s[1].ver >= 1602 THEN Len(s) ELSE 1
=============================================================================
