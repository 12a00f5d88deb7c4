------------------------------- MODULE Paths --------------------------------
(***************************************************************************)
(* The paths of sources/: how a program finds the root of clangbuilder     *)
(* (include/appfs.hpp), and how the library puts paths together and takes  *)
(* them apart (bela/src/belawin/path.cc).                                  *)
(*                                                                         *)
(* A path is a sequence of characters, counted from 1.                     *)
(***************************************************************************)
EXTENDS Integers, SequencesExt

Back == "\\"
Seps == {Back, "/"}
Dot == <<".">>
DotDot == <<".", ".">>
Letters == {"a", "b", "c"}      \* the letters that are tried
IsSep(c) == c \in Seps
LargestOr(S, n) == IF S = {} THEN n ELSE CHOOSE i \in S : \A j \in S : j <= i
SmallestOr(S, n) == IF S = {} THEN n ELSE CHOOSE i \in S : \A j \in S : i <= j

-----------------------------------------------------------------------------
(* path.cc: taking apart.                                                  *)

\* The last position, from i down, that holds no separator, and the last one
\* that holds a separator; 0 if there is none.
LastPlain(p, i) == LargestOr({k \in 1 .. i : ~IsSep(p[k])}, 0)
LastSep(p, i) == LargestOr({k \in 1 .. i : IsSep(p[k])}, 0)

BaseName(path) ==
    LET p    == IF Len(path) > 2 /\ path[2] = ":" THEN SubSeq(path, 3, Len(path)) ELSE path
        last == LastPlain(p, Len(p))
    IN IF path = <<>> \/ (Len(path) = 2 /\ path[2] = ":") \/ last = 0 THEN Dot
       ELSE SubSeq(p, LastSep(p, last) + 1, last)

DirName(p) ==
    LET last == LastPlain(p, Len(p))
        sep  == LastSep(p, last)
        dir  == LastPlain(p, sep)
    IN IF p = <<>> THEN Dot
       ELSE IF last = 0 THEN <<"/">>
       ELSE IF sep = 0 THEN Dot
       ELSE IF dir = 0 THEN <<"/">>
       ELSE SubSeq(p, 1, dir)

\* Mutant: the separators before the name stay.
PathStripLess(p) ==
    LET sep == LastSep(p, LastPlain(p, Len(p)))
    IN IF sep = 0 THEN p ELSE SubSeq(p, 1, sep)

\* Of the empty path the code reads the character before the first (path.cc:163),
\* which may be anything; the model leaves it empty, and no property speaks of it.
PathStripName(p) ==
    LET dir == LastPlain(p, LastSep(p, LastPlain(p, Len(p))))
    IN IF dir = 0 THEN p ELSE SubSeq(p, 1, dir)

-----------------------------------------------------------------------------
(* path.cc: putting together.                                              *)

\* The names of a text, and the one that is being read.
WithName(r) == IF r.name = <<>> THEN r.names ELSE Append(r.names, r.name)
NamesTurn(r, c) ==
    IF IsSep(c) THEN [names |-> WithName(r), name |-> <<>>]
    ELSE [names |-> r.names, name |-> Append(r.name, c)]
NamesRead(p) ==
    LET read[i \in 0 .. Len(p)] ==
            IF i = 0 THEN [names |-> <<>>, name |-> <<>>] ELSE NamesTurn(read[i - 1], p[i])
    IN read
Names(p) == WithName(NamesRead(p)[Len(p)])

\* SplitPathInternal goes on from the names in output, and stops at a ".." that
\* has nothing to remove.
Output(r, n) ==
    IF ~r.ok \/ n = Dot THEN r
    ELSE IF n # DotDot THEN [ok |-> TRUE, names |-> Append(r.names, n)]
    ELSE IF r.names = <<>> THEN [ok |-> FALSE, names |-> <<>>]
    ELSE [ok |-> TRUE, names |-> Front(r.names)]
Outputs(names, output) ==
    LET out[k \in 0 .. Len(names)] ==
            IF k = 0 THEN [ok |-> TRUE, names |-> output] ELSE Output(out[k - 1], names[k])
    IN out
SplitPathInternal(p, output) == Outputs(Names(p), output)[Len(Names(p))]

\* A drive, the prefix of a device with or without a drive, or the server and
\* the share of a network path; 0 if there is no root.
PathRootLen(p) ==
    LET l     == Len(p)
        Lead  == l >= 2 /\ IsSep(p[1]) /\ IsSep(p[2])
        Drive(i) == p[i] \in Letters /\ p[i + 1] = ":"
        share == SmallestOr({k \in 4 .. l - 1 : IsSep(p[k])}, 0) + 1
    IN IF l >= 2 /\ Drive(1) THEN 2
       ELSE IF l >= 6 /\ Lead /\ p[3] \in {".", "?"} /\ IsSep(p[4]) THEN IF Drive(5) THEN 6 ELSE 4
       ELSE IF l >= 5 /\ Lead /\ ~IsSep(p[3]) /\ p[3] # "." /\ share # 1
              /\ ~IsSep(p[share]) /\ p[share] # "." THEN
                SmallestOr({k \in share .. l : IsSep(p[k])}, l + 1) - 1
       ELSE 0

\* Mutant: a separator follows every part.
Glued(root, names) ==
    FoldLeft(LAMBDA s, n : s \o <<Back>> \o n, root, names)

JoinOne(s, n) == (IF s = <<>> THEN s ELSE Append(s, Back)) \o n
Joins(root, names) ==
    LET joined[k \in 0 .. Len(names)] == IF k = 0 THEN root ELSE JoinOne(joined[k - 1], names[k])
    IN joined
Joined(root, names) == Joins(root, names)[Len(names)]

\* PathCat: parth_cat_pieces.  What is wrong with the first piece is passed over.
CatOne(r, piece) == IF r.ok THEN SplitPathInternal(piece, r.names) ELSE r
PathCat(p0, pieces) ==
    LET rlen  == PathRootLen(p0)
        first == SplitPathInternal(SubSeq(p0, rlen + 1, Len(p0)), <<>>).names
        all[k \in 0 .. Len(pieces)] ==
            IF k = 0 THEN [ok |-> TRUE, names |-> first] ELSE CatOne(all[k - 1], pieces[k])
        end   == all[Len(pieces)]
    IN IF end.ok THEN Joined(SubSeq(p0, 1, rlen), end.names) ELSE Dot

-----------------------------------------------------------------------------
(* appfs.hpp: the root of clangbuilder.                                    *)

\* PathRemoveFileSpecU, of the characters after the leading ones: where the name
\* may begin, and which character is next.
SpecTurn(p, r, i) ==
    IF i < r.next THEN r
    ELSE CASE p[i] = Back -> [spec |-> i, next |-> i + 1]
           [] p[i] = ":"  -> [spec |-> IF i < Len(p) /\ p[i + 1] = Back THEN i + 2 ELSE i + 1,
                              next |-> i + 2]
           [] OTHER       -> [spec |-> r.spec, next |-> i + 1]
FileSpecs(p) ==
    LET skip == IF p # <<>> /\ p[1] = Back THEN (IF Len(p) >= 2 /\ p[2] = Back THEN 2 ELSE 1) ELSE 0
        spec[i \in 0 .. Len(p)] ==
            IF i = 0 THEN [spec |-> skip + 1, next |-> skip + 1] ELSE SpecTurn(p, spec[i - 1], i)
    IN spec

\* What it leaves of the path, and did it change it?
PathRemoveFileSpecU(p) ==
    LET spec == FileSpecs(p)[Len(p)].spec
    IN [path |-> SubSeq(p, 1, spec - 1), modified |-> spec <= Len(p)]

\* Mutant: one directory fewer is tried.
LookupLess(exe, roots) ==
    LET up[n \in 0 .. 4] == IF n = 0 THEN [path |-> exe, modified |-> TRUE]
                            ELSE IF up[n - 1].modified THEN PathRemoveFileSpecU(up[n - 1].path)
                            ELSE up[n - 1]
        first == SmallestOr({n \in 1 .. 4 : up[n].path \in roots /\ \A m \in 1 .. n : up[m].modified}, 0)
    IN IF first = 0 THEN <<>> ELSE up[first].path

\* LookupClangbuilderTarget: of the five directories above the program, the
\* first that has bin\ClangbuilderTarget.ps1; <<>> if none has.
LookupClangbuilderTarget(exe, roots) ==
    LET up[n \in 0 .. 5] == IF n = 0 THEN [path |-> exe, modified |-> TRUE]
                            ELSE IF up[n - 1].modified THEN PathRemoveFileSpecU(up[n - 1].path)
                            ELSE up[n - 1]
        first == SmallestOr({n \in 1 .. 5 : up[n].path \in roots /\ \A m \in 1 .. n : up[m].modified}, 0)
    IN IF first = 0 THEN <<>> ELSE up[first].path
=============================================================================
