------------------------------ MODULE Programs ------------------------------
(***************************************************************************)
(* The programs of sources/, one at a time: the window, or one that is     *)
(* given a text that grows character by character, so that every text up   *)
(* to a length is met.  Each state checks what that program makes of it.   *)
(***************************************************************************)
EXTENDS Window, Argv, ParseArgv, Paths

CONSTANTS
    Texts,      \* Texts[p]: the pieces a text for program p is typed in
    MaxPieces   \* MaxPieces[p]: how many of them at most

\* A piece is a sequence of characters.
ASSUME TextsAssumption == \A p \in DOMAIN Texts : Texts[p] \subseteq Seq(STRING)

VARIABLES
    program,    \* "window", or of "line", "options", "subcommand", "path"
    text        \* the pieces typed so far

pvars == <<program, text, wvars>>

ProgramsInit ==
    /\ text = <<>>
    /\ \/ program = "window" /\ WindowInit
       \/ program \in DOMAIN Texts /\ Closed(CHOOSE m \in Machines : TRUE)

Type ==
    /\ program \in DOMAIN Texts /\ Len(text) < MaxPieces[program]
    /\ \E piece \in Texts[program] : text' = Append(text, piece)
    /\ UNCHANGED <<program, wvars>>

UseWindow == program = "window" /\ WindowNext /\ UNCHANGED <<program, text>>

ProgramsNext == Type \/ UseWindow
ProgramsSpec == ProgramsInit /\ [][ProgramsNext]_pvars

-----------------------------------------------------------------------------
(* Properties.                                                             *)

Typed == FlattenSeq(text)

\* The arguments a program passes to another arrive one for one (see Argv).
PassedOn == program = "line" => ArgumentsArrive(Typed) /\ SplitOnceOrTwice(Typed)

\* The options of blast, their long names cut to a letter; those that wait for
\* parameters are of no program of sources/, but the parser takes them.
BlastOptions ==
    {BlastOption("R", <<"r">>), BlastOption("L", <<"l">>), BlastOption("D", <<"d">>),
     BlastOption("h", <<"h">>), BlastOption("v", <<"v">>), BlastOption("J", <<"j">>),
     BlastOption("F", <<"f">>), BlastOption("A", <<"a">>)}
Options == BlastOptions \cup {[val |-> "o", name |-> <<"o">>, has |-> "required"],
                              [val |-> "p", name |-> <<"p", "p">>, has |-> "optional"]}

\* Every argument of a command line is used once (see ParseArgv).
UsedOnce ==
    /\ program = "options" => ArgumentsUsedOnce(text, Options, FALSE)
    /\ program = "subcommand" => ArgumentsUsedOnce(text, Options, TRUE)

\* The files blast may meet: two names, each a file, nothing, or a link to the
\* other name or to a third one, so that a link may lead to a link.
Files == {fs \in [{<<"x">>, <<"y">>, <<"z">>} -> {File, NoFile, <<"x">>, <<"z">>}] :
             fs[<<"x">>] \in {File, NoFile, <<"z">>} /\ fs[<<"z">>] \in {File, NoFile}}

\* A link blast reports leads to a file, and nothing else is touched (see
\* ParseArgv).
BlastLinks == program = "options" => LinkLeads(text, BlastOptions, Files)

\* A path with a colon in its drive only.
IsPath(p) == ":" \notin ToSet(From(p, PathRootLen(p) + 1))

\* A path put together is in normal form: it begins with the root of its first
\* piece, after the root there is no "." or "..", no empty name and no separator
\* at either end, and put together again it is the same.  The prefix of a device
\* alone, or before a name of one letter, is left out: the path has become too
\* short for PathRootLen to see it (path.cc:193).
PathsNormal ==
    program = "path" /\ IsPath(Typed) =>
        LET p    == PathCat(Typed, <<>>)
            root == SubSeq(Typed, 1, PathRootLen(Typed))
            rest == From(p, Len(root) + 1)
        IN PathRootLen(p) = Len(root) =>
              /\ IsPrefix(root, p)
              /\ {Dot, DotDot} \cap ToSet(Names(rest)) = {}
              /\ \A i \in DOMAIN rest : IsSep(rest[i]) =>
                    i < Len(rest) /\ ~IsSep(rest[i + 1]) /\ (i > 1 \/ root # <<>>)
              /\ PathCat(p, <<>>) = p

\* Directory and name of a path, put together, are that path, with and without a
\* root, as long as the directory keeps the root and the path does not lead above
\* it.  The library's directory of a root alone (C:\, \\b\b), of a name right after
\* a drive (c:b) and of what is left of a device with a short name has not the root
\* of the path any more (path.cc:75-119), and nothing is said of those.
\* PathStripName leaves the directory, or the path as it is; of a path of the
\* library's own making, under a drive, PathRemoveFileSpecU leaves the directory
\* too.
DirAndName ==
    program = "path" /\ IsPath(Typed) /\ Typed # <<>> =>
        LET full == PathCat(Typed, <<>>)
            up   == PathRemoveFileSpecU(full)
        IN /\ /\ PathRootLen(DirName(Typed)) = PathRootLen(Typed)
              /\ SplitPathInternal(From(Typed, PathRootLen(Typed) + 1), <<>>).ok
              => PathCat(DirName(Typed), <<BaseName(Typed)>>) = full
           /\ PathStripName(Typed) \in {Typed, DirName(Typed)}
           /\ full = Typed /\ PathRootLen(full) = 2 /\ up.modified =>
                 PathCat(up.path, <<>>) = DirName(full)

\* A program finds the root of clangbuilder when it is installed there or up to
\* four directories below, and the nearest root if there are two.
RootFound ==
    program = "path" /\ IsPath(Typed) /\ PathRootLen(Typed) = 2 /\ PathCat(Typed, <<>>) = Typed =>
        LET root  == SubSeq(Typed, 1, 2)
            names == Names(From(Typed, 3))
            Up(n) == IF n = Len(names) THEN Append(root, Back)
                     ELSE Joined(root, SubSeq(names, 1, Len(names) - n))
            Levels == 1 .. (IF Len(names) < 5 THEN Len(names) ELSE 5)
        IN \A n, m \in Levels :
               n <= m => LookupClangbuilderTarget(Typed, {Up(n), Up(m)}) = Up(n)
=============================================================================
