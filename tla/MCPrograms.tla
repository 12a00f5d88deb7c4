----------------------------- MODULE MCPrograms -----------------------------
(* Small instances of Programs for TLC. *)
EXTENDS Programs

VS(id, main, ver, pre, vc, archs) ==
    [id |-> id, main |-> main, ver |-> ver, pre |-> pre, vc |-> vc, vcvars |-> TRUE, archs |-> archs,
     legacy |-> FALSE]

\* A release without ARM64 tools, a preview of the same main version and a later
\* one, an older release, and one without the C++ tools.
Release == VS("vs", 16, 1604, FALSE, TRUE, {"x64"})
Preview == VS("pre", 16, 1605, TRUE, TRUE, {"x64", "ARM64"})
Older   == VS("old", 15, 1509, FALSE, TRUE, {"x64"})
Core    == VS("core", 16, 1604, FALSE, FALSE, {})

Plain(list) == [root |-> TRUE, setup |-> "ok", list |-> list, ewdk |-> FALSE, named |-> FALSE,
                inEWDK |-> FALSE, env |-> Clean, x64 |-> TRUE,
                extlib |-> {"x64"}, extbin |-> {"ARM64"}]

MCMachines ==
    {Plain(<<Release, Preview, Older>>), Plain(<<Core, Release>>), Plain(<<>>),
     [Plain(<<Preview, Older>>) EXCEPT !.ewdk = TRUE, !.named = TRUE],
     [Plain(<<>>) EXCEPT !.ewdk = TRUE],
     [Plain(<<Release>>) EXCEPT !.setup = "none", !.ewdk = TRUE],
     [Plain(<<Release>>) EXCEPT !.setup = "broken", !.inEWDK = TRUE],
     [Plain(<<Older, Release>>) EXCEPT !.inEWDK = TRUE, !.x64 = FALSE],
     [Plain(<<Release, Preview>>) EXCEPT !.env = Vcvars([Clean EXCEPT !.init = TRUE], "vs", "x64")],
     [Plain(<<Release>>) EXCEPT !.root = FALSE]}

MCPositions == [vs |-> 0 .. 3, arch |-> {1, 3}, flavor |-> {0, 2}, engine |-> 0 .. 3, branch |-> {0, 2}]

Words == { <<"-", "L">>, <<"-", "-", "f">>, <<"-", "R">>, <<"-", "o">>, <<"-", "o", "=", "x">>,
           <<"-", "p", "x">>, <<"-", "-", "p", "p", "=">>, <<"-", "-", "o">>, <<"-", "-">>,
           <<"-", "h">>, <<"x">>, <<"y">>, <<>> }
Pieces == { <<"c", ":">>, <<"\\", "b">>, <<"\\">>, <<"/">>, <<".", ".">>, <<".">>, <<"?">> }

MCTexts == [line |-> {<<c>> : c \in {"a", Space, Quote, Slash, "|"}},
            options |-> Words, subcommand |-> Words, path |-> Pieces]
MCMaxPieces == [line |-> 6, options |-> 4, subcommand |-> 3, path |-> 6]
=============================================================================
