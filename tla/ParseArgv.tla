----------------------------- MODULE ParseArgv ------------------------------
(***************************************************************************)
(* The arguments of a program of sources/: bela/parseargv.hpp, and         *)
(* cli/blast.cc, which makes the symbolic links.                           *)
(*                                                                         *)
(* An argument is a sequence of characters.  An option is a record of its  *)
(* long name, its letter val, and has: "no", "required" or "optional".     *)
(***************************************************************************)
EXTENDS Integers, SequencesExt

Dash == "-"
Equal == "="

\* A parse: did it end well, the options that were passed to the callback with
\* their parameters, and the arguments that are none.
NoParam == [given |-> FALSE, text |-> <<>>]
Param(t) == [given |-> TRUE, text |-> t]

Broken(p) == [p EXCEPT !.ok = FALSE]
From(a, i) == SubSeq(a, i, Len(a))

\* Mutant: the parameter stays where it is.
CallOptionTwice(p, found, param, argv) ==
    LET o     == CHOOSE o \in found : TRUE
        later == ~param.given /\ o.has = "required"
        value == IF later THEN Param(argv[p.next]) ELSE param
    IN IF \/ found = {}
          \/ o.has = "no" /\ param.given
          \/ later /\ p.next > Len(argv)
       THEN Broken(p)
       ELSE [p EXCEPT !.calls = Append(@, [val |-> o.val, param |-> value])]

\* The second half of parse_internal_short and parse_internal_long: the option
\* is one of found.  A required parameter may be the next argument.
CallOption(p, found, param, argv) ==
    LET o     == CHOOSE o \in found : TRUE
        later == ~param.given /\ o.has = "required"
        value == IF later THEN Param(argv[p.next]) ELSE param
    IN IF \/ found = {}
          \/ o.has = "no" /\ param.given
          \/ later /\ p.next > Len(argv)
       THEN Broken(p)
       ELSE [p EXCEPT !.calls = Append(@, [val |-> o.val, param |-> value]),
                      !.next = IF later THEN @ + 1 ELSE @]

\* -x, -x=XXX, -xXXX.
ParseShort(p, a, options, argv) ==
    LET found == {o \in options : o.val = a[2]}
        param == IF Len(a) = 2 THEN NoParam
                 ELSE IF a[3] = Equal THEN Param(From(a, 4))
                 ELSE Param(From(a, 3))
    IN IF a[2] = Equal THEN Broken(p) ELSE CallOption(p, found, param, argv)

\* --xxx, --xxx=XXX.
ParseLong(p, a, options, argv) ==
    LET equals == {i \in 3 .. Len(a) : a[i] = Equal}
        pos    == CHOOSE i \in equals : \A j \in equals : i <= j
        Found(name) == {o \in options : o.name = name}
    IN IF equals = {} THEN CallOption(p, Found(From(a, 3)), NoParam, argv)
       ELSE IF pos = Len(a) THEN Broken(p)
       ELSE CallOption(p, Found(SubSeq(a, 3, pos - 1)), Param(From(a, pos + 1)), argv)

\* One turn of the loop of Execute: p.next is past the argument.
ParseOne(p, a, options, argv, subcmd) ==
    IF subcmd /\ a = <<Dash, Dash>> THEN [p EXCEPT !.rest = From(argv, p.next), !.next = Len(argv) + 1]
    ELSE IF a = <<>> \/ a[1] # Dash THEN
            IF subcmd THEN [p EXCEPT !.rest = From(argv, p.next - 1), !.next = Len(argv) + 1]
            ELSE [p EXCEPT !.rest = Append(@, a)]
    ELSE IF Len(a) = 1 THEN Broken(p)
    ELSE IF a[2] = Dash THEN ParseLong(p, a, options, argv)
    ELSE ParseShort(p, a, options, argv)

\* One turn of the loop at argument i, which an earlier turn may have gone past.
ParseTurn(p, i, argv, options, subcmd) ==
    IF ~p.ok \/ i < p.next THEN p
    ELSE ParseOne([p EXCEPT !.next = i + 1], argv[i], options, argv, subcmd)

\* Execute, of the arguments after the program's name.
ParseTurns(argv, options, subcmd) ==
    LET turn[i \in 0 .. Len(argv)] ==
            IF i = 0 THEN [ok |-> TRUE, calls |-> <<>>, rest |-> <<>>, next |-> 1]
            ELSE ParseTurn(turn[i - 1], i, argv, options, subcmd)
    IN turn
Execute(argv, options, subcmd) == ParseTurns(argv, options, subcmd)[Len(argv)]

\* A call of the callback, written as the option that asks for it.
Written(c) == <<Dash, c.val>> \o (IF c.param.given THEN <<Equal>> \o c.param.text ELSE <<>>)

\* Every argument is used once: one more argument at the end is one more option
\* or one more of the rest, or the parameter that was missing; written out again
\* as options and rest, the arguments are parsed into the same.
ArgumentsUsedOnce(argv, options, subcmd) ==
    LET p == Execute(argv, options, subcmd)
        before == Execute(Front(argv), options, subcmd)
        Used(e) == Len(e.calls) + Len(e.rest)
        again == Execute([i \in 1 .. Len(p.calls) |-> Written(p.calls[i])]
                         \o (IF subcmd THEN << <<Dash, Dash>> >> ELSE <<>>) \o p.rest,
                         options, subcmd)
    IN argv # <<>> /\ p.ok =>
         /\ again.ok /\ again.calls = p.calls /\ again.rest = p.rest
         /\ IF before.ok
            THEN Used(p) - Used(before) \in
                     {1} \cup (IF subcmd /\ Last(argv) = <<Dash, Dash>> THEN {0} ELSE {})
            ELSE /\ p.rest = before.rest
                 /\ p.calls = Append(before.calls, [val |-> Last(p.calls).val,
                                                    param |-> Param(Last(argv))])

-----------------------------------------------------------------------------
(* blast.                                                                  *)

\* The options of wmain; none of them takes a parameter.
BlastOption(letter, name) == [val |-> letter, name |-> name, has |-> "no"]

\* The last of -R, -L, -D, -A decides what blast does.
Mode(calls) ==
    LET modes == SelectSeq(calls, LAMBDA c : c.val \in {"R", "L", "D", "A"})
    IN IF modes = <<>> THEN "None" ELSE Last(modes).val

\* A file system: a name is that of a File, of nothing, or of a link to a name.
File == <<"file">>
NoFile == <<"none">>
There(fs, n) == IF n \in DOMAIN fs THEN fs[n] ELSE NoFile
\* canonical, link by link: where it comes to the end of the links, if it does.
Follows(fs, n) ==
    LET name[k \in 0 .. Cardinality(DOMAIN fs)] ==
            IF k = 0 THEN n
            ELSE IF There(fs, name[k - 1]) \in DOMAIN fs THEN There(fs, name[k - 1])
            ELSE name[k - 1]
    IN name
Follow(fs, n) == Follows(fs, n)[Cardinality(DOMAIN fs)]
Exists(fs, n) == There(fs, Follow(fs, n)) = File

\* Mutant: the file at dest goes before anybody looks whether src is there.
RemoveBefore(fs, src, dest, force) ==
    LET gone == [n \in DOMAIN fs |-> IF n = dest THEN NoFile ELSE fs[n]] IN
    IF ~Exists(gone, src) \/ dest \notin DOMAIN fs THEN {[code |-> -1, fs |-> gone]}
    ELSE {[code |-> 0, fs |-> [n \in DOMAIN fs |-> IF n = dest THEN Follow(fs, src) ELSE fs[n]]]}

\* createsymlink: its exit codes and what it leaves.  remove may fail, and so
\* may create_symlink, after the remove.
CreateSymlink(fs, src, dest, force) ==
    LET target == Follow(fs, src)
        gone   == [fs EXCEPT ![dest] = NoFile]
        made   == [fs EXCEPT ![dest] = target]
        Stop(code, left) == [code |-> code, fs |-> left]
    IN IF ~Exists(fs, src) THEN {Stop(-1, fs)}
       ELSE IF Exists(fs, dest) /\ ~force THEN {Stop(1, fs)}
       ELSE IF Exists(fs, dest) THEN {Stop(-1, fs), Stop(-1, gone), Stop(0, made)}
       ELSE IF dest \notin DOMAIN fs \/ There(fs, dest) # NoFile THEN {Stop(-1, fs)}   \* no such name
       ELSE {Stop(-1, fs), Stop(0, made)}

\* wmain: -h and -v end the program in the callback.
RunBlast(fs, argv, options) ==
    LET p == Execute(argv, options, FALSE)
        helped == \E i \in DOMAIN p.calls : p.calls[i].val \in {"h", "v"}
        force == \E i \in DOMAIN p.calls : p.calls[i].val = "F"
    IN IF helped THEN {[code |-> 0, fs |-> fs]}
       ELSE IF ~p.ok \/ Mode(p.calls) = "None" THEN {[code |-> 1, fs |-> fs]}
       ELSE IF Mode(p.calls) = "L" /\ Len(p.rest) = 2 THEN
                CreateSymlink(fs, p.rest[1], p.rest[2], force)
       ELSE IF Mode(p.calls) = "L" \/ p.rest = <<>> THEN {[code |-> 1, fs |-> fs]}
       ELSE {[code |-> 0, fs |-> fs]}   \* reads only; -D may also fail

\* "Link %s to %s success" (cli/blast.cc:167): then dest is a link to a file that
\* is there.  RunBlast changes nothing but dest, leaves a file it was not forced to
\* replace, and takes nothing away when there is nothing to link to.  Linking a
\* file to itself by force is left out: it leaves a link to itself.
LinkLeads(argv, options, files) ==
    \A fs \in files : \A r \in RunBlast(fs, argv, options) :
        LET p == Execute(argv, options, FALSE)
            src == p.rest[1]
            dest == p.rest[2]
            Given(letter) == \E i \in DOMAIN p.calls : p.calls[i].val = letter
            linked == /\ Mode(p.calls) = "L" /\ r.code = 0 /\ Len(p.rest) = 2
                      /\ ~Given("h") /\ ~Given("v")
        IN r.fs # fs \/ linked =>
               /\ Exists(fs, src)
               /\ \A n \in DOMAIN fs \ {dest} : r.fs[n] = fs[n]
               /\ Exists(fs, dest) => Given("F")
               /\ r.code = 0 /\ Follow(fs, src) # dest =>
                      r.fs[dest] = Follow(fs, src) /\ Exists(r.fs, dest)
=============================================================================
