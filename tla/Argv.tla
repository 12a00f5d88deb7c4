-------------------------------- MODULE Argv --------------------------------
(***************************************************************************)
(* How a program of sources/ passes arguments to another: it escapes them  *)
(* into one command line (bela/escapeargv.hpp), which the other one splits *)
(* again (bela/tokenizecmdline.hpp, after the rules of Windows).           *)
(*                                                                         *)
(* A text is a sequence of characters.                                     *)
(***************************************************************************)
EXTENDS Integers, SequencesExt

Quote == "\""
Slash == "\\"
Space == " "
Blanks == {Space, "\t"}
Whitespaces == Blanks \cup {"\r", "\n"}
Null == "NUL"       \* the character of code 0

Times(n, c) == [i \in 1 .. n |-> c]

\* How many backslashes end with position i.
Run(s, i) ==
    LET run[k \in 0 .. i] == IF k = 0 \/ s[k] # Slash THEN 0 ELSE run[k - 1] + 1
    IN run[i]

-----------------------------------------------------------------------------
(* EscapeArgv.                                                             *)

EscapedChar(s, i) ==
    IF s[i] = Quote THEN Times(Run(s, i - 1) + 1, Slash) \o <<Quote>> ELSE <<s[i]>>

EscapedChars(s) ==
    LET escaped[i \in 0 .. Len(s)] ==
            IF i = 0 THEN <<>> ELSE escaped[i - 1] \o EscapedChar(s, i)
    IN escaped[Len(s)]

\* Mutant: backslashes before the closing quote are not doubled.
EscapedPlain(s) ==
    IF \E i \in DOMAIN s : s[i] \in Blanks
    THEN <<Quote>> \o EscapedChars(s) \o <<Quote>>
    ELSE EscapedChars(s)

\* What argv_escape_internal adds: quotes if there are blanks, and a backslash
\* for each that a quote follows.
Escaped(s) ==
    CASE s = <<>> -> <<Quote, Quote>>
      [] \E i \in DOMAIN s : s[i] \in Blanks ->
            <<Quote>> \o EscapedChars(s) \o Times(Run(s, Len(s)), Slash) \o <<Quote>>
      [] OTHER -> EscapedChars(s)

\* Append, which Assign calls on an empty line.
AppendArg(line, s) == IF line = <<>> THEN Escaped(s) ELSE line \o <<Space>> \o Escaped(s)
Assign(s) == AppendArg(<<>>, s)

\* AssignFull: its loop, on a line that is empty.
Lines(args) ==
    LET lines[n \in 0 .. Len(args)] ==
            IF n = 0 THEN <<>>
            ELSE (IF lines[n - 1] = <<>> THEN <<>> ELSE lines[n - 1] \o <<Space>>) \o Escaped(args[n])
    IN lines
AssignFull(args) == Lines(args)[Len(args)]

-----------------------------------------------------------------------------
(* The programs that start another one.                                    *)

\* cli.exe starts the script that has its name, cmdex.exe a command line, or
\* the batch file that has its name: what they were given comes last.
CommandLine(prefix, args) ==
    LET more == Tail(prefix) \o args
        lines[n \in 0 .. Len(more)] ==
            IF n = 0 THEN Assign(prefix[1]) ELSE AppendArg(lines[n - 1], more[n])
    IN lines[Len(more)]

-----------------------------------------------------------------------------
(* Tokenizer.                                                              *)

StripTrailingWhitespace(s) ==
    LET kept == {i \in DOMAIN s : s[i] \notin Whitespaces}
    IN IF kept = {} THEN <<>> ELSE SubSeq(s, 1, CHOOSE i \in kept : \A j \in kept : j <= i)

\* The backslashes from position i on: what they add to the token, and the
\* position after them.
ParseBackslash(s, i) ==
    LET n == CHOOSE n \in 1 .. Len(s) - i + 1 :
               /\ \A k \in i .. i + n - 1 : s[k] = Slash
               /\ i + n > Len(s) \/ s[i + n] # Slash
    IN IF i + n > Len(s) \/ s[i + n] # Quote THEN [add |-> Times(n, Slash), next |-> i + n]
       ELSE IF n % 2 = 0 THEN [add |-> Times(n \div 2, Slash), next |-> i + n]
       ELSE [add |-> Times(n \div 2, Slash) \o <<Quote>>, next |-> i + n + 1]

\* One turn of the loop of Tokenize at position i, which an earlier turn may
\* have gone past already.
Read(s, a, i) ==
    LET Take(add, st) == [a EXCEPT !.token = @ \o add, !.st = st]
        unquoted == IF a.st = "init" THEN "unquoted" ELSE a.st
    IN IF i < a.next THEN a
       ELSE IF a.st # "quoted" /\ s[i] \in Whitespaces \cup {Null} THEN
                IF a.st = "init" THEN a
                ELSE [a EXCEPT !.args = Append(@, a.token), !.token = <<>>, !.st = "init"]
       ELSE IF a.st # "quoted" /\ s[i] = Quote THEN Take(<<>>, "quoted")
       ELSE IF a.st = "quoted" /\ s[i] = Quote THEN
                IF i < Len(s) /\ s[i + 1] = Quote
                THEN [Take(<<Quote>>, "quoted") EXCEPT !.next = i + 2]
                ELSE Take(<<>>, "unquoted")
       ELSE IF s[i] = Slash THEN
                LET p == ParseBackslash(s, i) IN [Take(p.add, unquoted) EXCEPT !.next = p.next]
       ELSE Take(<<s[i]>>, unquoted)

ReadStart == [st |-> "init", token |-> <<>>, args |-> <<>>, next |-> 1]
Reads(s) ==
    LET read[i \in 0 .. Len(s)] == IF i = 0 THEN ReadStart ELSE Read(s, read[i - 1], i)
    IN read

Tokenize(line) ==
    LET s   == StripTrailingWhitespace(line)
        end == Reads(s)[Len(s)]
    IN IF s = <<>> THEN [ok |-> FALSE, args |-> <<>>]
       ELSE [ok |-> TRUE, args |-> Append(end.args, end.token)]

-----------------------------------------------------------------------------
(* Properties, of a text that is typed.                                    *)

\* The text as arguments, cut at each c.
Cut(s, c) ==
    LET cut[i \in 0 .. Len(s)] ==
            IF i = 0 THEN << <<>> >>
            ELSE IF s[i] = c THEN Append(cut[i - 1], <<>>)
            ELSE Append(Front(cut[i - 1]), Append(Last(cut[i - 1]), s[i]))
    IN cut[Len(s)]

\* The arguments a program passes to another arrive one for one, whatever blanks,
\* quotes and backslashes they hold: those of the text, after the program that
\* is started; and appended one by one or all at once they make the same line.
ArgumentsArrive(text) ==
    LET args   == Cut(text, "|")
        prefix == << <<"a", Space, Slash>>, <<"a">> >>
        line   == CommandLine(prefix, args)
    IN /\ Tokenize(line) = [ok |-> TRUE, args |-> prefix \o args]
       /\ AssignFull(prefix \o args) = line

\* A command line, split and put together again, is split into the same
\* arguments, however odd its quotes and backslashes are.
SplitOnceOrTwice(text) ==
    Tokenize(text).ok => Tokenize(AssignFull(Tokenize(text).args)) = Tokenize(text)
=============================================================================
