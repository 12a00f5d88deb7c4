----------------------------- MODULE ArgvProofs -----------------------------
(***************************************************************************)
(* Theorems about the programs of sources/ that take or pass arguments,    *)
(* for texts of any length: Argv, ParseArgv.                               *)
(*                                                                         *)
(* What a loop over a text computes is proved by induction on positions.   *)
(* Induction is over a set of numbers, so that no operator is a parameter. *)
(***************************************************************************)
EXTENDS Programs, FiniteSetTheorems, SequenceTheorems, WellFoundedInduction, TLAPS

-----------------------------------------------------------------------------
(* Induction and recursion over positions.                                 *)

\* A set of natural numbers has a least element.
LEMMA Least ==
    ASSUME NEW S, S \subseteq Nat, S # {}
    PROVE  \E m \in S : \A k \in S : m <= k
<1>1. OpToRel(<, Nat) = {p \in Nat \X Nat : p[1] < p[2]}
  BY Zenon DEF OpToRel
<1> DEFINE R == {p \in Nat \X Nat : p[1] < p[2]}
<1>2. IsWellFoundedOn(R, Nat)
  BY <1>1, NatLessThanWellFounded, Zenon
<1>3. \E m \in S : \A k \in S : ~ (<<k, m>> \in R)
  <2> HIDE DEF R
  <2> QED
    BY <1>2, WFMin, Zenon
<1>4. PICK m \in S : \A k \in S : <<k, m>> \notin R
  BY <1>3
<1>5. ASSUME NEW k \in S PROVE m <= k
  <2>1. k \in Nat /\ m \in Nat /\ <<k, m>> \notin R
    BY <1>4, <1>5
  <2>2. k < m => <<k, m>> \in R
    BY <2>1
  <2> QED
    BY <2>1, <2>2
<1> QED
  BY <1>5

\* Induction up to n.
LEMMA Induction ==
    ASSUME NEW n \in Nat, NEW S, 0 \in S, \A i \in 0 .. n - 1 : i \in S => i + 1 \in S
    PROVE  0 .. n \subseteq S
<1> SUFFICES ASSUME (0 .. n) \ S # {} PROVE FALSE
  OBVIOUS
<1>0. (0 .. n) \ S \subseteq Nat
  OBVIOUS
<1>1. PICK m \in (0 .. n) \ S : \A k \in (0 .. n) \ S : m <= k
  BY <1>0, Least, Zenon
<1>2. m - 1 \in 0 .. n - 1 /\ m - 1 \in S
  BY <1>1
<1> QED
  BY <1>2

\* Induction up to n, from all that is below.
LEMMA StrongInduction ==
    ASSUME NEW n \in Nat, NEW S,
           \A i \in 0 .. n : (\A k \in 0 .. i - 1 : k \in S) => i \in S
    PROVE  0 .. n \subseteq S
<1> SUFFICES ASSUME (0 .. n) \ S # {} PROVE FALSE
  OBVIOUS
<1>0. (0 .. n) \ S \subseteq Nat
  OBVIOUS
<1>1. PICK m \in (0 .. n) \ S : \A k \in (0 .. n) \ S : m <= k
  BY <1>0, Least, Zenon
<1>2. \A k \in 0 .. m - 1 : k \in S
  BY <1>1
<1> QED
  BY <1>1, <1>2

\* A function that is defined from one number to the next exists.
Recurs(f, base, n, step) == f[0] = base /\ \A i \in 1 .. n : f[i] = step[<<f[i - 1], i>>]
LEMMA Recursion ==
    ASSUME NEW T, NEW base \in T, NEW n \in Nat, NEW step \in [T \X (1 .. n) -> T]
    PROVE  \E f \in [0 .. n -> T] : Recurs(f, base, n, step)
<1> DEFINE Upto(m, f) == f[0] = base /\ \A i \in 1 .. m : f[i] = step[<<f[i - 1], i>>]
           S == {m \in 0 .. n : \E f \in [0 .. m -> T] : Upto(m, f)}
<1>1. 0 \in S
  <2>1. [i \in 0 .. 0 |-> base] \in [0 .. 0 -> T] /\ Upto(0, [i \in 0 .. 0 |-> base])
    OBVIOUS
  <2>2. \E f \in [0 .. 0 -> T] : Upto(0, f)
    BY <2>1, Zenon
  <2> QED
    BY <2>2
<1>2. ASSUME NEW m \in 0 .. n - 1, m \in S PROVE m + 1 \in S
  <2>1. PICK f \in [0 .. m -> T] : Upto(m, f)
    BY <1>2
  <2> DEFINE g == [i \in 0 .. m + 1 |-> IF i <= m THEN f[i] ELSE step[<<f[m], m + 1>>]]
  <2>2. g \in [0 .. m + 1 -> T]
    BY <2>1
  <2>3. \A i \in 0 .. m : g[i] = f[i]
    OBVIOUS
  <2>4. g[m + 1] = step[<<g[m], m + 1>>]
    OBVIOUS
  <2>5. \A i \in 1 .. m + 1 : i = m + 1 \/ (i \in 1 .. m /\ i - 1 \in 0 .. m /\ i \in 0 .. m)
    OBVIOUS
  <2> HIDE DEF g
  <2>6. Upto(m + 1, g)
    BY <2>1, <2>3, <2>4, <2>5
  <2> QED
    BY <2>2, <2>6
<1>3. n \in S
  <2> HIDE DEF S
  <2> QED
    BY <1>1, <1>2, Induction
<1> QED
  BY <1>3 DEF Recurs

-----------------------------------------------------------------------------
(* blast.                                                                  *)

\* A file system: each of its names is that of a file, of nothing, or of a link to
\* one of them.
FileSystem(fs) ==
    /\ fs \in [DOMAIN fs -> {File, NoFile} \cup DOMAIN fs] /\ IsFiniteSet(DOMAIN fs)
    /\ File \notin DOMAIN fs /\ NoFile \notin DOMAIN fs

LEMMA FilesAreSystems == \A fs \in Files : FileSystem(fs)
<1> DEFINE N == {<<"x">>, <<"y">>, <<"z">>}
<1>1. File \notin N /\ NoFile \notin N
  <2>1. File[1] = "file" /\ NoFile[1] = "none" /\ \A n \in N : n[1] \in {"x", "y", "z"}
    BY DEF File, NoFile
  <2> QED
    BY <2>1
<1>2. IsFiniteSet(N)
  <2>1. /\ IsFiniteSet({<<"x">>}) /\ IsFiniteSet({<<"x">>} \cup {<<"y">>})
        /\ IsFiniteSet(({<<"x">>} \cup {<<"y">>}) \cup {<<"z">>})
    BY FS_Singleton, FS_AddElement
  <2>2. N = ({<<"x">>} \cup {<<"y">>}) \cup {<<"z">>}
    OBVIOUS
  <2> QED
    BY <2>1, <2>2, Zenon
<1>3. ASSUME NEW fs \in Files PROVE FileSystem(fs)
  <2>1. fs \in [N -> {File, NoFile} \cup N] /\ DOMAIN fs = N
    BY <1>3 DEF Files
  <2> HIDE DEF N
  <2> QED
    BY <1>1, <1>2, <2>1 DEF FileSystem
<1> QED
  BY <1>3

\* The links are followed one by one.
LEMMA FollowsStep ==
    ASSUME NEW fs, FileSystem(fs), NEW n
    PROVE  LET name == Follows(fs, n)
           IN /\ Cardinality(DOMAIN fs) \in Nat /\ name[0] = n
              /\ \A k \in 1 .. Cardinality(DOMAIN fs) :
                    name[k] = IF There(fs, name[k - 1]) \in DOMAIN fs THEN There(fs, name[k - 1])
                              ELSE name[k - 1]
<1> DEFINE C == Cardinality(DOMAIN fs)
           T == DOMAIN fs \cup {n}
           Turn(m) == IF There(fs, m) \in DOMAIN fs THEN There(fs, m) ELSE m
           step == [x \in T \X (1 .. C) |-> Turn(x[1])]
           Is(g) == g = [k \in 0 .. C |-> IF k = 0 THEN n ELSE Turn(g[k - 1])]
<1>1. C \in Nat
  BY FS_CardinalityType DEF FileSystem
<1> HIDE DEF C
<1>2. step \in [T \X (1 .. C) -> T]
  OBVIOUS
<1>3. PICK f \in [0 .. C -> T] : Recurs(f, n, C, step)
  <2>1. n \in T
    OBVIOUS
  <2> HIDE DEF step, T
  <2> QED
    BY <1>1, <1>2, <2>1, Recursion, Zenon
<1>4. \A k \in 1 .. C : f[k] = Turn(f[k - 1])
  <2> TAKE k \in 1 .. C
  <2>1. f[k - 1] \in T
    BY <1>1, <1>3
  <2> QED
    BY <1>3, <2>1 DEF Recurs
<1>5. Is(f)
  BY <1>1, <1>3, <1>4 DEF Recurs
<1>6. Follows(fs, n) = CHOOSE g : Is(g)
  BY DEF Follows, C
<1>7. Is(Follows(fs, n))
  <2> HIDE DEF Is
  <2> QED
    BY <1>5, <1>6, Zenon
<1> QED
  BY <1>1, <1>7 DEF C

\* Where they end there is no link to go on with.
LEMMA FollowEnds ==
    ASSUME NEW fs, FileSystem(fs), NEW n, NEW m, There(fs, m) \notin DOMAIN fs,
           m = IF There(fs, n) \in DOMAIN fs THEN There(fs, n) ELSE n
    PROVE  Follow(fs, n) = m
<1> DEFINE C == Cardinality(DOMAIN fs)
           name == Follows(fs, n)
           S == {k \in 0 .. C : k > 0 => name[k] = m}
<1>1. /\ C \in Nat /\ name[0] = n
      /\ \A k \in 1 .. C : name[k] = IF There(fs, name[k - 1]) \in DOMAIN fs
                                     THEN There(fs, name[k - 1]) ELSE name[k - 1]
  BY FollowsStep
<1> HIDE DEF name, C
<1>2. 0 \in S
  BY <1>1
<1>3. ASSUME NEW k \in 0 .. C - 1, k \in S PROVE k + 1 \in S
  <2>1. name[k + 1] = IF There(fs, name[k]) \in DOMAIN fs THEN There(fs, name[k]) ELSE name[k]
    BY <1>1
  <2>2. name[k] = n \/ name[k] = m
    BY <1>1, <1>3
  <2> QED
    BY <1>1, <2>1, <2>2
<1>4. C \in S
  <2> HIDE DEF S
  <2> QED
    BY <1>1, <1>2, <1>3, Induction
<1>5. C = 0 => n = m
  <2>1. C = 0 => DOMAIN fs = {}
    BY FS_EmptySet DEF C, FileSystem
  <2> QED
    BY <2>1
<1> QED
  BY <1>1, <1>4, <1>5 DEF Follow, name, C

\* What createsymlink leaves, whatever the names are.
LEMMA SymlinkMade ==
    ASSUME NEW fs, FileSystem(fs), NEW src, NEW dest, NEW force \in BOOLEAN,
           NEW r \in CreateSymlink(fs, src, dest, force), r.fs # fs \/ r.code = 0
    PROVE  /\ Exists(fs, src)
           /\ \A n \in DOMAIN fs \ {dest} : r.fs[n] = fs[n]
           /\ Exists(fs, dest) => force
           /\ r.code = 0 /\ Follow(fs, src) # dest =>
                  r.fs[dest] = Follow(fs, src) /\ Exists(r.fs, dest)
<1> DEFINE target == Follow(fs, src)
           gone == [fs EXCEPT ![dest] = NoFile]
           made == [fs EXCEPT ![dest] = target]
<1> DEFINE N == DOMAIN fs
<1>1. fs \in [N -> {File, NoFile} \cup N] /\ File \notin N /\ NoFile \notin N
  BY DEF FileSystem
<1>2. File # NoFile
  BY DEF File, NoFile
<1>3. Exists(fs, src) /\ (Exists(fs, dest) => force)
  BY DEF CreateSymlink
<1>4. target \in N /\ fs[target] = File
  BY <1>1, <1>2, <1>3 DEF Exists, There
<1>5. /\ dest \in N
      /\ \/ r = [code |-> -1, fs |-> gone]
         \/ r = [code |-> 0, fs |-> made]
  <2>1. Exists(fs, dest) => dest \in N
    <3>1. SUFFICES ASSUME dest \notin N PROVE ~Exists(fs, dest)
      OBVIOUS
    <3>2. There(fs, dest) = NoFile
      BY <3>1 DEF There
    <3>3. Follow(fs, dest) = dest
      BY <1>1, <3>2, FollowEnds
    <3> QED
      BY <1>2, <3>2, <3>3 DEF Exists
  <2> QED
    BY <1>1, <1>3, <2>1 DEF CreateSymlink
<1>6. \A n \in N \ {dest} : gone[n] = fs[n] /\ made[n] = fs[n]
  BY <1>1
<1>7. ASSUME r.code = 0, target # dest PROVE r.fs[dest] = target /\ Exists(r.fs, dest)
  <2>1. r.fs = made
    BY <1>5, <1>7
  <2>2. made[dest] = target /\ made[target] = File /\ DOMAIN made = N /\ dest \in N
    BY <1>1, <1>4, <1>5, <1>7
  <2>5. FileSystem(made)
    BY <1>1, <1>4, <2>2 DEF FileSystem
  <2> HIDE DEF made
  <2>3. There(made, dest) = target /\ There(made, target) = File
    BY <1>4, <2>2 DEF There
  <2>4. Follow(made, dest) = target
    BY <1>1, <1>4, <2>2, <2>3, <2>5, FollowEnds
  <2> QED
    BY <2>1, <2>2, <2>3, <2>4 DEF Exists
<1> QED
  BY <1>1, <1>3, <1>5, <1>6, <1>7

\* "Link %s to %s success" (cli/blast.cc:167): then the link leads to a file; and
\* blast touches nothing else, nor a file it was not forced to replace, nor anything
\* when there is nothing to link to: for every command line and every file
\* system, whichever of its calls fails.
THEOREM BlastTouchesOnlyDest ==
    ASSUME NEW argv, NEW options, NEW files, \A fs \in files : FileSystem(fs)
    PROVE  LinkLeads(argv, options, files)
<1> SUFFICES ASSUME NEW fs \in files, NEW r \in RunBlast(fs, argv, options)
             PROVE  LET p == Execute(argv, options, FALSE)
                        src == p.rest[1]
                        dest == p.rest[2]
                        Given(letter) == \E i \in DOMAIN p.calls : p.calls[i].val = letter
                        linked == /\ Mode(p.calls) = "L" /\ r.code = 0 /\ Len(p.rest) = 2
                                  /\ ~Given("h") /\ ~Given("v")
                    IN r.fs # fs \/ linked =>
                           /\ Exists(fs, src)
                           /\ \A n \in DOMAIN fs \ {dest} : r.fs[n] = fs[n]
                           /\ Exists(fs, dest) => Given("F")
                           /\ r.code = 0 /\ Follow(fs, src) # dest =>
                                  r.fs[dest] = Follow(fs, src) /\ Exists(r.fs, dest)
  BY DEF LinkLeads
<1> DEFINE p == Execute(argv, options, FALSE)
           Given(letter) == \E i \in DOMAIN p.calls : p.calls[i].val = letter
           linked == /\ Mode(p.calls) = "L" /\ r.code = 0 /\ Len(p.rest) = 2
                     /\ ~Given("h") /\ ~Given("v")
<1>1. CASE Mode(p.calls) = "L" /\ Len(p.rest) = 2 /\ p.ok /\ ~Given("h") /\ ~Given("v")
  <2>1. r \in CreateSymlink(fs, p.rest[1], p.rest[2], Given("F"))
    BY <1>1 DEF RunBlast
  <2>2. FileSystem(fs) /\ Given("F") \in BOOLEAN
    OBVIOUS
  <2>3. r.fs # fs \/ r.code = 0 =>
           /\ Exists(fs, p.rest[1])
           /\ \A n \in DOMAIN fs \ {p.rest[2]} : r.fs[n] = fs[n]
           /\ Exists(fs, p.rest[2]) => Given("F")
           /\ r.code = 0 /\ Follow(fs, p.rest[1]) # p.rest[2] =>
                  /\ r.fs[p.rest[2]] = Follow(fs, p.rest[1])
                  /\ Exists(r.fs, p.rest[2])
    <3> HIDE DEF p, Given
    <3> QED
      BY <2>1, <2>2, SymlinkMade
  <2> QED
    BY <1>1, <2>3, Zenon
<1>2. CASE ~(Mode(p.calls) = "L" /\ Len(p.rest) = 2 /\ p.ok /\ ~Given("h") /\ ~Given("v"))
  <2> DEFINE helped == \E i \in DOMAIN p.calls : p.calls[i].val \in {"h", "v"}
  <2>1. helped <=> Given("h") \/ Given("v")
    OBVIOUS
  <2>2. \/ helped /\ r = [code |-> 0, fs |-> fs]
        \/ r = [code |-> 1, fs |-> fs]
        \/ Mode(p.calls) # "L" /\ r = [code |-> 0, fs |-> fs]
    BY <1>2, <2>1 DEF RunBlast
  <2>3. r.fs = fs /\ ~linked
    <3> HIDE DEF p, helped, Given
    <3> QED
      BY <2>1, <2>2
  <2> QED
    BY <2>3, Zenon
<1> QED
  BY <1>1, <1>2

\* The property of the runs, for every text that can be typed.
THEOREM BlastLinksLead == ProgramsSpec => []BlastLinks
<1>1. BlastLinks
  BY FilesAreSystems, BlastTouchesOnlyDest DEF BlastLinks
<1> QED
  BY <1>1, PTL

-----------------------------------------------------------------------------
(* EscapeArgv.                                                             *)

LEMMA CharsDiffer ==
    /\ Quote # Slash /\ Quote \notin Blanks /\ Slash \notin Blanks
    /\ Quote \notin Whitespaces \cup {Null} /\ Slash \notin Whitespaces \cup {Null}
    /\ Space \in Blanks /\ Space # Quote /\ Space # Slash
BY DEF Quote, Slash, Space, Blanks, Whitespaces, Null

\* n backslashes end with position i, and no more.
IsRun(s, i, n) ==
    /\ n \in 0 .. i
    /\ \A k \in i - n + 1 .. i : s[k] = Slash
    /\ n = i \/ s[i - n] # Slash

LEMMA RunIs ==
    ASSUME NEW s, NEW i \in Nat
    PROVE  IsRun(s, i, Run(s, i))
<1> DEFINE step == [x \in Nat \X (1 .. i) |-> IF s[x[2]] # Slash THEN 0 ELSE x[1] + 1]
           Is(g) == g = [k \in 0 .. i |-> IF k = 0 \/ s[k] # Slash THEN 0 ELSE g[k - 1] + 1]
<1>1. step \in [Nat \X (1 .. i) -> Nat] /\ 0 \in Nat
  OBVIOUS
<1>2. PICK f \in [0 .. i -> Nat] : Recurs(f, 0, i, step)
  <2> HIDE DEF step
  <2> QED
    BY <1>1, Recursion, Zenon
<1>3. \A k \in 1 .. i : f[k] = IF s[k] # Slash THEN 0 ELSE f[k - 1] + 1
  <2> TAKE k \in 1 .. i
  <2>1. f[k - 1] \in Nat
    BY <1>2
  <2> QED
    BY <1>2, <2>1 DEF Recurs
<1>4. Is(f) /\ f[0] = 0
  BY <1>2, <1>3 DEF Recurs
<1> DEFINE run == CHOOSE g : Is(g)
<1>5. Is(run)
  <2> HIDE DEF Is
  <2> QED
    BY <1>4, Zenon
<1>6. Run(s, i) = run[i]
  BY DEF Run
<1> HIDE DEF run
<1> DEFINE T == {k \in 0 .. i : IsRun(s, k, run[k])}
<1>7. 0 \in T
  BY <1>5 DEF IsRun
<1>8. ASSUME NEW k \in 0 .. i - 1, k \in T PROVE k + 1 \in T
  <2>1. run[k + 1] = IF s[k + 1] # Slash THEN 0 ELSE run[k] + 1
    BY <1>5
  <2>2. IsRun(s, k, run[k])
    BY <1>8
  <2>3. CASE s[k + 1] # Slash
    BY <2>1, <2>3 DEF IsRun
  <2>4. CASE s[k + 1] = Slash
    <3> DEFINE n == run[k]
    <3>1. n \in 0 .. k /\ (\A m \in k - n + 1 .. k : s[m] = Slash) /\ (n = k \/ s[k - n] # Slash)
      BY <2>2 DEF IsRun
    <3> HIDE DEF n
    <3>2. IsRun(s, k + 1, n + 1)
      BY <2>4, <3>1 DEF IsRun
    <3> QED
      BY <2>1, <2>4, <3>2 DEF n
  <2> QED
    BY <2>3, <2>4
<1>9. i \in T
  <2> HIDE DEF T
  <2> QED
    BY <1>7, <1>8, Induction, i \in 0 .. i
<1> QED
  BY <1>6, <1>9

LEMMA RunUnique ==
    ASSUME NEW s, NEW i \in Nat, NEW n, NEW m, IsRun(s, i, n), IsRun(s, i, m)
    PROVE  n = m
<1>1. ASSUME NEW j \in 0 .. i, NEW k \in 0 .. i, j < k, IsRun(s, i, j), IsRun(s, i, k)
      PROVE  FALSE
  <2>1. s[i - j] # Slash /\ i - j \in i - k + 1 .. i
    BY <1>1 DEF IsRun
  <2> QED
    BY <1>1, <2>1 DEF IsRun
<1> QED
  BY <1>1 DEF IsRun

LEMMA TimesProperties ==
    ASSUME NEW C, NEW c \in C, NEW n \in Nat
    PROVE  /\ Times(n, c) \in Seq(C) /\ Len(Times(n, c)) = n
           /\ \A k \in 1 .. n : Times(n, c)[k] = c
BY DEF Times

\* A character as it is escaped: itself, after backslashes.
Width(a, j) == IF a[j] = Quote THEN Run(a, j - 1) + 2 ELSE 1

LEMMA EscapedCharIs ==
    ASSUME NEW C, {Quote, Slash} \subseteq C, NEW a \in Seq(C), NEW j \in 1 .. Len(a)
    PROVE  /\ EscapedChar(a, j) \in Seq(C)
           /\ Len(EscapedChar(a, j)) = Width(a, j) /\ Width(a, j) \in Nat \ {0}
           /\ EscapedChar(a, j)[Width(a, j)] = a[j]
           /\ \A k \in 1 .. Width(a, j) - 1 : EscapedChar(a, j)[k] = Slash
<1>1. Run(a, j - 1) \in Nat
  BY RunIs DEF IsRun
<1>2. CASE a[j] = Quote
  <2> DEFINE t == Times(Run(a, j - 1) + 1, Slash)
  <2>1. /\ t \in Seq(C) /\ Len(t) = Run(a, j - 1) + 1
        /\ \A k \in 1 .. Run(a, j - 1) + 1 : t[k] = Slash
    <3>1. Run(a, j - 1) + 1 \in Nat /\ Slash \in C
      BY <1>1
    <3> QED
      BY <3>1, TimesProperties
  <2>2. EscapedChar(a, j) = t \o <<Quote>>
    BY <1>2 DEF EscapedChar
  <2> HIDE DEF t
  <2>3. <<Quote>> \in Seq(C) /\ Len(<<Quote>>) = 1 /\ <<Quote>>[1] = Quote
    OBVIOUS
  <2> QED
    BY <1>1, <1>2, <2>1, <2>2, <2>3, ConcatProperties DEF Width
<1>3. CASE a[j] # Quote
  <2>1. a[j] \in C
    BY ElementOfSeq
  <2> QED
    BY <1>3, <2>1 DEF Width, EscapedChar
<1> QED
  BY <1>2, <1>3

\* Where each character of a is when the text before it is escaped; and that
\* there it is, with backslashes in between.
Offsets(a, E) ==
    /\ E \in [0 .. Len(a) -> Nat] /\ E[0] = 0
    /\ \A j \in 1 .. Len(a) : E[j] = E[j - 1] + Width(a, j)
Shape(t, a, j, E) ==
    /\ Len(t) = E[j]
    /\ \A m \in 1 .. j : /\ t[E[m]] = a[m]
                         /\ \A k \in E[m - 1] + 1 .. E[m] - 1 : t[k] = Slash

LEMMA OffsetsGrow ==
    ASSUME NEW C, {Quote, Slash} \subseteq C, NEW a \in Seq(C), NEW E, Offsets(a, E)
    PROVE  \A i, j \in 0 .. Len(a) : i < j => E[i] < E[j]
<1> SUFFICES ASSUME NEW i \in 0 .. Len(a)
             PROVE  \A j \in 0 .. Len(a) : i < j => E[i] < E[j]
  OBVIOUS
<1> DEFINE S == {j \in 0 .. Len(a) : i < j => E[i] < E[j]}
<1>1. Len(a) \in Nat /\ 0 \in S
  OBVIOUS
<1>2. ASSUME NEW j \in 0 .. Len(a) - 1, j \in S PROVE j + 1 \in S
  <2>1. j + 1 \in 1 .. Len(a)
    BY <1>1
  <2>2. E[j + 1] = E[j] + Width(a, j + 1) /\ Width(a, j + 1) \in Nat \ {0}
    BY <1>1, <2>1, EscapedCharIs DEF Offsets
  <2>3. E[i] \in Nat /\ E[j] \in Nat
    BY <1>1 DEF Offsets
  <2> QED
    BY <1>1, <1>2, <2>1, <2>2, <2>3
<1>3. 0 .. Len(a) \subseteq S
  <2> HIDE DEF S
  <2> QED
    BY <1>1, <1>2, Induction
<1> QED
  BY <1>3

\* One sequence after another.
LEMMA Concat ==
    ASSUME NEW C, NEW u \in Seq(C), NEW v \in Seq(C)
    PROVE  /\ u \o v \in Seq(C) /\ Len(u \o v) = Len(u) + Len(v)
           /\ \A k \in 1 .. Len(u) : (u \o v)[k] = u[k]
           /\ \A k \in 1 .. Len(v) : (u \o v)[Len(u) + k] = v[k]
<1>1. Len(u) \in Nat /\ Len(v) \in Nat
  OBVIOUS
<1>2. ASSUME NEW k \in 1 .. Len(u) PROVE (u \o v)[k] = u[k]
  BY <1>1, ConcatProperties
<1>3. ASSUME NEW k \in 1 .. Len(v) PROVE (u \o v)[Len(u) + k] = v[k]
  <2>1. Len(u) + k \in 1 .. Len(u) + Len(v) /\ ~(Len(u) + k <= Len(u)) /\ Len(u) + k - Len(u) = k
    BY <1>1
  <2> QED
    BY <2>1, ConcatProperties
<1> QED
  BY <1>2, <1>3, ConcatProperties

Associates(u, v, w) == (u \o v) \o w = u \o (v \o w)
LEMMA Association ==
    ASSUME NEW C, NEW u \in Seq(C), NEW v \in Seq(C), NEW w \in Seq(C)
    PROVE  Associates(u, v, w)
BY ConcatAssociative DEF Associates

IsConcat(t, u, v, m, n) ==
    /\ Len(t) = m + n
    /\ \A k \in 1 .. m : t[k] = u[k]
    /\ \A k \in 1 .. n : t[m + k] = v[k]
LEMMA ConcatIs ==
    ASSUME NEW C, NEW u \in Seq(C), NEW v \in Seq(C)
    PROVE  u \o v \in Seq(C) /\ IsConcat(u \o v, u, v, Len(u), Len(v))
<1>1. u \o v \in Seq(C) /\ Len(u \o v) = Len(u) + Len(v)
  BY Concat
<1>2. \A k \in 1 .. Len(u) : (u \o v)[k] = u[k]
  BY Concat
<1>3. \A k \in 1 .. Len(v) : (u \o v)[Len(u) + k] = v[k]
  BY Concat
<1> QED
  BY <1>1, <1>2, <1>3 DEF IsConcat

\* One more character.
LEMMA ShapeGrows ==
    ASSUME NEW C, {Quote, Slash} \subseteq C, NEW a \in Seq(C), NEW E, Offsets(a, E),
           NEW j \in 0 .. Len(a) - 1, NEW t \in Seq(C), Shape(t, a, j, E)
    PROVE  Shape(t \o EscapedChar(a, j + 1), a, j + 1, E)
<1> DEFINE u == EscapedChar(a, j + 1)
           w == Width(a, j + 1)
           v == t \o u
<1>1. /\ u \in Seq(C) /\ Len(u) = w /\ w \in Nat \ {0} /\ u[w] = a[j + 1]
      /\ \A k \in 1 .. w - 1 : u[k] = Slash
  BY EscapedCharIs
<1>2. E[j + 1] = E[j] + w /\ E[j] \in Nat /\ Len(t) = E[j] /\ j + 1 \in 1 .. Len(a)
  BY DEF Offsets, Shape
<1> HIDE DEF u, w
<1>3. /\ Len(v) = E[j + 1]
      /\ \A k \in 1 .. E[j] : v[k] = t[k]
      /\ \A k \in 1 .. w : v[E[j] + k] = u[k]
  <2>0. t \in Seq(C) /\ u \in Seq(C)
    BY <1>1
  <2>1. Len(t \o u) = Len(t) + Len(u)
    BY <2>0, Concat
  <2>2. \A k \in 1 .. Len(t) : (t \o u)[k] = t[k]
    BY <2>0, Concat
  <2>3. \A k \in 1 .. Len(u) : (t \o u)[Len(t) + k] = u[k]
    BY <2>0, Concat
  <2> QED
    BY <1>1, <1>2, <2>1, <2>2, <2>3
<1> HIDE DEF v
<1>4. ASSUME NEW m \in 1 .. j
      PROVE  /\ v[E[m]] = a[m]
             /\ \A k \in E[m - 1] + 1 .. E[m] - 1 : v[k] = Slash
  <2>1. /\ E[m - 1] \in Nat /\ E[m] \in Nat /\ E[m - 1] < E[m] /\ E[m] <= E[j]
        /\ m - 1 \in 0 .. Len(a) /\ m \in 0 .. Len(a)
    <3>1. m - 1 \in 0 .. Len(a) /\ m \in 0 .. Len(a) /\ j \in 0 .. Len(a)
      BY <1>2
    <3>2. E[m - 1] < E[m] /\ (m < j => E[m] < E[j])
      BY <3>1, OffsetsGrow
    <3> QED
      BY <1>2, <3>1, <3>2 DEF Offsets
  <2>2. t[E[m]] = a[m] /\ \A k \in E[m - 1] + 1 .. E[m] - 1 : t[k] = Slash
    BY DEF Shape
  <2>3. E[m] \in 1 .. E[j] /\ \A k \in E[m - 1] + 1 .. E[m] - 1 : k \in 1 .. E[j]
    BY <1>2, <2>1
  <2> QED
    BY <1>3, <2>2, <2>3
<1>5. /\ v[E[j + 1]] = a[j + 1]
      /\ \A k \in E[j] + 1 .. E[j + 1] - 1 : v[k] = Slash
  <2>1. ASSUME NEW k \in E[j] + 1 .. E[j + 1] - 1 PROVE v[k] = Slash
    <3> DEFINE x == E[j]
               y == E[j + 1]
    <3>1. y = x + w /\ x \in Nat /\ w \in Nat \ {0} /\ k \in x + 1 .. y - 1
      BY <1>1, <1>2, <2>1
    <3>2. \A h \in 1 .. w : v[x + h] = u[h]
      BY <1>3
    <3> HIDE DEF x, y
    <3>3. PICK h \in 1 .. w - 1 : x + h = k
      <4>1. k - x \in 1 .. w - 1 /\ x + (k - x) = k
        BY <3>1
      <4> QED
        BY <4>1
    <3>4. h \in 1 .. w
      BY <3>1
    <3>5. v[x + h] = u[h] /\ u[h] = Slash
      BY <1>1, <3>2, <3>4
    <3> QED
      BY <3>3, <3>5, Zenon
  <2> QED
    BY <1>1, <1>2, <1>3, <2>1
<1>6. \A m \in 1 .. j + 1 : m \in 1 .. j \/ m = j + 1
  OBVIOUS
<1>7. Shape(v, a, j + 1, E)
  BY <1>3, <1>4, <1>5, <1>6 DEF Shape
<1> QED
  BY <1>7 DEF v, u

LEMMA EscapedCharsIs ==
    ASSUME NEW C, {Quote, Slash} \subseteq C, NEW a \in Seq(C)
    PROVE  /\ EscapedChars(a) \in Seq(C)
           /\ \E E : Offsets(a, E) /\ Shape(EscapedChars(a), a, Len(a), E)
<1> DEFINE n == Len(a)
           More(t, i) == t \o EscapedChar(a, i)
           step == [x \in Seq(C) \X (1 .. n) |-> More(x[1], x[2])]
           Is(g) == g = [i \in 0 .. n |-> IF i = 0 THEN <<>> ELSE More(g[i - 1], i)]
           escaped == CHOOSE g : Is(g)
<1>1. n \in Nat /\ <<>> \in Seq(C) /\ Len(<<>>) = 0
  OBVIOUS
<1>2. EscapedChars(a) = escaped[n]
  BY DEF EscapedChars
<1>3. ASSUME NEW t \in Seq(C), NEW i \in 1 .. n
      PROVE  More(t, i) \in Seq(C) /\ Len(More(t, i)) = Len(t) + Width(a, i)
  <2>1. EscapedChar(a, i) \in Seq(C) /\ Len(EscapedChar(a, i)) = Width(a, i)
    BY EscapedCharIs
  <2> QED
    BY <2>1, Concat
<1>4. \A i \in 0 .. n - 1 : \A t \in Seq(C) : \A E :
          Offsets(a, E) /\ Shape(t, a, i, E) => Shape(More(t, i + 1), a, i + 1, E)
  BY ShapeGrows
<1> HIDE DEF More
<1>5. step \in [Seq(C) \X (1 .. n) -> Seq(C)]
  BY <1>3
<1>6. PICK f \in [0 .. n -> Seq(C)] : Recurs(f, <<>>, n, step)
  <2> HIDE DEF step, n
  <2> QED
    BY <1>1, <1>5, Recursion, Zenon
<1>7. Offsets(a, [i \in 0 .. n |-> Len(f[i])]) <=>
          /\ \A i \in 0 .. n : Len(f[i]) \in Nat
          /\ Len(f[0]) = 0
          /\ \A i \in 1 .. n : Len(f[i]) = Len(f[i - 1]) + Width(a, i)
  <2> DEFINE E == [i \in 0 .. n |-> Len(f[i])]
  <2>1. /\ 0 \in 0 .. n /\ \A i \in 1 .. n : i \in 0 .. n /\ i - 1 \in 0 .. n
        /\ \A i \in 0 .. n : E[i] = Len(f[i])
    BY <1>1
  <2>2. E \in [0 .. n -> Nat] <=> \A i \in 0 .. n : E[i] \in Nat
    OBVIOUS
  <2> HIDE DEF E
  <2> QED
    BY <2>1, <2>2 DEF Offsets, E
<1> HIDE DEF n
<1>8. ASSUME NEW i \in 1 .. n PROVE f[i - 1] \in Seq(C) /\ f[i] = More(f[i - 1], i)
  <2>1. f[i - 1] \in Seq(C)
    BY <1>1, <1>6
  <2> QED
    BY <1>6, <2>1 DEF Recurs
<1>9. f[0] = <<>>
  BY <1>6 DEF Recurs
<1>10. escaped = f
  <2>1. f = [i \in 0 .. n |-> f[i]] /\ \A i \in 0 .. n : i = 0 \/ i \in 1 .. n
    BY <1>1, <1>6
  <2>2. Is(f)
    BY <1>8, <1>9, <2>1
  <2>3. Is(escaped)
    <3> HIDE DEF Is
    <3> QED
      BY <2>2, Zenon
  <2> HIDE DEF escaped
  <2>4. \A i \in 0 .. n : escaped[i] = IF i = 0 THEN <<>> ELSE More(escaped[i - 1], i)
    BY <2>3, Zenon
  <2> DEFINE S == {i \in 0 .. n : escaped[i] = f[i]}
  <2>5. 0 \in S
    BY <1>1, <1>9, <2>4
  <2>6. ASSUME NEW i \in 0 .. n - 1, i \in S PROVE i + 1 \in S
    <3>1. i + 1 \in 1 .. n /\ i + 1 \in 0 .. n /\ i + 1 - 1 = i /\ i + 1 # 0
      BY <1>1
    <3> QED
      BY <1>8, <2>4, <2>6, <3>1
  <2>7. 0 .. n \subseteq S
    <3> HIDE DEF S
    <3> QED
      BY <1>1, <2>5, <2>6, Induction
  <2>8. escaped = [i \in 0 .. n |-> escaped[i]]
    BY <2>3
  <2> QED
    BY <2>1, <2>7, <2>8
<1> DEFINE E == [i \in 0 .. n |-> Len(f[i])]
<1>11. Offsets(a, E)
  <2>1. \A i \in 0 .. n : Len(f[i]) \in Nat
    BY <1>6
  <2>2. \A i \in 1 .. n : Len(f[i]) = Len(f[i - 1]) + Width(a, i)
    BY <1>3, <1>8
  <2> QED
    BY <1>1, <1>7, <1>9, <2>1, <2>2
<1>12. E[0] = 0 /\ Len(f[0]) = 0
  BY <1>1, <1>9
<1> HIDE DEF E
<1> DEFINE S == {i \in 0 .. n : Shape(f[i], a, i, E)}
<1>13. 0 \in S
  BY <1>1, <1>12 DEF Shape
<1>14. ASSUME NEW i \in 0 .. n - 1, i \in S PROVE i + 1 \in S
  <2>1. i + 1 \in 1 .. n /\ i + 1 \in 0 .. n /\ i + 1 - 1 = i
    BY <1>1
  <2>2. f[i] \in Seq(C) /\ f[i + 1] = More(f[i], i + 1)
    BY <1>8, <2>1
  <2> QED
    BY <1>4, <1>11, <1>14, <2>1, <2>2
<1>15. n \in S
  <2> HIDE DEF S
  <2> QED
    BY <1>1, <1>13, <1>14, Induction, n \in 0 .. n
<1>16. f[n] \in Seq(C) /\ Shape(f[n], a, n, E)
  BY <1>1, <1>6, <1>15
<1> HIDE DEF escaped
<1> QED
  BY <1>2, <1>10, <1>11, <1>16 DEF n

-----------------------------------------------------------------------------
(* Tokenizer.                                                              *)

\* n backslashes begin at position i, and no more.
Slashes(s, i, n) ==
    /\ n \in 1 .. Len(s) - i + 1
    /\ \A k \in i .. i + n - 1 : s[k] = Slash
    /\ i + n > Len(s) \/ s[i + n] # Slash

LEMMA SlashesAre ==
    ASSUME NEW C, NEW s \in Seq(C), NEW i \in 1 .. Len(s), s[i] = Slash
    PROVE  \E n \in Nat : Slashes(s, i, n)
<1> DEFINE S == {k \in i .. Len(s) + 1 : k = Len(s) + 1 \/ s[k] # Slash}
<1>1. Len(s) \in Nat /\ S \subseteq Nat /\ Len(s) + 1 \in S
  OBVIOUS
<1>2. PICK m \in S : \A k \in S : m <= k
  <2> HIDE DEF S
  <2>1. S # {}
    BY <1>1
  <2> QED
    BY <1>1, <2>1, Least, Zenon
<1>3. m - i \in 1 .. Len(s) - i + 1 /\ i + (m - i) = m
  BY <1>1, <1>2
<1>4. \A k \in i .. m - 1 : s[k] = Slash
  BY <1>1, <1>2
<1>5. Slashes(s, i, m - i)
  BY <1>1, <1>2, <1>3, <1>4 DEF Slashes
<1> QED
  BY <1>3, <1>5

LEMMA SlashesUnique ==
    ASSUME NEW C, NEW s \in Seq(C), NEW i \in 1 .. Len(s), NEW n, NEW m,
           Slashes(s, i, n), Slashes(s, i, m)
    PROVE  n = m
<1>1. ASSUME NEW j \in 1 .. Len(s), NEW k \in 1 .. Len(s) + 1, j < k,
             Slashes(s, i, j), Slashes(s, i, k)
      PROVE  FALSE
  <2>1. i + j \in i .. i + k - 1 /\ i + j <= Len(s)
    BY <1>1 DEF Slashes
  <2> QED
    BY <1>1, <2>1 DEF Slashes
<1>2. n \in 1 .. Len(s) - i + 1 /\ m \in 1 .. Len(s) - i + 1
  BY DEF Slashes
<1> QED
  BY <1>1, <1>2

\* What ParseBackslash finds.
LEMMA ParseBackslashIs ==
    ASSUME NEW C, NEW s \in Seq(C), NEW i \in 1 .. Len(s), NEW n, Slashes(s, i, n)
    PROVE  ParseBackslash(s, i) =
               IF i + n > Len(s) \/ s[i + n] # Quote THEN [add |-> Times(n, Slash), next |-> i + n]
               ELSE IF n % 2 = 0 THEN [add |-> Times(n \div 2, Slash), next |-> i + n]
               ELSE [add |-> Times(n \div 2, Slash) \o <<Quote>>, next |-> i + n + 1]
<1> DEFINE m == CHOOSE m \in 1 .. Len(s) - i + 1 :
                   /\ \A k \in i .. i + m - 1 : s[k] = Slash
                   /\ i + m > Len(s) \/ s[i + m] # Slash
<1>1. m = n
  <2>1. \E k \in 1 .. Len(s) - i + 1 : k = n
    BY DEF Slashes
  <2>2. Slashes(s, i, m)
    BY <2>1 DEF Slashes
  <2> QED
    BY <2>2, SlashesUnique
<1>2. ParseBackslash(s, i) =
          IF i + m > Len(s) \/ s[i + m] # Quote THEN [add |-> Times(m, Slash), next |-> i + m]
          ELSE IF m % 2 = 0 THEN [add |-> Times(m \div 2, Slash), next |-> i + m]
          ELSE [add |-> Times(m \div 2, Slash) \o <<Quote>>, next |-> i + m + 1]
  BY DEF ParseBackslash
<1> HIDE DEF m
<1> QED
  BY <1>1, <1>2

LEMMA ParseBackslashType ==
    ASSUME NEW C, {Quote, Slash} \subseteq C, NEW s \in Seq(C), NEW i \in 1 .. Len(s), s[i] = Slash
    PROVE  ParseBackslash(s, i) \in [add : Seq(C), next : Nat]
<1>1. PICK n \in Nat : Slashes(s, i, n)
  BY SlashesAre
<1>2. n \div 2 \in Nat /\ Slash \in C
  OBVIOUS
<1>3. Times(n, Slash) \in Seq(C) /\ Times(n \div 2, Slash) \in Seq(C) /\ <<Quote>> \in Seq(C)
  <2>1. \A k \in Nat : Times(k, Slash) \in Seq(C)
    BY <1>2, TimesProperties
  <2> QED
    BY <1>2, <2>1
<1>4. Times(n \div 2, Slash) \o <<Quote>> \in Seq(C)
  BY <1>3, Concat
<1> DEFINE u == Times(n, Slash)
           v == Times(n \div 2, Slash)
           w == v \o <<Quote>>
<1>5. i + n \in Nat /\ i + n + 1 \in Nat
  OBVIOUS
<1>6. ParseBackslash(s, i) \in {[add |-> u, next |-> i + n], [add |-> v, next |-> i + n],
                                [add |-> w, next |-> i + n + 1]}
  BY <1>1, ParseBackslashIs
<1>7. u \in Seq(C) /\ v \in Seq(C) /\ w \in Seq(C)
  BY <1>3, <1>4
<1> HIDE DEF u, v, w
<1> QED
  BY <1>5, <1>6, <1>7

\* The state of the tokenizer; a token is a text of characters of C.
ReadState(C) == [st : {"init", "unquoted", "quoted"}, token : Seq(C), args : Seq(Seq(C)), next : Nat]

LEMMA ReadType ==
    ASSUME NEW C, {Quote, Slash} \subseteq C, NEW s \in Seq(C), NEW i \in 1 .. Len(s),
           NEW r \in ReadState(C)
    PROVE  Read(s, r, i) \in ReadState(C)
<1>1. /\ r.st \in {"init", "unquoted", "quoted"} /\ r.token \in Seq(C)
      /\ r.args \in Seq(Seq(C)) /\ r.next \in Nat
  BY DEF ReadState
<1>2. s[i] \in C /\ <<s[i]>> \in Seq(C) /\ <<Quote>> \in Seq(C) /\ <<>> \in Seq(C)
  BY ElementOfSeq
<1> DEFINE Took(add, st) == [r EXCEPT !.token = @ \o add, !.st = st]
           unquoted == IF r.st = "init" THEN "unquoted" ELSE r.st
<1>3. ASSUME NEW add \in Seq(C), NEW st \in {"init", "unquoted", "quoted"}, NEW k \in Nat
      PROVE  Took(add, st) \in ReadState(C) /\ [Took(add, st) EXCEPT !.next = k] \in ReadState(C)
  <2>1. r.token \o add \in Seq(C)
    BY <1>1, <1>3
  <2> QED
    BY <1>1, <2>1 DEF ReadState
<1>4. [r EXCEPT !.args = Append(@, r.token), !.token = <<>>, !.st = "init"] \in ReadState(C)
  <2>1. Append(r.args, r.token) \in Seq(Seq(C))
    BY <1>1
  <2> QED
    BY <1>1, <1>2, <2>1 DEF ReadState
<1>5. unquoted \in {"init", "unquoted", "quoted"} /\ i + 2 \in Nat
  BY <1>1
<1> DEFINE p == ParseBackslash(s, i)
<1>6. s[i] = Slash => p.add \in Seq(C) /\ p.next \in Nat
  <2>1. s[i] = Slash => p \in [add : Seq(C), next : Nat]
    BY ParseBackslashType
  <2> HIDE DEF p
  <2> QED
    BY <2>1
<1>7. \/ Read(s, r, i) = r
      \/ Read(s, r, i) = [r EXCEPT !.args = Append(@, r.token), !.token = <<>>, !.st = "init"]
      \/ Read(s, r, i) = Took(<<>>, "quoted")
      \/ Read(s, r, i) = [Took(<<Quote>>, "quoted") EXCEPT !.next = i + 2]
      \/ Read(s, r, i) = Took(<<>>, "unquoted")
      \/ s[i] = Slash /\ Read(s, r, i) = [Took(p.add, unquoted) EXCEPT !.next = p.next]
      \/ Read(s, r, i) = Took(<<s[i]>>, unquoted)
  <2> HIDE DEF p
  <2> QED
    BY DEF Read, p
<1> HIDE DEF Took, unquoted, p
<1>8. /\ Took(<<>>, "quoted") \in ReadState(C) /\ Took(<<>>, "unquoted") \in ReadState(C)
      /\ [Took(<<Quote>>, "quoted") EXCEPT !.next = i + 2] \in ReadState(C)
      /\ Took(<<s[i]>>, unquoted) \in ReadState(C)
  BY <1>2, <1>3, <1>5
<1>9. s[i] = Slash => [Took(p.add, unquoted) EXCEPT !.next = p.next] \in ReadState(C)
  BY <1>3, <1>5, <1>6
<1> QED
  BY <1>4, <1>7, <1>8, <1>9, Zenon

\* The turns of the loop of Tokenize.
LEMMA ReadsAre ==
    ASSUME NEW C, {Quote, Slash} \subseteq C, NEW s \in Seq(C)
    PROVE  /\ Reads(s)[0] = ReadStart
           /\ \A i \in 1 .. Len(s) : Reads(s)[i] = Read(s, Reads(s)[i - 1], i)
           /\ \A i \in 0 .. Len(s) : Reads(s)[i] \in ReadState(C)
<1> DEFINE n == Len(s)
           T == ReadState(C)
           step == [x \in T \X (1 .. n) |-> Read(s, x[1], x[2])]
           Is(g) == g = [i \in 0 .. n |-> IF i = 0 THEN ReadStart ELSE Read(s, g[i - 1], i)]
<1>1. n \in Nat
  OBVIOUS
<1>2. ReadStart \in T
  <2>1. <<>> \in Seq(C) /\ <<>> \in Seq(Seq(C))
    OBVIOUS
  <2> QED
    BY <2>1 DEF ReadStart, ReadState
<1>3. \A r \in T : \A i \in 1 .. n : Read(s, r, i) \in T
  BY ReadType
<1>4. PICK f \in [0 .. n -> T] : Recurs(f, ReadStart, n, step)
  <2> HIDE DEF T, n
  <2>1. step \in [T \X (1 .. n) -> T]
    BY <1>3
  <2> HIDE DEF step
  <2> QED
    BY <1>1, <1>2, <2>1, Recursion, Zenon
<1> HIDE DEF T, n
<1>5. f[0] = ReadStart /\ \A i \in 1 .. n : f[i] = Read(s, f[i - 1], i)
  <2>1. ASSUME NEW i \in 1 .. n PROVE f[i] = Read(s, f[i - 1], i)
    <3>1. f[i - 1] \in T
      BY <1>1, <1>4
    <3> QED
      BY <1>4, <3>1 DEF Recurs
  <2> QED
    BY <1>4, <2>1 DEF Recurs
<1>6. Is(f)
  BY <1>1, <1>4, <1>5
<1> DEFINE read == CHOOSE g : Is(g)
<1>7. Is(read)
  <2> HIDE DEF Is
  <2> QED
    BY <1>6, Zenon
<1>8. Reads(s) = read
  BY DEF Reads, n
<1> HIDE DEF read
<1>9. read[0] = ReadStart /\ \A i \in 1 .. n : read[i] = Read(s, read[i - 1], i)
  BY <1>1, <1>7
<1> DEFINE S == {i \in 0 .. n : read[i] \in T}
<1>10. 0 \in S
  BY <1>1, <1>2, <1>9
<1>11. ASSUME NEW i \in 0 .. n - 1, i \in S PROVE i + 1 \in S
  <2>1. i + 1 \in 1 .. n /\ i + 1 \in 0 .. n /\ read[i + 1] = Read(s, read[i], i + 1) /\ read[i] \in T
    BY <1>1, <1>9, <1>11
  <2> QED
    BY <1>3, <2>1
<1>12. 0 .. n \subseteq S
  <2> HIDE DEF S
  <2> QED
    BY <1>1, <1>10, <1>11, Induction
<1> QED
  BY <1>8, <1>9, <1>12 DEF n, T

\* After p characters the tokenizer is in state st, with token w and arguments A,
\* and has not gone past the next character.
At(s, p, st, w, A) ==
    \E m \in 0 .. p + 1 : Reads(s)[p] = [st |-> st, token |-> w, args |-> A, next |-> m]

Unquoted(st) == IF st = "init" THEN "unquoted" ELSE st

LEMMA ReadOne ==
    ASSUME NEW C, {Quote, Slash} \subseteq C, NEW s \in Seq(C), NEW p \in 0 .. Len(s) - 1,
           NEW st \in {"init", "unquoted", "quoted"}, NEW w \in Seq(C), NEW A \in Seq(Seq(C)),
           At(s, p, st, w, A)
    PROVE  /\ s[p + 1] \notin {Quote, Slash} /\ (st = "quoted" \/ s[p + 1] \notin Whitespaces \cup {Null}) =>
                  At(s, p + 1, Unquoted(st), w \o <<s[p + 1]>>, A)
           /\ s[p + 1] \in Blanks /\ st = "unquoted" => At(s, p + 1, "init", <<>>, Append(A, w))
           /\ s[p + 1] = Quote /\ st # "quoted" => At(s, p + 1, "quoted", w, A)
           /\ s[p + 1] = Quote /\ st = "quoted" /\ (p + 1 = Len(s) \/ s[p + 2] # Quote) =>
                  At(s, p + 1, "unquoted", w, A)
<1>1. PICK m \in 0 .. p + 1 : Reads(s)[p] = [st |-> st, token |-> w, args |-> A, next |-> m]
  BY DEF At
<1> DEFINE r == [st |-> st, token |-> w, args |-> A, next |-> m]
           q == p + 1
<1>2. q \in 1 .. Len(s) /\ q - 1 = p /\ ~(q < m) /\ m \in 0 .. q + 1
  OBVIOUS
<1>3. Reads(s)[q] = Read(s, r, q)
  <2>1. Reads(s)[q] = Read(s, Reads(s)[q - 1], q)
    BY <1>2, ReadsAre
  <2> QED
    BY <1>1, <1>2, <2>1
<1>4. w \o <<>> = w
  OBVIOUS
<1>5. ~(q < r.next) /\ r.st = st /\ r.token = w /\ r.args = A
  BY <1>2
<1>6. ASSUME s[q] \notin {Quote, Slash}, st = "quoted" \/ s[q] \notin Whitespaces \cup {Null}
      PROVE  At(s, q, Unquoted(st), w \o <<s[q]>>, A)
  <2>1. Read(s, r, q) = [r EXCEPT !.token = @ \o <<s[q]>>, !.st = Unquoted(st)]
    <3> HIDE DEF r, q
    <3> QED
      BY <1>5, <1>6, CharsDiffer DEF Read, Unquoted
  <2>2. Read(s, r, q) = [st |-> Unquoted(st), token |-> w \o <<s[q]>>, args |-> A, next |-> m]
    BY <2>1
  <2> QED
    BY <1>2, <1>3, <2>2 DEF At
<1>7. ASSUME s[q] \in Blanks, st = "unquoted"
      PROVE  At(s, q, "init", <<>>, Append(A, w))
  <2>1. Read(s, r, q) = [r EXCEPT !.args = Append(@, r.token), !.token = <<>>, !.st = "init"]
    <3> HIDE DEF r, q
    <3> QED
      BY <1>5, <1>7, CharsDiffer DEF Read, Whitespaces
  <2>2. Read(s, r, q) = [st |-> "init", token |-> <<>>, args |-> Append(A, w), next |-> m]
    BY <2>1
  <2> QED
    BY <1>2, <1>3, <2>2 DEF At
<1>8. ASSUME s[q] = Quote, st # "quoted"
      PROVE  At(s, q, "quoted", w, A)
  <2>1. Read(s, r, q) = [r EXCEPT !.token = @ \o <<>>, !.st = "quoted"]
    <3> HIDE DEF r, q
    <3> QED
      BY <1>5, <1>8, CharsDiffer DEF Read
  <2>2. Read(s, r, q) = [st |-> "quoted", token |-> w, args |-> A, next |-> m]
    BY <1>4, <2>1
  <2> QED
    BY <1>2, <1>3, <2>2 DEF At
<1>9. ASSUME s[q] = Quote, st = "quoted", q = Len(s) \/ s[q + 1] # Quote
      PROVE  At(s, q, "unquoted", w, A)
  <2>1. Read(s, r, q) = [r EXCEPT !.token = @ \o <<>>, !.st = "unquoted"]
    <3>1. ~(q < Len(s) /\ s[q + 1] = Quote)
      BY <1>2, <1>9
    <3> HIDE DEF r, q
    <3> QED
      BY <1>5, <1>9, <3>1, CharsDiffer, Zenon DEF Read
  <2>2. Read(s, r, q) = [st |-> "unquoted", token |-> w, args |-> A, next |-> m]
    BY <1>4, <2>1
  <2> QED
    BY <1>2, <1>3, <2>2 DEF At
<1> QED
  BY <1>6, <1>7, <1>8, <1>9

\* Characters that have been gone past change nothing.
LEMMA Skipped ==
    ASSUME NEW C, {Quote, Slash} \subseteq C, NEW s \in Seq(C), NEW p \in 0 .. Len(s),
           NEW q \in p .. Len(s), NEW r, Reads(s)[p] = r, r.next = q + 1
    PROVE  Reads(s)[q] = r
<1> DEFINE n == q - p
           S == {k \in 0 .. n : Reads(s)[p + k] = r}
<1>1. n \in Nat /\ p + n = q
  OBVIOUS
<1>2. 0 \in S
  OBVIOUS
<1>3. ASSUME NEW k \in 0 .. n - 1, k \in S PROVE k + 1 \in S
  <2>1. p + k + 1 \in 1 .. Len(s) /\ p + k + 1 < q + 1 /\ p + k + 1 - 1 = p + k /\ k + 1 \in 0 .. n
    OBVIOUS
  <2>2. Reads(s)[p + k + 1] = Read(s, r, p + k + 1)
    <3>1. Reads(s)[p + k + 1] = Read(s, Reads(s)[p + k + 1 - 1], p + k + 1)
      BY <2>1, ReadsAre
    <3> QED
      BY <1>3, <2>1, <3>1
  <2>3. Read(s, r, p + k + 1) = r
    BY <2>1 DEF Read
  <2> QED
    BY <2>1, <2>2, <2>3
<1>4. n \in S
  <2> HIDE DEF S
  <2> QED
    BY <1>1, <1>2, <1>3, Induction, n \in 0 .. n
<1> QED
  BY <1>1, <1>4

\* Backslashes are read all at once.
LEMMA ReadSlashes ==
    ASSUME NEW C, {Quote, Slash} \subseteq C, NEW s \in Seq(C), NEW p \in 0 .. Len(s) - 1,
           NEW st \in {"init", "unquoted", "quoted"}, NEW w \in Seq(C), NEW A \in Seq(Seq(C)),
           At(s, p, st, w, A), NEW n, Slashes(s, p + 1, n)
    PROVE  /\ p + n = Len(s) \/ s[p + n + 1] # Quote =>
                  At(s, p + n, Unquoted(st), w \o Times(n, Slash), A)
           /\ p + n < Len(s) /\ s[p + n + 1] = Quote /\ n % 2 = 0 =>
                  At(s, p + n, Unquoted(st), w \o Times(n \div 2, Slash), A)
           /\ p + n < Len(s) /\ s[p + n + 1] = Quote /\ n % 2 # 0 =>
                  At(s, p + n + 1, Unquoted(st), w \o (Times(n \div 2, Slash) \o <<Quote>>), A)
<1>1. PICK m \in 0 .. p + 1 : Reads(s)[p] = [st |-> st, token |-> w, args |-> A, next |-> m]
  BY DEF At
<1> DEFINE r == [st |-> st, token |-> w, args |-> A, next |-> m]
           q == p + 1
           b == ParseBackslash(s, q)
<1>2. q \in 1 .. Len(s) /\ q - 1 = p /\ ~(q < m) /\ n \in 1 .. Len(s) - q + 1 /\ s[q] = Slash
  BY DEF Slashes
<1>3. Reads(s)[q] = Read(s, r, q)
  <2>1. Reads(s)[q] = Read(s, Reads(s)[q - 1], q)
    BY <1>2, ReadsAre
  <2> QED
    BY <1>1, <1>2, <2>1
<1>4. Read(s, r, q) = [st |-> Unquoted(st), token |-> w \o b.add, args |-> A, next |-> b.next]
  <2>1. ~(q < r.next) /\ r.st = st
    BY <1>2
  <2>2. Read(s, r, q) = [[r EXCEPT !.token = @ \o b.add, !.st = Unquoted(st)] EXCEPT !.next = b.next]
    <3> HIDE DEF r, q
    <3> QED
      BY <1>2, <2>1, CharsDiffer DEF Read, Unquoted
  <2> QED
    BY <2>2
<1>5. b = IF q + n > Len(s) \/ s[q + n] # Quote THEN [add |-> Times(n, Slash), next |-> q + n]
          ELSE IF n % 2 = 0 THEN [add |-> Times(n \div 2, Slash), next |-> q + n]
          ELSE [add |-> Times(n \div 2, Slash) \o <<Quote>>, next |-> q + n + 1]
  BY <1>2, ParseBackslashIs
<1> HIDE DEF b
<1>6. ASSUME NEW k \in q .. Len(s), NEW add, b.next = k + 1, b.add = add
      PROVE  At(s, k, Unquoted(st), w \o add, A)
  <2> DEFINE u == [st |-> Unquoted(st), token |-> w \o add, args |-> A, next |-> k + 1]
  <2>1. Reads(s)[q] = u /\ u.next = k + 1
    BY <1>3, <1>4, <1>6
  <2>2. q \in 0 .. Len(s) /\ k + 1 \in 0 .. k + 1
    BY <1>2
  <2>3. Reads(s)[k] = u
    <3> HIDE DEF u, q
    <3>1. k \in q .. Len(s)
      BY <1>6
    <3> QED
      BY <2>1, <2>2, <3>1, Skipped
  <2> QED
    BY <2>2, <2>3 DEF At
<1>7. ASSUME p + n = Len(s) \/ s[p + n + 1] # Quote
      PROVE  At(s, p + n, Unquoted(st), w \o Times(n, Slash), A)
  <2>1. p + n \in q .. Len(s) /\ p + n + 1 = q + n
    BY <1>2
  <2>2. b.next = p + n + 1 /\ b.add = Times(n, Slash)
    BY <1>2, <1>5, <1>7, <2>1
  <2> QED
    BY <1>6, <2>1, <2>2
<1>8. ASSUME p + n < Len(s), s[p + n + 1] = Quote, n % 2 = 0
      PROVE  At(s, p + n, Unquoted(st), w \o Times(n \div 2, Slash), A)
  <2>1. p + n \in q .. Len(s) /\ p + n + 1 = q + n /\ ~(q + n > Len(s))
    BY <1>2, <1>8
  <2>2. b.next = p + n + 1 /\ b.add = Times(n \div 2, Slash)
    BY <1>5, <1>8, <2>1
  <2> QED
    BY <1>6, <2>1, <2>2
<1>9. ASSUME p + n < Len(s), s[p + n + 1] = Quote, n % 2 # 0
      PROVE  At(s, p + n + 1, Unquoted(st), w \o (Times(n \div 2, Slash) \o <<Quote>>), A)
  <2>1. p + n + 1 \in q .. Len(s) /\ p + n + 1 = q + n /\ ~(q + n > Len(s))
    BY <1>2, <1>9
  <2>2. b.next = p + n + 1 + 1 /\ b.add = Times(n \div 2, Slash) \o <<Quote>>
    BY <1>5, <1>9, <2>1
  <2> QED
    BY <1>6, <2>1, <2>2
<1> QED
  BY <1>7, <1>8, <1>9

-----------------------------------------------------------------------------
(* An escaped argument is read.                                            *)

LEMMA PrefixIs ==
    ASSUME NEW C, NEW a \in Seq(C), NEW j \in 0 .. Len(a)
    PROVE  /\ SubSeq(a, 1, j) \in Seq(C) /\ Len(SubSeq(a, 1, j)) = j
           /\ \A k \in 1 .. j : SubSeq(a, 1, j)[k] = a[k]
<1>1. Len(a) \in Nat /\ \A k \in 1 .. j : a[k] \in C /\ 1 + k - 1 = k
  BY ElementOfSeq
<1>2. j \in Int /\ 1 \in Int /\ j - 1 + 1 = j /\ (1 <= j \/ j = 0)
  BY <1>1
<1>3. SubSeq(a, 1, j) \in Seq(C) /\ Len(SubSeq(a, 1, j)) = IF 1 <= j THEN j - 1 + 1 ELSE 0
  BY <1>1, <1>2, SubSeqProperties
<1>4. \A k \in 1 .. j - 1 + 1 : SubSeq(a, 1, j)[k] = a[1 + k - 1]
  BY <1>1, <1>2, SubSeqProperties
<1> QED
  BY <1>1, <1>2, <1>3, <1>4

LEMMA PrefixOne ==
    ASSUME NEW C, NEW a \in Seq(C), NEW j \in 1 .. Len(a)
    PROVE  SubSeq(a, 1, j - 1) \o <<a[j]>> = SubSeq(a, 1, j)
<1> DEFINE u == SubSeq(a, 1, j - 1)
           v == SubSeq(a, 1, j)
<1>1. /\ u \in Seq(C) /\ Len(u) = j - 1 /\ \A k \in 1 .. j - 1 : u[k] = a[k]
      /\ v \in Seq(C) /\ Len(v) = j /\ \A k \in 1 .. j : v[k] = a[k]
  <2>1. j - 1 \in 0 .. Len(a) /\ j \in 0 .. Len(a)
    OBVIOUS
  <2> QED
    BY <2>1, PrefixIs
<1>2. a[j] \in C /\ <<a[j]>> \in Seq(C) /\ Len(<<a[j]>>) = 1 /\ <<a[j]>>[1] = a[j]
  BY ElementOfSeq
<1> HIDE DEF u, v
<1>3. /\ u \o <<a[j]>> \in Seq(C) /\ Len(u \o <<a[j]>>) = j
      /\ \A k \in 1 .. j : (u \o <<a[j]>>)[k] = a[k]
  BY <1>1, <1>2, ConcatProperties
<1>4. u \o <<a[j]>> = v
  BY <1>1, <1>3, SeqEqual
<1> QED
  BY <1>4 DEF u, v

LEMMA PrefixSlashes ==
    ASSUME NEW C, Slash \in C, NEW a \in Seq(C), NEW j \in 0 .. Len(a), NEW i \in 0 .. j,
           \A k \in i + 1 .. j : a[k] = Slash
    PROVE  SubSeq(a, 1, i) \o Times(j - i, Slash) = SubSeq(a, 1, j)
<1> DEFINE u == SubSeq(a, 1, i)
           t == Times(j - i, Slash)
           v == SubSeq(a, 1, j)
<1>1. /\ u \in Seq(C) /\ Len(u) = i /\ \A k \in 1 .. i : u[k] = a[k]
      /\ v \in Seq(C) /\ Len(v) = j /\ \A k \in 1 .. j : v[k] = a[k]
  <2>1. i \in 0 .. Len(a)
    OBVIOUS
  <2>2. u \in Seq(C) /\ Len(u) = i /\ \A k \in 1 .. i : u[k] = a[k]
    BY <2>1, PrefixIs
  <2>3. v \in Seq(C) /\ Len(v) = j /\ \A k \in 1 .. j : v[k] = a[k]
    BY PrefixIs
  <2> QED
    BY <2>2, <2>3
<1>2. t \in Seq(C) /\ Len(t) = j - i /\ \A k \in 1 .. j - i : t[k] = Slash
  <2>1. j - i \in Nat
    OBVIOUS
  <2> QED
    BY <2>1, TimesProperties
<1> HIDE DEF u, t, v
<1> DEFINE x == u \o t
<1>3. /\ x \in Seq(C) /\ Len(x) = i + (j - i)
      /\ \A k \in 1 .. i : x[k] = u[k]
      /\ \A k \in 1 .. j - i : x[i + k] = t[k]
  <2>1. u \in Seq(C) /\ t \in Seq(C) /\ Len(u) = i /\ Len(t) = j - i
    BY <1>1, <1>2
  <2>2. x \in Seq(C) /\ Len(x) = i + (j - i)
    BY <2>1, Concat
  <2>3. \A k \in 1 .. i : x[k] = u[k]
    BY <2>1, Concat
  <2>4. \A k \in 1 .. j - i : x[i + k] = t[k]
    BY <2>1, Concat
  <2> QED
    BY <2>2, <2>3, <2>4
<1> HIDE DEF x
<1>4. ASSUME NEW k \in 1 .. j PROVE x[k] = a[k]
  <2>1. CASE k <= i
    BY <1>1, <1>3, <2>1
  <2>2. CASE i < k
    <3>1. k - i \in 1 .. j - i /\ k \in i + 1 .. j /\ i + (k - i) = k
      BY <2>2
    <3> QED
      BY <1>2, <1>3, <3>1
  <2> QED
    BY <2>1, <2>2
<1>5. x = v
  <2>1. Len(x) = j /\ Len(v) = j /\ \A k \in 1 .. j : x[k] = v[k]
    BY <1>1, <1>3, <1>4
  <2> QED
    BY <1>1, <1>3, <2>1, SeqEqual
<1> QED
  BY <1>5 DEF u, t, v, x

\* The escaped characters of a are in s, after position b.
Placed(s, b, a, E) ==
    \A m \in 1 .. Len(a) : /\ s[b + E[m]] = a[m]
                           /\ \A k \in E[m - 1] + 1 .. E[m] - 1 : s[b + k] = Slash

\* n backslashes come after position p.
AllSlashes(s, p, n) == \A k \in 1 .. n : s[p + k] = Slash

LEMMA PlacedSlashes ==
    ASSUME NEW C, {Quote, Slash} \subseteq C, NEW a \in Seq(C), NEW E, Offsets(a, E),
           NEW j \in 0 .. Len(a), NEW i \in 0 .. j, \A k \in i + 1 .. j : a[k] = Slash,
           NEW s, NEW b \in Nat, Placed(s, b, a, E)
    PROVE  /\ E[j] = E[i] + (j - i)
           /\ AllSlashes(s, b + E[i], j - i)
<1> DEFINE S == {k \in 0 .. j - i : E[i + k] = E[i] + k}
<1>1. E[i] \in Nat /\ j - i \in Nat
  BY DEF Offsets
<1>2. 0 \in S
  BY <1>1
<1>3. ASSUME NEW k \in 0 .. j - i - 1, k \in S PROVE k + 1 \in S
  <2>1. i + k + 1 \in 1 .. Len(a) /\ i + k + 1 \in i + 1 .. j /\ i + k + 1 - 1 = i + k
    OBVIOUS
  <2>2. E[i + k + 1] = E[i + k] + Width(a, i + k + 1)
    BY <2>1 DEF Offsets
  <2>3. Width(a, i + k + 1) = 1
    BY <2>1, CharsDiffer DEF Width
  <2> QED
    BY <1>1, <1>3, <2>2, <2>3
<1>4. 0 .. j - i \subseteq S
  <2> HIDE DEF S
  <2> QED
    BY <1>1, <1>2, <1>3, Induction
<1>5. E[j] = E[i] + (j - i)
  <2>1. j - i \in S /\ i + (j - i) = j
    BY <1>1, <1>4
  <2> QED
    BY <2>1
<1>6. ASSUME NEW k \in 1 .. j - i PROVE s[b + E[i] + k] = Slash
  <2>1. k \in S /\ i + k \in i + 1 .. j /\ i + k \in 1 .. Len(a)
    BY <1>4
  <2>2. s[b + E[i + k]] = a[i + k] /\ E[i + k] = E[i] + k /\ a[i + k] = Slash
    BY <2>1 DEF Placed
  <2> QED
    BY <1>1, <2>2
<1> QED
  BY <1>5, <1>6 DEF AllSlashes

\* Where the next character that is no backslash stands, after n of them.
LEMMA PlacedNext ==
    ASSUME NEW C, {Quote, Slash} \subseteq C, NEW a \in Seq(C), NEW E, Offsets(a, E),
           NEW j \in 1 .. Len(a), a[j] # Slash, NEW n, IsRun(a, j - 1, n),
           NEW s \in Seq(C), NEW b \in Nat, Placed(s, b, a, E), b + E[Len(a)] <= Len(s)
    PROVE  /\ j - 1 - n \in 0 .. j - 1 /\ (j - 1 - n = 0 \/ a[j - 1 - n] # Slash) /\ n \in Nat
           /\ E[j - 1 - n] \in Nat /\ b + E[j] <= Len(s) /\ s[b + E[j]] = a[j]
           /\ SubSeq(a, 1, j - 1 - n) \o Times(n, Slash) = SubSeq(a, 1, j - 1)
           /\ a[j] = Quote => /\ E[j] = E[j - 1 - n] + 2 * n + 2
                              /\ Slashes(s, b + E[j - 1 - n] + 1, 2 * n + 1)
           /\ a[j] # Quote => /\ E[j] = E[j - 1 - n] + n + 1
                              /\ n > 0 => Slashes(s, b + E[j - 1 - n] + 1, n)
<1> DEFINE i == j - 1 - n
           e == E[i]
<1>1. /\ n \in 0 .. j - 1 /\ (\A k \in i + 1 .. j - 1 : a[k] = Slash)
      /\ i \in 0 .. j - 1 /\ (i = 0 \/ a[i] # Slash) /\ j - 1 \in 0 .. Len(a)
      /\ j - 1 - i = n
  BY DEF IsRun
<1> HIDE DEF i
<1>2. /\ E[j - 1] = e + n /\ \A k \in 1 .. n : s[b + e + k] = Slash
  <2>1. /\ E[j - 1] = E[i] + (j - 1 - i)
        /\ \A k \in 1 .. j - 1 - i : s[b + E[i] + k] = Slash
    <3> DEFINE h == j - 1
    <3>1. h \in 0 .. Len(a) /\ i \in 0 .. h /\ \A k \in i + 1 .. h : a[k] = Slash
      BY <1>1
    <3> HIDE DEF h
    <3>2. E[h] = E[i] + (h - i) /\ AllSlashes(s, b + E[i], h - i)
      BY <3>1, PlacedSlashes
    <3> QED
      BY <3>2 DEF h, AllSlashes
  <2> QED
    BY <1>1, <2>1
<1>3. e \in Nat /\ E[j] \in Nat /\ E[Len(a)] \in Nat
  <2>1. i \in 0 .. Len(a) /\ j \in 0 .. Len(a) /\ Len(a) \in 0 .. Len(a)
    BY <1>1
  <2> QED
    BY <2>1 DEF Offsets
<1> HIDE DEF e
<1>4. E[j] = e + n + Width(a, j) /\ Run(a, j - 1) = n
  <2>1. IsRun(a, j - 1, Run(a, j - 1)) /\ j - 1 \in Nat
    BY RunIs
  <2>2. Run(a, j - 1) = n
    BY <2>1, RunUnique
  <2> QED
    BY <1>2, <2>2 DEF Offsets
<1>5. b + E[j] <= Len(s)
  <2>1. j < Len(a) => E[j] < E[Len(a)]
    <3>1. j \in 0 .. Len(a) /\ Len(a) \in 0 .. Len(a)
      OBVIOUS
    <3> QED
      BY <3>1, OffsetsGrow
  <2> QED
    BY <1>3, <2>1
<1>6. s[b + E[j]] = a[j] /\ \A k \in E[j - 1] + 1 .. E[j] - 1 : s[b + k] = Slash
  BY DEF Placed
<1>7. SubSeq(a, 1, i) \o Times(n, Slash) = SubSeq(a, 1, j - 1)
  <2>1. SubSeq(a, 1, i) \o Times(j - 1 - i, Slash) = SubSeq(a, 1, j - 1)
    BY <1>1, PrefixSlashes
  <2> QED
    BY <1>1, <2>1
<1>8. ASSUME a[j] = Quote
      PROVE  E[j] = e + 2 * n + 2 /\ Slashes(s, b + e + 1, 2 * n + 1)
  <2>1. E[j] = e + 2 * n + 2
    BY <1>1, <1>3, <1>4, <1>8 DEF Width
  <2>2. ASSUME NEW k \in b + e + 1 .. b + e + 1 + (2 * n + 1) - 1 PROVE s[k] = Slash
    <3>1. CASE k <= b + e + n
      <4>1. k - b - e \in 1 .. n /\ b + e + (k - b - e) = k
        BY <1>1, <1>3, <2>2, <3>1
      <4> QED
        BY <1>2, <4>1
    <3>2. CASE b + e + n < k
      <4>1. k - b \in E[j - 1] + 1 .. E[j] - 1 /\ b + (k - b) = k
        BY <1>1, <1>2, <1>3, <2>1, <2>2, <3>2
      <4> QED
        BY <1>6, <4>1
    <3>3. k <= b + e + n \/ b + e + n < k
      BY <1>1, <1>3, <2>2
    <3> QED
      BY <3>1, <3>2, <3>3
  <2>3. 2 * n + 1 \in 1 .. Len(s) - (b + e + 1) + 1
    BY <1>1, <1>3, <1>5, <2>1
  <2>4. b + e + 1 + (2 * n + 1) = b + E[j] /\ s[b + E[j]] # Slash
    BY <1>1, <1>3, <1>6, <1>8, <2>1
  <2> QED
    BY <2>1, <2>2, <2>3, <2>4 DEF Slashes
<1>9. ASSUME a[j] # Quote
      PROVE  E[j] = e + n + 1 /\ (n > 0 => Slashes(s, b + e + 1, n))
  <2>1. E[j] = e + n + 1
    BY <1>4, <1>9 DEF Width
  <2>2. ASSUME NEW k \in b + e + 1 .. b + e + 1 + n - 1 PROVE s[k] = Slash
    <3>1. k - b - e \in 1 .. n /\ b + e + (k - b - e) = k
      BY <1>1, <1>3, <2>2
    <3> QED
      BY <1>2, <3>1
  <2>3. n > 0 => n \in 1 .. Len(s) - (b + e + 1) + 1
    BY <1>1, <1>3, <1>5, <2>1
  <2>4. b + e + 1 + n = b + E[j] /\ s[b + E[j]] # Slash
    BY <1>1, <1>3, <1>6, <1>9, <2>1
  <2> QED
    BY <2>1, <2>2, <2>3, <2>4 DEF Slashes
<1>10. n \in Nat
  BY <1>1
<1> QED
  BY <1>1, <1>3, <1>5, <1>6, <1>7, <1>8, <1>9, <1>10, Zenon DEF i, e

\* Up to each character that is no backslash, an escaped text is read as it was.
LEMMA ReadEscaped ==
    ASSUME NEW C, {Quote, Slash} \subseteq C, NEW a \in Seq(C), NEW E, Offsets(a, E),
           NEW s \in Seq(C), NEW b \in Nat, Placed(s, b, a, E), b + E[Len(a)] <= Len(s),
           NEW st \in {"init", "quoted"}, NEW A \in Seq(Seq(C)), At(s, b, st, <<>>, A),
           st = "quoted" \/ \A k \in 1 .. Len(a) : a[k] \notin Whitespaces \cup {Null}
    PROVE  \A j \in 0 .. Len(a) : j = 0 \/ a[j] # Slash =>
               At(s, b + E[j], IF j = 0 THEN st ELSE Unquoted(st), SubSeq(a, 1, j), A)
<1> DEFINE State(j) == IF j = 0 THEN st ELSE Unquoted(st)
           S == {j \in 0 .. Len(a) : j = 0 \/ a[j] # Slash =>
                                     At(s, b + E[j], State(j), SubSeq(a, 1, j), A)}
<1>1. ASSUME NEW j \in 0 .. Len(a), \A k \in 0 .. j - 1 : k \in S, j = 0 \/ a[j] # Slash
      PROVE  At(s, b + E[j], State(j), SubSeq(a, 1, j), A)
  <2>1. CASE j = 0
    <3>1. SubSeq(a, 1, 0) = <<>> /\ b + E[0] = b /\ State(0) = st
      BY SubSeqEmpty DEF Offsets
    <3> QED
      BY <2>1, <3>1
  <2>2. CASE j # 0
    <3>0. j \in 1 .. Len(a) /\ j - 1 \in Nat /\ a[j] # Slash
      BY <1>1, <2>2
    <3>1. PICK n : IsRun(a, j - 1, n)
      BY <3>0, RunIs
    <3> DEFINE i == j - 1 - n
               e == b + E[i]
               w == SubSeq(a, 1, i)
               t == Times(n, Slash)
               v == SubSeq(a, 1, j - 1)
    <3>2. /\ i \in 0 .. j - 1 /\ (i = 0 \/ a[i] # Slash) /\ n \in Nat
          /\ E[i] \in Nat /\ b + E[j] <= Len(s) /\ s[b + E[j]] = a[j]
          /\ w \o t = v
          /\ a[j] = Quote => /\ E[j] = E[i] + 2 * n + 2
                             /\ Slashes(s, b + E[i] + 1, 2 * n + 1)
          /\ a[j] # Quote => /\ E[j] = E[i] + n + 1
                             /\ n > 0 => Slashes(s, b + E[i] + 1, n)
      BY <3>0, <3>1, PlacedNext, Zenon
    <3> DEFINE d == E[i]
    <3>3. a[j] = Quote => /\ E[j] = d + 2 * n + 2
                          /\ Slashes(s, e + 1, 2 * n + 1)
      BY <3>2, Zenon
    <3>4. a[j] # Quote => /\ E[j] = d + n + 1
                          /\ n > 0 => Slashes(s, e + 1, n)
      BY <3>2, Zenon
    <3>5. At(s, e, State(i), w, A)
      <4>1. i \in S
        BY <1>1, <3>2
      <4> HIDE DEF i
      <4> QED
        BY <3>2, <4>1
    <3>6. /\ State(i) \in {"init", "unquoted", "quoted"} /\ Unquoted(State(i)) = Unquoted(st)
          /\ Unquoted(st) \in {"unquoted", "quoted"} /\ Unquoted(Unquoted(st)) = Unquoted(st)
          /\ (State(i) = "quoted" <=> st = "quoted") /\ (Unquoted(st) = "quoted" <=> st = "quoted")
          /\ State(j) = Unquoted(st)
      BY <2>2 DEF Unquoted
    <3>7. /\ v \o <<a[j]>> = SubSeq(a, 1, j) /\ w \in Seq(C) /\ t \in Seq(C) /\ v \in Seq(C)
          /\ <<Quote>> \in Seq(C)
      <4>1. v \o <<a[j]>> = SubSeq(a, 1, j)
        BY <3>0, PrefixOne
      <4>7. i \in 0 .. j - 1
        BY <3>2, Zenon
      <4>2. i \in 0 .. Len(a) /\ j - 1 \in 0 .. Len(a) /\ Slash \in C
        <5> HIDE DEF i
        <5> QED
          BY <3>0, <4>7
      <4>3. w \in Seq(C)
        <5> HIDE DEF i
        <5> QED
          BY <4>2, PrefixIs
      <4>4. v \in Seq(C)
        BY <4>2, PrefixIs
      <4>5. t \in Seq(C)
        BY <3>2, <4>2, TimesProperties
      <4>6. <<Quote>> \in Seq(C)
        OBVIOUS
      <4> QED
        BY <4>1, <4>3, <4>4, <4>5, <4>6
    <3> HIDE DEF i, w, t, v, State
    <3>8. CASE a[j] = Quote
      <4> DEFINE m == 2 * n + 1
      <4>1. m % 2 # 0 /\ m \div 2 = n /\ m \in Nat
        BY <3>2
      <4>2. /\ e + m < Len(s) /\ e + m + 1 = b + E[j] /\ e \in 0 .. Len(s) - 1
            /\ s[e + m + 1] = Quote /\ Slashes(s, e + 1, m)
        <5>1. e \in Nat /\ b + E[j] = e + m + 1 /\ Len(s) \in Nat
          <6>1. E[j] = d + m + 1 /\ d \in Nat /\ m \in Nat
            BY <3>2, <3>3, <3>8
          <6>2. e = b + d /\ Len(s) \in Nat
            OBVIOUS
          <6> HIDE DEF d, e, m
          <6> QED
            BY <6>1, <6>2
        <5>2. Slashes(s, e + 1, m)
          BY <3>3, <3>8
        <5>3. s[b + E[j]] = Quote /\ b + E[j] <= Len(s)
          BY <3>2, <3>8
        <5> HIDE DEF m, e
        <5> QED
          BY <4>1, <5>1, <5>2, <5>3
      <4> HIDE DEF m, e
      <4>3. At(s, e + m + 1, Unquoted(State(i)), w \o (Times(m \div 2, Slash) \o <<Quote>>), A)
        BY <3>5, <3>6, <3>7, <4>1, <4>2, ReadSlashes
      <4>4. w \o (t \o <<Quote>>) = v \o <<Quote>>
        <5>1. Associates(w, t, <<Quote>>)
          BY <3>7, Association
        <5> QED
          BY <3>2, <5>1, Zenon DEF Associates
      <4>5. Times(m \div 2, Slash) = t
        BY <4>1 DEF t
      <4>6. w \o (Times(m \div 2, Slash) \o <<Quote>>) = SubSeq(a, 1, j)
        BY <3>7, <3>8, <4>4, <4>5
      <4> QED
        BY <3>6, <4>2, <4>3, <4>6
    <3>9. CASE a[j] # Quote
      <4>1. PICK x \in {"init", "unquoted", "quoted"} :
                /\ At(s, e + n, x, v, A) /\ Unquoted(x) = Unquoted(st)
                /\ (x = "quoted" <=> st = "quoted")
        <5>1. CASE n = 0
          <6>1. w = v
            <7>1. i = j - 1
              BY <3>0, <5>1 DEF i
            <7> QED
              BY <7>1 DEF w, v
          <6>2. e + n = e
            BY <3>2, <5>1
          <6> QED
            BY <3>5, <3>6, <6>1, <6>2
        <5>2. CASE n > 0
          <6>1. /\ e \in 0 .. Len(s) - 1 /\ e + n < Len(s) /\ e + n + 1 = b + E[j]
                /\ s[e + n + 1] # Quote /\ Slashes(s, e + 1, n)
            <7>1. e \in Nat /\ b + E[j] = e + n + 1 /\ Len(s) \in Nat
              <8>1. E[j] = d + n + 1 /\ d \in Nat /\ n \in Nat
                BY <3>2, <3>4, <3>9
              <8>2. e = b + d /\ Len(s) \in Nat
                OBVIOUS
              <8> HIDE DEF d, e
              <8> QED
                BY <8>1, <8>2
            <7>2. Slashes(s, e + 1, n)
              BY <3>4, <3>9, <5>2
            <7>3. s[b + E[j]] # Quote /\ b + E[j] <= Len(s) /\ n \in Nat
              BY <3>2, <3>9
            <7> HIDE DEF e
            <7> QED
              BY <7>1, <7>2, <7>3
          <6> HIDE DEF e
          <6>2. At(s, e + n, Unquoted(State(i)), w \o Times(n, Slash), A)
            BY <3>5, <3>6, <3>7, <6>1, ReadSlashes
          <6> QED
            BY <3>2, <3>6, <6>2 DEF t
        <5> QED
          BY <3>2, <5>1, <5>2
      <4> DEFINE p == e + n
      <4>2. /\ p \in 0 .. Len(s) - 1 /\ p + 1 = b + E[j] /\ s[p + 1] = a[j]
            /\ s[p + 1] \notin {Quote, Slash}
            /\ x = "quoted" \/ s[p + 1] \notin Whitespaces \cup {Null}
        <5>1. p \in Nat /\ b + E[j] = p + 1 /\ Len(s) \in Nat
          <6>1. E[j] = d + n + 1 /\ d \in Nat /\ n \in Nat
            BY <3>2, <3>4, <3>9
          <6>2. p = b + d + n /\ Len(s) \in Nat
            OBVIOUS
          <6> HIDE DEF d, e, p
          <6> QED
            BY <6>1, <6>2
        <5>2. s[b + E[j]] = a[j] /\ b + E[j] <= Len(s)
          BY <3>2
        <5>3. a[j] \notin {Quote, Slash} /\ (x = "quoted" \/ a[j] \notin Whitespaces \cup {Null})
          BY <3>0, <3>9, <4>1
        <5> HIDE DEF p
        <5> QED
          BY <5>1, <5>2, <5>3
      <4> HIDE DEF p
      <4>3. At(s, p + 1, Unquoted(x), v \o <<s[p + 1]>>, A)
        BY <3>7, <4>1, <4>2, ReadOne DEF p
      <4> QED
        BY <3>6, <3>7, <4>1, <4>2, <4>3
    <3> QED
      BY <3>8, <3>9
  <2> QED
    BY <2>1, <2>2
<1>2. 0 .. Len(a) \subseteq S
  <2>1. Len(a) \in Nat
    OBVIOUS
  <2>2. \A j \in 0 .. Len(a) : (\A k \in 0 .. j - 1 : k \in S) => j \in S
    BY <1>1
  <2> HIDE DEF S
  <2> QED
    BY <2>1, <2>2, StrongInduction
<1> QED
  BY <1>2

\* The argument in quotes.
InQuotes(u, r) == <<Quote>> \o u \o Times(r, Slash) \o <<Quote>>
LEMMA InQuotesIs ==
    ASSUME NEW C, {Quote, Slash} \subseteq C, NEW u \in Seq(C), NEW r \in Nat
    PROVE  /\ InQuotes(u, r) \in Seq(C) /\ Len(InQuotes(u, r)) = Len(u) + r + 2
           /\ InQuotes(u, r)[1] = Quote /\ InQuotes(u, r)[Len(u) + r + 2] = Quote
           /\ \A k \in 1 .. Len(u) : InQuotes(u, r)[1 + k] = u[k]
           /\ \A k \in 1 .. r : InQuotes(u, r)[1 + Len(u) + k] = Slash
<1> DEFINE q == <<Quote>>
           t == Times(r, Slash)
           x == q \o u
           y == x \o t
           z == y \o q
           n == Len(u)
<1>1. /\ q \in Seq(C) /\ Len(q) = 1 /\ q[1] = Quote /\ n \in Nat
      /\ t \in Seq(C) /\ Len(t) = r /\ \A k \in 1 .. r : t[k] = Slash
      /\ Len(u) = n /\ 1 + n \in Nat /\ 1 + n + r \in Nat /\ 1 \in Nat
  <2>1. Slash \in C
    OBVIOUS
  <2>2. t \in Seq(C) /\ Len(t) = r /\ \A k \in 1 .. r : t[k] = Slash
    BY <2>1, TimesProperties
  <2> QED
    BY <2>2
<1>2. InQuotes(u, r) = z
  BY DEF InQuotes
<1> HIDE DEF q, t, n
<1>3. x \in Seq(C) /\ IsConcat(x, q, u, Len(q), Len(u))
  BY <1>1, ConcatIs
<1> HIDE DEF x
<1>4. x \in Seq(C) /\ IsConcat(x, q, u, 1, n) /\ Len(x) = 1 + n
  BY <1>1, <1>3 DEF IsConcat
<1>5. y \in Seq(C) /\ IsConcat(y, x, t, Len(x), Len(t))
  BY <1>1, <1>4, ConcatIs
<1> HIDE DEF y
<1>6. y \in Seq(C) /\ IsConcat(y, x, t, 1 + n, r) /\ Len(y) = 1 + n + r
  BY <1>1, <1>4, <1>5 DEF IsConcat
<1>7. z \in Seq(C) /\ IsConcat(z, y, q, Len(y), Len(q))
  BY <1>1, <1>6, ConcatIs
<1> HIDE DEF z
<1>8. z \in Seq(C) /\ IsConcat(z, y, q, 1 + n + r, 1) /\ Len(z) = n + r + 2
  BY <1>1, <1>6, <1>7 DEF IsConcat
<1>9. z[1] = Quote /\ z[n + r + 2] = Quote
  <2>1. 1 \in 1 .. 1 /\ 1 \in 1 .. 1 + n /\ 1 \in 1 .. 1 + n + r /\ 1 + n + r + 1 = n + r + 2
    BY <1>1
  <2> QED
    BY <1>1, <1>4, <1>6, <1>8, <2>1 DEF IsConcat
<1>10. ASSUME NEW k \in 1 .. n PROVE z[1 + k] = u[k]
  <2>1. 1 + k \in 1 .. 1 + n /\ 1 + k \in 1 .. 1 + n + r
    BY <1>1
  <2> QED
    BY <1>4, <1>6, <1>8, <2>1 DEF IsConcat
<1>11. ASSUME NEW k \in 1 .. r PROVE z[1 + n + k] = Slash
  <2>1. 1 + n + k \in 1 .. 1 + n + r
    BY <1>1
  <2> QED
    BY <1>1, <1>6, <1>8, <2>1 DEF IsConcat
<1> QED
  BY <1>2, <1>8, <1>9, <1>10, <1>11 DEF n

HasBlank(a) == \E i \in DOMAIN a : a[i] \in Blanks

\* An argument without blanks is not put in quotes: a line break or the character of
\* code 0 in it ends the token.
Arriving(a) == HasBlank(a) \/ \A i \in DOMAIN a : a[i] \notin Whitespaces \cup {Null}

\* The line ends after position e, or another argument follows.
Ends(s, e) == e <= Len(s) /\ (e < Len(s) => s[e + 1] = Space)

\* At the end of an argument that is not put in quotes.
LEMMA ReadBare ==
    ASSUME NEW C, {Quote, Slash} \subseteq C, NEW a \in Seq(C), a # <<>>, ~HasBlank(a), Arriving(a),
           NEW E, Offsets(a, E), NEW s \in Seq(C), NEW b \in Nat, Placed(s, b, a, E),
           Ends(s, b + E[Len(a)]), NEW A \in Seq(Seq(C)), At(s, b, "init", <<>>, A)
    PROVE  At(s, b + E[Len(a)], "unquoted", a, A)
<1> DEFINE n == Len(a)
<1>1. /\ n \in 1 .. Len(a) /\ n \in 0 .. Len(a) /\ n \in Nat /\ n # 0 /\ E[n] \in Nat
      /\ SubSeq(a, 1, n) = a /\ b + E[n] <= Len(s)
      /\ \A k \in 1 .. Len(a) : a[k] \notin Whitespaces \cup {Null}
  <2>1. n \in Nat \ {0} /\ DOMAIN a = 1 .. n
    BY EmptySeq
  <2>2. E[n] \in Nat
    <3>1. n \in 0 .. Len(a)
      BY <2>1
    <3> HIDE DEF n
    <3> QED
      BY <3>1 DEF Offsets
  <2>3. SubSeq(a, 1, n) = a
    OBVIOUS
  <2>4. \A k \in 1 .. Len(a) : a[k] \notin Whitespaces \cup {Null}
    BY <2>1 DEF Arriving
  <2>5. b + E[n] <= Len(s)
    BY DEF Ends
  <2>6. n \in 1 .. Len(a) /\ n \in 0 .. Len(a)
    BY <2>1
  <2> QED
    BY <2>1, <2>2, <2>3, <2>4, <2>5, <2>6
<1>2. \A j \in 0 .. Len(a) : j = 0 \/ a[j] # Slash =>
          At(s, b + E[j], IF j = 0 THEN "init" ELSE Unquoted("init"), SubSeq(a, 1, j), A)
  BY <1>1, ReadEscaped
<1> DEFINE r == Run(a, n)
           i == n - r
<1>3. r \in 0 .. n /\ (\A k \in i + 1 .. n : a[k] = Slash) /\ (i = 0 \/ a[i] # Slash)
  <2>1. IsRun(a, n, r)
    BY <1>1, RunIs
  <2> QED
    BY <2>1 DEF IsRun
<1>4. i \in 0 .. n /\ n - i = r
  BY <1>1, <1>3
<1> HIDE DEF r, i
<1>5. At(s, b + E[i], IF i = 0 THEN "init" ELSE Unquoted("init"), SubSeq(a, 1, i), A)
  BY <1>2, <1>3, <1>4
<1>6. CASE r = 0
  <2>1. i = n
    <3> HIDE DEF n
    <3> QED
      BY <1>1, <1>4, <1>6
  <2> QED
    BY <1>1, <1>5, <2>1 DEF Unquoted
<1>7. CASE r # 0
  <2> DEFINE p == b + E[i]
             st == IF i = 0 THEN "init" ELSE Unquoted("init")
             w == SubSeq(a, 1, i)
  <2>1. E[n] = E[i] + r /\ \A k \in 1 .. r : s[p + k] = Slash
    <3>1. E[n] = E[i] + (n - i) /\ \A k \in 1 .. n - i : s[b + E[i] + k] = Slash
      <4>1. n \in 0 .. Len(a) /\ i \in 0 .. n /\ \A k \in i + 1 .. n : a[k] = Slash
        BY <1>1, <1>3, <1>4
      <4> HIDE DEF n
      <4>2. E[n] = E[i] + (n - i)
        BY <4>1, PlacedSlashes
      <4>3. AllSlashes(s, b + E[i], n - i)
        BY <4>1, PlacedSlashes
      <4> QED
        BY <4>2, <4>3 DEF AllSlashes
    <3> QED
      BY <1>4, <3>1
  <2>2. w \o Times(r, Slash) = a /\ w \in Seq(C)
    <3>1. w \o Times(n - i, Slash) = SubSeq(a, 1, n)
      BY <1>1, <1>3, <1>4, PrefixSlashes
    <3>2. i \in 0 .. Len(a)
      BY <1>4
    <3>3. w \in Seq(C)
      BY <3>2, PrefixIs
    <3> QED
      BY <1>1, <1>4, <3>1, <3>3
  <2>3. p \in Nat /\ p + r = b + E[n] /\ Len(s) \in Nat
    <3>1. E[i] \in Nat
      BY <1>1, <1>4 DEF Offsets
    <3> QED
      BY <1>1, <1>3, <2>1, <3>1
  <2>4. st \in {"init", "unquoted"} /\ Unquoted(st) = "unquoted"
    BY DEF Unquoted
  <2>10. r \in Nat
    BY <1>1, <1>3
  <2>11. p + r <= Len(s)
    BY <1>1, <2>3
  <2>5. (p + r = Len(s) \/ s[p + r + 1] = Space) /\ p + r <= Len(s)
    <3>1. Ends(s, p + r)
      BY <2>3
    <3> HIDE DEF p
    <3>2. p + r < Len(s) => s[p + r + 1] = Space
      BY <3>1 DEF Ends
    <3>3. p + r = Len(s) \/ p + r < Len(s)
      BY <2>3, <2>10, <2>11
    <3> QED
      BY <2>11, <3>2, <3>3
  <2>6. At(s, p, st, w, A)
    BY <1>5
  <2> HIDE DEF p, st, w
  <2>7. Slashes(s, p + 1, r)
    <3>1. \A k \in p + 1 .. p + 1 + r - 1 : k - p \in 1 .. r /\ p + (k - p) = k
      BY <1>3, <2>3
    <3>2. \A k \in p + 1 .. p + 1 + r - 1 : s[k] = Slash
      BY <2>1, <3>1
    <3>0. p + 1 + r = p + r + 1
      BY <2>3, <2>10
    <3>3. p + 1 + r > Len(s) \/ s[p + 1 + r] # Slash
      <4>1. p + r = Len(s) => p + 1 + r > Len(s)
        BY <2>3, <2>10
      <4>2. s[p + r + 1] = Space => s[p + 1 + r] # Slash
        BY <3>0, CharsDiffer
      <4> QED
        BY <2>5, <4>1, <4>2
    <3>4. r \in 1 .. Len(s) - (p + 1) + 1
      BY <1>7, <2>3, <2>10, <2>11
    <3> QED
      BY <3>2, <3>3, <3>4 DEF Slashes
  <2>8. p \in 0 .. Len(s) - 1 /\ (p + r = Len(s) \/ s[p + r + 1] # Quote)
    <3>1. p \in 0 .. Len(s) - 1
      BY <1>7, <2>3, <2>10, <2>11
    <3> QED
      BY <2>5, <3>1, CharsDiffer
  <2>9. At(s, p + r, Unquoted(st), w \o Times(r, Slash), A)
    BY <2>2, <2>4, <2>6, <2>7, <2>8, ReadSlashes
  <2> QED
    BY <2>2, <2>3, <2>4, <2>9
<1> QED
  BY <1>6, <1>7

\* At the end of an argument that is put in quotes.
LEMMA ReadQuoted ==
    ASSUME NEW C, {Quote, Slash} \subseteq C, NEW a \in Seq(C),
           NEW E, Offsets(a, E), NEW s \in Seq(C), NEW b \in Nat, Placed(s, b, a, E),
           NEW e, e = b + E[Len(a)] + Run(a, Len(a)) + 1, Ends(s, e), s[e] = Quote,
           AllSlashes(s, b + E[Len(a)], Run(a, Len(a))),
           NEW A \in Seq(Seq(C)), At(s, b, "quoted", <<>>, A)
    PROVE  At(s, e, "unquoted", a, A)
<1> DEFINE n == Len(a)
           r == Run(a, n)
           i == n - r
           p == b + E[i]
           w == SubSeq(a, 1, i)
           L == Len(s)
<1>1. n \in 0 .. Len(a) /\ n \in Nat /\ SubSeq(a, 1, n) = a /\ L \in Nat
  OBVIOUS
<1>2. r \in 0 .. n /\ (\A k \in i + 1 .. n : a[k] = Slash) /\ (i = 0 \/ a[i] # Slash)
  <2>1. IsRun(a, n, r)
    BY <1>1, RunIs
  <2> QED
    BY <2>1 DEF IsRun
<1>3. e <= L /\ e = b + E[n] + r + 1
  BY DEF Ends
<1>16. e < L => s[e + 1] = Space
  BY DEF Ends
<1>4. \A k \in 1 .. r : s[b + E[n] + k] = Slash
  BY DEF AllSlashes
<1> HIDE DEF r, L
<1>5. i \in 0 .. n /\ n - i = r /\ i \in 0 .. Len(a) /\ r \in Nat
  <2> DEFINE h == n
  <2>1. h \in Nat /\ r \in 0 .. h
    BY <1>1, <1>2
  <2> HIDE DEF h
  <2>2. h - r \in 0 .. h /\ h - (h - r) = r /\ r \in Nat
    BY <2>1
  <2> QED
    BY <2>2 DEF h
<1> HIDE DEF i
<1>6. E[n] \in Nat /\ E[i] \in Nat
  <2> HIDE DEF n
  <2> QED
    BY <1>1, <1>5 DEF Offsets
<1>7. E[n] = E[i] + r
  <2> HIDE DEF n
  <2>1. E[n] = E[i] + (n - i)
    BY <1>1, <1>2, <1>5, PlacedSlashes
  <2> QED
    BY <1>5, <2>1
<1>8. \A k \in 1 .. r : s[p + k] = Slash
  <2> HIDE DEF n
  <2>1. n \in 0 .. Len(a) /\ i \in 0 .. n /\ \A k \in i + 1 .. n : a[k] = Slash
    BY <1>1, <1>2, <1>5
  <2>2. AllSlashes(s, b + E[i], n - i)
    BY <2>1, PlacedSlashes
  <2> QED
    BY <1>5, <2>2 DEF AllSlashes
<1>9. w \o Times(r, Slash) = a /\ w \in Seq(C)
  <2> HIDE DEF n
  <2>1. w \o Times(n - i, Slash) = SubSeq(a, 1, n)
    BY <1>1, <1>2, <1>5, PrefixSlashes
  <2>2. w \in Seq(C)
    BY <1>5, PrefixIs
  <2> QED
    BY <1>1, <1>5, <2>1, <2>2
<1> HIDE DEF n
<1>10. p \in Nat /\ b + E[n] = p + r /\ e = p + 2 * r + 1
  <2>1. p = b + E[i]
    OBVIOUS
  <2> DEFINE x == E[n]
             y == E[i]
  <2>2. x = y + r /\ y \in Nat /\ r \in Nat /\ e = b + x + r + 1 /\ p = b + y
    BY <1>3, <1>5, <1>6, <1>7
  <2> HIDE DEF p, x, y
  <2>3. p \in Nat /\ b + x = p + r /\ e = p + 2 * r + 1
    BY <2>2
  <2> QED
    BY <2>3 DEF x
<1>11. At(s, p, "quoted", w, A)
  <2>1. b + E[Len(a)] <= Len(s)
    <3>1. b + E[n] <= L
      <4> HIDE DEF p
      <4>1. p + r <= L
        BY <1>1, <1>3, <1>5, <1>10
      <4> QED
        BY <1>10, <4>1
    <3> QED
      BY <3>1 DEF n, L
  <2>2. \A j \in 0 .. Len(a) : j = 0 \/ a[j] # Slash =>
            At(s, b + E[j], IF j = 0 THEN "quoted" ELSE Unquoted("quoted"), SubSeq(a, 1, j), A)
    BY <2>1, ReadEscaped
  <2> QED
    BY <1>2, <1>5, <2>2 DEF Unquoted
<1> HIDE DEF p, w
<1>12. At(s, p + 2 * r, "quoted", a, A)
  <2>1. CASE r = 0
    <3>1. w = a
      <4>1. i = n
        BY <1>1, <1>5, <2>1
      <4> QED
        BY <1>1, <4>1 DEF w
    <3>2. p + 2 * r = p
      BY <1>10, <2>1
    <3> QED
      BY <1>11, <3>1, <3>2
  <2>2. CASE r # 0
    <3> DEFINE m == 2 * r
    <3>1. m \in Nat /\ m # 0 /\ m % 2 = 0 /\ m \div 2 = r
      BY <1>5, <2>2
    <3>2. e = p + m + 1
      BY <1>10
    <3>3. ASSUME NEW k \in p + 1 .. p + 1 + m - 1 PROVE s[k] = Slash
      <4>1. CASE k <= p + r
        <5>1. k - p \in 1 .. r /\ p + (k - p) = k
          BY <1>5, <1>10, <3>1, <4>1
        <5> QED
          BY <1>8, <5>1 DEF p
      <4>2. CASE p + r < k
        <5>1. k - (p + r) \in 1 .. r /\ (p + r) + (k - (p + r)) = k
          BY <1>5, <1>10, <3>1, <4>2
        <5>2. s[(p + r) + (k - (p + r))] = Slash
          BY <1>4, <1>10, <5>1
        <5> QED
          BY <5>1, <5>2
      <4>3. k <= p + r \/ p + r < k
        BY <1>5, <1>10
      <4> QED
        BY <4>1, <4>2, <4>3
    <3> HIDE DEF m
    <3>4. m \in 1 .. L - (p + 1) + 1 /\ p \in 0 .. L - 1 /\ p + m < L /\ p + 1 + m = e
      <4>1. p \in Nat /\ L \in Nat /\ p + m + 1 <= L /\ m \in Nat /\ m # 0
        BY <1>1, <1>3, <1>10, <3>1, <3>2
      <4> QED
        BY <3>2, <4>1
    <3>5. Slashes(s, p + 1, m)
      <4>1. s[p + 1 + m] # Slash
        BY <3>4, CharsDiffer
      <4> QED
        BY <3>3, <3>4, <4>1 DEF Slashes, L
    <3>6. s[p + m + 1] = Quote /\ p + m < Len(s) /\ p \in 0 .. Len(s) - 1
      BY <3>2, <3>4 DEF L
    <3>7. At(s, p + m, Unquoted("quoted"), w \o Times(m \div 2, Slash), A)
      BY <1>9, <1>11, <3>1, <3>5, <3>6, ReadSlashes
    <3>8. Unquoted("quoted") = "quoted" /\ w \o Times(m \div 2, Slash) = a
      BY <1>9, <3>1 DEF Unquoted
    <3> QED
      BY <3>7, <3>8 DEF m
  <2> QED
    BY <2>1, <2>2
<1> DEFINE q == p + 2 * r
<1>13. q \in 0 .. L - 1 /\ q + 1 = e /\ (q + 1 = L \/ s[q + 2] # Quote)
  <2>1. q \in Nat /\ q + 1 = e
    BY <1>5, <1>10
  <2> HIDE DEF q
  <2>2. q + 1 <= L /\ L \in Nat
    BY <1>1, <1>3, <2>1
  <2>3. q \in 0 .. L - 1 /\ (q + 1 = L \/ q + 1 < L) /\ q + 1 + 1 = q + 2
    BY <2>1, <2>2
  <2>4. q + 1 < L => s[q + 2] = Space
    BY <1>16, <2>1, <2>3
  <2> QED
    BY <2>1, <2>3, <2>4, CharsDiffer
<1> HIDE DEF q
<1>14. q \in 0 .. Len(s) - 1 /\ s[q + 1] = Quote /\ (q + 1 = Len(s) \/ s[q + 2] # Quote)
  BY <1>13 DEF L
<1>15. At(s, q + 1, "unquoted", a, A)
  BY <1>12, <1>14, ReadOne DEF q
<1> QED
  BY <1>13, <1>15

\* t is in s, after position b.
Holds(s, b, t) == \A k \in 1 .. Len(t) : s[b + k] = t[k]

LEMMA ShapePlaced ==
    ASSUME NEW C, {Quote, Slash} \subseteq C, NEW a \in Seq(C), NEW E, Offsets(a, E),
           NEW u \in Seq(C), Shape(u, a, Len(a), E), NEW s, NEW b \in Nat, Holds(s, b, u)
    PROVE  Placed(s, b, a, E) /\ E[Len(a)] = Len(u)
<1> DEFINE n == Len(a)
           l == Len(u)
<1>1. n \in Nat /\ l \in Nat /\ E[n] = l /\ E[0] = 0
  BY DEF Shape, Offsets
<1>2. \A m \in 1 .. n : u[E[m]] = a[m] /\ \A k \in E[m - 1] + 1 .. E[m] - 1 : u[k] = Slash
  BY DEF Shape
<1>3. \A k \in 1 .. l : s[b + k] = u[k]
  BY DEF Holds
<1>4. \A m \in 0 .. n : E[m] \in Nat
  BY DEF Offsets
<1>5. \A i, j \in 0 .. n : i < j => E[i] < E[j]
  BY OffsetsGrow
<1> HIDE DEF n, l
<1>6. ASSUME NEW m \in 1 .. n
      PROVE  s[b + E[m]] = a[m] /\ \A k \in E[m - 1] + 1 .. E[m] - 1 : s[b + k] = Slash
  <2>1. m \in 0 .. n /\ m - 1 \in 0 .. n /\ n \in 0 .. n /\ 0 \in 0 .. n /\ m - 1 < m /\ (m < n \/ m = n)
    BY <1>1
  <2>2. E[m - 1] \in Nat /\ E[m] \in Nat /\ E[m - 1] < E[m] /\ E[m] <= l
    BY <1>1, <1>4, <1>5, <2>1
  <2>3. E[m] \in 1 .. l /\ \A k \in E[m - 1] + 1 .. E[m] - 1 : k \in 1 .. l
    BY <1>1, <2>2
  <2>4. s[b + E[m]] = u[E[m]] /\ \A k \in E[m - 1] + 1 .. E[m] - 1 : s[b + k] = u[k]
    BY <1>3, <2>3
  <2> QED
    BY <1>2, <2>4
<1> QED
  BY <1>1, <1>6 DEF n, l, Placed

\* What Escaped makes is no empty text, and nothing of it is stripped.
LEMMA EscapedIs ==
    ASSUME NEW C, {Quote, Slash} \subseteq C, NEW a \in Seq(C), Arriving(a)
    PROVE  /\ Escaped(a) \in Seq(C) /\ Len(Escaped(a)) \in Nat \ {0}
           /\ Escaped(a)[Len(Escaped(a))] \notin Whitespaces
<1>1. CASE a = <<>>
  <2>1. Escaped(a) = <<Quote, Quote>>
    BY <1>1 DEF Escaped
  <2> DEFINE q == <<Quote, Quote>>
  <2>2. q \in Seq(C) /\ Len(q) = 2 /\ q[2] = Quote
    OBVIOUS
  <2> HIDE DEF q
  <2> QED
    BY <2>1, <2>2, CharsDiffer
<1> DEFINE u == EscapedChars(a)
<1>2. u \in Seq(C)
  BY EscapedCharsIs
<1>3. CASE a # <<>> /\ HasBlank(a)
  <2> DEFINE t == InQuotes(u, Run(a, Len(a)))
  <2>1. Escaped(a) = t
    BY <1>3 DEF Escaped, InQuotes, HasBlank
  <2>2. Run(a, Len(a)) \in Nat
    BY RunIs DEF IsRun
  <2>3. t \in Seq(C) /\ Len(t) = Len(u) + Run(a, Len(a)) + 2 /\ t[Len(u) + Run(a, Len(a)) + 2] = Quote
    BY <1>2, <2>2, InQuotesIs
  <2>4. Len(u) \in Nat
    BY <1>2
  <2> DEFINE x == Len(u)
             y == Run(a, Len(a))
             l == x + y + 2
  <2>5. x \in Nat /\ y \in Nat
    BY <2>2, <2>4
  <2>6. t \in Seq(C) /\ Len(t) = l /\ t[l] = Quote
    BY <2>3
  <2> HIDE DEF t, u, x, y
  <2>7. l \in Nat \ {0}
    BY <2>5
  <2> HIDE DEF l
  <2> QED
    BY <2>1, <2>6, <2>7, CharsDiffer
<1>4. CASE a # <<>> /\ ~HasBlank(a)
  <2>1. Escaped(a) = u
    BY <1>4 DEF Escaped, HasBlank
  <2>2. PICK E : Offsets(a, E) /\ Shape(u, a, Len(a), E)
    BY EscapedCharsIs
  <2>3. Len(a) \in Nat \ {0} /\ DOMAIN a = 1 .. Len(a)
    BY <1>4, EmptySeq
  <2>4. Len(u) = E[Len(a)] /\ u[E[Len(a)]] = a[Len(a)]
    BY <2>2, <2>3 DEF Shape
  <2>5. E[0] < E[Len(a)] /\ E[0] = 0 /\ E[Len(a)] \in Nat
    <3>1. Len(a) \in 0 .. Len(a) /\ 0 \in 0 .. Len(a) /\ 0 < Len(a)
      BY <2>3
    <3> QED
      BY <2>2, <3>1, OffsetsGrow DEF Offsets
  <2>6. a[Len(a)] \notin Whitespaces
    BY <1>4, <2>3 DEF Arriving
  <2> HIDE DEF u
  <2> DEFINE l == E[Len(a)]
             c == a[Len(a)]
  <2>7. l \in Nat \ {0} /\ Len(u) = l /\ u[l] = c /\ c \notin Whitespaces
    BY <2>4, <2>5, <2>6
  <2> HIDE DEF l, c
  <2> QED
    BY <1>2, <2>1, <2>7
<1> QED
  BY <1>1, <1>3, <1>4

\* An argument, escaped, is read as it was.
LEMMA ReadArgument ==
    ASSUME NEW C, {Quote, Slash} \subseteq C, NEW a \in Seq(C), Arriving(a),
           NEW s \in Seq(C), NEW b \in Nat, Holds(s, b, Escaped(a)),
           Ends(s, b + Len(Escaped(a))), NEW A \in Seq(Seq(C)), At(s, b, "init", <<>>, A)
    PROVE  At(s, b + Len(Escaped(a)), "unquoted", a, A)
<1> DEFINE u == EscapedChars(a)
           L == Len(s)
<1>0. L \in Nat /\ <<>> \in Seq(C)
  OBVIOUS
<1>1. CASE a = <<>>
  <2>1. Escaped(a) = <<Quote, Quote>>
    BY <1>1 DEF Escaped
  <2>2. Len(Escaped(a)) = 2 /\ Escaped(a)[1] = Quote /\ Escaped(a)[2] = Quote
    BY <2>1
  <2>3. s[b + 1] = Quote /\ s[b + 2] = Quote
    BY <2>2 DEF Holds
  <2>4. b + 2 <= L /\ (b + 2 < L => s[b + 2 + 1] = Space)
    BY <2>2 DEF Ends
  <2> HIDE DEF L
  <2>5. /\ b \in 0 .. L - 1 /\ b + 1 \in 0 .. L - 1 /\ b + 1 + 1 = b + 2 /\ b + 1 + 2 = b + 2 + 1
        /\ (b + 2 = L \/ b + 2 < L)
    <3>1. b + 2 <= L
      BY <2>4
    <3> QED
      BY <1>0, <3>1
  <2>6. At(s, b + 1, "quoted", <<>>, A)
    BY <1>0, <2>3, <2>5, ReadOne DEF L
  <2>7. b + 1 + 1 = L \/ s[b + 1 + 2] # Quote
    BY <2>4, <2>5, CharsDiffer
  <2>8. At(s, b + 1 + 1, "unquoted", <<>>, A)
    <3> DEFINE p == b + 1
    <3>1. At(s, p, "quoted", <<>>, A) /\ p \in 0 .. Len(s) - 1 /\ s[p + 1] = Quote
          /\ (p + 1 = Len(s) \/ s[p + 2] # Quote)
      BY <2>3, <2>5, <2>6, <2>7 DEF L
    <3> HIDE DEF p
    <3>2. At(s, p + 1, "unquoted", <<>>, A)
      BY <1>0, <3>1, ReadOne
    <3> QED
      BY <3>2 DEF p
  <2> QED
    BY <1>1, <2>2, <2>5, <2>8
<1>2. PICK E : Offsets(a, E) /\ Shape(u, a, Len(a), E)
  BY EscapedCharsIs
<1>3. u \in Seq(C) /\ Len(u) \in Nat
  <2>1. u \in Seq(C)
    BY EscapedCharsIs
  <2> HIDE DEF u
  <2> QED
    BY <2>1
<1>4. CASE a # <<>> /\ HasBlank(a)
  <2> DEFINE r == Run(a, Len(a))
             t == InQuotes(u, r)
             n == Len(u)
  <2>1. Escaped(a) = t
    BY <1>4 DEF Escaped, InQuotes, HasBlank
  <2>2. r \in Nat
    BY RunIs DEF IsRun
  <2>3. t \in Seq(C) /\ Len(t) = n + r + 2 /\ t[1] = Quote /\ t[n + r + 2] = Quote
    BY <1>3, <2>2, InQuotesIs
  <2>4. \A k \in 1 .. n : t[1 + k] = u[k]
    BY <1>3, <2>2, InQuotesIs
  <2>5. \A k \in 1 .. r : t[1 + n + k] = Slash
    BY <1>3, <2>2, InQuotesIs
  <2> HIDE DEF t, r
  <2>6. /\ \A k \in 1 .. n + r + 2 : s[b + k] = t[k]
        /\ Ends(s, b + (n + r + 2))
    BY <2>1, <2>3 DEF Holds
  <2>7. b + (n + r + 2) <= L
    BY <2>6 DEF Ends
  <2> DEFINE p == b + 1
  <2>8. Holds(s, p, u)
    <3>1. \A k \in 1 .. n : 1 + k \in 1 .. n + r + 2 /\ b + (1 + k) = p + k
      BY <1>3, <2>2
    <3> QED
      BY <2>4, <2>6, <3>1 DEF Holds
  <2>9. p \in Nat /\ Placed(s, p, a, E) /\ E[Len(a)] = n
    <3>1. p \in Nat
      OBVIOUS
    <3> HIDE DEF p
    <3> QED
      BY <1>2, <1>3, <2>8, <3>1, ShapePlaced
  <2>10. AllSlashes(s, p + n, r)
    <3>1. \A k \in 1 .. r : 1 + n + k \in 1 .. n + r + 2 /\ b + (1 + n + k) = p + n + k
      BY <1>3, <2>2
    <3> QED
      BY <2>5, <2>6, <3>1 DEF AllSlashes
  <2>11. At(s, p, "quoted", <<>>, A)
    <3>1. 1 \in 1 .. n + r + 2 /\ b \in 0 .. L - 1
      <4> HIDE DEF n, L
      <4> QED
        BY <1>0, <1>3, <2>2, <2>7 DEF n
    <3>2. s[b + 1] = Quote
      BY <2>3, <2>6, <3>1
    <3> QED
      BY <1>0, <3>1, <3>2, ReadOne
  <2> DEFINE e == b + (n + r + 2)
  <2>12. e = p + n + r + 1 /\ s[e] = Quote
    <3>1. n + r + 2 \in 1 .. n + r + 2
      BY <1>3, <2>2
    <3>2. s[e] = Quote
      BY <2>3, <2>6, <3>1
    <3> QED
      BY <1>3, <2>2, <3>2
  <2>13. At(s, e, "unquoted", a, A)
    <3> HIDE DEF p, e, n
    <3>1. e = p + E[Len(a)] + Run(a, Len(a)) + 1 /\ AllSlashes(s, p + E[Len(a)], Run(a, Len(a)))
      BY <2>9, <2>10, <2>12 DEF r
    <3>2. Ends(s, e) /\ s[e] = Quote
      BY <2>6, <2>12 DEF e
    <3> QED
      BY <1>2, <2>9, <2>11, <3>1, <3>2, ReadQuoted
  <2> QED
    BY <2>1, <2>3, <2>13
<1>5. CASE a # <<>> /\ ~HasBlank(a)
  <2>1. Escaped(a) = u
    BY <1>5 DEF Escaped, HasBlank
  <2>2. Holds(s, b, u) /\ Ends(s, b + Len(u))
    BY <2>1
  <2> HIDE DEF u
  <2>3. Placed(s, b, a, E) /\ E[Len(a)] = Len(u)
    BY <1>2, <1>3, <2>2, ShapePlaced
  <2>4. Ends(s, b + E[Len(a)])
    BY <2>2, <2>3
  <2>5. At(s, b + E[Len(a)], "unquoted", a, A)
    BY <1>2, <1>5, <2>3, <2>4, ReadBare
  <2> QED
    BY <2>1, <2>3, <2>5
<1> QED
  BY <1>1, <1>4, <1>5

-----------------------------------------------------------------------------
(* A whole line.                                                           *)

\* The line with one more argument.
OneMore(l, a) == (IF l = <<>> THEN <<>> ELSE l \o <<Space>>) \o Escaped(a)

LEMMA OneMoreIs ==
    ASSUME NEW C, {Quote, Slash, Space} \subseteq C, NEW a \in Seq(C), Arriving(a), NEW l \in Seq(C)
    PROVE  /\ OneMore(l, a) \in Seq(C) /\ AppendArg(l, a) = OneMore(l, a)
           /\ l = <<>> => OneMore(l, a) = Escaped(a)
           /\ l # <<>> => /\ Len(OneMore(l, a)) = Len(l) + 1 + Len(Escaped(a))
                          /\ Holds(OneMore(l, a), 0, l)
                          /\ OneMore(l, a)[Len(l) + 1] = Space
                          /\ Holds(OneMore(l, a), Len(l) + 1, Escaped(a))
<1> DEFINE t == Escaped(a)
           b == <<Space>>
           x == l \o b
           y == x \o t
           n == Len(l)
           m == Len(t)
<1>1. t \in Seq(C) /\ m \in Nat \ {0}
  BY EscapedIs
<1>2. b \in Seq(C) /\ Len(b) = 1 /\ b[1] = Space /\ n \in Nat
  OBVIOUS
<1>3. CASE l = <<>>
  <2>1. <<>> \o t = t
    <3> HIDE DEF t
    <3> QED
      BY <1>1, ConcatEmptySeq
  <2>2. OneMore(l, a) = t /\ AppendArg(l, a) = t
    BY <1>3, <2>1 DEF OneMore, AppendArg
  <2> QED
    BY <1>1, <1>3, <2>2
<1>4. CASE l # <<>>
  <2>1. OneMore(l, a) = y /\ AppendArg(l, a) = y
    BY <1>4 DEF OneMore, AppendArg
  <2> HIDE DEF t, b
  <2>2. x \in Seq(C) /\ IsConcat(x, l, b, n, Len(b))
    BY <1>2, ConcatIs
  <2> HIDE DEF x
  <2>3. x \in Seq(C) /\ IsConcat(x, l, b, n, 1) /\ Len(x) = n + 1
    BY <1>2, <2>2 DEF IsConcat
  <2>4. y \in Seq(C) /\ IsConcat(y, x, t, Len(x), m)
    BY <1>1, <2>3, ConcatIs
  <2> HIDE DEF y, n, m
  <2>5. y \in Seq(C) /\ IsConcat(y, x, t, n + 1, m) /\ Len(y) = n + 1 + m
    BY <2>3, <2>4 DEF IsConcat
  <2>6. ASSUME NEW k \in 1 .. n PROVE y[0 + k] = l[k]
    <3>1. k \in 1 .. n + 1 /\ 0 + k = k
      BY <1>2
    <3> QED
      BY <2>3, <2>5, <3>1 DEF IsConcat
  <2>7. y[n + 1] = Space
    <3>1. n + 1 \in 1 .. n + 1 /\ 1 \in 1 .. 1
      BY <1>2
    <3> QED
      BY <1>2, <2>3, <2>5, <3>1 DEF IsConcat
  <2>8. \A k \in 1 .. m : y[n + 1 + k] = t[k]
    BY <2>5 DEF IsConcat
  <2>9. Holds(y, 0, l) /\ Holds(y, n + 1, t)
    BY <2>6, <2>8 DEF Holds, n, m
  <2> QED
    BY <1>4, <2>1, <2>5, <2>7, <2>9 DEF n, m, t
<1> QED
  BY <1>3, <1>4

LEMMA LinesAre ==
    ASSUME NEW C, {Quote, Slash, Space} \subseteq C, NEW args \in Seq(Seq(C)),
           \A k \in 1 .. Len(args) : Arriving(args[k])
    PROVE  /\ Lines(args)[0] = <<>>
           /\ \A k \in 1 .. Len(args) : Lines(args)[k] = OneMore(Lines(args)[k - 1], args[k])
           /\ \A k \in 0 .. Len(args) : Lines(args)[k] \in Seq(C)
<1> DEFINE n == Len(args)
           T == Seq(C)
           More(l, k) == OneMore(l, args[k])
           step == [x \in T \X (1 .. n) |-> More(x[1], x[2])]
           Is(g) == g = [k \in 0 .. n |-> IF k = 0 THEN <<>> ELSE More(g[k - 1], k)]
           lines == CHOOSE g : Is(g)
<1>1. n \in Nat /\ <<>> \in T
  OBVIOUS
<1>2. Lines(args) = lines
  BY DEF Lines, OneMore
<1>3. ASSUME NEW l \in T, NEW k \in 1 .. n PROVE More(l, k) \in T
  <2>1. args[k] \in Seq(C) /\ Arriving(args[k])
    BY ElementOfSeq
  <2> QED
    BY <2>1, OneMoreIs
<1> HIDE DEF More, T, n
<1>4. PICK f \in [0 .. n -> T] : Recurs(f, <<>>, n, step)
  <2>1. step \in [T \X (1 .. n) -> T]
    BY <1>3
  <2> HIDE DEF step
  <2> QED
    BY <1>1, <2>1, Recursion, Zenon
<1>5. f[0] = <<>> /\ \A k \in 1 .. n : f[k] = More(f[k - 1], k)
  <2>1. ASSUME NEW k \in 1 .. n PROVE f[k] = More(f[k - 1], k)
    <3>1. f[k - 1] \in T
      BY <1>1, <1>4
    <3> QED
      BY <1>4, <3>1 DEF Recurs
  <2> QED
    BY <1>4, <2>1 DEF Recurs
<1>6. Is(f)
  <2>1. f = [k \in 0 .. n |-> f[k]] /\ \A k \in 0 .. n : k = 0 \/ k \in 1 .. n
    BY <1>1, <1>4
  <2> QED
    BY <1>5, <2>1
<1>7. Is(lines)
  <2> HIDE DEF Is
  <2> QED
    BY <1>6, Zenon
<1> HIDE DEF lines
<1>8. lines[0] = <<>> /\ \A k \in 1 .. n : lines[k] = More(lines[k - 1], k)
  <2>1. 0 \in 0 .. n /\ \A k \in 1 .. n : k \in 0 .. n /\ k # 0
    BY <1>1
  <2>2. \A k \in 0 .. n : lines[k] = IF k = 0 THEN <<>> ELSE More(lines[k - 1], k)
    BY <1>7, Zenon
  <2> QED
    BY <2>1, <2>2
<1> DEFINE S == {k \in 0 .. n : lines[k] \in T}
<1>9. 0 \in S
  BY <1>1, <1>8
<1>10. ASSUME NEW k \in 0 .. n - 1, k \in S PROVE k + 1 \in S
  <2>1. k + 1 \in 1 .. n /\ k + 1 \in 0 .. n /\ k + 1 - 1 = k
    BY <1>1
  <2> QED
    BY <1>3, <1>8, <1>10, <2>1
<1>11. 0 .. n \subseteq S
  <2> HIDE DEF S
  <2> QED
    BY <1>1, <1>9, <1>10, Induction
<1> QED
  BY <1>2, <1>8, <1>11 DEF n, T, More

LEMMA HoldsWithin ==
    ASSUME NEW C, NEW x, NEW y \in Seq(C), NEW t \in Seq(C), NEW b \in Nat,
           Holds(x, 0, y), Holds(y, b, t), b + Len(t) <= Len(y)
    PROVE  Holds(x, b, t)
<1>1. ASSUME NEW k \in 1 .. Len(t) PROVE x[b + k] = t[k]
  <2>1. b + k \in 1 .. Len(y) /\ 0 + (b + k) = b + k
    BY <1>1
  <2> QED
    BY <2>1 DEF Holds
<1> QED
  BY <1>1 DEF Holds

\* The line that is made of the first k arguments begins the whole line.
Begins(l, k, m) == Len(l[k]) <= Len(l[m]) /\ Holds(l[m], 0, l[k])

LEMMA LinesGrow ==
    ASSUME NEW C, {Quote, Slash, Space} \subseteq C, NEW args \in Seq(Seq(C)),
           \A k \in 1 .. Len(args) : Arriving(args[k])
    PROVE  \A k, m \in 1 .. Len(args) : k <= m => Begins(Lines(args), k, m)
<1> DEFINE l == Lines(args)
           n == Len(args)
<1>1. /\ n \in Nat /\ \A k \in 1 .. n : args[k] \in Seq(C) /\ Arriving(args[k])
      /\ \A k \in 1 .. n : l[k] = OneMore(l[k - 1], args[k])
      /\ \A k \in 0 .. n : l[k] \in Seq(C)
  BY LinesAre, ElementOfSeq
<1> HIDE DEF l, n
<1>2. ASSUME NEW k \in 1 .. n PROVE l[k] # <<>>
  <2>1. k - 1 \in 0 .. n /\ k \in 0 .. n
    BY <1>1
  <2>2. l[k - 1] \in Seq(C) /\ args[k] \in Seq(C) /\ Arriving(args[k]) /\ l[k] = OneMore(l[k - 1], args[k])
    BY <1>1, <2>1
  <2>3. Len(Escaped(args[k])) \in Nat \ {0}
    BY <2>2, EscapedIs
  <2>4. Len(l[k]) # 0
    <3>1. CASE l[k - 1] = <<>>
      BY <2>2, <2>3, <3>1, OneMoreIs
    <3>2. CASE l[k - 1] # <<>>
      <4> DEFINE h == l[k - 1]
                 x == Len(Escaped(args[k]))
      <4>1. h # <<>> /\ h \in Seq(C) /\ l[k] = OneMore(h, args[k]) /\ x \in Nat \ {0}
        BY <2>2, <2>3, <3>2
      <4> HIDE DEF h
      <4>2. Len(l[k]) = Len(h) + 1 + x /\ Len(h) \in Nat
        BY <2>2, <4>1, OneMoreIs
      <4> HIDE DEF x
      <4> QED
        BY <4>1, <4>2
    <3> QED
      BY <3>1, <3>2
  <2> QED
    BY <2>4
<1>3. ASSUME NEW k \in 1 .. n PROVE \A m \in 1 .. n : k <= m => Begins(l, k, m)
  <2> DEFINE S == {m \in 0 .. n : k <= m => Begins(l, k, m)}
  <2>1. 0 \in S
    BY <1>1
  <2>2. ASSUME NEW m \in 0 .. n - 1, m \in S PROVE m + 1 \in S
    <3>1. m + 1 \in 1 .. n /\ m + 1 \in 0 .. n /\ m + 1 - 1 = m /\ k \in 0 .. n
      BY <1>1
    <3>2. CASE k = m + 1
      <4>1. Begins(l, k, k)
        <5>1. Len(l[k]) \in Nat /\ \A j \in 1 .. Len(l[k]) : 0 + j = j
          BY <1>1, <3>1
        <5> QED
          BY <5>1 DEF Begins, Holds
      <4> QED
        BY <3>1, <3>2, <4>1
    <3>3. CASE k <= m
      <4>1. Begins(l, k, m) /\ m \in 1 .. n
        BY <1>1, <2>2, <3>3
      <4>2. /\ l[m] # <<>> /\ l[m] \in Seq(C) /\ l[m + 1] = OneMore(l[m], args[m + 1])
            /\ args[m + 1] \in Seq(C) /\ Arriving(args[m + 1]) /\ l[k] \in Seq(C)
        BY <1>1, <1>2, <3>1, <4>1
      <4>3. Len(l[m + 1]) = Len(l[m]) + 1 + Len(Escaped(args[m + 1])) /\ Holds(l[m + 1], 0, l[m])
        BY <4>2, OneMoreIs
      <4>4. Len(Escaped(args[m + 1])) \in Nat /\ Len(l[m]) \in Nat /\ Len(l[k]) \in Nat
        BY <4>2, EscapedIs
      <4>5. Len(l[k]) <= Len(l[m]) /\ Holds(l[m], 0, l[k])
        BY <4>1 DEF Begins
      <4>6. 0 + Len(l[k]) <= Len(l[m])
        BY <4>4, <4>5
      <4>7. Holds(l[m + 1], 0, l[k])
        BY <4>2, <4>3, <4>5, <4>6, HoldsWithin
      <4>8. Len(l[k]) <= Len(l[m + 1])
        <5> DEFINE x == Len(l[m])
                   y == Len(Escaped(args[m + 1]))
                   z == Len(l[k])
        <5>1. Len(l[m + 1]) = x + 1 + y /\ x \in Nat /\ y \in Nat /\ z \in Nat /\ z <= x
          BY <4>3, <4>4, <4>5
        <5> HIDE DEF x, y, z
        <5>2. z <= Len(l[m + 1])
          BY <5>1
        <5> QED
          BY <5>2 DEF z
      <4> QED
        BY <3>1, <4>7, <4>8 DEF Begins
    <3>4. k <= m + 1 => k = m + 1 \/ k <= m
      OBVIOUS
    <3> QED
      BY <3>1, <3>2, <3>3, <3>4
  <2>3. 0 .. n \subseteq S
    <3> HIDE DEF S
    <3> QED
      BY <1>1, <2>1, <2>2, Induction
  <2>4. \A m \in 1 .. n : m \in 0 .. n
    OBVIOUS
  <2> QED
    BY <2>3, <2>4
<1> QED
  BY <1>3 DEF l, n

\* In the whole line, the line of the first k arguments is followed by a blank and
\* the next argument.
LEMMA LineOf ==
    ASSUME NEW C, {Quote, Slash, Space} \subseteq C, NEW args \in Seq(Seq(C)),
           \A k \in 1 .. Len(args) : Arriving(args[k]), NEW k \in 1 .. Len(args)
    PROVE  LET l == Lines(args)
               n == Len(args)
           IN /\ l[n] \in Seq(C) /\ Len(l[k]) \in Nat \ {0} /\ Len(l[k]) <= Len(l[n])
              /\ Ends(l[n], Len(l[k]))
              /\ k = 1 => /\ Len(l[k]) = 0 + Len(Escaped(args[k]))
                          /\ Holds(l[n], 0, Escaped(args[k]))
              /\ k # 1 => /\ Len(l[k]) = Len(l[k - 1]) + 1 + Len(Escaped(args[k]))
                          /\ Holds(l[n], Len(l[k - 1]) + 1, Escaped(args[k]))
<1> DEFINE l == Lines(args)
           n == Len(args)
<1>1. /\ n \in Nat /\ n \in 1 .. n /\ n \in 0 .. n /\ k \in 1 .. n /\ l[0] = <<>>
      /\ \A i \in 1 .. n : args[i] \in Seq(C) /\ Arriving(args[i])
      /\ \A i \in 1 .. n : l[i] = OneMore(l[i - 1], args[i])
      /\ \A i \in 0 .. n : l[i] \in Seq(C)
      /\ \A i, j \in 1 .. n : i <= j => Begins(l, i, j)
  BY LinesAre, LinesGrow, ElementOfSeq
<1> HIDE DEF l, n
<1> DEFINE t(i) == Escaped(args[i])
<1>2. \A i \in 1 .. n : t(i) \in Seq(C) /\ Len(t(i)) \in Nat \ {0}
  BY <1>1, EscapedIs
<1>3. \A i \in 0 .. n : Len(l[i]) \in Nat
  BY <1>1
<1>4. \A i \in 1 .. n : Len(l[i]) <= Len(l[n]) /\ Holds(l[n], 0, l[i])
  BY <1>1 DEF Begins
<1>5. ASSUME NEW h \in 1 .. n, NEW i \in 1 .. n, i = h + 1, l[h] # <<>>
      PROVE  /\ Len(l[i]) = Len(l[h]) + 1 + Len(t(i))
             /\ l[i][Len(l[h]) + 1] = Space
             /\ Holds(l[i], Len(l[h]) + 1, t(i))
  <2>1. i - 1 = h /\ h \in 0 .. n
    BY <1>1, <1>5
  <2>2. l[h] \in Seq(C) /\ l[i] = OneMore(l[h], args[i]) /\ args[i] \in Seq(C) /\ Arriving(args[i])
    BY <1>1, <2>1
  <2> DEFINE g == l[h]
             y == l[i]
             a == args[i]
             e == Escaped(a)
  <2>3. g # <<>> /\ g \in Seq(C) /\ a \in Seq(C) /\ Arriving(a) /\ y = OneMore(g, a)
    BY <1>5, <2>2
  <2> HIDE DEF g, y, a
  <2>4. Len(y) = Len(g) + 1 + Len(e)
    BY <2>3, OneMoreIs
  <2>5. y[Len(g) + 1] = Space
    BY <2>3, OneMoreIs
  <2>6. Holds(y, Len(g) + 1, e)
    BY <2>3, OneMoreIs
  <2> HIDE DEF e
  <2> QED
    BY <2>4, <2>5, <2>6, Zenon DEF g, y, a, e
<1>6. l[1] = t(1)
  <2>1. 1 \in 1 .. n /\ 1 - 1 = 0 /\ 0 \in 0 .. n
    BY <1>1
  <2>2. l[1] = OneMore(<<>>, args[1]) /\ <<>> \in Seq(C) /\ args[1] \in Seq(C) /\ Arriving(args[1])
    BY <1>1, <2>1
  <2> QED
    BY <2>2, OneMoreIs
<1> HIDE DEF t
<1>7. \A i \in 1 .. n : Len(l[i]) \in Nat \ {0}
  <2> DEFINE S == {i \in 0 .. n : i # 0 => Len(l[i]) \in Nat \ {0}}
  <2>1. 0 \in S
    BY <1>1
  <2>2. ASSUME NEW i \in 0 .. n - 1, i \in S PROVE i + 1 \in S
    <3>1. i + 1 \in 1 .. n /\ i + 1 \in 0 .. n /\ i + 1 - 1 = i
      BY <1>1
    <3>2. CASE i = 0
      BY <1>2, <1>6, <3>1, <3>2
    <3>3. CASE i # 0
      <4>1. Len(l[i]) \in Nat \ {0} /\ i \in 1 .. n
        BY <2>2, <3>3
      <4>2. l[i] # <<>>
        BY <4>1
      <4>3. Len(l[i + 1]) = Len(l[i]) + 1 + Len(t(i + 1)) /\ Len(t(i + 1)) \in Nat
        BY <1>2, <1>5, <3>1, <4>1, <4>2
      <4> DEFINE x == Len(l[i])
                 y == Len(t(i + 1))
      <4>4. Len(l[i + 1]) = x + 1 + y /\ x \in Nat /\ y \in Nat
        BY <4>1, <4>3
      <4> HIDE DEF x, y
      <4>5. Len(l[i + 1]) \in Nat \ {0}
        BY <4>4
      <4> QED
        BY <3>1, <4>5
    <3> QED
      BY <3>2, <3>3
  <2>3. 0 .. n \subseteq S
    <3> HIDE DEF S
    <3> QED
      BY <1>1, <2>1, <2>2, Induction
  <2> QED
    BY <2>3
<1>8. \A i \in 1 .. n : l[i] # <<>>
  BY <1>7
<1>9. Ends(l[n], Len(l[k]))
  <2>1. CASE k = n
    BY <1>1, <1>7, <2>1 DEF Ends
  <2>2. CASE k # n
    <3>1. k + 1 \in 1 .. n
      BY <1>1, <2>2
    <3>2. Len(l[k + 1]) = Len(l[k]) + 1 + Len(t(k + 1)) /\ l[k + 1][Len(l[k]) + 1] = Space
      BY <1>1, <1>5, <1>8, <3>1
    <3>3. Len(l[k]) + 1 \in 1 .. Len(l[k + 1]) /\ 0 + (Len(l[k]) + 1) = Len(l[k]) + 1
      <4> DEFINE x == Len(l[k])
                 y == Len(t(k + 1))
      <4>1. Len(l[k + 1]) = x + 1 + y /\ x \in Nat /\ y \in Nat
        BY <1>1, <1>2, <1>7, <3>1, <3>2
      <4> HIDE DEF x, y
      <4>2. x + 1 \in 1 .. Len(l[k + 1]) /\ 0 + (x + 1) = x + 1
        BY <4>1
      <4> QED
        BY <4>2 DEF x
    <3>4. l[n][Len(l[k]) + 1] = Space
      BY <1>4, <3>1, <3>2, <3>3 DEF Holds
    <3> QED
      BY <1>1, <1>4, <3>4 DEF Ends
  <2> QED
    BY <2>1, <2>2
<1>10. k = 1 => Len(l[k]) = 0 + Len(t(k)) /\ Holds(l[n], 0, t(k))
  BY <1>1, <1>2, <1>4, <1>6
<1>11. ASSUME k # 1
       PROVE  Len(l[k]) = Len(l[k - 1]) + 1 + Len(t(k)) /\ Holds(l[n], Len(l[k - 1]) + 1, t(k))
  <2>1. k - 1 \in 1 .. n /\ k \in 0 .. n /\ k = k - 1 + 1
    BY <1>1, <1>11
  <2>2. Len(l[k]) = Len(l[k - 1]) + 1 + Len(t(k)) /\ Holds(l[k], Len(l[k - 1]) + 1, t(k))
    BY <1>1, <1>5, <1>8, <1>11, <2>1
  <2>3. Len(l[k - 1]) + 1 + Len(t(k)) <= Len(l[k]) /\ Len(l[k - 1]) + 1 \in Nat
    BY <1>1, <1>2, <1>7, <2>1, <2>2
  <2>4. Holds(l[n], 0, l[k]) /\ l[k] \in Seq(C) /\ t(k) \in Seq(C)
    BY <1>1, <1>2, <1>4, <2>1
  <2> QED
    BY <2>2, <2>3, <2>4, HoldsWithin
<1> QED
  BY <1>1, <1>4, <1>7, <1>9, <1>10, <1>11 DEF l, n, t

\* At the end of each argument the loop has that argument for a token, and those
\* before it for arguments.
LEMMA ReadLine ==
    ASSUME NEW C, {Quote, Slash, Space} \subseteq C, NEW args \in Seq(Seq(C)),
           \A k \in 1 .. Len(args) : Arriving(args[k]), NEW k \in 1 .. Len(args)
    PROVE  At(Lines(args)[Len(args)], Len(Lines(args)[k]), "unquoted", args[k], SubSeq(args, 1, k - 1))
<1> DEFINE l == Lines(args)
           n == Len(args)
           s == l[n]
           t(i) == Escaped(args[i])
           P(i) == At(s, Len(l[i]), "unquoted", args[i], SubSeq(args, 1, i - 1))
           S == {i \in 0 .. n : i # 0 => P(i)}
<1>0. s \in Seq(C)
  BY LineOf
<1>a. \A i \in 1 .. n : args[i] \in Seq(C) /\ Arriving(args[i])
  BY ElementOfSeq
<1>b. n \in Nat /\ k \in 1 .. n /\ {Quote, Slash} \subseteq C
  OBVIOUS
<1>1. /\ n \in Nat /\ k \in 1 .. n /\ s \in Seq(C) /\ {Quote, Slash} \subseteq C
      /\ \A i \in 1 .. n : args[i] \in Seq(C) /\ Arriving(args[i])
  BY <1>0, <1>a, <1>b, Zenon
<1>2. \A i \in 1 .. n :
          /\ Len(l[i]) \in Nat \ {0} /\ Len(l[i]) <= Len(s) /\ Ends(s, Len(l[i]))
          /\ i = 1 => Len(l[i]) = 0 + Len(t(i)) /\ Holds(s, 0, t(i))
          /\ i # 1 => Len(l[i]) = Len(l[i - 1]) + 1 + Len(t(i)) /\ Holds(s, Len(l[i - 1]) + 1, t(i))
  BY LineOf
<1>3. ASSUME NEW i \in 0 .. n PROVE SubSeq(args, 1, i) \in Seq(Seq(C))
  BY <1>3, PrefixIs
<1>4. ASSUME NEW i \in 1 .. n PROVE Append(SubSeq(args, 1, i - 1), args[i]) = SubSeq(args, 1, i)
  <2>1. SubSeq(args, 1, i - 1) \o <<args[i]>> = SubSeq(args, 1, i)
    BY <1>4, PrefixOne
  <2>2. i - 1 \in 0 .. n
    BY <1>1, <1>4
  <2>3. SubSeq(args, 1, i - 1) \in Seq(Seq(C)) /\ args[i] \in Seq(C)
    BY <1>1, <1>3, <1>4, <2>2
  <2> QED
    BY <2>1, <2>3, AppendIsConcat
<1>5. Reads(s)[0] = ReadStart
  BY <1>1, ReadsAre
<1> HIDE DEF l, n, s
<1>6. P(1)
  <2>1. At(s, 0, "init", <<>>, <<>>)
    <3>1. 1 \in 0 .. 0 + 1
      OBVIOUS
    <3> QED
      BY <1>5, <3>1 DEF At, ReadStart
  <2>2. 1 \in 1 .. n /\ 0 \in 0 .. n /\ 1 - 1 = 0
    BY <1>1
  <2>3. SubSeq(args, 1, 0) = <<>>
    OBVIOUS
  <2>4. args[1] \in Seq(C) /\ Arriving(args[1]) /\ Len(l[1]) = 0 + Len(t(1)) /\ Holds(s, 0, t(1)) /\ Ends(s, Len(l[1]))
    BY <1>1, <1>2, <2>2
  <2>5. <<>> \in Seq(Seq(C)) /\ 0 \in Nat
    OBVIOUS
  <2>6. Ends(s, 0 + Len(t(1)))
    BY <2>4
  <2>7. At(s, 0 + Len(t(1)), "unquoted", args[1], <<>>)
    BY <1>1, <2>1, <2>4, <2>5, <2>6, ReadArgument
  <2> QED
    BY <2>2, <2>3, <2>4, <2>7
<1>7. ASSUME NEW i \in 1 .. n - 1, P(i) PROVE P(i + 1)
  <2> DEFINE p == Len(l[i])
             A == SubSeq(args, 1, i)
             w == args[i]
  <2>1. i \in 1 .. n /\ i + 1 \in 1 .. n /\ i + 1 - 1 = i /\ i + 1 # 1 /\ i \in 0 .. n /\ i - 1 \in 0 .. n
    BY <1>1
  <2>2. /\ p \in Nat \ {0} /\ Ends(s, p) /\ Len(l[i + 1]) = p + 1 + Len(t(i + 1))
        /\ Len(l[i + 1]) <= Len(s) /\ Holds(s, p + 1, t(i + 1)) /\ Ends(s, Len(l[i + 1]))
    <3>1. p \in Nat \ {0} /\ Ends(s, p)
      BY <1>2, <2>1
    <3>2. PICK q \in 1 .. n : q = i + 1
      BY <2>1
    <3>a. q # 1 /\ q - 1 = i
      BY <2>1, <3>2
    <3>b. Len(l[q]) = Len(l[q - 1]) + 1 + Len(t(q)) /\ Holds(s, Len(l[q - 1]) + 1, t(q))
      BY <1>2, <3>a, Zenon
    <3>3. Len(l[i + 1]) = p + 1 + Len(t(i + 1)) /\ Holds(s, p + 1, t(i + 1))
      BY <3>2, <3>a, <3>b, Zenon
    <3>4. Len(l[i + 1]) <= Len(s) /\ Ends(s, Len(l[i + 1]))
      BY <1>2, <2>1, Zenon
    <3> QED
      BY <3>1, <3>3, <3>4, Zenon
  <2>3. w \in Seq(C) /\ args[i + 1] \in Seq(C) /\ Arriving(args[i + 1])
    BY <1>1, <2>1
  <2>4. Len(t(i + 1)) \in Nat \ {0}
    BY <1>1, <2>3, EscapedIs
  <2>5. A \in Seq(Seq(C)) /\ SubSeq(args, 1, i - 1) \in Seq(Seq(C)) /\ Append(SubSeq(args, 1, i - 1), w) = A
    BY <1>3, <1>4, <2>1
  <2>6. At(s, p, "unquoted", w, SubSeq(args, 1, i - 1))
    BY <1>7
  <2> HIDE DEF p, A, w
  <2>7. p \in 0 .. Len(s) - 1 /\ p < Len(s) /\ p + 1 \in Nat
    <3> DEFINE x == Len(t(i + 1))
               y == Len(s)
               z == Len(l[i + 1])
    <3>1. z = p + 1 + x /\ z <= y /\ x \in Nat \ {0} /\ p \in Nat \ {0} /\ y \in Nat
      BY <1>1, <2>2, <2>4
    <3> HIDE DEF x, y, z
    <3>2. p \in 0 .. y - 1 /\ p < y /\ p + 1 \in Nat
      BY <3>1
    <3> QED
      BY <3>2 DEF y
  <2>8. s[p + 1] \in Blanks
    BY <2>2, <2>7, CharsDiffer DEF Ends
  <2>9. At(s, p + 1, "init", <<>>, Append(SubSeq(args, 1, i - 1), w))
    BY <1>1, <2>3, <2>5, <2>6, <2>7, <2>8, ReadOne
  <2>10. At(s, p + 1, "init", <<>>, A)
    BY <2>5, <2>9
  <2>11. Ends(s, p + 1 + Len(t(i + 1)))
    BY <2>2
  <2>12. At(s, p + 1 + Len(t(i + 1)), "unquoted", args[i + 1], A)
    BY <1>1, <2>2, <2>3, <2>5, <2>7, <2>10, <2>11, ReadArgument
  <2> QED
    BY <2>1, <2>2, <2>12 DEF A
<1>8. 0 .. n \subseteq S
  <2>1. 0 \in S
    BY <1>1
  <2>2. ASSUME NEW i \in 0 .. n - 1, i \in S PROVE i + 1 \in S
    <3>1. i + 1 \in 0 .. n
      BY <1>1
    <3>2. CASE i = 0
      <4>1. i + 1 = 1
        BY <3>2
      <4> QED
        BY <1>6, <3>1, <4>1, Zenon
    <3>3. CASE i # 0
      <4>1. i \in 1 .. n - 1 /\ P(i)
        BY <2>2, <3>3
      <4>2. P(i + 1)
        BY <1>7, <4>1
      <4> QED
        BY <3>1, <4>2, Zenon
    <3> QED
      BY <3>2, <3>3
  <2> HIDE DEF S
  <2> QED
    BY <1>1, <2>1, <2>2, Induction
<1>9. k \in 0 .. n /\ k # 0
  BY <1>1
<1>10. P(k)
  BY <1>8, <1>9
<1> QED
  BY <1>10 DEF l, n, s

\* A text that ends with a character that is not white space is stripped of nothing.
LEMMA StripsNothing ==
    ASSUME NEW C, NEW s \in Seq(C), Len(s) # 0, s[Len(s)] \notin Whitespaces
    PROVE  StripTrailingWhitespace(s) = s
<1> DEFINE n == Len(s)
           kept == {i \in DOMAIN s : s[i] \notin Whitespaces}
           m == CHOOSE i \in kept : \A j \in kept : j <= i
<1>1. n \in Nat \ {0} /\ DOMAIN s = 1 .. n /\ s[n] \notin Whitespaces
  OBVIOUS
<1> HIDE DEF n
<1>2. n \in kept /\ \A j \in kept : j \in 1 .. n /\ j <= n
  BY <1>1
<1>3. m \in kept /\ \A j \in kept : j <= m
  BY <1>2
<1>4. m = n
  BY <1>1, <1>2, <1>3
<1>5. SubSeq(s, 1, n) = s
  BY DEF n
<1>6. StripTrailingWhitespace(s) = IF kept = {} THEN <<>> ELSE SubSeq(s, 1, m)
  BY Zenon DEF StripTrailingWhitespace
<1> QED
  BY <1>2, <1>4, <1>5, <1>6

LEMMA WholeLine ==
    ASSUME NEW C, {Quote, Slash, Space} \subseteq C, NEW args \in Seq(Seq(C)), args # <<>>,
           \A k \in 1 .. Len(args) : Arriving(args[k])
    PROVE  /\ AssignFull(args) \in Seq(C) /\ Len(AssignFull(args)) # 0
           /\ AssignFull(args)[Len(AssignFull(args))] \notin Whitespaces
           /\ Len(args) \in 1 .. Len(args) /\ AssignFull(args) = Lines(args)[Len(args)]
<1> DEFINE l == Lines(args)
           n == Len(args)
           s == l[n]
           t == Escaped(args[n])
           x == Len(t)
<1>1. n \in Nat \ {0} /\ n \in 1 .. n /\ AssignFull(args) = s
  BY DEF AssignFull
<1>2. args[n] \in Seq(C) /\ Arriving(args[n])
  BY <1>1, ElementOfSeq
<1>3. t \in Seq(C) /\ x \in Nat \ {0} /\ t[x] \notin Whitespaces
  BY <1>2, EscapedIs
<1>4. /\ s \in Seq(C) /\ Len(s) \in Nat \ {0}
      /\ n = 1 => Len(s) = 0 + x /\ Holds(s, 0, t)
      /\ n # 1 => Len(s) = Len(l[n - 1]) + 1 + x /\ Holds(s, Len(l[n - 1]) + 1, t)
  BY <1>1, LineOf
<1> HIDE DEF n
<1>5. n # 1 => Len(l[n - 1]) \in Nat
  <2>1. n # 1 => n - 1 \in 1 .. n
    BY <1>1
  <2> QED
    BY <2>1, LineOf DEF n
<1>6. \E b \in Nat : Len(s) = b + x /\ Holds(s, b, t)
  <2>1. CASE n = 1
    BY <1>4, <2>1
  <2>2. CASE n # 1
    <3> DEFINE b == Len(l[n - 1]) + 1
    <3>1. Len(s) = b + x /\ Holds(s, b, t)
      BY <1>4, <2>2, Zenon
    <3>2. b \in Nat
      BY <1>5, <2>2
    <3> HIDE DEF b
    <3> QED
      BY <3>1, <3>2, Zenon
  <2> QED
    BY <2>1, <2>2
<1> HIDE DEF l, s, t, x
<1>7. PICK b \in Nat : Len(s) = b + x /\ Holds(s, b, t)
  BY <1>6
<1>8. s[b + x] = t[x]
  <2>1. x \in 1 .. Len(t)
    BY <1>3 DEF x
  <2> QED
    BY <1>7, <2>1, Zenon DEF Holds
<1> QED
  BY <1>1, <1>3, <1>4, <1>7, <1>8 DEF n, l, s

\* Arguments escaped into one line by AssignFull are what the program that is started
\* makes of the line, one for one and character for character, whatever blanks, quotes
\* and backslashes they hold, where they hold them and however many they are; but an
\* argument that has no blank is to hold no line break and no character of code 0.
THEOREM RoundTrip ==
    ASSUME NEW C, {Quote, Slash, Space} \subseteq C, NEW args \in Seq(Seq(C)), args # <<>>,
           \A k \in 1 .. Len(args) : Arriving(args[k])
    PROVE  Tokenize(AssignFull(args)) = [ok |-> TRUE, args |-> args]
<1> DEFINE s == AssignFull(args)
           n == Len(args)
           end == Reads(s)[Len(s)]
<1>1. /\ s \in Seq(C) /\ Len(s) # 0 /\ s[Len(s)] \notin Whitespaces
      /\ n \in 1 .. n /\ s = Lines(args)[n]
  BY WholeLine
<1>2. StripTrailingWhitespace(s) = s
  BY <1>1, StripsNothing
<1>3. At(s, Len(s), "unquoted", args[n], SubSeq(args, 1, n - 1))
  <2>1. At(Lines(args)[n], Len(Lines(args)[n]), "unquoted", args[n], SubSeq(args, 1, n - 1))
    BY <1>1, ReadLine
  <2> QED
    BY <1>1, <2>1
<1> HIDE DEF s
<1>4. end.args = SubSeq(args, 1, n - 1) /\ end.token = args[n]
  BY <1>3 DEF At
<1>5. Append(SubSeq(args, 1, n - 1), args[n]) = args
  <2>1. SubSeq(args, 1, n - 1) \o <<args[n]>> = SubSeq(args, 1, n)
    BY <1>1, PrefixOne
  <2>2. SubSeq(args, 1, n) = args
    OBVIOUS
  <2>3. SubSeq(args, 1, n - 1) \in Seq(Seq(C)) /\ args[n] \in Seq(C)
    <3>1. n - 1 \in 0 .. n
      BY <1>1
    <3> QED
      BY <1>1, <3>1, PrefixIs, ElementOfSeq
  <2> QED
    BY <2>1, <2>2, <2>3, AppendIsConcat
<1>6. s # <<>>
  BY <1>1
<1>7. Append(end.args, end.token) = args
  BY <1>4, <1>5, Zenon
<1> HIDE DEF end
<1>8. Tokenize(s) = [ok |-> TRUE, args |-> Append(end.args, end.token)]
  BY <1>2, <1>6, Zenon DEF Tokenize, end
<1> QED
  BY <1>7, <1>8, Zenon DEF s

\* Appended one by one, arguments make the line they make all at once.
LEMMA OneByOne ==
    ASSUME NEW C, {Quote, Slash, Space} \subseteq C, NEW prefix \in Seq(Seq(C)), prefix # <<>>,
           NEW args \in Seq(Seq(C)), \A k \in 1 .. Len(prefix \o args) : Arriving((prefix \o args)[k])
    PROVE  CommandLine(prefix, args) = AssignFull(prefix \o args)
<1> DEFINE all == prefix \o args
           more == Tail(prefix) \o args
           n == Len(more)
           T == Seq(C)
           l == Lines(all)
           Is(g) == g = [k \in 0 .. n |-> IF k = 0 THEN Assign(prefix[1]) ELSE AppendArg(g[k - 1], more[k])]
           lines == CHOOSE g : Is(g)
           f == [k \in 0 .. n |-> l[k + 1]]
<1>1. /\ all \in Seq(Seq(C)) /\ more \in Seq(Seq(C)) /\ n \in Nat /\ Len(all) = n + 1
      /\ all[1] = prefix[1] /\ \A k \in 1 .. n : all[k + 1] = more[k]
  OBVIOUS
<1>2. CommandLine(prefix, args) = lines[n]
  BY DEF CommandLine
<1>3. AssignFull(all) = l[Len(all)]
  BY DEF AssignFull
<1> HIDE DEF more, n
<1>4. /\ l[0] = <<>> /\ \A k \in 1 .. Len(all) : l[k] = OneMore(l[k - 1], all[k])
      /\ \A k \in 0 .. Len(all) : l[k] \in T
  BY <1>1, LinesAre
<1> HIDE DEF l
<1>5. ASSUME NEW k \in 0 .. n PROVE l[k + 1] = AppendArg(l[k], all[k + 1])
  <2>1. k + 1 \in 1 .. Len(all) /\ k + 1 - 1 = k /\ k \in 0 .. Len(all)
    BY <1>1
  <2>2. l[k + 1] = OneMore(l[k], all[k + 1]) /\ l[k] \in Seq(C)
    <3> HIDE DEF all
    <3> QED
      BY <1>4, <2>1
  <2>3. all[k + 1] \in Seq(C) /\ Arriving(all[k + 1])
    BY <1>1, <2>1, ElementOfSeq
  <2> QED
    BY <2>2, <2>3, OneMoreIs
<1> HIDE DEF all
<1>6. f[0] = Assign(prefix[1])
  <2>1. 0 \in 0 .. n /\ 0 + 1 = 1
    BY <1>1
  <2>2. l[1] = AppendArg(l[0], all[1])
    BY <1>5, <2>1
  <2> QED
    BY <1>1, <1>4, <2>1, <2>2 DEF Assign
<1>7. ASSUME NEW k \in 1 .. n PROVE f[k] = AppendArg(f[k - 1], more[k])
  <2>1. k \in 0 .. n /\ k - 1 \in 0 .. n /\ k - 1 + 1 = k
    BY <1>1
  <2>2. f[k] = l[k + 1] /\ f[k - 1] = l[k]
    BY <2>1
  <2> QED
    BY <1>1, <1>5, <2>1, <2>2
<1>8. Is(f)
  <2>1. \A k \in 0 .. n : k = 0 \/ k \in 1 .. n
    BY <1>1
  <2>2. f = [k \in 0 .. n |-> f[k]]
    OBVIOUS
  <2> HIDE DEF f
  <2> QED
    BY <1>6, <1>7, <2>1, <2>2
<1>9. Is(lines)
  <2> HIDE DEF Is
  <2> QED
    BY <1>8, Zenon
<1> HIDE DEF lines, f
<1>10. lines[0] = f[0] /\ \A k \in 1 .. n : lines[k] = AppendArg(lines[k - 1], more[k])
  <2>1. 0 \in 0 .. n /\ \A k \in 1 .. n : k \in 0 .. n /\ k # 0
    BY <1>1
  <2>2. \A k \in 0 .. n : lines[k] = IF k = 0 THEN Assign(prefix[1]) ELSE AppendArg(lines[k - 1], more[k])
    BY <1>9, Zenon
  <2> QED
    BY <1>6, <2>1, <2>2
<1> DEFINE S == {k \in 0 .. n : lines[k] = f[k]}
<1>11. 0 \in S
  BY <1>1, <1>10
<1>12. ASSUME NEW k \in 0 .. n - 1, k \in S PROVE k + 1 \in S
  <2>1. k + 1 \in 1 .. n /\ k + 1 \in 0 .. n /\ k + 1 - 1 = k
    BY <1>1
  <2> QED
    BY <1>7, <1>10, <1>12, <2>1
<1>13. n \in S
  <2>1. 0 .. n \subseteq S
    <3> HIDE DEF S
    <3> QED
      BY <1>1, <1>11, <1>12, Induction
  <2> QED
    BY <1>1, <2>1
<1>14. lines[n] = l[n + 1]
  BY <1>13 DEF f
<1> QED
  BY <1>1, <1>2, <1>3, <1>14 DEF all

-----------------------------------------------------------------------------
(* The properties of a text that is typed.                                 *)

\* What breaks an argument that has no blank.
Breaks == {"\r", "\n", Null}

LEMMA WithoutBreaks ==
    ASSUME NEW C, C \cap Breaks = {}, NEW args \in Seq(Seq(C))
    PROVE  \A k \in 1 .. Len(args) : Arriving(args[k])
<1>1. \A c \in C : c \in Whitespaces \cup {Null} => c \in Blanks
  BY DEF Breaks, Whitespaces, Blanks
<1>2. ASSUME NEW k \in 1 .. Len(args) PROVE Arriving(args[k])
  <2>1. args[k] \in Seq(C)
    BY ElementOfSeq
  <2>2. \A i \in DOMAIN args[k] : args[k][i] \in C
    BY <2>1, ElementOfSeq
  <2> QED
    BY <1>1, <2>2, Zenon DEF Arriving, HasBlank
<1> QED
  BY <1>2

LEMMA CutIs ==
    ASSUME NEW C, NEW s \in Seq(C), NEW c
    PROVE  Cut(s, c) \in Seq(Seq(C)) /\ Cut(s, c) # <<>>
<1> DEFINE n == Len(s)
           T == Seq(Seq(C)) \ {<<>>}
           More(v, k) == IF s[k] = c THEN Append(v, <<>>)
                         ELSE Append(Front(v), Append(Last(v), s[k]))
           step == [x \in T \X (1 .. n) |-> More(x[1], x[2])]
           Is(g) == g = [k \in 0 .. n |-> IF k = 0 THEN << <<>> >> ELSE More(g[k - 1], k)]
           cut == CHOOSE g : Is(g)
<1>1. n \in Nat /\ << <<>> >> \in T
  OBVIOUS
<1>2. Cut(s, c) = cut[n]
  BY DEF Cut
<1>3. ASSUME NEW v \in T, NEW k \in 1 .. n PROVE More(v, k) \in T
  <2>1. s[k] \in C /\ v \in Seq(Seq(C)) /\ <<>> \in Seq(C) /\ v # <<>>
    BY ElementOfSeq
  <2>2. Append(v, <<>>) \in Seq(Seq(C)) /\ Append(v, <<>>) # <<>>
    BY <2>1, AppendProperties
  <2>3. Front(v) \in Seq(Seq(C)) /\ Last(v) \in Seq(C)
    BY <2>1 DEF Front, Last
  <2> DEFINE f == Front(v)
             a == Append(Last(v), s[k])
  <2>4. a \in Seq(C)
    BY <2>1, <2>3, AppendProperties
  <2>5. f \in Seq(Seq(C))
    BY <2>3
  <2> HIDE DEF f, a
  <2>6. Append(f, a) \in Seq(Seq(C)) /\ Append(f, a) # <<>>
    <3> DEFINE X == Seq(C)
    <3>1. f \in Seq(X) /\ a \in X
      BY <2>4, <2>5
    <3> HIDE DEF X
    <3>2. Append(f, a) \in Seq(X) /\ Append(f, a) # <<>>
      BY <3>1, AppendProperties
    <3> QED
      BY <3>2 DEF X
  <2> QED
    BY <2>2, <2>6 DEF f, a
<1> HIDE DEF More, T, n
<1>4. PICK f \in [0 .. n -> T] : Recurs(f, << <<>> >>, n, step)
  <2>1. step \in [T \X (1 .. n) -> T]
    BY <1>3
  <2> HIDE DEF step
  <2> QED
    BY <1>1, <2>1, Recursion, Zenon
<1>5. f[0] = << <<>> >> /\ \A k \in 1 .. n : f[k] = More(f[k - 1], k)
  <2>1. ASSUME NEW k \in 1 .. n PROVE f[k] = More(f[k - 1], k)
    <3>1. f[k - 1] \in T
      BY <1>1, <1>4
    <3> QED
      BY <1>4, <3>1 DEF Recurs
  <2> QED
    BY <1>4, <2>1 DEF Recurs
<1>6. Is(f)
  <2>1. f = [k \in 0 .. n |-> f[k]] /\ \A k \in 0 .. n : k = 0 \/ k \in 1 .. n
    BY <1>1, <1>4
  <2> QED
    BY <1>5, <2>1
<1>7. Is(cut)
  <2> HIDE DEF Is
  <2> QED
    BY <1>6, Zenon
<1> HIDE DEF cut
<1>8. cut[0] = << <<>> >> /\ \A k \in 1 .. n : cut[k] = More(cut[k - 1], k)
  <2>1. 0 \in 0 .. n /\ \A k \in 1 .. n : k \in 0 .. n /\ k # 0
    BY <1>1
  <2>2. \A k \in 0 .. n : cut[k] = IF k = 0 THEN << <<>> >> ELSE More(cut[k - 1], k)
    BY <1>7, Zenon
  <2> QED
    BY <2>1, <2>2
<1> DEFINE S == {k \in 0 .. n : cut[k] \in T}
<1>9. 0 \in S
  <2>1. 0 \in 0 .. n
    BY <1>1
  <2> QED
    BY <1>1, <1>8, <2>1, Zenon
<1>10. ASSUME NEW k \in 0 .. n - 1, k \in S PROVE k + 1 \in S
  <2>1. k + 1 \in 1 .. n /\ k + 1 \in 0 .. n /\ k + 1 - 1 = k
    BY <1>1
  <2> QED
    BY <1>3, <1>8, <1>10, <2>1
<1>11. n \in S
  <2>1. 0 .. n \subseteq S
    <3> HIDE DEF S
    <3> QED
      BY <1>1, <1>9, <1>10, Induction
  <2> QED
    BY <1>1, <2>1
<1> QED
  BY <1>2, <1>11 DEF T

\* What a program is given is made of the characters of the line.
LEMMA TokenizeType ==
    ASSUME NEW C, {Quote, Slash} \subseteq C, NEW typed \in Seq(C), Tokenize(typed).ok
    PROVE  /\ Tokenize(typed) = [ok |-> TRUE, args |-> Tokenize(typed).args]
           /\ Tokenize(typed).args \in Seq(Seq(C)) /\ Tokenize(typed).args # <<>>
<1> DEFINE s == StripTrailingWhitespace(typed)
           kept == {i \in DOMAIN typed : typed[i] \notin Whitespaces}
           m == CHOOSE i \in kept : \A j \in kept : j <= i
           end == Reads(s)[Len(s)]
           args == Append(end.args, end.token)
<1>1. s = IF kept = {} THEN <<>> ELSE SubSeq(typed, 1, m)
  BY Zenon DEF StripTrailingWhitespace
<1>2. kept # {} => m \in 1 .. Len(typed)
  <2>1. ASSUME kept # {} PROVE \E i \in kept : \A j \in kept : j <= i
    <3> DEFINE n == Len(typed)
               D == {d \in 0 .. n : n - d \in kept}
    <3>1. n \in Nat /\ kept \subseteq 1 .. n
      OBVIOUS
    <3> HIDE DEF n, kept
    <3>2. D \subseteq Nat /\ D # {}
      <4>1. PICK i \in kept : TRUE
        BY <2>1
      <4>2. n - i \in 0 .. n /\ n - (n - i) = i
        BY <3>1, <4>1
      <4>3. n - i \in D
        BY <4>1, <4>2
      <4>4. D \subseteq Nat
        OBVIOUS
      <4> QED
        BY <4>3, <4>4
    <3>3. PICK d \in D : \A e \in D : d <= e
      <4> HIDE DEF D
      <4> QED
        BY <3>2, Least
    <3>4. ASSUME NEW j \in kept PROVE j <= n - d
      <4>1. n - j \in 0 .. n /\ n - (n - j) = j /\ d \in 0 .. n /\ j \in 1 .. n
        BY <3>1
      <4>2. n - j \in D
        BY <4>1
      <4>3. d <= n - j
        BY <3>3, <4>2
      <4> QED
        BY <3>1, <4>1, <4>3
    <3>5. n - d \in kept
      BY <3>3
    <3> QED
      BY <3>4, <3>5
  <2>2. kept # {} => m \in kept
    <3> HIDE DEF kept
    <3> QED
      BY <2>1, Zenon
  <2> QED
    BY <2>2
<1>3. s \in Seq(C)
  <2>1. CASE kept = {}
    BY <1>1, <2>1
  <2>2. CASE kept # {}
    <3> HIDE DEF m, kept
    <3>1. SubSeq(typed, 1, m) \in Seq(C)
      BY <1>2, <2>2
    <3> QED
      BY <1>1, <2>2, <3>1, Zenon
  <2> QED
    BY <2>1, <2>2
<1> HIDE DEF s
<1>4. end \in ReadState(C)
  <2>1. Len(s) \in 0 .. Len(s)
    BY <1>3
  <2> QED
    BY <1>3, <2>1, ReadsAre
<1>5. end.args \in Seq(Seq(C)) /\ end.token \in Seq(C)
  BY <1>4 DEF ReadState
<1> HIDE DEF end
<1>6. args \in Seq(Seq(C)) /\ args # <<>>
  BY <1>5, AppendProperties
<1> HIDE DEF args
<1>7. Tokenize(typed) = IF s = <<>> THEN [ok |-> FALSE, args |-> <<>>] ELSE [ok |-> TRUE, args |-> args]
  BY Zenon DEF Tokenize, s, end, args
<1>8. s # <<>>
  BY <1>7
<1> QED
  BY <1>6, <1>7, <1>8

\* What PassedOn says, of any text that has no line break and no character of code 0.
LEMMA TextPassedOn ==
    ASSUME NEW C, {Quote, Slash, Space, "a"} \subseteq C, C \cap Breaks = {}, NEW typed \in Seq(C)
    PROVE  ArgumentsArrive(typed) /\ SplitOnceOrTwice(typed)
<1>1. {Quote, Slash, Space} \subseteq C /\ {Quote, Slash} \subseteq C
  OBVIOUS
<1>2. ArgumentsArrive(typed)
  <2> DEFINE args == Cut(typed, "|")
             prefix == << <<"a", Space, Slash>>, <<"a">> >>
             all == prefix \o args
  <2>1. args \in Seq(Seq(C))
    BY CutIs
  <2>2. prefix \in Seq(Seq(C)) /\ prefix # <<>>
    <3>1. <<"a", Space, Slash>> \in Seq(C) /\ <<"a">> \in Seq(C)
      OBVIOUS
    <3> QED
      BY <3>1
  <2> HIDE DEF args, prefix
  <2>3. all \in Seq(Seq(C)) /\ all # <<>>
    BY <2>1, <2>2
  <2>4. \A k \in 1 .. Len(all) : Arriving(all[k])
    <3> HIDE DEF all
    <3> QED
      BY <2>3, WithoutBreaks
  <2>5. Tokenize(AssignFull(all)) = [ok |-> TRUE, args |-> all]
    <3> HIDE DEF all
    <3> QED
      BY <1>1, <2>3, <2>4, RoundTrip
  <2>6. CommandLine(prefix, args) = AssignFull(all)
    BY <1>1, <2>1, <2>2, <2>4, OneByOne
  <2> QED
    BY <2>5, <2>6, Zenon DEF ArgumentsArrive, args, prefix
<1>3. SplitOnceOrTwice(typed)
  <2> DEFINE args == Tokenize(typed).args
  <2> SUFFICES ASSUME Tokenize(typed).ok
               PROVE  Tokenize(AssignFull(args)) = Tokenize(typed)
    BY DEF SplitOnceOrTwice
  <2>1. Tokenize(typed) = [ok |-> TRUE, args |-> args] /\ args \in Seq(Seq(C)) /\ args # <<>>
    BY <1>1, TokenizeType
  <2> HIDE DEF args
  <2>2. Tokenize(AssignFull(args)) = [ok |-> TRUE, args |-> args]
    BY <1>1, <2>1, WithoutBreaks, RoundTrip
  <2> QED
    BY <2>1, <2>2, Zenon
<1> QED
  BY <1>2, <1>3

\* Pieces put together are a text.
LEMMA FlattenIs ==
    ASSUME NEW C, NEW pieces \in Seq(Seq(C))
    PROVE  FlattenSeq(pieces) \in Seq(C)
<1> DEFINE n == Len(pieces)
           T == Seq(C)
           More(t, k) == t \o pieces[k]
           Add(t, k) == t \o pieces[k + 1]
           step == [x \in T \X (1 .. n - 1) |-> Add(x[1], x[2])]
           Is(g) == g = [k \in 1 .. n |-> IF k = 1 THEN pieces[k] ELSE More(g[k - 1], k)]
           flat == CHOOSE g : Is(g)
<1> SUFFICES ASSUME n # 0 PROVE FlattenSeq(pieces) \in T
  BY DEF FlattenSeq
<1>1. n \in Nat \ {0} /\ n - 1 \in Nat /\ \A k \in 1 .. n : pieces[k] \in T
  BY ElementOfSeq
<1>2. FlattenSeq(pieces) = flat[n]
  BY Zenon DEF FlattenSeq
<1>3. ASSUME NEW t \in T, NEW k \in 1 .. n PROVE More(t, k) \in T
  BY <1>1, <1>3, Concat
<1>4. \A t \in T : \A k \in 1 .. n - 1 : Add(t, k) \in T /\ Add(t, k) = More(t, k + 1)
  <2>1. \A k \in 1 .. n - 1 : k + 1 \in 1 .. n
    BY <1>1
  <2> QED
    BY <1>3, <2>1
<1> HIDE DEF More, Add, T, n
<1>5. PICK f \in [0 .. n - 1 -> T] : Recurs(f, pieces[1], n - 1, step)
  <2>1. step \in [T \X (1 .. n - 1) -> T]
    BY <1>4
  <2>2. pieces[1] \in T
    BY <1>1
  <2> HIDE DEF step
  <2> QED
    BY <1>1, <2>1, <2>2, Recursion, Zenon
<1>6. f[0] = pieces[1] /\ \A k \in 1 .. n - 1 : f[k] = Add(f[k - 1], k)
  <2>1. ASSUME NEW k \in 1 .. n - 1 PROVE f[k] = Add(f[k - 1], k)
    <3>1. f[k - 1] \in T
      BY <1>1, <1>5
    <3> QED
      BY <1>5, <3>1 DEF Recurs
  <2> QED
    BY <1>5, <2>1 DEF Recurs
<1> DEFINE g == [k \in 1 .. n |-> f[k - 1]]
<1>7. \A k \in 1 .. n : g[k] \in T /\ g[k] = IF k = 1 THEN pieces[k] ELSE More(g[k - 1], k)
  <2>1. ASSUME NEW k \in 1 .. n PROVE g[k] \in T /\ g[k] = IF k = 1 THEN pieces[k] ELSE More(g[k - 1], k)
    <3>1. k - 1 \in 0 .. n - 1 /\ g[k] = f[k - 1] /\ f[k - 1] \in T
      BY <1>1, <1>5
    <3>2. CASE k = 1
      BY <1>6, <3>1, <3>2
    <3>3. CASE k # 1
      <4>1. k - 1 \in 1 .. n - 1 /\ k - 1 \in 1 .. n /\ k - 1 - 1 \in 0 .. n - 1 /\ k - 1 + 1 = k
        BY <1>1, <3>3
      <4>2. g[k - 1] = f[k - 1 - 1] /\ f[k - 1 - 1] \in T
        BY <1>5, <4>1
      <4>3. f[k - 1] = Add(f[k - 1 - 1], k - 1)
        BY <1>6, <4>1
      <4>4. Add(f[k - 1 - 1], k - 1) = More(f[k - 1 - 1], k)
        BY <1>4, <4>1, <4>2
      <4> QED
        BY <3>1, <3>3, <4>2, <4>3, <4>4, Zenon
    <3> QED
      BY <3>2, <3>3
  <2> QED
    BY <2>1
<1>8. Is(g)
  <2>1. g = [k \in 1 .. n |-> g[k]]
    OBVIOUS
  <2> HIDE DEF g
  <2> QED
    BY <1>7, <2>1
<1>9. Is(flat)
  <2> HIDE DEF Is
  <2> QED
    BY <1>8, Zenon
<1> HIDE DEF flat
<1>10. \A k \in 1 .. n : flat[k] = IF k = 1 THEN pieces[k] ELSE More(flat[k - 1], k)
  BY <1>9, Zenon
<1> DEFINE S == {k \in 0 .. n - 1 : flat[k + 1] \in T}
<1>11. 0 \in S
  <2>1. 0 \in 0 .. n - 1 /\ 0 + 1 = 1 /\ 1 \in 1 .. n
    BY <1>1
  <2> QED
    BY <1>1, <1>10, <2>1
<1>12. ASSUME NEW k \in 0 .. n - 1 - 1, k \in S PROVE k + 1 \in S
  <2>1. k + 1 + 1 \in 1 .. n /\ k + 1 \in 0 .. n - 1 /\ k + 1 + 1 - 1 = k + 1 /\ k + 1 + 1 # 1
    BY <1>1
  <2>2. PICK q \in 1 .. n : q = k + 1 + 1
    BY <2>1
  <2>3. q # 1 /\ flat[q - 1] \in T
    BY <1>12, <2>1, <2>2
  <2>4. flat[q] \in T
    BY <1>3, <1>10, <2>3
  <2> QED
    BY <2>1, <2>2, <2>4
<1>13. n - 1 \in S
  <2>1. 0 .. n - 1 \subseteq S
    <3> HIDE DEF S
    <3> QED
      BY <1>1, <1>11, <1>12, Induction
  <2>2. n - 1 \in 0 .. n - 1
    BY <1>1
  <2> HIDE DEF S
  <2> QED
    BY <2>1, <2>2
<1>14. n - 1 + 1 = n
  BY <1>1
<1> QED
  BY <1>2, <1>13, <1>14 DEF T

\* A text without line breaks and characters of code 0.
NoBreaks(s) == \A i \in DOMAIN s : s[i] \notin Breaks

\* What is typed are sequences of characters.
TextOK == text \in Seq(Seq(STRING))

LEMMA TextType == ProgramsSpec => []TextOK
<1>1. ProgramsInit => TextOK
  BY DEF ProgramsInit, TextOK
<1>2. TextOK /\ [ProgramsNext]_pvars => TextOK'
  <2> SUFFICES ASSUME TextOK, [ProgramsNext]_pvars PROVE TextOK'
    OBVIOUS
  <2>1. CASE Type
    <3>1. PICK piece \in Texts[program] : text' = Append(text, piece)
      BY <2>1 DEF Type
    <3>2. piece \in Seq(STRING)
      BY <2>1, <3>1, TextsAssumption DEF Type
    <3> DEFINE X == Seq(STRING)
    <3>3. text \in Seq(X) /\ piece \in X
      BY <3>2 DEF TextOK
    <3> HIDE DEF X
    <3>4. Append(text, piece) \in Seq(X)
      BY <3>3, AppendProperties
    <3> QED
      BY <3>1, <3>4 DEF X, TextOK
  <2>2. CASE UseWindow
    BY <2>2 DEF UseWindow, TextOK
  <2>3. CASE UNCHANGED pvars
    BY <2>3 DEF pvars, TextOK
  <2> QED
    BY <2>1, <2>2, <2>3 DEF ProgramsNext
<1> QED
  BY <1>1, <1>2, PTL DEF ProgramsSpec

\* Whatever is typed for the program that passes arguments on, and however long it is:
\* the arguments arrive, and a command line is split into the same arguments once or
\* twice, if there is no line break and no character of code 0 in it.
THEOREM ArgumentsPassedOn == ProgramsSpec => [](NoBreaks(Typed) => PassedOn)
<1>1. TextOK => (NoBreaks(Typed) => PassedOn)
  <2> SUFFICES ASSUME TextOK, NoBreaks(Typed) PROVE PassedOn
    OBVIOUS
  <2> DEFINE C == (STRING \cup {Quote, Slash, Space, "a"}) \ Breaks
  <2>1. Typed \in Seq(STRING)
    BY FlattenIs DEF Typed, TextOK
  <2>2. Typed \in Seq(C)
    <3>1. \A i \in 1 .. Len(Typed) : Typed[i] \in C
      BY <2>1, ElementOfSeq DEF NoBreaks
    <3> HIDE DEF C
    <3> QED
      BY <2>1, <3>1, IsASeq
  <2>3. {Quote, Slash, Space, "a"} \subseteq C /\ C \cap Breaks = {}
    <3>1. Quote \notin Breaks /\ Slash \notin Breaks /\ Space \notin Breaks /\ "a" \notin Breaks
      BY Zenon DEF Quote, Slash, Space, Breaks, Null
    <3> QED
      BY <3>1
  <2> HIDE DEF C
  <2> QED
    BY <2>2, <2>3, TextPassedOn DEF PassedOn
<1> QED
  BY <1>1, TextType, PTL

-----------------------------------------------------------------------------
(* ParseArgv.                                                              *)

\* Options that are told apart by their letters, none of which is "-" or "=".
OptionsOK(options, C) ==
    /\ options \subseteq [val : C \ {Dash, Equal}, name : Seq(C), has : {"no", "required", "optional"}]
    /\ \A o, q \in options : o.val = q.val => o = q

\* Parameters, and the calls that options allow.
Params(C) == {x \in [given : BOOLEAN, text : Seq(C)] : ~x.given => x = NoParam}
Allows(o, c) == o.val = c.val /\ (o.has = "no" => ~c.param.given) /\ (o.has = "required" => c.param.given)
Calls(options, C) ==
    {c \in [val : C \ {Dash, Equal}, param : Params(C)] : \E o \in options : Allows(o, c)}

\* The states of a parse.
Parses(options, C) ==
    [ok : BOOLEAN, calls : Seq(Calls(options, C)), rest : Seq(Seq(C)), next : Nat \ {0}]

\* The parse that has called back, with d arguments as the parameter.
Called(p, c, d) == [ok |-> p.ok, calls |-> Append(p.calls, c), rest |-> p.rest, next |-> p.next + d]

\* What comes of an option: it is refused, or called with its own parameter or none,
\* or with the next argument.
Taken(r, p, options, C, argv) ==
    \/ r = Broken(p)
    \/ \E c \in Calls(options, C) :
          \/ r = Called(p, c, 0)
          \/ p.next <= Len(argv) /\ r = Called(p, c, 1) /\ c.param = Param(argv[p.next])

\* Options that were found among those there are.
Among(found, options) == found \subseteq options

LEMMA CallOptionIs ==
    ASSUME NEW C, NEW options, OptionsOK(options, C), NEW found, Among(found, options),
           NEW param \in Params(C), NEW p \in Parses(options, C), NEW argv \in Seq(Seq(C))
    PROVE  Taken(CallOption(p, found, param, argv), p, options, C, argv)
<1> DEFINE o == CHOOSE o \in found : TRUE
           later == ~param.given /\ o.has = "required"
           value == IF later THEN Param(argv[p.next]) ELSE param
           c == [val |-> o.val, param |-> value]
           r == CallOption(p, found, param, argv)
<1>1. CASE found = {} \/ (o.has = "no" /\ param.given) \/ (later /\ p.next > Len(argv))
  <2>1. r = Broken(p)
    BY <1>1 DEF CallOption
  <2> QED
    BY <2>1 DEF Taken
<1>2. CASE ~(found = {} \/ (o.has = "no" /\ param.given) \/ (later /\ p.next > Len(argv)))
  <2>1. r = [p EXCEPT !.calls = Append(@, c), !.next = IF later THEN @ + 1 ELSE @]
    BY <1>2 DEF CallOption
  <2>2. o \in options
    BY <1>2 DEF Among
  <2>3. /\ o.val \in C \ {Dash, Equal} /\ o.has \in {"no", "required", "optional"}
        /\ param \in [given : BOOLEAN, text : Seq(C)] /\ p.next \in Nat \ {0} /\ Len(argv) \in Nat
    BY <2>2 DEF OptionsOK, Params, Parses
  <2> HIDE DEF o
  <2>4. later => p.next \in 1 .. Len(argv) /\ p.next <= Len(argv)
    BY <1>2, <2>3
  <2>5. later => argv[p.next] \in Seq(C)
    BY <2>4, ElementOfSeq
  <2>6. value \in Params(C)
    BY <2>3, <2>5 DEF Params, Param
  <2>7. (o.has = "no" => ~value.given) /\ (o.has = "required" => value.given)
    BY <1>2, <2>3 DEF Param
  <2>8. c \in Calls(options, C)
    BY <2>2, <2>3, <2>6, <2>7 DEF Calls, Allows
  <2>9. p = [ok |-> p.ok, calls |-> p.calls, rest |-> p.rest, next |-> p.next]
    BY DEF Parses
  <2>10. r = Called(p, c, IF later THEN 1 ELSE 0)
    <3> HIDE DEF c, later
    <3>1. r = [ok |-> p.ok, calls |-> Append(p.calls, c), rest |-> p.rest,
               next |-> IF later THEN p.next + 1 ELSE p.next]
      BY <2>1, <2>9
    <3>2. p.next + 0 = p.next
      BY <2>3
    <3> QED
      BY <3>1, <3>2 DEF Called
  <2>11. later => c.param = Param(argv[p.next])
    OBVIOUS
  <2> HIDE DEF c, later, r
  <2> QED
    BY <2>4, <2>8, <2>10, <2>11 DEF Taken, r
<1> QED
  BY <1>1, <1>2

\* An option sees of the arguments only the next one, as its parameter.
ButLast(argv, front) == Len(argv) = Len(front) + 1 /\ \A k \in 1 .. Len(front) : argv[k] = front[k]
Missing(r, t, p, argv, cs) ==
    /\ p.next = Len(argv) /\ t = Broken(p)
    /\ \E c \in cs : r = Called(p, c, 1) /\ c.param = Param(argv[p.next])

LEMMA CallOptionFront ==
    ASSUME NEW C, NEW options, OptionsOK(options, C), NEW found, Among(found, options),
           NEW param \in Params(C), NEW p \in Parses(options, C),
           NEW argv \in Seq(Seq(C)), NEW front \in Seq(Seq(C)), ButLast(argv, front),
           p.next <= Len(argv)
    PROVE  \/ CallOption(p, found, param, argv) = CallOption(p, found, param, front)
           \/ Missing(CallOption(p, found, param, argv), CallOption(p, found, param, front), p,
                      argv, Calls(options, C))
<1> DEFINE o == CHOOSE o \in found : TRUE
           later == ~param.given /\ o.has = "required"
           c == [val |-> o.val, param |-> Param(argv[p.next])]
<1>1. /\ p.next \in Nat \ {0} /\ Len(argv) \in Nat /\ Len(front) \in Nat
      /\ Len(argv) = Len(front) + 1 /\ \A k \in 1 .. Len(front) : argv[k] = front[k]
  BY DEF Parses, ButLast
<1>2. CASE ~later
  BY <1>2 DEF CallOption
<1>3. CASE found = {} \/ (o.has = "no" /\ param.given)
  BY <1>3 DEF CallOption
<1>4. CASE later /\ p.next < Len(argv)
  <2>1. p.next \in 1 .. Len(front) /\ ~(p.next > Len(front)) /\ ~(p.next > Len(argv))
    BY <1>1, <1>4
  <2>2. argv[p.next] = front[p.next]
    BY <1>1, <2>1
  <2> QED
    BY <2>1, <2>2 DEF CallOption
<1>5. CASE later /\ p.next = Len(argv) /\ found # {}
  <2>1. p.next > Len(front) /\ ~(p.next > Len(argv))
    BY <1>1, <1>5
  <2>2. CallOption(p, found, param, front) = Broken(p)
    BY <1>5, <2>1 DEF CallOption
  <2>3. CallOption(p, found, param, argv) = [p EXCEPT !.calls = Append(@, c), !.next = @ + 1]
    <3>1. ~param.given
      BY <1>5
    <3> QED
      BY <1>5, <2>1, <3>1 DEF CallOption
  <2>4. o \in options
    BY <1>5 DEF Among
  <2>5. /\ o.val \in C \ {Dash, Equal} /\ o.has = "required" /\ argv[p.next] \in Seq(C)
    BY <1>1, <1>5, <2>4, ElementOfSeq DEF OptionsOK
  <2>6. Param(argv[p.next]) \in Params(C) /\ Param(argv[p.next]).given
    BY <2>5 DEF Params, Param
  <2> HIDE DEF o
  <2>7. c \in Calls(options, C)
    BY <2>4, <2>5, <2>6 DEF Calls, Allows
  <2>8. p = [ok |-> p.ok, calls |-> p.calls, rest |-> p.rest, next |-> p.next]
    BY DEF Parses
  <2>9. CallOption(p, found, param, argv) = Called(p, c, 1)
    <3> HIDE DEF c
    <3> QED
      BY <2>3, <2>8 DEF Called
  <2>10. c.param = Param(argv[p.next])
    OBVIOUS
  <2> HIDE DEF c
  <2> QED
    BY <1>5, <2>2, <2>7, <2>9, <2>10 DEF Missing
<1> QED
  BY <1>1, <1>2, <1>3, <1>4, <1>5

\* An argument that is no option.
Plain(a) == a = <<>> \/ a[1] # Dash

Refused(p, a, options, subcmd) == \A argv : ParseOne(p, a, options, argv, subcmd) = Broken(p)
AsOption(p, a, options, subcmd, found, param) ==
    \A argv : ParseOne(p, a, options, argv, subcmd) = CallOption(p, found, param, argv)

\* An option is the same whatever arguments follow.
LEMMA ParseOption ==
    ASSUME NEW C, NEW options, OptionsOK(options, C), NEW a \in Seq(C), ~Plain(a), NEW subcmd \in BOOLEAN,
           ~(subcmd /\ a = <<Dash, Dash>>), NEW p
    PROVE  \/ Refused(p, a, options, subcmd)
           \/ \E found, param :
                 Among(found, options) /\ param \in Params(C) /\ AsOption(p, a, options, subcmd, found, param)
<1>1. a # <<>> /\ a[1] = Dash
  BY DEF Plain
<1>2. CASE Len(a) = 1
  BY <1>1, <1>2 DEF ParseOne, Refused
<1>3. NoParam \in Params(C)
  BY DEF NoParam, Params
<1>4. \A t \in Seq(C) : Param(t) \in Params(C)
  BY DEF Param, Params
<1>5. ASSUME NEW i \in Nat \ {0} PROVE From(a, i) \in Seq(C)
  BY DEF From
<1>6. CASE Len(a) # 1 /\ a[2] # Dash
  <2>1. \A argv : ParseOne(p, a, options, argv, subcmd) = ParseShort(p, a, options, argv)
    BY <1>1, <1>6 DEF ParseOne
  <2>2. CASE a[2] = Equal
    BY <2>1, <2>2 DEF ParseShort, Refused
  <2>3. CASE a[2] # Equal
    <3> DEFINE found == {o \in options : o.val = a[2]}
               param == IF Len(a) = 2 THEN NoParam
                        ELSE IF a[3] = Equal THEN Param(From(a, 4)) ELSE Param(From(a, 3))
    <3>1. AsOption(p, a, options, subcmd, found, param)
      BY <2>1, <2>3 DEF ParseShort, AsOption
    <3>2. Among(found, options) /\ param \in Params(C)
      BY <1>3, <1>4, <1>5 DEF Among
    <3> HIDE DEF found, param
    <3> QED
      BY <3>1, <3>2
  <2> QED
    BY <2>2, <2>3
<1>7. CASE Len(a) # 1 /\ a[2] = Dash
  <2> DEFINE equals == {i \in 3 .. Len(a) : a[i] = Equal}
             pos    == CHOOSE i \in equals : \A j \in equals : i <= j
             Found(name) == {o \in options : o.name = name}
  <2>1. \A argv : ParseOne(p, a, options, argv, subcmd) = ParseLong(p, a, options, argv)
    BY <1>1, <1>7 DEF ParseOne
  <2>2. CASE equals = {}
    <3> DEFINE found == Found(From(a, 3))
    <3>1. \A argv : ParseLong(p, a, options, argv) = CallOption(p, found, NoParam, argv)
      BY <2>2 DEF ParseLong
    <3>2. Among(found, options)
      BY DEF Among
    <3> HIDE DEF found
    <3> QED
      <4>1. AsOption(p, a, options, subcmd, found, NoParam)
        BY <2>1, <3>1 DEF AsOption
      <4> QED
        BY <1>3, <3>2, <4>1
  <2>3. CASE equals # {} /\ pos = Len(a)
    <3>1. \A argv : ParseLong(p, a, options, argv) = Broken(p)
      BY <2>3 DEF ParseLong
    <3> QED
      BY <2>1, <3>1 DEF Refused
  <2>4. CASE equals # {} /\ pos # Len(a)
    <3> DEFINE found == Found(SubSeq(a, 3, pos - 1))
               param == Param(From(a, pos + 1))
    <3>1. \A argv : ParseLong(p, a, options, argv) = CallOption(p, found, param, argv)
      BY <2>4 DEF ParseLong
    <3>2. pos \in 3 .. Len(a)
      <4>1. equals \subseteq Nat
        OBVIOUS
      <4>2. \E i \in equals : \A j \in equals : i <= j
        <5> HIDE DEF equals
        <5> QED
          BY <2>4, <4>1, Least
      <4>3. pos \in equals
        <5> HIDE DEF equals
        <5> QED
          BY <4>2, Zenon
      <4> QED
        BY <4>3
    <3> HIDE DEF pos
    <3>3. Among(found, options) /\ param \in Params(C)
      BY <1>4, <1>5, <3>2 DEF Among
    <3> HIDE DEF found, param
    <3> QED
      <4>1. AsOption(p, a, options, subcmd, found, param)
        BY <2>1, <3>1 DEF AsOption
      <4> QED
        BY <3>3, <4>1
  <2> QED
    BY <2>2, <2>3, <2>4
<1> QED
  BY <1>2, <1>6, <1>7

\* A parse that goes past argument i, and one that ends with what is left.
Passed(p, i) == [ok |-> TRUE, calls |-> p.calls, rest |-> p.rest, next |-> i + 1]
Ended(p, left, n) == [ok |-> TRUE, calls |-> p.calls, rest |-> left, next |-> n + 1]
More(p, i, a) == [ok |-> TRUE, calls |-> p.calls, rest |-> Append(p.rest, a), next |-> i + 1]
DashDash == <<Dash, Dash>>

LEMMA TurnIs ==
    ASSUME NEW C, NEW options, OptionsOK(options, C), NEW p \in Parses(options, C),
           NEW argv \in Seq(Seq(C)), NEW subcmd \in BOOLEAN, NEW i \in 1 .. Len(argv)
    PROVE  LET a == argv[i]
               r == ParseTurn(p, i, argv, options, subcmd)
           IN /\ ~p.ok \/ i < p.next => r = p
              /\ p.ok /\ ~(i < p.next) =>
                    /\ subcmd /\ a = DashDash => r = Ended(p, From(argv, i + 1), Len(argv))
                    /\ subcmd /\ Plain(a) => r = Ended(p, From(argv, i), Len(argv))
                    /\ ~subcmd /\ Plain(a) => r = More(p, i, a)
                    /\ ~Plain(a) /\ ~(subcmd /\ a = DashDash) =>
                          /\ r = ParseOne(Passed(p, i), a, options, argv, subcmd)
                          /\ Taken(r, Passed(p, i), options, C, argv)
                          /\ Passed(p, i) \in Parses(options, C)
<1> DEFINE a == argv[i]
           r == ParseTurn(p, i, argv, options, subcmd)
           q == Passed(p, i)
<1>1. ~p.ok \/ i < p.next => r = p
  BY DEF ParseTurn
<1> SUFFICES ASSUME p.ok, ~(i < p.next)
             PROVE  /\ subcmd /\ a = DashDash => r = Ended(p, From(argv, i + 1), Len(argv))
                    /\ subcmd /\ Plain(a) => r = Ended(p, From(argv, i), Len(argv))
                    /\ ~subcmd /\ Plain(a) => r = More(p, i, a)
                    /\ ~Plain(a) /\ ~(subcmd /\ a = DashDash) =>
                          /\ r = ParseOne(q, a, options, argv, subcmd)
                          /\ Taken(r, q, options, C, argv)
                          /\ q \in Parses(options, C)
  BY <1>1, Zenon
<1>2. a \in Seq(C) /\ i + 1 \in Nat \ {0} /\ i + 1 - 1 = i
  BY ElementOfSeq
<1>3. /\ q \in Parses(options, C) /\ q.ok = TRUE /\ q.calls = p.calls /\ q.rest = p.rest /\ q.next = i + 1
      /\ [p EXCEPT !.next = i + 1] = q
  <2>1. /\ p.calls \in Seq(Calls(options, C)) /\ p.rest \in Seq(Seq(C))
        /\ p = [ok |-> p.ok, calls |-> p.calls, rest |-> p.rest, next |-> p.next]
    BY DEF Parses
  <2>2. q \in Parses(options, C)
    <3> DEFINE x == Seq(Calls(options, C))
               y == Seq(Seq(C))
               z == i + 1
    <3>1. p.calls \in x /\ p.rest \in y /\ z \in Nat \ {0}
      BY <1>2, <2>1
    <3> HIDE DEF x, y, z
    <3>2. [ok |-> TRUE, calls |-> p.calls, rest |-> p.rest, next |-> z] \in
              [ok : BOOLEAN, calls : x, rest : y, next : Nat \ {0}]
      BY <3>1
    <3> QED
      BY <3>2 DEF Passed, Parses, x, y, z
  <2>3. q.ok = TRUE /\ q.calls = p.calls /\ q.rest = p.rest /\ q.next = i + 1
    BY DEF Passed
  <2>4. [p EXCEPT !.next = i + 1] = q
    <3> DEFINE z == i + 1
    <3> HIDE DEF z
    <3>1. [p EXCEPT !.next = z] = [ok |-> p.ok, calls |-> p.calls, rest |-> p.rest, next |-> z]
      <4> DEFINE x == Seq(Calls(options, C))
                 y == Seq(Seq(C))
                 e == [p EXCEPT !.next = z]
      <4>1. p \in [ok : BOOLEAN, calls : x, rest : y, next : Nat \ {0}]
        BY DEF Parses
      <4> HIDE DEF x, y
      <4>2. /\ e \in [ok : BOOLEAN, calls : x, rest : y, next : Nat \ {0}]
            /\ e.ok = p.ok /\ e.calls = p.calls /\ e.rest = p.rest /\ e.next = z
        BY <1>2, <4>1 DEF z
      <4> HIDE DEF e
      <4>3. e = [ok |-> p.ok, calls |-> p.calls, rest |-> p.rest, next |-> z]
        BY <4>2
      <4> QED
        BY <4>3 DEF e
    <3>2. p.ok = TRUE
      BY DEF Parses
    <3> QED
      BY <3>1, <3>2 DEF Passed, z
  <2> QED
    BY <2>2, <2>3, <2>4
<1>4. r = ParseOne(q, a, options, argv, subcmd)
  BY <1>3 DEF ParseTurn
<1>5. q = [ok |-> TRUE, calls |-> p.calls, rest |-> p.rest, next |-> i + 1]
  BY DEF Passed
<1> HIDE DEF q
<1>6. CASE subcmd /\ a = DashDash
  <2>1. r = [q EXCEPT !.rest = From(argv, q.next), !.next = Len(argv) + 1]
    BY <1>4, <1>6 DEF ParseOne, DashDash
  <2>2. r = Ended(p, From(argv, i + 1), Len(argv))
    BY <1>3, <1>5, <2>1 DEF Ended
  <2>3. ~Plain(a)
    <3>1. a # <<>> /\ a[1] = Dash
      BY <1>6 DEF DashDash
    <3> QED
      BY <3>1 DEF Plain
  <2> QED
    BY <1>6, <2>2, <2>3
<1>7. CASE Plain(a)
  <2>1. ~(subcmd /\ a = DashDash)
    <3>1. ASSUME a = DashDash PROVE FALSE
      BY <1>7, <3>1 DEF Plain, DashDash
    <3> QED
      BY <3>1
  <2>2. r = IF subcmd THEN [q EXCEPT !.rest = From(argv, q.next - 1), !.next = Len(argv) + 1]
            ELSE [q EXCEPT !.rest = Append(@, a)]
    BY <1>4, <1>7, <2>1 DEF ParseOne, Plain, DashDash
  <2>3. subcmd => r = Ended(p, From(argv, i), Len(argv))
    <3> DEFINE left == From(argv, q.next - 1)
    <3>1. left = From(argv, i)
      BY <1>2, <1>3
    <3> HIDE DEF left
    <3>2. subcmd => r = [q EXCEPT !.rest = left, !.next = Len(argv) + 1]
      BY <2>2 DEF left
    <3>3. subcmd => r = Ended(p, left, Len(argv))
      BY <1>5, <3>2 DEF Ended
    <3> QED
      BY <3>1, <3>3
  <2>4. ~subcmd => r = More(p, i, a)
    BY <1>3, <1>5, <2>2 DEF More
  <2> QED
    BY <1>7, <2>1, <2>3, <2>4
<1>8. CASE ~Plain(a) /\ ~(subcmd /\ a = DashDash)
  <2>1. \/ r = Broken(q)
        \/ \E found, param : /\ Among(found, options) /\ param \in Params(C)
                             /\ r = CallOption(q, found, param, argv)
    <3>1. ~(subcmd /\ a = <<Dash, Dash>>) /\ ~Plain(a)
      BY <1>8 DEF DashDash
    <3>2. \/ Refused(q, a, options, subcmd)
          \/ \E found, param :
                 Among(found, options) /\ param \in Params(C) /\ AsOption(q, a, options, subcmd, found, param)
      BY <1>2, <3>1, ParseOption
    <3> QED
      BY <1>4, <3>2, Zenon DEF Refused, AsOption
  <2>2. Taken(r, q, options, C, argv)
    <3>1. CASE r = Broken(q)
      BY <3>1 DEF Taken
    <3>2. CASE \E found, param : /\ Among(found, options) /\ param \in Params(C)
                                 /\ r = CallOption(q, found, param, argv)
      <4> HIDE DEF r
      <4> QED
        BY <1>3, <3>2, CallOptionIs
    <3> QED
      BY <2>1, <3>1, <3>2
  <2> QED
    BY <1>3, <1>4, <1>8, <2>2
<1> QED
  BY <1>6, <1>7, <1>8

\* What holds of a parse after i of n arguments.
Parsed(p, i, n, subcmd) ==
    /\ p.ok => i < p.next /\ p.next <= n + 1
    /\ ~subcmd => \A k \in 1 .. Len(p.rest) : Plain(p.rest[k])
    /\ subcmd /\ p.ok /\ p.next <= n => p.rest = <<>>

LEMMA FromIs ==
    ASSUME NEW X, NEW argv \in Seq(X), NEW i \in 1 .. Len(argv) + 1
    PROVE  /\ From(argv, i) \in Seq(X) /\ Len(From(argv, i)) = Len(argv) + 1 - i
           /\ \A k \in 1 .. Len(argv) + 1 - i : From(argv, i)[k] = argv[i + k - 1]
<1> DEFINE n == Len(argv)
<1>1. n \in Nat /\ From(argv, i) = SubSeq(argv, i, n)
  BY DEF From
<1> QED
  BY <1>1

LEMMA TurnType ==
    ASSUME NEW C, NEW options, OptionsOK(options, C), NEW p \in Parses(options, C),
           NEW argv \in Seq(Seq(C)), NEW subcmd \in BOOLEAN, NEW i \in 1 .. Len(argv)
    PROVE  /\ ParseTurn(p, i, argv, options, subcmd) \in Parses(options, C)
           /\ Parsed(p, i - 1, Len(argv), subcmd) =>
                 Parsed(ParseTurn(p, i, argv, options, subcmd), i, Len(argv), subcmd)
<1> DEFINE a == argv[i]
           n == Len(argv)
           r == ParseTurn(p, i, argv, options, subcmd)
<1>1. /\ n \in Nat /\ i \in 1 .. n /\ a \in Seq(C) /\ i + 1 \in 1 .. n + 1 /\ n + 1 \in Nat \ {0}
      /\ p.ok \in BOOLEAN /\ p.calls \in Seq(Calls(options, C)) /\ p.rest \in Seq(Seq(C)) /\ p.next \in Nat \ {0}
  BY ElementOfSeq DEF Parses
<1>b. p.ok /\ ~(i < p.next) =>
          /\ subcmd /\ a = DashDash => r = Ended(p, From(argv, i + 1), n)
          /\ subcmd /\ Plain(a) => r = Ended(p, From(argv, i), n)
  BY TurnIs
<1>2. From(argv, i) \in Seq(Seq(C)) /\ From(argv, i + 1) \in Seq(Seq(C))
  <2>1. i \in 1 .. Len(argv) + 1 /\ i + 1 \in 1 .. Len(argv) + 1
    BY <1>1
  <2> QED
    BY <2>1, FromIs
<1>3. CASE ~p.ok \/ i < p.next
  <2>1. r = p
    BY <1>3, TurnIs
  <2>2. Parsed(p, i - 1, n, subcmd) => Parsed(p, i, n, subcmd)
    BY <1>1, <1>3 DEF Parsed
  <2> QED
    BY <2>1, <2>2
<1>4. ASSUME p.ok, ~(i < p.next), subcmd, Plain(a) \/ a = DashDash
      PROVE  r \in Parses(options, C) /\ (Parsed(p, i - 1, n, subcmd) => Parsed(r, i, n, subcmd))
  <2>1. PICK left \in Seq(Seq(C)) : r = Ended(p, left, n)
    <3>1. r = Ended(p, From(argv, i + 1), n) \/ r = Ended(p, From(argv, i), n)
      <4>0. p.ok /\ ~(i < p.next) /\ subcmd
        BY <1>4
      <4>1. a = DashDash => r = Ended(p, From(argv, i + 1), n)
        BY <1>b, <4>0, Zenon
      <4>2. Plain(a) => r = Ended(p, From(argv, i), n)
        BY <1>b, <4>0, Zenon
      <4> QED
        BY <1>4, <4>1, <4>2
    <3> QED
      BY <1>2, <3>1
  <2> HIDE DEF r, n
  <2>2. r.ok = TRUE /\ r.calls = p.calls /\ r.rest = left /\ r.next = n + 1
    BY <2>1 DEF Ended
  <2>3. r \in Parses(options, C)
    BY <1>1, <2>1 DEF Ended, Parses
  <2>4. Parsed(r, i, n, subcmd)
    BY <1>1, <1>4, <2>2 DEF Parsed
  <2> QED
    BY <2>3, <2>4
<1>5. ASSUME p.ok, ~(i < p.next), ~subcmd, Plain(a)
      PROVE  r \in Parses(options, C) /\ (Parsed(p, i - 1, n, subcmd) => Parsed(r, i, n, subcmd))
  <2>1. r = More(p, i, a)
    BY <1>5, TurnIs
  <2> HIDE DEF r, n, a
  <2> DEFINE u == p.rest
             v == Append(u, a)
  <2>2. v \in Seq(Seq(C)) /\ Len(v) = Len(u) + 1 /\ \A k \in 1 .. Len(v) : v[k] = a \/ (k \in 1 .. Len(u) /\ v[k] = u[k])
    <3> DEFINE X == Seq(C)
    <3>1. u \in Seq(X) /\ a \in X
      BY <1>1
    <3> HIDE DEF X, u
    <3>2. v \in Seq(X) /\ Len(v) = Len(u) + 1 /\ \A k \in 1 .. Len(v) : v[k] = a \/ (k \in 1 .. Len(u) /\ v[k] = u[k])
      BY <3>1
    <3> QED
      BY <3>2 DEF X
  <2>3. r.ok = TRUE /\ r.calls = p.calls /\ r.rest = v /\ r.next = i + 1
    BY <2>1 DEF More
  <2> HIDE DEF v
  <2>4. r \in Parses(options, C)
    BY <1>1, <2>1, <2>2 DEF More, Parses, v
  <2>5. ASSUME Parsed(p, i - 1, n, subcmd) PROVE Parsed(r, i, n, subcmd)
    <3>1. \A k \in 1 .. Len(v) : Plain(v[k])
      BY <1>5, <2>2, <2>5 DEF Parsed
    <3> QED
      BY <1>1, <1>5, <2>3, <3>1 DEF Parsed
  <2> QED
    BY <2>4, <2>5
<1>6. ASSUME p.ok, ~(i < p.next), ~Plain(a), ~(subcmd /\ a = DashDash)
      PROVE  r \in Parses(options, C) /\ (Parsed(p, i - 1, n, subcmd) => Parsed(r, i, n, subcmd))
  <2> DEFINE q == Passed(p, i)
  <2>1. Taken(r, q, options, C, argv) /\ q \in Parses(options, C)
    BY <1>6, TurnIs
  <2>2. q.ok = TRUE /\ q.calls = p.calls /\ q.rest = p.rest /\ q.next = i + 1
    BY DEF Passed
  <2> HIDE DEF q, r, n
  <2>3. CASE r = Broken(q)
    <3>1. r.ok = FALSE /\ r.rest = p.rest /\ r \in Parses(options, C)
      BY <2>1, <2>2, <2>3 DEF Broken, Parses
    <3>2. Parsed(p, i - 1, n, subcmd) => Parsed(r, i, n, subcmd)
      BY <3>1 DEF Parsed
    <3> QED
      BY <3>1, <3>2
  <2>4. ASSUME NEW c \in Calls(options, C), NEW d \in {0, 1}, i + 1 + d <= n + 1, r = Called(q, c, d)
        PROVE  r \in Parses(options, C) /\ (Parsed(p, i - 1, n, subcmd) => Parsed(r, i, n, subcmd))
    <3>1. r.ok = TRUE /\ r.calls = Append(p.calls, c) /\ r.rest = p.rest /\ r.next = i + 1 + d
      BY <2>2, <2>4 DEF Called
    <3>2. Append(p.calls, c) \in Seq(Calls(options, C))
      BY <1>1, AppendProperties
    <3>3. r \in Parses(options, C)
      <4> DEFINE x == Seq(Calls(options, C))
                 y == Seq(Seq(C))
                 z == i + 1 + d
                 w == Append(p.calls, c)
      <4>1. w \in x /\ p.rest \in y /\ z \in Nat \ {0}
        BY <1>1, <3>2
      <4>2. r = [ok |-> TRUE, calls |-> w, rest |-> p.rest, next |-> z]
        BY <2>2, <2>4 DEF Called
      <4> HIDE DEF x, y, z, w
      <4>3. r \in [ok : BOOLEAN, calls : x, rest : y, next : Nat \ {0}]
        BY <4>1, <4>2
      <4> QED
        BY <4>3 DEF Parses, x, y
    <3>4. ASSUME Parsed(p, i - 1, n, subcmd) PROVE Parsed(r, i, n, subcmd)
      <4>1. p.next <= n
        BY <1>1, <1>6
      <4>2. ~subcmd => \A k \in 1 .. Len(r.rest) : Plain(r.rest[k])
        BY <3>1, <3>4, Zenon DEF Parsed
      <4>3. subcmd => r.rest = <<>>
        BY <1>6, <3>1, <3>4, <4>1, Zenon DEF Parsed
      <4>4. i < r.next /\ r.next <= n + 1
        BY <1>1, <2>4, <3>1
      <4> QED
        BY <4>2, <4>3, <4>4, Zenon DEF Parsed
    <3>5. Parsed(p, i - 1, n, subcmd) => Parsed(r, i, n, subcmd)
      BY <3>4
    <3> QED
      BY <3>3, <3>5
  <2>5. \/ r = Broken(q)
        \/ \E c \in Calls(options, C) : r = Called(q, c, 0)
        \/ \E c \in Calls(options, C) : i + 1 <= n /\ r = Called(q, c, 1)
    BY <2>1, <2>2 DEF Taken, n
  <2>6. i + 1 + 0 <= n + 1 /\ (i + 1 <= n => i + 1 + 1 <= n + 1)
    BY <1>1
  <2> QED
    BY <2>3, <2>4, <2>5, <2>6
<1> QED
  BY <1>3, <1>4, <1>5, <1>6

ParseStart == [ok |-> TRUE, calls |-> <<>>, rest |-> <<>>, next |-> 1]

LEMMA TurnsAre ==
    ASSUME NEW C, NEW options, OptionsOK(options, C), NEW argv \in Seq(Seq(C)), NEW subcmd \in BOOLEAN
    PROVE  /\ ParseTurns(argv, options, subcmd)[0] = ParseStart
           /\ \A i \in 1 .. Len(argv) :
                 ParseTurns(argv, options, subcmd)[i] =
                     ParseTurn(ParseTurns(argv, options, subcmd)[i - 1], i, argv, options, subcmd)
           /\ \A i \in 0 .. Len(argv) :
                 /\ ParseTurns(argv, options, subcmd)[i] \in Parses(options, C)
                 /\ Parsed(ParseTurns(argv, options, subcmd)[i], i, Len(argv), subcmd)
<1> DEFINE n == Len(argv)
           T == Parses(options, C)
           Next1(p, i) == ParseTurn(p, i, argv, options, subcmd)
           step == [x \in T \X (1 .. n) |-> Next1(x[1], x[2])]
           Is(g) == g = [i \in 0 .. n |-> IF i = 0 THEN ParseStart ELSE Next1(g[i - 1], i)]
           turn == CHOOSE g : Is(g)
           Good(p, i) == Parsed(p, i, n, subcmd)
<1>1. n \in Nat
  OBVIOUS
<1>2. ParseTurns(argv, options, subcmd) = turn
  BY DEF ParseTurns, ParseStart
<1>3. ParseStart \in T /\ Good(ParseStart, 0)
  BY <1>1 DEF ParseStart, Parses, Parsed
<1>4. ASSUME NEW p \in T, NEW i \in 1 .. n
      PROVE  Next1(p, i) \in T /\ (Good(p, i - 1) => Good(Next1(p, i), i))
  BY TurnType
<1> HIDE DEF Next1, T, n, Good
<1>5. PICK f \in [0 .. n -> T] : Recurs(f, ParseStart, n, step)
  <2>1. step \in [T \X (1 .. n) -> T]
    BY <1>4
  <2> HIDE DEF step
  <2> QED
    BY <1>1, <1>3, <2>1, Recursion, Zenon
<1>6. f[0] = ParseStart /\ \A k \in 1 .. n : f[k] = Next1(f[k - 1], k)
  <2>1. ASSUME NEW k \in 1 .. n PROVE f[k] = Next1(f[k - 1], k)
    <3>1. f[k - 1] \in T
      BY <1>1, <1>5
    <3> QED
      BY <1>5, <3>1 DEF Recurs
  <2> QED
    BY <1>5, <2>1 DEF Recurs
<1>7. Is(f)
  <2>1. f = [k \in 0 .. n |-> f[k]] /\ \A k \in 0 .. n : k = 0 \/ k \in 1 .. n
    BY <1>1, <1>5
  <2> QED
    BY <1>6, <2>1
<1>8. Is(turn)
  <2> HIDE DEF Is
  <2> QED
    BY <1>7, Zenon
<1> HIDE DEF turn
<1>9. turn[0] = ParseStart /\ \A k \in 1 .. n : turn[k] = Next1(turn[k - 1], k)
  <2>1. 0 \in 0 .. n /\ \A k \in 1 .. n : k \in 0 .. n /\ k # 0
    BY <1>1
  <2>2. \A k \in 0 .. n : turn[k] = IF k = 0 THEN ParseStart ELSE Next1(turn[k - 1], k)
    BY <1>8, Zenon
  <2> QED
    BY <2>1, <2>2
<1> DEFINE S == {k \in 0 .. n : turn[k] \in T /\ Good(turn[k], k)}
<1>10. 0 \in S
  <2>1. 0 \in 0 .. n
    BY <1>1
  <2> QED
    BY <1>3, <1>9, <2>1
<1>11. ASSUME NEW k \in 0 .. n - 1, k \in S PROVE k + 1 \in S
  <2>1. k + 1 \in 1 .. n /\ k + 1 \in 0 .. n /\ k + 1 - 1 = k
    BY <1>1
  <2>2. PICK q \in 1 .. n : q = k + 1
    BY <2>1
  <2>3. turn[q] = Next1(turn[k], q) /\ q - 1 = k
    BY <1>9, <2>1, <2>2
  <2>4. turn[k] \in T /\ Good(turn[k], q - 1)
    BY <1>11, <2>3
  <2>5. turn[q] \in T /\ Good(turn[q], q)
    BY <1>4, <2>3, <2>4
  <2> QED
    BY <2>1, <2>2, <2>5
<1>12. 0 .. n \subseteq S
  <2> HIDE DEF S
  <2> QED
    BY <1>1, <1>10, <1>11, Induction
<1> QED
  BY <1>2, <1>9, <1>12 DEF n, T, Next1, Good

\* All but the last of the arguments.
LEMMA FrontIs ==
    ASSUME NEW X, NEW argv \in Seq(X), argv # <<>>
    PROVE  /\ Front(argv) \in Seq(X) /\ Len(argv) = Len(Front(argv)) + 1 /\ Last(argv) = argv[Len(argv)]
           /\ \A k \in 1 .. Len(Front(argv)) : argv[k] = Front(argv)[k]
           /\ \A i \in 1 .. Len(argv) : /\ From(Front(argv), i) \in Seq(X)
                                        /\ From(argv, i) = Append(From(Front(argv), i), argv[Len(argv)])
           /\ From(argv, Len(argv)) = <<argv[Len(argv)]>>
           /\ From(argv, Len(argv) + 1) = <<>>
<1> DEFINE n == Len(argv)
           f == Front(argv)
<1>1. n \in Nat \ {0}
  OBVIOUS
<1>2. f \in Seq(X) /\ Len(f) = n - 1 /\ \A k \in 1 .. n - 1 : f[k] = argv[k]
  <2>1. n - 1 \in 0 .. n /\ f = SubSeq(argv, 1, n - 1)
    BY <1>1 DEF Front
  <2> HIDE DEF f
  <2> QED
    BY <2>1, PrefixIs
<1>3. n = Len(f) + 1
  BY <1>1, <1>2
<1>4. Last(argv) = argv[n] /\ From(argv, n) = <<argv[n]>> /\ From(argv, n + 1) = <<>>
  <2>1. n \in 1 .. n + 1 /\ n + 1 \in 1 .. n + 1 /\ n + 1 - n = 1 /\ n + 1 - (n + 1) = 0
    BY <1>1
  <2>2. /\ From(argv, n) \in Seq(X) /\ Len(From(argv, n)) = 1 /\ From(argv, n)[1] = argv[n]
    <3>1. /\ From(argv, n) \in Seq(X) /\ Len(From(argv, n)) = n + 1 - n
          /\ \A k \in 1 .. n + 1 - n : From(argv, n)[k] = argv[n + k - 1]
      BY <2>1, FromIs
    <3>2. n + 1 - 1 = n
      BY <1>1
    <3> QED
      BY <2>1, <3>1, <3>2
  <2>3. From(argv, n + 1) \in Seq(X) /\ Len(From(argv, n + 1)) = 0
    <3>1. From(argv, n + 1) \in Seq(X) /\ Len(From(argv, n + 1)) = n + 1 - (n + 1)
      BY <2>1, FromIs
    <3> QED
      BY <2>1, <3>1
  <2> DEFINE u == From(argv, n)
             v == From(argv, n + 1)
             a == argv[n]
  <2>4. u \in Seq(X) /\ v \in Seq(X) /\ Len(u) = 1 /\ Len(v) = 0 /\ u[1] = a
    BY <2>2, <2>3
  <2> HIDE DEF u, v, a
  <2>5. u = <<a>> /\ v = <<>>
    BY <2>4
  <2> QED
    BY <2>5 DEF Last, u, v, a
<1> HIDE DEF f, n
<1>5. ASSUME NEW i \in 1 .. n
      PROVE  From(f, i) \in Seq(X) /\ From(argv, i) = Append(From(f, i), argv[n])
  <2> DEFINE u == From(f, i)
             v == From(argv, i)
  <2>1. i \in 1 .. Len(f) + 1 /\ Len(f) + 1 - i = n - i
    BY <1>1, <1>2, <1>3
  <2>2. i \in 1 .. n + 1 /\ n + 1 - i = n - i + 1
    BY <1>1
  <2>3. u \in Seq(X) /\ Len(u) = n - i /\ \A k \in 1 .. n - i : u[k] = f[i + k - 1]
    <3>1. u \in Seq(X) /\ Len(u) = Len(f) + 1 - i /\ \A k \in 1 .. Len(f) + 1 - i : u[k] = f[i + k - 1]
      BY <1>2, <2>1, FromIs
    <3> QED
      BY <2>1, <3>1, Zenon
  <2>4. v \in Seq(X) /\ Len(v) = n - i + 1 /\ \A k \in 1 .. n - i + 1 : v[k] = argv[i + k - 1]
    <3>1. v \in Seq(X) /\ Len(v) = n + 1 - i /\ \A k \in 1 .. n + 1 - i : v[k] = argv[i + k - 1]
      BY <2>2, FromIs DEF n
    <3> QED
      BY <2>2, <3>1, Zenon
  <2>5. \A k \in 1 .. n - i : i + k - 1 \in 1 .. n - 1
    BY <1>1
  <2>6. \A k \in 1 .. n - i : k \in 1 .. n - i + 1
    BY <1>1
  <2>7. \A k \in 1 .. n - i : v[k] = u[k]
    BY <1>2, <2>3, <2>4, <2>5, <2>6
  <2>8. v[n - i + 1] = argv[n]
    <3>1. n - i + 1 \in 1 .. n - i + 1 /\ i + (n - i + 1) - 1 = n
      BY <1>1
    <3> QED
      BY <2>4, <3>1
  <2> HIDE DEF u, v
  <2>9. argv[n] \in X
    BY <1>1, ElementOfSeq DEF n
  <2> DEFINE m == n - i
             a == argv[n]
             w == Append(u, a)
  <2>10. m \in Nat /\ u \in Seq(X) /\ v \in Seq(X) /\ a \in X /\ Len(u) = m /\ Len(v) = m + 1
         /\ (\A k \in 1 .. m : v[k] = u[k]) /\ v[m + 1] = a
    BY <1>1, <2>3, <2>4, <2>7, <2>8, <2>9
  <2> HIDE DEF m, a
  <2>11. w \in Seq(X) /\ Len(w) = m + 1 /\ (\A k \in 1 .. m : w[k] = u[k]) /\ w[m + 1] = a
    BY <2>10, AppendProperties
  <2> HIDE DEF w
  <2>12. \A k \in 1 .. m + 1 : k \in 1 .. m \/ k = m + 1
    BY <2>10
  <2>13. v = w
    BY <2>10, <2>11, <2>12, SeqEqual
  <2> QED
    BY <2>10, <2>13 DEF w, u, v, a
<1> QED
  BY <1>2, <1>3, <1>4, <1>5 DEF f, n

\* A parse p with one more argument, the last of n, and the parse q without: the same
\* as long as nothing has asked for it; it is one more of the rest; or it is the
\* parameter that is missing without it.
SameParse(p, q, last, n, cs) ==
    \/ p = q
    \/ /\ p.ok /\ q.ok /\ p.next = n + 1 /\ q.next = n
       /\ p.calls = q.calls /\ p.rest = Append(q.rest, last)
    \/ /\ p.ok /\ ~q.ok /\ p.next = n + 1 /\ p.rest = q.rest
       /\ \E c \in cs : c.param = Param(last) /\ p.calls = Append(q.calls, c)

LEMMA SameParseStep ==
    ASSUME NEW C, NEW options, OptionsOK(options, C), NEW p \in Parses(options, C),
           NEW q \in Parses(options, C), NEW argv \in Seq(Seq(C)), argv # <<>>,
           NEW subcmd \in BOOLEAN, NEW i \in 1 .. Len(argv) - 1,
           SameParse(p, q, Last(argv), Len(argv), Calls(options, C))
    PROVE  SameParse(ParseTurn(p, i, argv, options, subcmd), ParseTurn(q, i, Front(argv), options, subcmd),
                     Last(argv), Len(argv), Calls(options, C))
<1> DEFINE f == Front(argv)
           n == Len(argv)
           a == argv[i]
           last == Last(argv)
           cs == Calls(options, C)
           r == ParseTurn(p, i, argv, options, subcmd)
           t == ParseTurn(q, i, f, options, subcmd)
<1> SUFFICES SameParse(r, t, last, n, cs)
  OBVIOUS
<1>1. /\ n \in Nat \ {0} /\ f \in Seq(Seq(C)) /\ n = Len(f) + 1 /\ i \in 1 .. n /\ i \in 1 .. Len(f)
      /\ i + 1 \in 1 .. n /\ last = argv[n] /\ a \in Seq(C)
  BY FrontIs, ElementOfSeq
<1>2. /\ a = f[i] /\ \A k \in 1 .. Len(f) : argv[k] = f[k]
      /\ \A k \in 1 .. n : From(argv, k) = Append(From(f, k), last)
  BY <1>1, FrontIs
<1>3. (~p.ok \/ i < p.next => r = p) /\ (~q.ok \/ i < q.next => t = q)
  BY <1>1, TurnIs
<1>4. CASE p # q
  <2>1. i < n + 1 /\ i < n
    BY <1>1
  <2>2. r = p /\ t = q
    BY <1>3, <1>4, <2>1 DEF SameParse
  <2> QED
    BY <2>2
<1>5. CASE p = q /\ (~p.ok \/ i < p.next)
  BY <1>3, <1>5 DEF SameParse
<1>6. CASE p = q /\ p.ok /\ ~(i < p.next)
  <2>1. /\ subcmd /\ a = DashDash => r = Ended(p, From(argv, i + 1), n)
        /\ subcmd /\ Plain(a) => r = Ended(p, From(argv, i), n)
        /\ ~subcmd /\ Plain(a) => r = More(p, i, a)
        /\ ~Plain(a) /\ ~(subcmd /\ a = DashDash) =>
              r = ParseOne(Passed(p, i), a, options, argv, subcmd) /\ Passed(p, i) \in Parses(options, C)
    <3>1. p.ok /\ ~(i < p.next) =>
              /\ subcmd /\ a = DashDash => r = Ended(p, From(argv, i + 1), n)
              /\ subcmd /\ Plain(a) => r = Ended(p, From(argv, i), n)
              /\ ~subcmd /\ Plain(a) => r = More(p, i, a)
              /\ ~Plain(a) /\ ~(subcmd /\ a = DashDash) =>
                    r = ParseOne(Passed(p, i), a, options, argv, subcmd) /\ Passed(p, i) \in Parses(options, C)
      <4>1. i \in 1 .. Len(argv)
        BY <1>1
      <4> HIDE DEF a, r, n
      <4>2. p.ok /\ ~(i < p.next) =>
                /\ subcmd /\ argv[i] = DashDash =>
                      ParseTurn(p, i, argv, options, subcmd) = Ended(p, From(argv, i + 1), Len(argv))
                /\ subcmd /\ Plain(argv[i]) =>
                      ParseTurn(p, i, argv, options, subcmd) = Ended(p, From(argv, i), Len(argv))
                /\ ~subcmd /\ Plain(argv[i]) => ParseTurn(p, i, argv, options, subcmd) = More(p, i, argv[i])
        BY <4>1, TurnIs
      <4>3. p.ok /\ ~(i < p.next) /\ ~Plain(argv[i]) /\ ~(subcmd /\ argv[i] = DashDash) =>
                    /\ ParseTurn(p, i, argv, options, subcmd) =
                           ParseOne(Passed(p, i), argv[i], options, argv, subcmd)
                    /\ Passed(p, i) \in Parses(options, C)
        BY <4>1, TurnIs
      <4> QED
        BY <4>2, <4>3, Zenon DEF a, r, n
    <3> QED
      BY <1>6, <3>1, Zenon
  <2>2. /\ subcmd /\ a = DashDash => t = Ended(p, From(f, i + 1), Len(f))
        /\ subcmd /\ Plain(a) => t = Ended(p, From(f, i), Len(f))
        /\ ~subcmd /\ Plain(a) => t = More(p, i, a)
        /\ ~Plain(a) /\ ~(subcmd /\ a = DashDash) =>
              t = ParseOne(Passed(p, i), a, options, f, subcmd)
    <3> HIDE DEF a, f
    <3> QED
      BY <1>1, <1>2, <1>6, TurnIs
  <2> HIDE DEF r, t, a, f, n, last, cs
  <2>3. ASSUME NEW k \in 1 .. n, r = Ended(p, From(argv, k), n), t = Ended(p, From(f, k), Len(f))
        PROVE  SameParse(r, t, last, n, cs)
    <3>1. /\ r.ok = TRUE /\ t.ok = TRUE /\ r.next = n + 1 /\ t.next = n /\ r.calls = t.calls
          /\ r.rest = Append(t.rest, last)
      BY <1>1, <1>2, <2>3 DEF Ended
    <3> QED
      BY <3>1 DEF SameParse
  <2>4. CASE subcmd /\ (a = DashDash \/ Plain(a))
    BY <1>1, <2>1, <2>2, <2>3, <2>4
  <2>5. CASE ~subcmd /\ Plain(a)
    BY <2>1, <2>2, <2>5 DEF SameParse
  <2>6. CASE ~Plain(a) /\ ~(subcmd /\ a = DashDash)
    <3> DEFINE q1 == Passed(p, i)
    <3>1. /\ r = ParseOne(q1, a, options, argv, subcmd) /\ t = ParseOne(q1, a, options, f, subcmd)
          /\ q1 \in Parses(options, C)
      BY <2>1, <2>2, <2>6
    <3>2. q1.calls = p.calls /\ q1.rest = p.rest /\ q1.next = i + 1 /\ q1.ok = TRUE
      BY DEF Passed
    <3> HIDE DEF q1
    <3>3. CASE r = Broken(q1) /\ t = Broken(q1)
      BY <3>3 DEF SameParse
    <3>4. CASE \E found, param :
                  /\ Among(found, options) /\ param \in Params(C)
                  /\ r = CallOption(q1, found, param, argv) /\ t = CallOption(q1, found, param, f)
      <4>1. PICK found, param :
                  /\ Among(found, options) /\ param \in Params(C)
                  /\ r = CallOption(q1, found, param, argv) /\ t = CallOption(q1, found, param, f)
        BY <3>4
      <4>2. q1.next <= Len(argv) /\ Len(argv) = Len(f) + 1
        BY <1>1, <3>2 DEF n
      <4>3. \/ r = t
            \/ Missing(r, t, q1, argv, cs)
        <5>1. f \in Seq(Seq(C)) /\ q1 \in Parses(options, C) /\ ButLast(argv, f)
          BY <1>1, <1>2, <3>1, <4>2 DEF ButLast
        <5>2. \/ CallOption(q1, found, param, argv) = CallOption(q1, found, param, f)
              \/ Missing(CallOption(q1, found, param, argv), CallOption(q1, found, param, f), q1,
                         argv, Calls(options, C))
          BY <4>1, <4>2, <5>1, CallOptionFront
        <5> QED
          BY <4>1, <5>2 DEF cs
      <4>4. ASSUME NEW c \in cs, q1.next = n, t = Broken(q1), r = Called(q1, c, 1),
                   c.param = Param(argv[q1.next])
            PROVE  SameParse(r, t, last, n, cs)
        <5>1. t.ok = FALSE /\ t.calls = q1.calls /\ t.rest = q1.rest
          BY <3>1, <4>4 DEF Broken, Parses
        <5>2. r.ok = TRUE /\ r.calls = Append(q1.calls, c) /\ r.rest = q1.rest /\ r.next = n + 1
          BY <3>2, <4>4 DEF Called
        <5>3. c.param = Param(last)
          BY <1>1, <4>4
        <5> QED
          BY <5>1, <5>2, <5>3 DEF SameParse
      <4> QED
        BY <4>3, <4>4 DEF SameParse, Missing, n
    <3>5. \/ r = Broken(q1) /\ t = Broken(q1)
          \/ \E found, param :
                  /\ Among(found, options) /\ param \in Params(C)
                  /\ r = CallOption(q1, found, param, argv) /\ t = CallOption(q1, found, param, f)
      <4>1. ~(subcmd /\ a = <<Dash, Dash>>)
        BY <2>6 DEF DashDash
      <4> QED
        <5>1. \/ Refused(q1, a, options, subcmd)
              \/ \E found, param :
                    Among(found, options) /\ param \in Params(C) /\ AsOption(q1, a, options, subcmd, found, param)
          BY <1>1, <2>6, <4>1, ParseOption
        <5> QED
          BY <3>1, <5>1, Zenon DEF Refused, AsOption
    <3> QED
      BY <3>3, <3>4, <3>5
  <2> QED
    BY <2>4, <2>5, <2>6
<1> QED
  BY <1>4, <1>5, <1>6

\* The two parses, up to the last argument.
LEMMA SameParses ==
    ASSUME NEW C, NEW options, OptionsOK(options, C), NEW argv \in Seq(Seq(C)), argv # <<>>,
           NEW subcmd \in BOOLEAN
    PROVE  SameParse(ParseTurns(argv, options, subcmd)[Len(argv) - 1],
                     ParseTurns(Front(argv), options, subcmd)[Len(argv) - 1],
                     Last(argv), Len(argv), Calls(options, C))
<1> DEFINE f == Front(argv)
           n == Len(argv)
           P == ParseTurns(argv, options, subcmd)
           Q == ParseTurns(f, options, subcmd)
           Same(k) == SameParse(P[k], Q[k], Last(argv), n, Calls(options, C))
           S == {k \in 0 .. n - 1 : Same(k)}
<1>1. /\ n \in Nat \ {0} /\ f \in Seq(Seq(C)) /\ n = Len(f) + 1
  BY FrontIs
<1>2. /\ P[0] = ParseStart
      /\ \A i \in 1 .. n : P[i] = ParseTurn(P[i - 1], i, argv, options, subcmd)
      /\ \A i \in 0 .. n : P[i] \in Parses(options, C)
  BY TurnsAre
<1>3. /\ Q[0] = ParseStart
      /\ \A i \in 1 .. Len(f) : Q[i] = ParseTurn(Q[i - 1], i, f, options, subcmd)
      /\ \A i \in 0 .. Len(f) : Q[i] \in Parses(options, C)
  <2> HIDE DEF f
  <2> QED
    BY <1>1, TurnsAre
<1> HIDE DEF P, Q
<1>4. 0 \in S
  BY <1>1, <1>2, <1>3 DEF SameParse
<1>5. ASSUME NEW k \in 0 .. n - 1 - 1, k \in S PROVE k + 1 \in S
  <2>1. k + 1 \in 1 .. n - 1
    BY <1>1
  <2>2. PICK i \in 1 .. n - 1 : i = k + 1
    BY <2>1
  <2>3. i \in 1 .. n /\ i \in 1 .. Len(f) /\ i - 1 \in 0 .. n /\ i - 1 \in 0 .. Len(f) /\ i - 1 = k
    BY <1>1, <2>2
  <2>4. P[k] \in Parses(options, C) /\ Q[k] \in Parses(options, C) /\ Same(k)
    BY <1>2, <1>3, <1>5, <2>3
  <2>5. SameParse(ParseTurn(P[k], i, argv, options, subcmd), ParseTurn(Q[k], i, Front(argv), options, subcmd),
                  Last(argv), Len(argv), Calls(options, C))
    <3> DEFINE p == P[k]
               q == Q[k]
    <3>1. p \in Parses(options, C) /\ q \in Parses(options, C) /\ SameParse(p, q, Last(argv), Len(argv), Calls(options, C))
      BY <2>4
    <3>2. i \in 1 .. Len(argv) - 1
      BY <2>2
    <3> HIDE DEF p, q
    <3>3. SameParse(ParseTurn(p, i, argv, options, subcmd), ParseTurn(q, i, Front(argv), options, subcmd),
                    Last(argv), Len(argv), Calls(options, C))
      BY <3>1, <3>2, SameParseStep
    <3> QED
      BY <3>3 DEF p, q
  <2>6. P[i] = ParseTurn(P[k], i, argv, options, subcmd) /\ Q[i] = ParseTurn(Q[k], i, f, options, subcmd)
    BY <1>2, <1>3, <2>3
  <2>7. Same(i)
    BY <2>5, <2>6
  <2> HIDE DEF Same
  <2> QED
    BY <2>2, <2>7
<1>6. 0 .. n - 1 \subseteq S
  <2>1. n - 1 \in Nat
    BY <1>1
  <2> HIDE DEF S, n
  <2> QED
    BY <1>4, <1>5, <2>1, Induction
<1>7. n - 1 \in 0 .. n - 1
  BY <1>1
<1>8. Same(n - 1)
  <2> HIDE DEF Same
  <2> QED
    BY <1>6, <1>7
<1> QED
  BY <1>8 DEF P, Q

\* What the last argument was used for.
Used(e) == Len(e.calls) + Len(e.rest)
UsedLast(p, before, last, subcmd) ==
    IF before.ok
    THEN Used(p) - Used(before) \in {1} \cup (IF subcmd /\ last = <<Dash, Dash>> THEN {0} ELSE {})
    ELSE /\ p.rest = before.rest
         /\ p.calls = Append(before.calls, [val |-> Last(p.calls).val, param |-> Param(last)])

LEMMA LastTurn ==
    ASSUME NEW C, NEW options, OptionsOK(options, C), NEW argv \in Seq(Seq(C)), argv # <<>>,
           NEW subcmd \in BOOLEAN, NEW p \in Parses(options, C), NEW q \in Parses(options, C),
           SameParse(p, q, Last(argv), Len(argv), Calls(options, C)),
           Parsed(p, Len(argv) - 1, Len(argv), subcmd), Parsed(q, Len(argv) - 1, Len(argv) - 1, subcmd),
           ParseTurn(p, Len(argv), argv, options, subcmd).ok
    PROVE  UsedLast(ParseTurn(p, Len(argv), argv, options, subcmd), q, Last(argv), subcmd)
<1> DEFINE n == Len(argv)
           last == Last(argv)
           cs == Calls(options, C)
           r == ParseTurn(p, n, argv, options, subcmd)
<1> SUFFICES UsedLast(r, q, last, subcmd)
  OBVIOUS
<1>1. /\ n \in Nat \ {0} /\ n \in 1 .. Len(argv) /\ last = argv[n]
      /\ From(argv, n) = <<last>> /\ From(argv, n + 1) = <<>>
  <2>1. n \in Nat \ {0} /\ n \in 1 .. Len(argv)
    OBVIOUS
  <2>2. /\ Last(argv) = argv[Len(argv)] /\ From(argv, Len(argv)) = <<argv[Len(argv)]>>
        /\ From(argv, Len(argv) + 1) = <<>>
    BY FrontIs
  <2> QED
    BY <2>1, <2>2, Zenon
<1>2. /\ p.ok \in BOOLEAN /\ p.calls \in Seq(cs) /\ p.rest \in Seq(Seq(C)) /\ p.next \in Nat \ {0}
      /\ q.ok \in BOOLEAN /\ q.calls \in Seq(cs) /\ q.rest \in Seq(Seq(C)) /\ q.next \in Nat \ {0}
      /\ r.ok
  BY DEF Parses
<1>3. Len(p.calls) \in Nat /\ Len(p.rest) \in Nat /\ Len(q.calls) \in Nat /\ Len(q.rest) \in Nat
  <2> HIDE DEF cs, r
  <2> QED
    BY <1>2
<1>4. ~p.ok \/ n < p.next => r = p
  BY <1>1, TurnIs
<1>5. p.ok /\ ~(n < p.next) =>
          /\ subcmd /\ last = DashDash => r = Ended(p, <<>>, n)
          /\ subcmd /\ Plain(last) => r = Ended(p, <<last>>, n)
          /\ ~subcmd /\ Plain(last) => r = More(p, n, last)
  <2>1. p.ok /\ ~(n < p.next) =>
          /\ subcmd /\ argv[n] = DashDash => r = Ended(p, From(argv, n + 1), n)
          /\ subcmd /\ Plain(argv[n]) => r = Ended(p, From(argv, n), n)
          /\ ~subcmd /\ Plain(argv[n]) => r = More(p, n, argv[n])
    BY <1>1, TurnIs
  <2> HIDE DEF r, n
  <2> QED
    BY <1>1, <2>1
<1>6. p.ok /\ ~(n < p.next) /\ ~Plain(last) /\ ~(subcmd /\ last = DashDash) => Taken(r, Passed(p, n), options, C, argv)
  <2>1. p.ok /\ ~(n < p.next) /\ ~Plain(argv[n]) /\ ~(subcmd /\ argv[n] = DashDash) => Taken(r, Passed(p, n), options, C, argv)
    BY <1>1, TurnIs
  <2> HIDE DEF r, n
  <2> QED
    BY <1>1, <2>1
<1>n. n = Len(argv)
  OBVIOUS
<1> HIDE DEF r, n, last, cs
<1>7. CASE p = q
  <2>1. p.ok /\ ~(n < p.next)
    BY <1>1, <1>2, <1>4, <1>7, <1>n DEF Parsed
  <2>2. subcmd => p.rest = <<>>
    BY <1>1, <1>2, <2>1, <1>n DEF Parsed
  <2>3. CASE subcmd /\ last = DashDash
    <3>1. r.calls = p.calls /\ r.rest = <<>>
      BY <1>5, <2>1, <2>3 DEF Ended
    <3>2. Used(r) - Used(p) = 0
      BY <1>3, <2>2, <2>3, <3>1 DEF Used
    <3> QED
      BY <1>7, <2>1, <2>3, <3>2 DEF UsedLast, DashDash
  <2>4. ASSUME Used(r) - Used(p) = 1 PROVE UsedLast(r, q, last, subcmd)
    BY <1>7, <2>1, <2>4 DEF UsedLast
  <2>5. CASE subcmd /\ Plain(last)
    <3>1. r.calls = p.calls /\ r.rest = <<last>>
      BY <1>5, <2>1, <2>5 DEF Ended
    <3>2. Len(r.rest) = 1 /\ Len(p.rest) = 0
      BY <2>2, <2>5, <3>1
    <3>3. Used(r) - Used(p) = 1
      BY <1>3, <3>1, <3>2 DEF Used
    <3> QED
      BY <2>4, <3>3
  <2>6. CASE ~subcmd /\ Plain(last)
    <3>1. r.calls = p.calls /\ r.rest = Append(p.rest, last)
      BY <1>5, <2>1, <2>6 DEF More
    <3>2. Len(r.rest) = Len(p.rest) + 1
      BY <1>2, <3>1
    <3>3. Used(r) - Used(p) = 1
      BY <1>3, <3>1, <3>2 DEF Used
    <3> QED
      BY <2>4, <3>3
  <2>7. CASE ~Plain(last) /\ ~(subcmd /\ last = DashDash)
    <3> DEFINE s == Passed(p, n)
    <3>1. s.next = n + 1 /\ s.calls = p.calls /\ s.rest = p.rest
      BY DEF Passed
    <3>2. Taken(r, s, options, C, argv)
      BY <1>6, <2>1, <2>7
    <3>3. s = [ok |-> TRUE, calls |-> p.calls, rest |-> p.rest, next |-> n + 1]
      BY DEF Passed
    <3> HIDE DEF s
    <3>4. r # Broken(s)
      <4>1. Broken(s).ok = FALSE
        BY <3>3 DEF Broken
      <4> QED
        BY <1>2, <4>1
    <3>5. ~(s.next <= Len(argv))
      BY <1>1, <1>n, <3>1
    <3>6. PICK c \in cs : r = Called(s, c, 0)
      BY <3>2, <3>4, <3>5 DEF Taken, cs
    <3>7. r.calls = Append(p.calls, c) /\ r.rest = p.rest
      BY <3>1, <3>6 DEF Called
    <3>8. Len(r.calls) = Len(p.calls) + 1 /\ Len(r.rest) = Len(p.rest)
      BY <1>2, <3>7
    <3>9. Used(r) - Used(p) = 1
      <4> DEFINE a == Len(p.calls)
                 b == Len(p.rest)
                 d == Len(r.calls)
                 e == Len(r.rest)
      <4>1. a \in Nat /\ b \in Nat /\ d \in Nat /\ e \in Nat /\ d = a + 1 /\ e = b
        BY <1>3, <3>8
      <4> HIDE DEF a, b, d, e
      <4>2. d + e - (a + b) = 1
        BY <4>1
      <4> QED
        <5>1. Used(r) = d + e /\ Used(p) = a + b
          BY DEF a, b, d, e, Used
        <5> QED
          BY <4>1, <4>2, <5>1
    <3> QED
      BY <2>4, <3>9
  <2> QED
    BY <2>3, <2>5, <2>6, <2>7
<1>8. CASE /\ p.ok /\ q.ok /\ p.next = n + 1 /\ p.calls = q.calls /\ p.rest = Append(q.rest, last)
  <2>1. r = p
    BY <1>1, <1>4, <1>8
  <2>2. Len(r.rest) = Len(q.rest) + 1 /\ r.calls = q.calls
    BY <1>2, <1>8, <2>1
  <2>3. Used(r) - Used(q) = 1
    BY <1>3, <2>2 DEF Used
  <2> QED
    BY <1>8, <2>3 DEF UsedLast
<1>9. ASSUME NEW c \in cs, p.ok, ~q.ok, p.next = n + 1, p.rest = q.rest, c.param = Param(last),
             p.calls = Append(q.calls, c)
      PROVE  UsedLast(r, q, last, subcmd)
  <2>1. r = p
    BY <1>1, <1>4, <1>9
  <2>2. c = [val |-> c.val, param |-> Param(last)]
    BY <1>9 DEF cs, Calls
  <2>3. Last(r.calls) = c
    <3> DEFINE u == Append(q.calls, c)
    <3>1. Len(u) = Len(q.calls) + 1 /\ u[Len(q.calls) + 1] = c
      BY <1>2, AppendProperties
    <3> HIDE DEF u
    <3> QED
      BY <1>9, <2>1, <3>1 DEF Last, u
  <2>4. r.calls = Append(q.calls, [val |-> Last(r.calls).val, param |-> Param(last)])
    BY <1>9, <2>1, <2>2, <2>3
  <2> QED
    BY <1>9, <2>1, <2>4 DEF UsedLast
<1> QED
  BY <1>7, <1>8, <1>9 DEF SameParse, n, last, cs

\* A call that is written out as an option is the call it is read as.
LEMMA WrittenIs ==
    ASSUME NEW C, {Dash, Equal} \subseteq C, NEW options, OptionsOK(options, C), NEW c \in Calls(options, C)
    PROVE  Written(c) \in Seq(C) /\ ~Plain(Written(c)) /\ Written(c) # DashDash
<1> DEFINE head == <<Dash, c.val>>
           tail == IF c.param.given THEN <<Equal>> \o c.param.text ELSE <<>>
           a == Written(c)
<1>1. c.val \in C /\ c.val # Dash /\ c.param.text \in Seq(C) /\ Dash \in C /\ Equal \in C
  BY DEF Calls, Params
<1>2. head \in Seq(C) /\ Len(head) = 2 /\ head[1] = Dash /\ head[2] = c.val
  BY <1>1
<1>3. tail \in Seq(C)
  BY <1>1, Concat
<1>4. a = head \o tail
  BY DEF Written
<1> HIDE DEF head, tail, a
<1>5. a \in Seq(C) /\ Len(a) = 2 + Len(tail) /\ a[1] = Dash /\ a[2] = c.val
  <2>1. a \in Seq(C) /\ Len(a) = Len(head) + Len(tail) /\ \A k \in 1 .. Len(head) : a[k] = head[k]
    BY <1>2, <1>3, <1>4, Concat
  <2>2. 1 \in 1 .. Len(head) /\ 2 \in 1 .. Len(head)
    BY <1>2
  <2> QED
    BY <1>2, <2>1, <2>2
<1>6. a # <<>>
  BY <1>3, <1>5
<1>7. a # DashDash
  BY <1>1, <1>5 DEF DashDash
<1> QED
  BY <1>5, <1>6, <1>7 DEF Plain, a

LEMMA CallWritten ==
    ASSUME NEW C, {Dash, Equal} \subseteq C, NEW options, OptionsOK(options, C), NEW c \in Calls(options, C),
           NEW p \in Parses(options, C), NEW argv \in Seq(Seq(C)), NEW subcmd \in BOOLEAN
    PROVE  ParseOne(p, Written(c), options, argv, subcmd) = Called(p, c, 0)
<1> DEFINE a == Written(c)
           head == <<Dash, c.val>>
           tail == IF c.param.given THEN <<Equal>> \o c.param.text ELSE <<>>
           text0 == c.param.text
           found == {o \in options : o.val = a[2]}
           param == IF Len(a) = 2 THEN NoParam ELSE IF a[3] = Equal THEN Param(From(a, 4)) ELSE Param(From(a, 3))
<1>1. /\ c.val \in C \ {Dash, Equal} /\ text0 \in Seq(C) /\ Dash \in C /\ Equal \in C
      /\ c.param \in Params(C) /\ c.param \in [given : BOOLEAN, text : Seq(C)] /\ c = [val |-> c.val, param |-> c.param]
      /\ \E o \in options : Allows(o, c)
  BY DEF Calls, Params
<1>2. head \in Seq(C) /\ Len(head) = 2 /\ head[1] = Dash /\ head[2] = c.val
  BY <1>1
<1>3. /\ c.param.given => tail \in Seq(C) /\ Len(tail) = 1 + Len(text0) /\ tail[1] = Equal
                          /\ \A k \in 1 .. Len(text0) : tail[1 + k] = text0[k]
      /\ ~c.param.given => tail \in Seq(C) /\ Len(tail) = 0
  <2>1. CASE c.param.given
    <3> DEFINE e == <<Equal>>
    <3>1. e \in Seq(C) /\ Len(e) = 1 /\ e[1] = Equal
      BY <1>1
    <3>2. tail = e \o text0 /\ text0 \in Seq(C)
      BY <1>1, <2>1
    <3> HIDE DEF e, tail, text0
    <3>3. /\ tail \in Seq(C) /\ Len(tail) = Len(e) + Len(text0)
          /\ \A k \in 1 .. Len(e) : tail[k] = e[k]
          /\ \A k \in 1 .. Len(text0) : tail[Len(e) + k] = text0[k]
      <4>1. e \o text0 \in Seq(C) /\ IsConcat(e \o text0, e, text0, Len(e), Len(text0))
        BY <3>1, <3>2, ConcatIs
      <4> QED
        BY <3>2, <4>1, Zenon DEF IsConcat
    <3>4. 1 \in 1 .. Len(e)
      BY <3>1
    <3> QED
      BY <2>1, <3>1, <3>3, <3>4
  <2>2. CASE ~c.param.given
    BY <2>2
  <2> QED
    BY <2>1, <2>2
<1>4. a = head \o tail
  BY DEF Written
<1>b. c.param.given \in BOOLEAN /\ text0 \in Seq(C) /\ tail \in Seq(C)
  BY <1>1, <1>3
<1> HIDE DEF head, tail, a, text0
<1>5. /\ a \in Seq(C) /\ Len(a) = 2 + Len(tail) /\ a[1] = Dash /\ a[2] = c.val
      /\ \A k \in 1 .. Len(tail) : a[2 + k] = tail[k]
  <2>1. /\ a \in Seq(C) /\ Len(a) = Len(head) + Len(tail) /\ \A k \in 1 .. Len(head) : a[k] = head[k]
        /\ \A k \in 1 .. Len(tail) : a[Len(head) + k] = tail[k]
    <3>1. head \o tail \in Seq(C) /\ IsConcat(head \o tail, head, tail, Len(head), Len(tail))
      BY <1>2, <1>b, ConcatIs
    <3> QED
      BY <1>4, <3>1, Zenon DEF IsConcat
  <2>2. 1 \in 1 .. Len(head) /\ 2 \in 1 .. Len(head)
    BY <1>2
  <2> QED
    BY <1>2, <2>1, <2>2
<1>6. param = c.param
  <2>1. CASE ~c.param.given
    <3>1. Len(a) = 2 /\ c.param = NoParam
      BY <1>1, <1>3, <1>5, <2>1 DEF Params
    <3> QED
      BY <3>1
  <2>2. CASE c.param.given
    <3> DEFINE n == Len(text0)
               u == From(a, 4)
    <3>1. n \in Nat /\ Len(tail) = 1 + n /\ Len(a) = 3 + n
      BY <1>1, <1>3, <1>5, <2>2
    <3>2. a[3] = Equal
      <4>1. 1 \in 1 .. Len(tail) /\ 2 + 1 = 3
        BY <3>1
      <4> QED
        BY <1>3, <1>5, <2>2, <4>1
    <3>3. u \in Seq(C) /\ Len(u) = n /\ \A k \in 1 .. n : u[k] = a[3 + k]
      <4>1. 4 \in 1 .. Len(a) + 1 /\ Len(a) + 1 - 4 = n
        BY <3>1
      <4>2. u \in Seq(C) /\ Len(u) = Len(a) + 1 - 4 /\ \A k \in 1 .. Len(a) + 1 - 4 : u[k] = a[4 + k - 1]
        BY <1>5, <4>1, FromIs
      <4>3. \A k \in 1 .. n : 4 + k - 1 = 3 + k
        BY <3>1
      <4> HIDE DEF u, n
      <4> QED
        BY <4>1, <4>2, <4>3
    <3>4. \A k \in 1 .. n : a[3 + k] = text0[k]
      <4>1. \A k \in 1 .. n : 1 + k \in 1 .. Len(tail) /\ 2 + (1 + k) = 3 + k
        BY <3>1
      <4>2. \A k \in 1 .. n : tail[1 + k] = text0[k]
        BY <1>3, <2>2
      <4> HIDE DEF n
      <4> QED
        BY <1>5, <4>1, <4>2
    <3> HIDE DEF u, n
    <3>5. u = text0
      <4>1. Len(text0) = n
        BY DEF n
      <4> QED
        BY <1>b, <3>3, <3>4, <4>1, SeqEqual
    <3>6. c.param = [given |-> TRUE, text |-> text0]
      BY <1>1, <2>2 DEF text0
    <3>7. param = Param(u)
      BY <3>1, <3>2 DEF u
    <3> QED
      BY <3>5, <3>6, <3>7 DEF Param
  <2> QED
    BY <2>1, <2>2
<1>7. PICK o \in options : found = {o} /\ Allows(o, c)
  <2>1. PICK o \in options : Allows(o, c)
    BY <1>1
  <2>2. o.val = a[2] /\ \A q \in options : q.val = a[2] => q = o
    BY <1>5, <2>1 DEF Allows, OptionsOK
  <2> QED
    BY <2>1, <2>2
<1>8. ParseOne(p, a, options, argv, subcmd) = CallOption(p, found, param, argv)
  <2>1. a # <<>> /\ a[1] = Dash /\ Len(a) # 1 /\ a[2] # Dash /\ a[2] # Equal
    BY <1>1, <1>3, <1>5, <1>b
  <2>2. ~(subcmd /\ a = <<Dash, Dash>>)
    BY <2>1
  <2>3. ParseOne(p, a, options, argv, subcmd) = ParseShort(p, a, options, argv)
    BY <2>1, <2>2 DEF ParseOne
  <2> QED
    BY <2>1, <2>3 DEF ParseShort
<1> HIDE DEF found, param
<1>9. CallOption(p, found, c.param, argv) = Called(p, c, 0)
  <2>1. (CHOOSE x \in found : TRUE) = o /\ found # {}
    BY <1>7
  <2>2. ~(o.has = "no" /\ c.param.given) /\ ~(~c.param.given /\ o.has = "required") /\ o.val = c.val
    BY <1>7 DEF Allows
  <2>3. CallOption(p, found, c.param, argv) =
            [p EXCEPT !.calls = Append(@, [val |-> c.val, param |-> c.param]), !.next = @]
    BY <2>1, <2>2 DEF CallOption
  <2>4. [val |-> c.val, param |-> c.param] = c
    BY <1>1
  <2>5. p = [ok |-> p.ok, calls |-> p.calls, rest |-> p.rest, next |-> p.next] /\ p.next + 0 = p.next
    BY DEF Parses
  <2>6. [p EXCEPT !.calls = Append(@, c), !.next = @] =
            [ok |-> p.ok, calls |-> Append(p.calls, c), rest |-> p.rest, next |-> p.next]
    <3> DEFINE w == Append(p.calls, c)
               z == p.next
    <3>1. [p EXCEPT !.calls = Append(@, c), !.next = @] = [p EXCEPT !.calls = w, !.next = z]
      OBVIOUS
    <3> HIDE DEF w, z
    <3>2. [p EXCEPT !.calls = w, !.next = z] = [ok |-> p.ok, calls |-> w, rest |-> p.rest, next |-> z]
      <4> DEFINE q == [p EXCEPT !.calls = w]
      <4>1. q = [ok |-> p.ok, calls |-> w, rest |-> p.rest, next |-> z]
        BY <2>5 DEF z
      <4> HIDE DEF q
      <4>2. [q EXCEPT !.next = z] = [ok |-> p.ok, calls |-> w, rest |-> p.rest, next |-> z]
        BY <4>1
      <4> QED
        BY <4>2 DEF q
    <3> QED
      BY <3>1, <3>2, Zenon DEF w, z
  <2> QED
    BY <2>3, <2>4, <2>5, <2>6 DEF Called
<1> QED
  BY <1>6, <1>8, <1>9 DEF a

LEMMA PrefixGrows ==
    ASSUME NEW X, NEW a \in Seq(X), NEW j \in 1 .. Len(a)
    PROVE  Append(SubSeq(a, 1, j - 1), a[j]) = SubSeq(a, 1, j)
<1> DEFINE u == SubSeq(a, 1, j - 1)
           v == SubSeq(a, 1, j)
           e == a[j]
           w == Append(u, e)
<1>1. /\ u \in Seq(X) /\ Len(u) = j - 1 /\ \A k \in 1 .. j - 1 : u[k] = a[k]
      /\ v \in Seq(X) /\ Len(v) = j /\ \A k \in 1 .. j : v[k] = a[k]
  <2>1. j - 1 \in 0 .. Len(a) /\ j \in 0 .. Len(a)
    OBVIOUS
  <2> QED
    BY <2>1, PrefixIs
<1>2. e \in X /\ j \in Nat \ {0} /\ j - 1 + 1 = j
  BY ElementOfSeq
<1> HIDE DEF u, v, w
<1>3. w \in Seq(X) /\ Len(w) = j - 1 + 1 /\ (\A k \in 1 .. j - 1 : w[k] = u[k]) /\ w[j - 1 + 1] = e
  <2> HIDE DEF e
  <2> QED
    BY <1>1, <1>2, AppendProperties DEF w
<1>4. \A k \in 1 .. j : w[k] = v[k]
  <2>1. \A k \in 1 .. j : k \in 1 .. j - 1 \/ k = j
    BY <1>2
  <2> QED
    BY <1>1, <1>2, <1>3, <2>1
<1>5. w = v
  BY <1>1, <1>2, <1>3, <1>4, SeqEqual
<1> QED
  BY <1>5 DEF u, v, w

LEMMA PrefixEnds ==
    ASSUME NEW X, NEW a \in Seq(X)
    PROVE  SubSeq(a, 1, 0) = <<>> /\ SubSeq(a, 1, Len(a)) = a
<1>1. 0 \in 0 .. Len(a) /\ Len(a) \in 0 .. Len(a)
  OBVIOUS
<1> DEFINE u == SubSeq(a, 1, 0)
           v == SubSeq(a, 1, Len(a))
<1>2. u \in Seq(X) /\ Len(u) = 0
  BY <1>1, PrefixIs
<1>3. v \in Seq(X) /\ Len(v) = Len(a) /\ \A k \in 1 .. Len(a) : v[k] = a[k]
  BY <1>1, PrefixIs
<1> HIDE DEF u, v
<1>4. u = <<>>
  BY <1>2
<1>5. v = a
  BY <1>3, SeqEqual
<1> QED
  BY <1>4, <1>5 DEF u, v

\* Calls and rest, written out again as arguments, and the parse they come to.
Rewrites(q, calls, rest, subcmd) ==
    /\ Len(q) = Len(calls) + (IF subcmd THEN 1 ELSE 0) + Len(rest)
    /\ \A i \in 1 .. Len(calls) : q[i] = Written(calls[i])
    /\ subcmd => q[Len(calls) + 1] = DashDash /\ From(q, Len(calls) + 2) = rest
    /\ ~subcmd => \A i \in 1 .. Len(rest) : q[Len(calls) + i] = rest[i]
AllPlain(rest) == \A k \in 1 .. Len(rest) : Plain(rest[k])
SoFar(calls, rest, next) == [ok |-> TRUE, calls |-> calls, rest |-> rest, next |-> next]

LEMMA ParseRewritten ==
    ASSUME NEW C, {Dash, Equal} \subseteq C, NEW options, OptionsOK(options, C),
           NEW calls \in Seq(Calls(options, C)), NEW rest \in Seq(Seq(C)), NEW subcmd \in BOOLEAN,
           NEW q \in Seq(Seq(C)), Rewrites(q, calls, rest, subcmd), ~subcmd => AllPlain(rest)
    PROVE  ParseTurns(q, options, subcmd)[Len(q)] = SoFar(calls, rest, Len(q) + 1)
<1> DEFINE N == Len(q)
           m == Len(calls)
           l == Len(rest)
           T == ParseTurns(q, options, subcmd)
           Expected(i) == IF i <= m THEN SoFar(SubSeq(calls, 1, i), <<>>, i + 1)
                          ELSE IF subcmd THEN SoFar(calls, rest, N + 1)
                          ELSE SoFar(calls, SubSeq(rest, 1, i - m), i + 1)
           S == {i \in 0 .. N : T[i] = Expected(i)}
<1>1. /\ N \in Nat /\ m \in Nat /\ l \in Nat /\ (subcmd => N = m + 1 + l) /\ (~subcmd => N = m + l)
      /\ m <= N
  BY DEF Rewrites
<1>2. /\ T[0] = ParseStart
      /\ \A i \in 1 .. N : T[i] = ParseTurn(T[i - 1], i, q, options, subcmd)
      /\ \A i \in 0 .. N : T[i] \in Parses(options, C)
  BY TurnsAre
<1>3. /\ SubSeq(calls, 1, 0) = <<>> /\ SubSeq(calls, 1, m) = calls
      /\ SubSeq(rest, 1, 0) = <<>> /\ SubSeq(rest, 1, l) = rest
  <2>1. SubSeq(calls, 1, 0) = <<>> /\ SubSeq(calls, 1, Len(calls)) = calls
    BY PrefixEnds
  <2>2. SubSeq(rest, 1, 0) = <<>> /\ SubSeq(rest, 1, Len(rest)) = rest
    BY PrefixEnds
  <2> QED
    BY <2>1, <2>2
<1>4. ASSUME NEW i \in 1 .. N, NEW p \in Parses(options, C), p = Expected(i - 1)
      PROVE  ParseTurn(p, i, q, options, subcmd) = Expected(i)
  <2> DEFINE r == ParseTurn(p, i, q, options, subcmd)
             a == q[i]
  <2>1. i \in 1 .. Len(q) /\ i \in Nat \ {0} /\ i - 1 + 1 = i /\ i + 1 + 0 = i + 1
    BY <1>1
  <2>2. CASE i <= m
    <3> DEFINE c == calls[i]
               u == SubSeq(calls, 1, i - 1)
    <3>1. i \in 1 .. m /\ i - 1 <= m /\ c \in Calls(options, C)
      BY <2>1, <2>2, ElementOfSeq
    <3>2. p = SoFar(u, <<>>, i)
      BY <1>4, <2>1, <3>1
    <3>3. a = Written(c)
      BY <3>1 DEF Rewrites
    <3>4. p.ok = TRUE /\ p.calls = u /\ p.rest = <<>> /\ p.next = i /\ ~(i < p.next)
      <4> HIDE DEF u
      <4> QED
        BY <2>1, <3>2 DEF SoFar
    <3> HIDE DEF c, u
    <3>5. ~Plain(a) /\ a # DashDash
      BY <3>1, <3>3, WrittenIs
    <3>6. r = ParseOne(Passed(p, i), a, options, q, subcmd) /\ Passed(p, i) \in Parses(options, C)
      BY <2>1, <3>4, <3>5, TurnIs
    <3>7. r = Called(Passed(p, i), c, 0)
      <4> HIDE DEF a, r
      <4> QED
        BY <3>1, <3>3, <3>6, CallWritten
    <3>8. Append(u, c) = SubSeq(calls, 1, i)
      <4>1. i \in 1 .. Len(calls)
        BY <3>1
      <4> QED
        BY <4>1, PrefixGrows DEF u, c
    <3>9. r = SoFar(SubSeq(calls, 1, i), <<>>, i + 1)
      <4> HIDE DEF a, r
      <4>1. Passed(p, i) = [ok |-> TRUE, calls |-> u, rest |-> <<>>, next |-> i + 1]
        BY <3>4 DEF Passed
      <4> QED
        <5> DEFINE v == SubSeq(calls, 1, i)
        <5>1. Append(u, c) = v
          BY <3>8
        <5> HIDE DEF v
        <5>2. r = [ok |-> TRUE, calls |-> v, rest |-> <<>>, next |-> i + 1 + 0]
          <6> DEFINE s == Passed(p, i)
          <6>1. r = Called(s, c, 0) /\ s = [ok |-> TRUE, calls |-> u, rest |-> <<>>, next |-> i + 1]
            BY <3>7, <4>1
          <6> HIDE DEF s
          <6>2. s.ok = TRUE /\ s.calls = u /\ s.rest = <<>> /\ s.next = i + 1
            BY <6>1
          <6> QED
            BY <5>1, <6>1, <6>2, Zenon DEF Called
        <5> QED
          BY <2>1, <5>2 DEF SoFar, v
    <3> QED
      BY <2>2, <3>9
  <2>3. ASSUME ~(i <= m), i - 1 <= m PROVE i = m + 1 /\ p = SoFar(calls, <<>>, i)
    <3>1. i = m + 1 /\ i - 1 = m
      BY <1>1, <2>1, <2>3
    <3>2. p = SoFar(SubSeq(calls, 1, i - 1), <<>>, i - 1 + 1)
      BY <1>4, <2>3
    <3> QED
      BY <1>3, <2>1, <3>1, <3>2
  <2>4. CASE subcmd /\ i = m + 1
    <3>1. ~(i <= m) /\ i - 1 <= m
      BY <1>1, <2>4
    <3>2. p = SoFar(calls, <<>>, i)
      BY <2>3, <3>1
    <3>3. p.ok = TRUE /\ p.calls = calls /\ p.next = i /\ ~(i < p.next)
      BY <2>1, <3>2 DEF SoFar
    <3>4. a = DashDash /\ From(q, i + 1) = rest
      <4>1. i + 1 = m + 2
        BY <1>1, <2>4
      <4> QED
        BY <2>4, <4>1 DEF Rewrites
    <3>5. r = Ended(p, From(q, i + 1), N)
      <4>1. p.ok /\ ~(i < p.next) => (subcmd /\ q[i] = DashDash =>
                ParseTurn(p, i, q, options, subcmd) = Ended(p, From(q, i + 1), Len(q)))
        <5>1. p.ok /\ ~(i < p.next) =>
                  /\ subcmd /\ q[i] = DashDash =>
                        ParseTurn(p, i, q, options, subcmd) = Ended(p, From(q, i + 1), Len(q))
                  /\ subcmd /\ Plain(q[i]) =>
                        ParseTurn(p, i, q, options, subcmd) = Ended(p, From(q, i), Len(q))
          BY <2>1, TurnIs
        <5> QED
          BY <5>1, Zenon
      <4> QED
        BY <2>4, <3>3, <3>4, <4>1, Zenon
    <3>6. r = SoFar(calls, rest, N + 1)
      <4> HIDE DEF r
      <4> QED
        BY <3>3, <3>4, <3>5 DEF Ended, SoFar
    <3> QED
      BY <2>4, <3>1, <3>6
  <2>5. CASE subcmd /\ ~(i <= m) /\ i # m + 1
    <3>1. ~(i - 1 <= m) /\ i < N + 1
      BY <1>1, <2>1, <2>5
    <3>2. p = SoFar(calls, rest, N + 1)
      BY <1>4, <2>5, <3>1
    <3>3. i < p.next
      BY <3>1, <3>2 DEF SoFar
    <3>4. r = p
      BY <2>1, <3>3, TurnIs
    <3> QED
      BY <2>5, <3>2, <3>4
  <2>6. CASE ~subcmd /\ ~(i <= m)
    <3> DEFINE j == i - m
               u == SubSeq(rest, 1, j - 1)
    <3>1. j \in 1 .. l /\ m + j = i /\ j - 1 = i - 1 - m /\ (i - 1 <= m => j - 1 = 0)
      <4>1. /\ N \in Nat /\ m \in Nat /\ l \in Nat /\ N = m + l /\ i \in Nat \ {0} /\ i <= N /\ ~(i <= m)
        BY <1>1, <2>1, <2>6
      <4> HIDE DEF N, m, l
      <4> QED
        BY <4>1
    <3>2. p = SoFar(calls, u, i)
      <4>1. CASE i - 1 <= m
        BY <1>3, <2>3, <2>6, <3>1, <4>1
      <4>2. CASE ~(i - 1 <= m)
        <5>1. p = SoFar(calls, SubSeq(rest, 1, i - 1 - m), i - 1 + 1)
          BY <1>4, <2>6, <4>2
        <5> QED
          BY <2>1, <3>1, <5>1
      <4> QED
        BY <4>1, <4>2
    <3> HIDE DEF j
    <3>3. a = rest[j] /\ Plain(rest[j])
      <4>1. q[m + j] = rest[j]
        BY <2>6, <3>1 DEF Rewrites
      <4>2. Plain(rest[j])
        BY <2>6, <3>1 DEF AllPlain
      <4> QED
        BY <3>1, <4>1, <4>2
    <3> HIDE DEF u
    <3>4. p.ok = TRUE /\ p.calls = calls /\ p.rest = u /\ p.next = i /\ ~(i < p.next)
      BY <2>1, <3>2 DEF SoFar
    <3>5. r = More(p, i, a)
      <4>1. p.ok /\ ~(i < p.next) => (~subcmd /\ Plain(q[i]) =>
                ParseTurn(p, i, q, options, subcmd) = More(p, i, q[i]))
        BY <2>1, TurnIs
      <4>2. Plain(q[i])
        BY <3>3
      <4>3. p.ok
        BY <3>4
      <4> QED
        BY <2>6, <3>4, <4>1, <4>2, <4>3, Zenon
    <3>6. Append(u, rest[j]) = SubSeq(rest, 1, j)
      <4>1. j \in 1 .. Len(rest)
        BY <3>1
      <4> QED
        BY <4>1, PrefixGrows DEF u
    <3>7. r = SoFar(calls, SubSeq(rest, 1, j), i + 1)
      <4> HIDE DEF r, a
      <4> QED
        BY <3>3, <3>4, <3>5, <3>6 DEF More, SoFar
    <3> QED
      BY <2>6, <3>7 DEF j
  <2> QED
    BY <2>2, <2>4, <2>5, <2>6
<1> HIDE DEF T, N
<1>5. 0 \in S
  <2>1. 0 \in 0 .. N /\ 0 <= m /\ 0 + 1 = 1
    BY <1>1
  <2>2. Expected(0) = SoFar(<<>>, <<>>, 1)
    BY <1>3, <2>1
  <2>3. T[0] = Expected(0)
    <3> HIDE DEF Expected
    <3> QED
      BY <1>2, <2>2 DEF ParseStart, SoFar
  <2> HIDE DEF Expected
  <2> QED
    BY <2>1, <2>3
<1>6. ASSUME NEW k \in 0 .. N - 1, k \in S PROVE k + 1 \in S
  <2> HIDE DEF Expected
  <2>1. k + 1 \in 1 .. N
    BY <1>1
  <2>2. PICK i \in 1 .. N : i = k + 1
    BY <2>1
  <2>3. i - 1 = k /\ i - 1 \in 0 .. N /\ i \in 0 .. N
    BY <1>1, <2>2
  <2>4. T[k] = Expected(i - 1) /\ T[k] \in Parses(options, C)
    BY <1>2, <1>6, <2>3
  <2>5. T[i] = ParseTurn(T[k], i, q, options, subcmd)
    BY <1>2, <2>3
  <2>6. T[i] = Expected(i)
    BY <1>4, <2>4, <2>5
  <2> QED
    BY <2>2, <2>3, <2>6
<1>7. T[N] = Expected(N)
  <2> HIDE DEF Expected
  <2>1. 0 .. N \subseteq S
    <3> HIDE DEF S
    <3> QED
      BY <1>1, <1>5, <1>6, Induction
  <2>2. N \in 0 .. N
    BY <1>1
  <2> QED
    BY <2>1, <2>2
<1>8. Expected(N) = SoFar(calls, rest, N + 1)
  <2>1. CASE N <= m
    <3>1. N = m /\ l = 0
      BY <1>1, <2>1
    <3>2. rest = <<>>
      BY <3>1
    <3> QED
      BY <1>3, <2>1, <3>1, <3>2
  <2>2. CASE ~(N <= m) /\ ~subcmd
    <3>1. N - m = l
      BY <1>1, <2>2
    <3> QED
      BY <1>3, <2>2, <3>1
  <2> QED
    BY <2>1, <2>2
<1> QED
  BY <1>7, <1>8 DEF T, N

\* What a command line is written out as again.
Again(p, subcmd) ==
    [i \in 1 .. Len(p.calls) |-> Written(p.calls[i])] \o (IF subcmd THEN << <<Dash, Dash>> >> ELSE <<>>) \o p.rest

LEMMA AgainIs ==
    ASSUME NEW C, {Dash, Equal} \subseteq C, NEW options, OptionsOK(options, C),
           NEW p \in Parses(options, C), NEW subcmd \in BOOLEAN
    PROVE  Again(p, subcmd) \in Seq(Seq(C)) /\ Rewrites(Again(p, subcmd), p.calls, p.rest, subcmd)
<1> DEFINE X == Seq(C)
           w == [i \in 1 .. Len(p.calls) |-> Written(p.calls[i])]
           d == IF subcmd THEN << <<Dash, Dash>> >> ELSE <<>>
           b == w \o d
           q == b \o p.rest
           m == Len(p.calls)
           e == IF subcmd THEN 1 ELSE 0
           rest == p.rest
           l == Len(rest)
<1>1. p.calls \in Seq(Calls(options, C)) /\ rest \in Seq(X) /\ DashDash \in X
  BY DEF Parses, DashDash
<1>2. m \in Nat /\ l \in Nat /\ e \in Nat
  BY <1>1
<1>3. w \in Seq(X) /\ Len(w) = m /\ \A i \in 1 .. m : w[i] = Written(p.calls[i])
  <2>1. \A i \in 1 .. m : Written(p.calls[i]) \in X
    <3>1. \A i \in 1 .. m : p.calls[i] \in Calls(options, C)
      BY <1>1, ElementOfSeq
    <3> QED
      BY <3>1, WrittenIs
  <2> HIDE DEF X
  <2> QED
    BY <1>2, <2>1
<1>4. /\ d \in Seq(X) /\ Len(d) = e /\ (subcmd => d[1] = DashDash)
  <2> DEFINE z == <<Dash, Dash>>
  <2>1. z \in X /\ z = DashDash
    BY <1>1 DEF DashDash
  <2> HIDE DEF X, z
  <2>2. <<z>> \in Seq(X) /\ Len(<<z>>) = 1 /\ <<z>>[1] = DashDash /\ <<>> \in Seq(X) /\ Len(<<>>) = 0
    BY <2>1
  <2> QED
    BY <2>2 DEF z
<1>5. Again(p, subcmd) = q
  BY DEF Again
<1> HIDE DEF w, d, X, rest, m, e, l
<1>6. b \in Seq(X) /\ IsConcat(b, w, d, m, e)
  BY <1>3, <1>4, ConcatIs
<1> HIDE DEF b
<1>7. Len(b) = m + e
  BY <1>6 DEF IsConcat
<1>8. q \in Seq(X) /\ IsConcat(q, b, rest, m + e, l)
  <2>1. b \o rest \in Seq(X) /\ IsConcat(b \o rest, b, rest, Len(b), Len(rest))
    BY <1>1, <1>6, ConcatIs
  <2> QED
    BY <1>7, <2>1 DEF rest, l
<1> HIDE DEF q
<1>9. Len(q) = m + e + l
  BY <1>8 DEF IsConcat
<1>10. \A i \in 1 .. m : q[i] = Written(p.calls[i])
  <2>1. \A i \in 1 .. m : i \in 1 .. m + e
    BY <1>2
  <2>2. (\A k \in 1 .. m + e : q[k] = b[k]) /\ (\A k \in 1 .. m : b[k] = w[k])
    BY <1>6, <1>8 DEF IsConcat
  <2> QED
    BY <1>3, <2>1, <2>2
<1>11. ASSUME subcmd PROVE q[m + 1] = DashDash /\ From(q, m + 2) = rest
  <2>1. e = 1 /\ m + 1 \in 1 .. m + e /\ 1 \in 1 .. e
    BY <1>2, <1>11 DEF e
  <2>2. q[m + 1] = b[m + 1]
    BY <1>8, <2>1 DEF IsConcat
  <2>3. b[m + 1] = d[1]
    BY <1>6, <2>1 DEF IsConcat
  <2> DEFINE u == From(q, m + 2)
  <2>4. m + 2 \in 1 .. Len(q) + 1 /\ Len(q) + 1 - (m + 2) = l
    BY <1>2, <1>9, <2>1
  <2>5. u \in Seq(X) /\ Len(u) = l /\ \A k \in 1 .. l : u[k] = q[m + 2 + k - 1]
    <3>1. /\ u \in Seq(X) /\ Len(u) = Len(q) + 1 - (m + 2)
          /\ \A k \in 1 .. Len(q) + 1 - (m + 2) : u[k] = q[m + 2 + k - 1]
      BY <1>8, <2>4, FromIs
    <3> QED
      BY <2>4, <3>1, Zenon
  <2>6. \A k \in 1 .. l : q[m + 2 + k - 1] = rest[k]
    <3>1. \A k \in 1 .. l : m + 2 + k - 1 = m + e + k
      BY <1>2, <2>1
    <3>2. \A k \in 1 .. l : q[m + e + k] = rest[k]
      BY <1>8 DEF IsConcat
    <3> QED
      BY <3>1, <3>2
  <2> HIDE DEF u
  <2>7. Len(rest) = l
    BY DEF l
  <2>8. u = rest
    BY <1>1, <2>5, <2>6, <2>7, SeqEqual
  <2> QED
    BY <1>4, <1>11, <2>2, <2>3, <2>8 DEF u
<1>12. ASSUME ~subcmd PROVE \A i \in 1 .. l : q[m + i] = rest[i]
  <2>1. m + e = m
    BY <1>2, <1>12 DEF e
  <2> QED
    BY <1>8, <2>1 DEF IsConcat
<1>13. Rewrites(q, p.calls, p.rest, subcmd)
  BY <1>9, <1>10, <1>11, <1>12 DEF Rewrites, m, e, l, rest
<1> QED
  BY <1>5, <1>8, <1>13 DEF X

\* Every argument of every command line is used once, whatever the options are, if
\* they are told apart by their letters.
THEOREM EveryArgumentUsed ==
    ASSUME NEW C, {Dash, Equal} \subseteq C, NEW options, OptionsOK(options, C),
           NEW argv \in Seq(Seq(C)), NEW subcmd \in BOOLEAN
    PROVE  ArgumentsUsedOnce(argv, options, subcmd)
<1> SUFFICES ASSUME argv # <<>>, Execute(argv, options, subcmd).ok PROVE ArgumentsUsedOnce(argv, options, subcmd)
  BY Zenon DEF ArgumentsUsedOnce
<1> DEFINE n == Len(argv)
           f == Front(argv)
           P == ParseTurns(argv, options, subcmd)
           Q == ParseTurns(f, options, subcmd)
           p == P[n]
           before == Q[n - 1]
           q == Again(p, subcmd)
           a == Execute(q, options, subcmd)
<1>1. /\ n \in Nat \ {0} /\ f \in Seq(Seq(C)) /\ n = Len(f) + 1 /\ Len(f) = n - 1
  BY FrontIs
<1>2. p = Execute(argv, options, subcmd) /\ before = Execute(f, options, subcmd) /\ p.ok
  BY <1>1 DEF Execute
<1>3. /\ \A i \in 1 .. n : P[i] = ParseTurn(P[i - 1], i, argv, options, subcmd)
      /\ \A i \in 0 .. n : P[i] \in Parses(options, C) /\ Parsed(P[i], i, n, subcmd)
  BY TurnsAre
<1>4. \A i \in 0 .. Len(f) : Q[i] \in Parses(options, C) /\ Parsed(Q[i], i, Len(f), subcmd)
  <2> HIDE DEF f
  <2> QED
    BY <1>1, TurnsAre
<1>5. SameParse(P[n - 1], Q[n - 1], Last(argv), n, Calls(options, C))
  BY SameParses
<1> HIDE DEF P, Q, n
<1>6. /\ n \in 1 .. n /\ n \in 0 .. n /\ n - 1 \in 0 .. n /\ n - 1 \in 0 .. Len(f)
  BY <1>1
<1>7. /\ p = ParseTurn(P[n - 1], n, argv, options, subcmd) /\ p \in Parses(options, C) /\ Parsed(p, n, n, subcmd)
      /\ P[n - 1] \in Parses(options, C) /\ Parsed(P[n - 1], n - 1, n, subcmd)
      /\ before \in Parses(options, C) /\ Parsed(before, n - 1, n - 1, subcmd)
  <2> HIDE DEF f
  <2> QED
    BY <1>1, <1>3, <1>4, <1>6
<1>8. UsedLast(p, before, Last(argv), subcmd)
  <2> DEFINE s == P[n - 1]
  <2>1. /\ s \in Parses(options, C) /\ before \in Parses(options, C)
        /\ SameParse(s, before, Last(argv), Len(argv), Calls(options, C))
        /\ Parsed(s, Len(argv) - 1, Len(argv), subcmd) /\ Parsed(before, Len(argv) - 1, Len(argv) - 1, subcmd)
        /\ ParseTurn(s, Len(argv), argv, options, subcmd).ok
        /\ p = ParseTurn(s, Len(argv), argv, options, subcmd)
    BY <1>2, <1>5, <1>7 DEF n
  <2> HIDE DEF s, before, p
  <2> QED
    BY <2>1, LastTurn
<1> HIDE DEF p, before, f
<1>9. q \in Seq(Seq(C)) /\ Rewrites(q, p.calls, p.rest, subcmd)
  BY <1>7, AgainIs
<1>10. a = SoFar(p.calls, p.rest, Len(q) + 1)
  <2>1. p.calls \in Seq(Calls(options, C)) /\ p.rest \in Seq(Seq(C)) /\ (~subcmd => AllPlain(p.rest))
    BY <1>7 DEF Parses, Parsed, AllPlain
  <2>2. a = ParseTurns(q, options, subcmd)[Len(q)]
    BY DEF Execute
  <2> DEFINE calls == p.calls
             rest == p.rest
  <2> HIDE DEF q, calls, rest, a
  <2>3. ParseTurns(q, options, subcmd)[Len(q)] = SoFar(calls, rest, Len(q) + 1)
    BY <1>9, <2>1, ParseRewritten DEF calls, rest
  <2> QED
    BY <2>2, <2>3 DEF calls, rest
<1>11. a.ok /\ a.calls = p.calls /\ a.rest = p.rest
  <2> HIDE DEF a
  <2> QED
    BY <1>10 DEF SoFar
<1> QED
  BY <1>2, <1>8, <1>11, Zenon DEF ArgumentsUsedOnce, UsedLast, Used, a, q, Again, f

\* A sequence of some is a sequence of more.
LEMMA Wider ==
    ASSUME NEW X, NEW Y, X \subseteq Y, NEW s \in Seq(X)
    PROVE  s \in Seq(Y)
<1>1. Len(s) \in Nat /\ s = [i \in 1 .. Len(s) |-> s[i]] /\ \A i \in 1 .. Len(s) : s[i] \in Y
  BY ElementOfSeq
<1> QED
  BY <1>1

\* The characters of the options.
OptionChars == {"R", "L", "D", "h", "v", "J", "F", "A", "o", "p", "r", "l", "d", "j", "f", "a"}

LEMMA OptionsAreOK ==
    ASSUME NEW C, OptionChars \subseteq C
    PROVE  OptionsOK(Options, C)
<1> DEFINE Of(v) == IF v = "R" THEN BlastOption("R", <<"r">>) ELSE IF v = "L" THEN BlastOption("L", <<"l">>)
                    ELSE IF v = "D" THEN BlastOption("D", <<"d">>) ELSE IF v = "h" THEN BlastOption("h", <<"h">>)
                    ELSE IF v = "v" THEN BlastOption("v", <<"v">>) ELSE IF v = "J" THEN BlastOption("J", <<"j">>)
                    ELSE IF v = "F" THEN BlastOption("F", <<"f">>) ELSE IF v = "A" THEN BlastOption("A", <<"a">>)
                    ELSE IF v = "o" THEN [val |-> "o", name |-> <<"o">>, has |-> "required"]
                    ELSE [val |-> "p", name |-> <<"p", "p">>, has |-> "optional"]
           W == C \ {Dash, Equal}
           K == [val : W, name : Seq(C), has : {"no", "required", "optional"}]
<1>1. \A o \in Options : o = Of(o.val)
  BY DEF Options, BlastOptions, BlastOption
<1>2. \A v \in OptionChars : v \in C /\ v # Dash /\ v # Equal
  BY DEF OptionChars, Dash, Equal
<1>3. ASSUME NEW v \in W, NEW name \in Seq(C), NEW has \in {"no", "required", "optional"}
      PROVE  [val |-> v, name |-> name, has |-> has] \in K
  OBVIOUS
<1>4. \A v \in OptionChars : v \in W /\ <<v>> \in Seq(C)
  BY <1>2
<1>5. <<"p", "p">> \in Seq(C)
  BY <1>2 DEF OptionChars
<1>6. \A o \in Options : o \in K
  <2> HIDE DEF W, K
  <2>1. ASSUME NEW v \in OptionChars, NEW w \in OptionChars PROVE BlastOption(v, <<w>>) \in K
    BY <1>3, <1>4 DEF BlastOption
  <2>2. [val |-> "o", name |-> <<"o">>, has |-> "required"] \in K
    BY <1>3, <1>4 DEF OptionChars
  <2>3. [val |-> "p", name |-> <<"p", "p">>, has |-> "optional"] \in K
    BY <1>3, <1>4, <1>5 DEF OptionChars
  <2>4. BlastOptions \subseteq K
    BY <2>1, Zenon DEF BlastOptions, OptionChars
  <2> QED
    BY <2>2, <2>3, <2>4, Zenon DEF Options
<1> HIDE DEF Of
<1>7. \A o, q \in Options : o.val = q.val => o = q
  BY <1>1, Zenon
<1> QED
  BY <1>6, <1>7 DEF OptionsOK

\* Every argument typed for the programs that take options is used once, however many
\* there are and whatever they are.
THEOREM TypedUsedOnce == ProgramsSpec => []UsedOnce
<1>1. TextOK => UsedOnce
  <2> SUFFICES ASSUME TextOK PROVE UsedOnce
    OBVIOUS
  <2> DEFINE C == STRING \cup OptionChars \cup {Dash, Equal}
  <2>1. STRING \subseteq C /\ OptionChars \subseteq C /\ {Dash, Equal} \subseteq C
    OBVIOUS
  <2> HIDE DEF C
  <2>2. text \in Seq(Seq(C))
    <3>1. Seq(STRING) \subseteq Seq(C)
      BY <2>1, Wider
    <3> QED
      BY <3>1, Wider DEF TextOK
  <2>3. OptionsOK(Options, C)
    BY <2>1, OptionsAreOK
  <2>4. \A subcmd \in BOOLEAN : ArgumentsUsedOnce(text, Options, subcmd)
    BY <2>1, <2>2, <2>3, EveryArgumentUsed
  <2> QED
    BY <2>4, Zenon DEF UsedOnce
<1> QED
  BY <1>1, TextType, PTL
=============================================================================
