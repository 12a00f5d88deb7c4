----------------------------- MODULE PathProofs -----------------------------
(***************************************************************************)
(* Theorems about the paths of sources/, of any length: Paths.             *)
(***************************************************************************)
EXTENDS ArgvProofs

-----------------------------------------------------------------------------
(* The names of a path.                                                    *)

\* Names of characters C: none is empty, none holds a separator.
NameChars(C) == C \ Seps
NameSet(C) == Seq(NameChars(C)) \ {<<>>}
Readings(C) == [names : Seq(NameSet(C)), name : Seq(NameChars(C))]
NoNames == [names |-> <<>>, name |-> <<>>]

\* The names read so far are names.
LEMMA WithNameType ==
    ASSUME NEW C, NEW r \in Readings(C)
    PROVE  WithName(r) \in Seq(NameSet(C))
<1> DEFINE X == NameSet(C)
           W == Seq(NameChars(C))
<1>1. r.names \in Seq(X) /\ r.name \in W
  BY DEF Readings
<1>2. r.name # <<>> => r.name \in X
  BY <1>1 DEF NameSet
<1> HIDE DEF X, W
<1>3. r.name # <<>> => Append(r.names, r.name) \in Seq(X)
  BY <1>1, <1>2, AppendProperties
<1> QED
  BY <1>1, <1>3 DEF WithName, X

\* One more character: a separator ends the name, any other character is part of it.
LEMMA NamesTurnType ==
    ASSUME NEW C, NEW r \in Readings(C), NEW c \in C
    PROVE  /\ NamesTurn(r, c) \in Readings(C)
           /\ IsSep(c) => NamesTurn(r, c).names = WithName(r) /\ NamesTurn(r, c).name = <<>>
           /\ ~IsSep(c) => /\ NamesTurn(r, c).names = r.names /\ NamesTurn(r, c).name = Append(r.name, c)
                           /\ c \in NameChars(C)
<1> DEFINE t == NamesTurn(r, c)
           X == Seq(NameSet(C))
           N == NameChars(C)
           W == Seq(N)
<1>1. r.names \in X /\ r.name \in W /\ WithName(r) \in X
  BY WithNameType DEF Readings
<1>2. CASE IsSep(c)
  <2> DEFINE u == WithName(r)
  <2>1. t = [names |-> u, name |-> <<>>]
    BY <1>2 DEF NamesTurn
  <2>2. u \in X /\ <<>> \in W
    BY <1>1
  <2> HIDE DEF u, t, X, W
  <2>3. t \in [names : X, name : W] /\ t.names = u /\ t.name = <<>>
    BY <2>1, <2>2
  <2> QED
    BY <1>2, <2>3 DEF Readings, X, W, u, t
<1>3. CASE ~IsSep(c)
  <2> DEFINE u == Append(r.name, c)
             v == r.names
  <2>1. t = [names |-> v, name |-> u]
    BY <1>3 DEF NamesTurn
  <2>2. c \in N
    BY <1>3 DEF NameChars, IsSep
  <2>3. u \in W
    <3> HIDE DEF N
    <3> QED
      BY <1>1, <2>2, AppendProperties
  <2> HIDE DEF u, t, X, W
  <2>4. v \in X
    BY <1>1
  <2> HIDE DEF v
  <2>5. t \in [names : X, name : W] /\ t.names = v /\ t.name = u
    BY <2>1, <2>3, <2>4
  <2> QED
    BY <1>3, <2>2, <2>5 DEF Readings, X, W, u, v, t
<1> QED
  BY <1>2, <1>3

\* NamesRead goes character by character.
LEMMA NamesReadIs ==
    ASSUME NEW C, NEW p \in Seq(C)
    PROVE  /\ NamesRead(p)[0] = NoNames
           /\ \A i \in 1 .. Len(p) : NamesRead(p)[i] = NamesTurn(NamesRead(p)[i - 1], p[i])
           /\ \A i \in 0 .. Len(p) : NamesRead(p)[i] \in Readings(C)
<1> DEFINE n == Len(p)
           T == Readings(C)
           Turn(r, i) == NamesTurn(r, p[i])
           step == [x \in T \X (1 .. n) |-> Turn(x[1], x[2])]
           Is(g) == g = [i \in 0 .. n |-> IF i = 0 THEN NoNames ELSE Turn(g[i - 1], i)]
           turn == CHOOSE g : Is(g)
<1>1. n \in Nat
  OBVIOUS
<1>2. NamesRead(p) = turn
  BY DEF NamesRead, NoNames
<1>3. NoNames \in T
  BY DEF NoNames, Readings
<1>4. ASSUME NEW r \in T, NEW i \in 1 .. n PROVE Turn(r, i) \in T
  <2>1. p[i] \in C
    BY ElementOfSeq
  <2> QED
    BY <2>1, NamesTurnType
<1> HIDE DEF Turn, T, n
<1>5. PICK f \in [0 .. n -> T] : Recurs(f, NoNames, n, step)
  <2>1. step \in [T \X (1 .. n) -> T]
    BY <1>4
  <2> HIDE DEF step
  <2> QED
    BY <1>1, <1>3, <2>1, Recursion, Zenon
<1>6. f[0] = NoNames /\ \A k \in 1 .. n : f[k] = Turn(f[k - 1], k)
  <2>1. ASSUME NEW k \in 1 .. n PROVE f[k] = Turn(f[k - 1], k)
    <3>1. f[k - 1] \in T
      BY <1>1, <1>5
    <3> QED
      BY <1>5, <3>1 DEF Recurs
  <2> QED
    BY <1>5, <2>1 DEF Recurs
<1>7. Is(f)
  <2>1. f = [k \in 0 .. n |-> f[k]] /\ \A k \in 0 .. n : k = 0 \/ k \in 1 .. n
    BY <1>1, <1>5
  <2> QED
    BY <1>6, <2>1
<1>8. Is(turn)
  <2> HIDE DEF Is
  <2> QED
    BY <1>7, Zenon
<1> HIDE DEF turn
<1>9. turn[0] = NoNames /\ \A k \in 1 .. n : turn[k] = Turn(turn[k - 1], k)
  <2>1. 0 \in 0 .. n /\ \A k \in 1 .. n : k \in 0 .. n /\ k # 0
    BY <1>1
  <2>2. \A k \in 0 .. n : turn[k] = IF k = 0 THEN NoNames ELSE Turn(turn[k - 1], k)
    BY <1>8, Zenon
  <2> QED
    BY <2>1, <2>2
<1> DEFINE S == {k \in 0 .. n : turn[k] \in T}
<1>10. 0 \in S
  <2>1. 0 \in 0 .. n
    BY <1>1
  <2> QED
    BY <1>3, <1>9, <2>1
<1>11. ASSUME NEW k \in 0 .. n - 1, k \in S PROVE k + 1 \in S
  <2>1. k + 1 \in 1 .. n /\ k + 1 \in 0 .. n /\ k + 1 - 1 = k
    BY <1>1
  <2>2. PICK q \in 1 .. n : q = k + 1
    BY <2>1
  <2>3. turn[q] = Turn(turn[k], q) /\ turn[k] \in T
    BY <1>9, <1>11, <2>1, <2>2
  <2>4. turn[q] \in T
    BY <1>4, <2>3
  <2> QED
    BY <2>1, <2>2, <2>4
<1>12. 0 .. n \subseteq S
  <2> HIDE DEF S
  <2> QED
    BY <1>1, <1>10, <1>11, Induction
<1> QED
  BY <1>2, <1>9, <1>12 DEF n, T, Turn

\* The names of a path are names.
LEMMA NamesType ==
    ASSUME NEW C, NEW p \in Seq(C)
    PROVE  Names(p) \in Seq(NameSet(C))
<1>1. Len(p) \in 0 .. Len(p)
  OBVIOUS
<1>2. NamesRead(p)[Len(p)] \in Readings(C)
  BY <1>1, NamesReadIs
<1> QED
  BY <1>2, WithNameType DEF Names

\* Two texts that begin alike are read alike.
LEMMA ReadAlike ==
    ASSUME NEW C, NEW p \in Seq(C), NEW q \in Seq(C), NEW j \in 0 .. Len(p), j <= Len(q),
           \A k \in 1 .. j : p[k] = q[k]
    PROVE  NamesRead(p)[j] = NamesRead(q)[j]
<1> DEFINE f == NamesRead(p)
           g == NamesRead(q)
           S == {k \in 0 .. j : f[k] = g[k]}
<1>1. /\ f[0] = NoNames /\ g[0] = NoNames
      /\ \A i \in 1 .. Len(p) : f[i] = NamesTurn(f[i - 1], p[i])
      /\ \A i \in 1 .. Len(q) : g[i] = NamesTurn(g[i - 1], q[i])
  BY NamesReadIs
<1>2. j \in Nat /\ Len(p) \in Nat /\ Len(q) \in Nat /\ j <= Len(p) /\ 0 \in 0 .. j /\ j \in 0 .. j
  OBVIOUS
<1> HIDE DEF f, g
<1>3. 0 \in S
  BY <1>1, <1>2
<1>4. ASSUME NEW k \in 0 .. j - 1, k \in S PROVE k + 1 \in S
  <2>1. k + 1 \in 1 .. j
    BY <1>2
  <2>2. PICK i \in 1 .. j : i = k + 1
    BY <2>1
  <2>3. i \in 1 .. Len(p) /\ i \in 1 .. Len(q) /\ i \in 0 .. j /\ i - 1 = k
    BY <1>2, <2>2
  <2>4. f[k] = g[k] /\ p[i] = q[i]
    BY <1>4
  <2>5. f[i] = g[i]
    BY <1>1, <2>3, <2>4
  <2> QED
    BY <2>2, <2>3, <2>5
<1>5. 0 .. j \subseteq S
  <2> HIDE DEF S
  <2> QED
    BY <1>2, <1>3, <1>4, Induction
<1> QED
  BY <1>2, <1>5 DEF f, g

\* One more name, read from position j on.
LEMMA ReadName ==
    ASSUME NEW C, NEW q \in Seq(C), NEW n \in NameSet(C), NEW j \in 0 .. Len(q), Len(q) = j + Len(n),
           \A k \in 1 .. Len(n) : q[j + k] = n[k], NamesRead(q)[j].name = <<>>
    PROVE  Names(q) = Append(NamesRead(q)[j].names, n)
<1> DEFINE g == NamesRead(q)
           a == g[j].names
           W == NameChars(C)
           m == Len(n)
           S == {k \in 0 .. m : g[j + k].names = a /\ g[j + k].name = SubSeq(n, 1, k)}
<1>1. n \in Seq(W) /\ n # <<>> /\ j \in Nat /\ m \in Nat /\ Len(q) = j + m
  BY DEF NameSet
<1>2. /\ \A i \in 1 .. Len(q) : g[i] = NamesTurn(g[i - 1], q[i])
      /\ \A i \in 0 .. Len(q) : g[i] \in Readings(C)
  BY NamesReadIs
<1>3. SubSeq(n, 1, 0) = <<>> /\ SubSeq(n, 1, m) = n
  BY <1>1, PrefixEnds
<1>4. a = g[j].names /\ g[j].name = <<>> /\ j + 0 = j /\ 0 \in 0 .. m
  BY <1>1
<1>j. j \in Nat /\ m \in Nat /\ Len(q) = j + m
  BY <1>1
<1>w. \A k \in 1 .. m : q[j + k] = n[k] /\ n[k] \in W
  BY <1>1, ElementOfSeq
<1> HIDE DEF g, m, W
<1> HIDE DEF a
<1>5. 0 \in S
  BY <1>3, <1>4
<1>6. ASSUME NEW k \in 0 .. m - 1, k \in S PROVE k + 1 \in S
  <2>1. k + 1 \in 1 .. m
    BY <1>1
  <2>2. PICK i \in 1 .. m : i = k + 1
    BY <2>1
  <2>3. j + i \in 1 .. Len(q) /\ j + i - 1 = j + k /\ j + k \in 0 .. Len(q) /\ i - 1 = k /\ i \in 0 .. m
    <3>1. k \in Nat /\ k <= m - 1
      BY <1>j
    <3> QED
      <4>1. i \in Nat /\ i >= 1 /\ i <= m /\ i - 1 = k /\ i = k + 1
        BY <1>j, <2>2, <3>1
      <4>2. j + i \in 1 .. Len(q) /\ j + k \in 0 .. Len(q)
        BY <1>j, <3>1, <4>1
      <4>3. j + i - 1 = j + k /\ i \in 0 .. m
        BY <1>j, <3>1, <4>1
      <4> QED
        BY <4>1, <4>2, <4>3
  <2>4. g[j + k] \in Readings(C) /\ g[j + k].names = a /\ g[j + k].name = SubSeq(n, 1, k)
    BY <1>2, <1>6, <2>3
  <2>5. g[j + i] = NamesTurn(g[j + k], n[i])
    BY <1>2, <1>w, <2>3
  <2>6. n[i] \in C /\ ~IsSep(n[i])
    BY <1>w DEF W, NameChars, IsSep
  <2>7. g[j + i].names = a /\ g[j + i].name = Append(SubSeq(n, 1, i - 1), n[i])
    <3> DEFINE r == g[j + k]
    <3>1. r \in Readings(C) /\ r.names = a /\ r.name = SubSeq(n, 1, k)
      BY <2>4
    <3> HIDE DEF r
    <3>2. NamesTurn(r, n[i]).names = r.names /\ NamesTurn(r, n[i]).name = Append(r.name, n[i])
      <4> DEFINE c == n[i]
      <4>1. c \in C /\ ~IsSep(c)
        BY <2>6
      <4> HIDE DEF c
      <4>2. r \in Readings(C)
        BY <3>1
      <4>3. \A D : \A x \in Readings(D), d \in D : ~IsSep(d) => NamesTurn(x, d).names = x.names /\ NamesTurn(x, d).name = Append(x.name, d)
        BY NamesTurnType
      <4> QED
        BY <4>1, <4>2, <4>3, Zenon DEF c
    <3> QED
      BY <2>3, <2>5, <3>1, <3>2 DEF r
  <2>8. Append(SubSeq(n, 1, i - 1), n[i]) = SubSeq(n, 1, i)
    <3>1. i \in 1 .. Len(n)
      BY DEF m
    <3> QED
      BY <1>1, <3>1, PrefixGrows
  <2>9. g[j + i].names = a /\ g[j + i].name = SubSeq(n, 1, i)
    BY <2>7, <2>8
  <2> QED
    BY <2>2, <2>3, <2>9
<1>7. 0 .. m \subseteq S
  <2> HIDE DEF S
  <2> QED
    BY <1>1, <1>5, <1>6, Induction
<1>8. g[j + m].names = a /\ g[j + m].name = n
  BY <1>1, <1>3, <1>7
<1> QED
  BY <1>1, <1>8 DEF Names, WithName, g, a

\* A separator and a name after a path add that name to its names.
LEMMA NamesMore ==
    ASSUME NEW C, NEW u \in Seq(C), NEW v \in Seq(C), NEW n \in NameSet(C),
           Len(v) = Len(u) + 1 + Len(n), \A k \in 1 .. Len(u) : v[k] = u[k],
           IsSep(v[Len(u) + 1]), \A k \in 1 .. Len(n) : v[Len(u) + 1 + k] = n[k]
    PROVE  Names(v) = Append(Names(u), n)
<1> DEFINE j == Len(u)
           r == NamesRead(u)[j]
           g == NamesRead(v)
<1>1. /\ j \in Nat /\ Len(n) \in Nat /\ Len(v) = j + 1 + Len(n) /\ j \in 0 .. j /\ j <= Len(v)
      /\ j + 1 \in 1 .. Len(v) /\ j + 1 \in 0 .. Len(v) /\ j + 1 - 1 = j
  BY DEF NameSet
<1>2. r = g[j]
  <2>1. j \in 0 .. Len(u) /\ j <= Len(v) /\ \A k \in 1 .. j : u[k] = v[k]
    BY <1>1
  <2> HIDE DEF j
  <2> QED
    BY <2>1, ReadAlike
<1>3. g[j + 1] = NamesTurn(r, v[j + 1]) /\ r \in Readings(C)
  <2>1. \A i \in 1 .. Len(v) : g[i] = NamesTurn(g[i - 1], v[i])
    BY NamesReadIs
  <2>2. r \in Readings(C)
    BY <1>1, NamesReadIs
  <2> HIDE DEF g, r, j
  <2> QED
    BY <1>1, <1>2, <2>1, <2>2
<1>4. Names(u) = WithName(r)
  BY DEF Names
<1>5. IsSep(v[j + 1]) /\ v[j + 1] \in C /\ \A k \in 1 .. Len(n) : v[j + 1 + k] = n[k]
  BY <1>1, ElementOfSeq
<1> HIDE DEF g, r, j
<1>6. g[j + 1].names = Names(u) /\ g[j + 1].name = <<>>
  <2> DEFINE c == v[j + 1]
  <2>1. c \in C /\ IsSep(c) /\ g[j + 1] = NamesTurn(r, c)
    BY <1>3, <1>5
  <2> HIDE DEF c
  <2>2. IsSep(c) => NamesTurn(r, c).names = WithName(r) /\ NamesTurn(r, c).name = <<>>
    BY <1>3, <2>1, NamesTurnType
  <2> QED
    BY <1>4, <2>1, <2>2, Zenon
<1>7. Names(v) = Append(g[j + 1].names, n)
  <2> DEFINE i == j + 1
  <2>1. i \in 0 .. Len(v) /\ Len(v) = i + Len(n) /\ (\A k \in 1 .. Len(n) : v[i + k] = n[k]) /\ g[i].name = <<>>
    BY <1>1, <1>5, <1>6
  <2> HIDE DEF i
  <2>2. Names(v) = Append(NamesRead(v)[i].names, n)
    BY <2>1, ReadName DEF g
  <2> QED
    BY <2>2 DEF i, g
<1> QED
  BY <1>6, <1>7

\* The empty path has no name.
LEMMA NamesOfNone == Names(<<>>) = <<>>
<1>1. NamesRead(<<>>)[0] = NoNames
  <2>1. <<>> \in Seq({})
    OBVIOUS
  <2> QED
    BY <2>1, NamesReadIs
<1>2. Len(<<>>) = 0
  OBVIOUS
<1>3. WithName(NoNames) = <<>>
  BY DEF WithName, NoNames
<1> QED
  BY <1>1, <1>2, <1>3 DEF Names

\* A name alone is the only name of its path.
LEMMA NamesOfOne ==
    ASSUME NEW C, NEW n \in NameSet(C)
    PROVE  Names(n) = <<n>>
<1>1. n \in Seq(C) /\ Len(n) \in Nat /\ 0 \in 0 .. Len(n) /\ Len(n) = 0 + Len(n)
  <2>1. n \in Seq(NameChars(C)) /\ NameChars(C) \subseteq C
    BY DEF NameSet, NameChars
  <2>2. n \in Seq(C)
    BY <2>1, Wider
  <2> QED
    BY <2>1, <2>2
<1>2. \A k \in 1 .. Len(n) : n[0 + k] = n[k]
  OBVIOUS
<1>3. NamesRead(n)[0] = NoNames
  BY <1>1, NamesReadIs
<1>4. NamesRead(n)[0].name = <<>> /\ NamesRead(n)[0].names = <<>>
  BY <1>3 DEF NoNames
<1>5. Names(n) = Append(NamesRead(n)[0].names, n)
  BY <1>1, <1>2, <1>4, ReadName
<1> QED
  BY <1>4, <1>5

-----------------------------------------------------------------------------
(* Names put together.                                                     *)

\* A name put to a path: first the path, a backslash, then the name; to the empty path,
\* the name alone.
LEMMA JoinOneIs ==
    ASSUME NEW C, Back \in C, NEW s \in Seq(C), NEW n \in NameSet(C)
    PROVE  /\ JoinOne(s, n) \in Seq(C) /\ n \in Seq(C) /\ n # <<>> /\ (\A k \in 1 .. Len(n) : ~IsSep(n[k]))
           /\ s = <<>> => JoinOne(s, n) = n
           /\ s # <<>> => /\ Len(JoinOne(s, n)) = Len(s) + 1 + Len(n)
                          /\ \A k \in 1 .. Len(s) : JoinOne(s, n)[k] = s[k]
                          /\ JoinOne(s, n)[Len(s) + 1] = Back
                          /\ \A k \in 1 .. Len(n) : JoinOne(s, n)[Len(s) + 1 + k] = n[k]
<1>1. n \in Seq(NameChars(C)) /\ n # <<>> /\ NameChars(C) \subseteq C
  BY DEF NameSet, NameChars
<1>2. n \in Seq(C)
  BY <1>1, Wider
<1>3. \A k \in 1 .. Len(n) : ~IsSep(n[k])
  <2>1. \A k \in 1 .. Len(n) : n[k] \in NameChars(C)
    BY <1>1, ElementOfSeq
  <2> QED
    BY <2>1 DEF NameChars, IsSep
<1>4. CASE s = <<>>
  <2>1. JoinOne(s, n) = <<>> \o n
    BY <1>4 DEF JoinOne
  <2>2. <<>> \o n = n
    BY <1>2
  <2> QED
    BY <1>1, <1>2, <1>3, <1>4, <2>1, <2>2
<1>5. CASE s # <<>>
  <2> DEFINE a == Append(s, Back)
             t == a \o n
  <2>1. a \in Seq(C) /\ Len(a) = Len(s) + 1 /\ (\A k \in 1 .. Len(s) : a[k] = s[k]) /\ a[Len(s) + 1] = Back
    BY AppendProperties
  <2>2. JoinOne(s, n) = t
    BY <1>5 DEF JoinOne
  <2> HIDE DEF a
  <2>3. t \in Seq(C) /\ IsConcat(t, a, n, Len(a), Len(n))
    BY <1>2, <2>1, ConcatIs
  <2> HIDE DEF t
  <2>4. /\ Len(t) = Len(s) + 1 + Len(n) /\ (\A k \in 1 .. Len(s) + 1 : t[k] = a[k])
        /\ \A k \in 1 .. Len(n) : t[Len(s) + 1 + k] = n[k]
    BY <2>1, <2>3 DEF IsConcat
  <2>5. Len(s) \in Nat /\ Len(s) + 1 \in 1 .. Len(s) + 1 /\ \A k \in 1 .. Len(s) : k \in 1 .. Len(s) + 1
    OBVIOUS
  <2>6. t[Len(s) + 1] = Back /\ \A k \in 1 .. Len(s) : t[k] = s[k]
    BY <2>1, <2>4, <2>5
  <2> QED
    BY <1>1, <1>2, <1>3, <1>5, <2>2, <2>3, <2>4, <2>6
<1> QED
  BY <1>4, <1>5

\* Joins puts one name after the other to the root.
LEMMA JoinsAre ==
    ASSUME NEW C, Back \in C, NEW root \in Seq(C), NEW names \in Seq(NameSet(C))
    PROVE  /\ Joins(root, names)[0] = root
           /\ \A i \in 1 .. Len(names) : Joins(root, names)[i] = JoinOne(Joins(root, names)[i - 1], names[i])
           /\ \A i \in 0 .. Len(names) : Joins(root, names)[i] \in Seq(C)
<1> DEFINE n == Len(names)
           T == Seq(C)
           Turn(s, i) == JoinOne(s, names[i])
           step == [x \in T \X (1 .. n) |-> Turn(x[1], x[2])]
           Is(g) == g = [i \in 0 .. n |-> IF i = 0 THEN root ELSE Turn(g[i - 1], i)]
           turn == CHOOSE g : Is(g)
<1>1. n \in Nat
  OBVIOUS
<1>2. Joins(root, names) = turn
  BY DEF Joins
<1>3. root \in T
  OBVIOUS
<1>4. ASSUME NEW s \in T, NEW i \in 1 .. n PROVE Turn(s, i) \in T
  <2>1. names[i] \in NameSet(C)
    BY ElementOfSeq
  <2> QED
    BY <2>1, JoinOneIs
<1> HIDE DEF Turn, T, n
<1>5. PICK f \in [0 .. n -> T] : Recurs(f, root, n, step)
  <2>1. step \in [T \X (1 .. n) -> T]
    BY <1>4
  <2> HIDE DEF step
  <2> QED
    BY <1>1, <1>3, <2>1, Recursion, Zenon
<1>6. f[0] = root /\ \A k \in 1 .. n : f[k] = Turn(f[k - 1], k)
  <2>1. ASSUME NEW k \in 1 .. n PROVE f[k] = Turn(f[k - 1], k)
    <3>1. f[k - 1] \in T
      BY <1>1, <1>5
    <3> QED
      BY <1>5, <3>1 DEF Recurs
  <2> QED
    BY <1>5, <2>1 DEF Recurs
<1>7. Is(f)
  <2>1. f = [k \in 0 .. n |-> f[k]] /\ \A k \in 0 .. n : k = 0 \/ k \in 1 .. n
    BY <1>1, <1>5
  <2> QED
    BY <1>6, <2>1
<1>8. Is(turn)
  <2> HIDE DEF Is
  <2> QED
    BY <1>7, Zenon
<1> HIDE DEF turn
<1>9. turn[0] = root /\ \A k \in 1 .. n : turn[k] = Turn(turn[k - 1], k)
  <2>1. 0 \in 0 .. n /\ \A k \in 1 .. n : k \in 0 .. n /\ k # 0
    BY <1>1
  <2>2. \A k \in 0 .. n : turn[k] = IF k = 0 THEN root ELSE Turn(turn[k - 1], k)
    BY <1>8, Zenon
  <2> QED
    BY <2>1, <2>2
<1> DEFINE S == {k \in 0 .. n : turn[k] \in T}
<1>10. 0 \in S
  <2>1. 0 \in 0 .. n
    BY <1>1
  <2> QED
    BY <1>3, <1>9, <2>1
<1>11. ASSUME NEW k \in 0 .. n - 1, k \in S PROVE k + 1 \in S
  <2>1. k + 1 \in 1 .. n /\ k + 1 \in 0 .. n /\ k + 1 - 1 = k
    BY <1>1
  <2>2. PICK q \in 1 .. n : q = k + 1
    BY <2>1
  <2>3. turn[q] = Turn(turn[k], q) /\ turn[k] \in T
    BY <1>9, <1>11, <2>1, <2>2
  <2>4. turn[q] \in T
    BY <1>4, <2>3
  <2> QED
    BY <2>1, <2>2, <2>4
<1>12. 0 .. n \subseteq S
  <2> HIDE DEF S
  <2> QED
    BY <1>1, <1>10, <1>11, Induction
<1> QED
  BY <1>2, <1>9, <1>12 DEF n, T, Turn

\* A path of a root and names: the root is first, each separator after it is before a
\* name, and the names can be read again.
IsJoined(s, root, names) ==
    LET l == Len(root)
    IN /\ l <= Len(s) /\ \A i \in 1 .. l : s[i] = root[i]
       /\ \A i \in l + 1 .. Len(s) : IsSep(s[i]) => i < Len(s) /\ ~IsSep(s[i + 1]) /\ (i > l + 1 \/ root # <<>>)
       /\ Names(From(s, l + 1)) = names

\* One more name, and it is still a path of its root and its names.
LEMMA IsJoinedOne ==
    ASSUME NEW C, Back \in C, NEW root \in Seq(C), NEW names \in Seq(NameSet(C)), NEW n \in NameSet(C),
           NEW s \in Seq(C), IsJoined(s, root, names)
    PROVE  IsJoined(JoinOne(s, n), root, Append(names, n))
<1> DEFINE t == JoinOne(s, n)
           l == Len(root)
           m == Len(s)
<1> SUFFICES IsJoined(t, root, Append(names, n))
  OBVIOUS
<1>1. l \in Nat /\ m \in Nat /\ l <= m /\ (\A i \in 1 .. l : s[i] = root[i]) /\ Names(From(s, l + 1)) = names
  BY DEF IsJoined
<1>2. \A i \in l + 1 .. m : IsSep(s[i]) => i < m /\ ~IsSep(s[i + 1]) /\ (i > l + 1 \/ root # <<>>)
  BY DEF IsJoined
<1>3. t \in Seq(C) /\ n \in Seq(C) /\ n # <<>> /\ (\A k \in 1 .. Len(n) : ~IsSep(n[k]))
  BY JoinOneIs
<1>4. Len(n) \in Nat \ {0}
  BY <1>3
<1>5. CASE s = <<>>
  <2>1. l = 0 /\ root = <<>> /\ m = 0 /\ names = <<>>
    <3>1. l = 0 /\ m = 0
      BY <1>1, <1>5
    <3>2. From(s, l + 1) = <<>>
      BY <1>5, <3>1, PrefixEnds DEF From
    <3>3. root = <<>>
      BY <3>1
    <3> QED
      BY <1>1, <3>1, <3>2, <3>3, NamesOfNone
  <2>2. t = n
    BY <1>5, JoinOneIs
  <2>3. From(t, l + 1) = n
    <3>1. From(n, 1) = n
      BY <1>3, PrefixEnds DEF From
    <3> QED
      BY <2>1, <2>2, <3>1
  <2>4. Names(n) = Append(names, n)
    BY <2>1, NamesOfOne
  <2>5. Names(From(t, l + 1)) = Append(names, n)
    BY <2>3, <2>4
  <2> HIDE DEF t
  <2>6. l <= Len(t) /\ \A i \in 1 .. l : t[i] = root[i]
    BY <1>4, <2>1, <2>2
  <2>7. \A i \in l + 1 .. Len(t) : ~IsSep(t[i])
    BY <1>3, <2>1, <2>2
  <2> QED
    BY <2>5, <2>6, <2>7 DEF IsJoined
<1>6. CASE s # <<>>
  <2>1. /\ Len(t) = m + 1 + Len(n) /\ (\A k \in 1 .. m : t[k] = s[k]) /\ t[m + 1] = Back
        /\ \A k \in 1 .. Len(n) : t[m + 1 + k] = n[k]
    BY <1>6, JoinOneIs
  <2>2. m \in Nat \ {0}
    BY <1>6
  <2> HIDE DEF t
  <2> DEFINE u == From(s, l + 1)
             v == From(t, l + 1)
  <2>3. u \in Seq(C) /\ Len(u) = m - l /\ \A k \in 1 .. m - l : u[k] = s[l + k]
    <3>1. l + 1 \in 1 .. m + 1 /\ m + 1 - (l + 1) = m - l /\ \A k \in 1 .. m - l : l + 1 + k - 1 = l + k
      BY <1>1
    <3>2. u \in Seq(C) /\ Len(u) = m + 1 - (l + 1) /\ \A k \in 1 .. m + 1 - (l + 1) : u[k] = s[l + 1 + k - 1]
      BY <3>1, FromIs
    <3> HIDE DEF u, m, l
    <3> QED
      BY <3>1, <3>2
  <2>4. v \in Seq(C) /\ Len(v) = m - l + 1 + Len(n) /\ \A k \in 1 .. m - l + 1 + Len(n) : v[k] = t[l + k]
    <3> DEFINE w == Len(t)
    <3>1. /\ w = m + 1 + Len(n) /\ l + 1 \in 1 .. w + 1 /\ w + 1 - (l + 1) = m - l + 1 + Len(n)
          /\ \A k \in 1 .. m - l + 1 + Len(n) : l + 1 + k - 1 = l + k
      BY <1>1, <1>4, <2>1
    <3>2. v \in Seq(C) /\ Len(v) = w + 1 - (l + 1) /\ \A k \in 1 .. w + 1 - (l + 1) : v[k] = t[l + 1 + k - 1]
      BY <1>3, <3>1, FromIs
    <3> HIDE DEF v, w, m, l
    <3> QED
      BY <3>1, <3>2
  <2>5. Names(v) = Append(Names(u), n)
    <3>0. Len(u) = m - l /\ Len(v) = Len(u) + 1 + Len(n)
      BY <2>3, <2>4
    <3> HIDE DEF u, v, m, l
    <3>1. \A k \in 1 .. Len(u) : v[k] = u[k]
      <4>1. \A k \in 1 .. m - l : l + k \in 1 .. m /\ k \in 1 .. m - l + 1 + Len(n)
        BY <1>1, <1>4
      <4> QED
        BY <2>1, <2>3, <2>4, <3>0, <4>1
    <3>2. IsSep(v[Len(u) + 1])
      <4>1. m - l + 1 \in 1 .. m - l + 1 + Len(n) /\ l + (m - l + 1) = m + 1
        BY <1>1, <1>4
      <4>2. v[m - l + 1] = Back
        BY <2>1, <2>4, <4>1
      <4> QED
        BY <3>0, <4>2 DEF IsSep, Seps
    <3>3. \A k \in 1 .. Len(n) : v[Len(u) + 1 + k] = n[k]
      <4>1. \A k \in 1 .. Len(n) : m - l + 1 + k \in 1 .. m - l + 1 + Len(n) /\ l + (m - l + 1 + k) = m + 1 + k
        BY <1>1, <1>4
      <4> QED
        BY <2>1, <2>4, <3>0, <4>1
    <3> QED
      BY <2>3, <2>4, <3>0, <3>1, <3>2, <3>3, NamesMore
  <2>6. \A i \in l + 1 .. Len(t) : IsSep(t[i]) => i < Len(t) /\ ~IsSep(t[i + 1]) /\ (i > l + 1 \/ root # <<>>)
    <3> SUFFICES ASSUME NEW i \in l + 1 .. Len(t), IsSep(t[i])
                 PROVE  i < Len(t) /\ ~IsSep(t[i + 1]) /\ (i > l + 1 \/ root # <<>>)
      OBVIOUS
    <3>1. CASE i <= m
      <4>1. i \in 1 .. m /\ i \in l + 1 .. m
        BY <1>1, <3>1
      <4>2. i < m /\ ~IsSep(s[i + 1]) /\ (i > l + 1 \/ root # <<>>)
        BY <1>2, <2>1, <4>1
      <4>3. i + 1 \in 1 .. m /\ i < Len(t)
        BY <1>1, <1>4, <2>1, <4>1, <4>2
      <4> QED
        BY <2>1, <4>2, <4>3
    <3>2. CASE i = m + 1
      <4>1. 1 \in 1 .. Len(n) /\ i + 1 = m + 1 + 1 /\ i < Len(t)
        BY <1>1, <1>4, <2>1, <3>2
      <4>2. i > l + 1 \/ root # <<>>
        <5>1. root = <<>> => l = 0
          OBVIOUS
        <5> QED
          BY <1>1, <2>2, <3>2, <5>1
      <4> QED
        BY <1>3, <2>1, <4>1, <4>2
    <3>3. CASE i > m + 1
      <4> DEFINE k == i - (m + 1)
      <4>1. k \in 1 .. Len(n) /\ m + 1 + k = i
        BY <1>1, <1>4, <2>1, <3>3
      <4>2. t[m + 1 + k] = n[k] /\ ~IsSep(n[k])
        BY <1>3, <2>1, <4>1
      <4> QED
        BY <4>1, <4>2
    <3>4. i \in Nat /\ (i <= m \/ i = m + 1 \/ i > m + 1)
      BY <1>1
    <3> HIDE DEF t, l, m
    <3> QED
      BY <3>1, <3>2, <3>3, <3>4
  <2>7. l <= Len(t) /\ \A i \in 1 .. l : t[i] = root[i]
    <3>1. \A i \in 1 .. l : i \in 1 .. m
      BY <1>1
    <3> QED
      BY <1>1, <1>4, <2>1, <3>1
  <2> QED
    BY <1>1, <2>5, <2>6, <2>7 DEF IsJoined
<1> QED
  BY <1>5, <1>6

\* A root and names, put together, are a path of this root and these names.
LEMMA JoinedIs ==
    ASSUME NEW C, Back \in C, NEW root \in Seq(C), NEW names \in Seq(NameSet(C)), NEW k \in 0 .. Len(names)
    PROVE  Joins(root, names)[k] \in Seq(C) /\ IsJoined(Joins(root, names)[k], root, SubSeq(names, 1, k))
<1> DEFINE n == Len(names)
           J == Joins(root, names)
           X == NameSet(C)
           S == {i \in 0 .. n : IsJoined(J[i], root, SubSeq(names, 1, i))}
<1>1. /\ J[0] = root
      /\ \A i \in 1 .. n : J[i] = JoinOne(J[i - 1], names[i])
      /\ \A i \in 0 .. n : J[i] \in Seq(C)
  BY JoinsAre
<1>2. n \in Nat /\ names \in Seq(X)
  OBVIOUS
<1> HIDE DEF J, X
<1>3. 0 \in S
  <2>1. SubSeq(names, 1, 0) = <<>>
    BY <1>2, PrefixEnds
  <2>2. From(root, Len(root) + 1) = <<>>
    <3>1. Len(root) + 1 \in 1 .. Len(root) + 1 /\ Len(root) + 1 - (Len(root) + 1) = 0
      OBVIOUS
    <3>2. From(root, Len(root) + 1) \in Seq(C) /\ Len(From(root, Len(root) + 1)) = Len(root) + 1 - (Len(root) + 1)
      BY <3>1, FromIs
    <3> DEFINE u == From(root, Len(root) + 1)
    <3>3. u \in Seq(C) /\ Len(u) = 0
      BY <3>1, <3>2
    <3> HIDE DEF u
    <3>4. u = <<>>
      BY <3>3
    <3> QED
      BY <3>4 DEF u
  <2>3. IsJoined(root, root, <<>>)
    BY <2>2, NamesOfNone DEF IsJoined
  <2>4. 0 \in 0 .. n
    BY <1>2
  <2> QED
    BY <1>1, <2>1, <2>3, <2>4
<1>4. ASSUME NEW i \in 0 .. n - 1, i \in S PROVE i + 1 \in S
  <2>1. i + 1 \in 1 .. n
    BY <1>2
  <2>2. PICK q \in 1 .. n : q = i + 1
    BY <2>1
  <2>3. q - 1 = i /\ q \in 0 .. n /\ i \in 0 .. n /\ q \in 1 .. Len(names) /\ i \in 0 .. Len(names)
    BY <1>2, <2>2
  <2> DEFINE s == J[i]
             a == SubSeq(names, 1, i)
             e == names[q]
  <2>4. s \in Seq(C) /\ IsJoined(s, root, a) /\ J[q] = JoinOne(s, e)
    BY <1>1, <1>4, <2>3
  <2>5. e \in X /\ a \in Seq(X)
    BY <1>2, <2>3, ElementOfSeq, PrefixIs
  <2>6. Append(a, e) = SubSeq(names, 1, q)
    BY <1>2, <2>3, PrefixGrows
  <2> HIDE DEF s, a, e
  <2>7. IsJoined(JoinOne(s, e), root, Append(a, e))
    BY <2>4, <2>5, IsJoinedOne DEF X
  <2>8. IsJoined(J[q], root, SubSeq(names, 1, q))
    BY <2>4, <2>6, <2>7
  <2> QED
    BY <2>2, <2>3, <2>8
<1>5. 0 .. n \subseteq S
  <2> HIDE DEF S
  <2> QED
    BY <1>2, <1>3, <1>4, Induction
<1> QED
  BY <1>1, <1>5 DEF J

\* So for all names.
LEMMA JoinedAll ==
    ASSUME NEW C, Back \in C, NEW root \in Seq(C), NEW names \in Seq(NameSet(C))
    PROVE  Joined(root, names) \in Seq(C) /\ IsJoined(Joined(root, names), root, names)
<1>1. Len(names) \in 0 .. Len(names)
  OBVIOUS
<1>2. SubSeq(names, 1, Len(names)) = names
  BY PrefixEnds
<1>3. /\ Joins(root, names)[Len(names)] \in Seq(C)
      /\ IsJoined(Joins(root, names)[Len(names)], root, SubSeq(names, 1, Len(names)))
  BY <1>1, JoinedIs
<1> QED
  BY <1>2, <1>3 DEF Joined

-----------------------------------------------------------------------------
(* SplitPathInternal.                                                      *)

Splits(C) == [ok : BOOLEAN, names : Seq(NameSet(C))]
NoDots(names) == \A i \in 1 .. Len(names) : names[i] # Dot /\ names[i] # DotDot

\* One more name put out: no "." or ".." stays, and any other name is the last one.
LEMMA OutputType ==
    ASSUME NEW C, NEW r \in Splits(C), NEW n \in NameSet(C)
    PROVE  /\ Output(r, n) \in Splits(C)
           /\ NoDots(r.names) => NoDots(Output(r, n).names)
           /\ r.ok /\ n # Dot /\ n # DotDot => Output(r, n) = [ok |-> TRUE, names |-> Append(r.names, n)]
<1> DEFINE X == NameSet(C)
           t == Output(r, n)
           v == r.names
<1>1. v \in Seq(X) /\ r.ok \in BOOLEAN
  BY DEF Splits
<1>2. CASE ~r.ok \/ n = Dot
  <2>1. t = r
    BY <1>2 DEF Output
  <2> QED
    BY <1>2, <2>1
<1>3. CASE r.ok /\ n # Dot /\ n # DotDot
  <2> DEFINE u == Append(v, n)
  <2>1. t = [ok |-> TRUE, names |-> u]
    BY <1>3 DEF Output
  <2> HIDE DEF X
  <2>2. u \in Seq(X) /\ Len(u) = Len(v) + 1 /\ \A k \in 1 .. Len(u) : u[k] = n \/ (k \in 1 .. Len(v) /\ u[k] = v[k])
    <3> HIDE DEF v
    <3> QED
      BY <1>1 DEF X
  <2> HIDE DEF u, v, t
  <2>3. t \in [ok : BOOLEAN, names : Seq(X)] /\ t.names = u
    BY <2>1, <2>2
  <2>4. NoDots(v) => NoDots(u)
    BY <1>3, <2>2 DEF NoDots
  <2> QED
    BY <1>3, <2>1, <2>3, <2>4 DEF Splits, X, t, u, v
<1>4. CASE r.ok /\ n = DotDot /\ n # Dot /\ v = <<>>
  <2>1. t = [ok |-> FALSE, names |-> <<>>]
    BY <1>4 DEF Output
  <2> HIDE DEF t
  <2>2. t \in Splits(C) /\ NoDots(t.names)
    BY <2>1 DEF Splits, NoDots
  <2> QED
    BY <1>4, <2>2 DEF t
<1>5. CASE r.ok /\ n = DotDot /\ n # Dot /\ v # <<>>
  <2> DEFINE u == Front(v)
  <2>1. t = [ok |-> TRUE, names |-> u]
    BY <1>5 DEF Output
  <2> HIDE DEF X
  <2>2. u \in Seq(X) /\ Len(v) = Len(u) + 1 /\ \A k \in 1 .. Len(u) : v[k] = u[k]
    <3> HIDE DEF v
    <3> QED
      BY <1>1, <1>5, FrontIs
  <2> HIDE DEF u, v, t
  <2>3. t \in [ok : BOOLEAN, names : Seq(X)] /\ t.names = u
    BY <2>1, <2>2
  <2>4. NoDots(v) => NoDots(u)
    BY <1>1, <2>2 DEF NoDots
  <2> QED
    BY <1>5, <2>1, <2>3, <2>4 DEF Splits, X, t, u, v
<1> QED
  BY <1>2, <1>3, <1>4, <1>5

\* Outputs puts out one name after the other.
LEMMA OutputsAre ==
    ASSUME NEW C, NEW names \in Seq(NameSet(C)), NEW output \in Seq(NameSet(C))
    PROVE  /\ Outputs(names, output)[0] = [ok |-> TRUE, names |-> output]
           /\ \A i \in 1 .. Len(names) : Outputs(names, output)[i] = Output(Outputs(names, output)[i - 1], names[i])
           /\ \A i \in 0 .. Len(names) : Outputs(names, output)[i] \in Splits(C)
           /\ NoDots(output) => \A i \in 0 .. Len(names) : NoDots(Outputs(names, output)[i].names)
<1> DEFINE n == Len(names)
           T == Splits(C)
           base == [ok |-> TRUE, names |-> output]
           Turn(r, i) == Output(r, names[i])
           Good(r) == NoDots(output) => NoDots(r.names)
           step == [x \in T \X (1 .. n) |-> Turn(x[1], x[2])]
           Is(g) == g = [i \in 0 .. n |-> IF i = 0 THEN base ELSE Turn(g[i - 1], i)]
           turn == CHOOSE g : Is(g)
<1>1. n \in Nat
  OBVIOUS
<1>2. Outputs(names, output) = turn
  BY DEF Outputs
<1>3. base \in T /\ Good(base)
  BY DEF Splits
<1>4. ASSUME NEW r \in T, NEW i \in 1 .. n PROVE Turn(r, i) \in T /\ (Good(r) => Good(Turn(r, i)))
  <2>1. names[i] \in NameSet(C)
    BY ElementOfSeq
  <2> QED
    BY <2>1, OutputType
<1>b. \A r : Good(r) <=> (NoDots(output) => NoDots(r.names))
  OBVIOUS
<1> HIDE DEF Turn, T, n, Good, base
<1>5. PICK f \in [0 .. n -> T] : Recurs(f, base, n, step)
  <2>1. step \in [T \X (1 .. n) -> T]
    BY <1>4
  <2> HIDE DEF step
  <2> QED
    BY <1>1, <1>3, <2>1, Recursion, Zenon
<1>6. f[0] = base /\ \A k \in 1 .. n : f[k] = Turn(f[k - 1], k)
  <2>1. ASSUME NEW k \in 1 .. n PROVE f[k] = Turn(f[k - 1], k)
    <3>1. f[k - 1] \in T
      BY <1>1, <1>5
    <3> QED
      BY <1>5, <3>1 DEF Recurs
  <2> QED
    BY <1>5, <2>1 DEF Recurs
<1>7. Is(f)
  <2>1. f = [k \in 0 .. n |-> f[k]] /\ \A k \in 0 .. n : k = 0 \/ k \in 1 .. n
    BY <1>1, <1>5
  <2> QED
    BY <1>6, <2>1
<1>8. Is(turn)
  <2> HIDE DEF Is
  <2> QED
    BY <1>7, Zenon
<1> HIDE DEF turn
<1>9. turn[0] = base /\ \A k \in 1 .. n : turn[k] = Turn(turn[k - 1], k)
  <2>1. 0 \in 0 .. n /\ \A k \in 1 .. n : k \in 0 .. n /\ k # 0
    BY <1>1
  <2>2. \A k \in 0 .. n : turn[k] = IF k = 0 THEN base ELSE Turn(turn[k - 1], k)
    BY <1>8, Zenon
  <2> QED
    BY <2>1, <2>2
<1> DEFINE S == {k \in 0 .. n : turn[k] \in T /\ Good(turn[k])}
<1>10. 0 \in S
  <2>1. 0 \in 0 .. n
    BY <1>1
  <2> QED
    BY <1>3, <1>9, <2>1
<1>11. ASSUME NEW k \in 0 .. n - 1, k \in S PROVE k + 1 \in S
  <2>1. k + 1 \in 1 .. n /\ k + 1 \in 0 .. n /\ k + 1 - 1 = k
    BY <1>1
  <2>2. PICK q \in 1 .. n : q = k + 1
    BY <2>1
  <2>3. turn[q] = Turn(turn[k], q) /\ turn[k] \in T /\ Good(turn[k])
    BY <1>9, <1>11, <2>1, <2>2
  <2>4. turn[q] \in T /\ Good(turn[q])
    BY <1>4, <2>3
  <2> QED
    BY <2>1, <2>2, <2>4
<1>12. 0 .. n \subseteq S
  <2> HIDE DEF S
  <2> QED
    BY <1>1, <1>10, <1>11, Induction
<1>13. NoDots(output) => \A i \in 0 .. n : NoDots(turn[i].names)
  BY <1>b, <1>12
<1> QED
  BY <1>2, <1>9, <1>12, <1>13 DEF n, T, Turn, base

\* Names that are no dots are put out as they are.
LEMMA OutputsSame ==
    ASSUME NEW C, NEW names \in Seq(NameSet(C)), NoDots(names)
    PROVE  Outputs(names, <<>>)[Len(names)] = [ok |-> TRUE, names |-> names]
<1> DEFINE n == Len(names)
           X == NameSet(C)
           f == Outputs(names, <<>>)
           S == {k \in 0 .. n : f[k] = [ok |-> TRUE, names |-> SubSeq(names, 1, k)]}
<1>1. n \in Nat /\ names \in Seq(X) /\ <<>> \in Seq(X) /\ 0 \in 0 .. n /\ n \in 0 .. n
  OBVIOUS
<1>2. /\ f[0] = [ok |-> TRUE, names |-> <<>>]
      /\ \A i \in 1 .. n : f[i] = Output(f[i - 1], names[i])
      /\ \A i \in 0 .. n : f[i] \in Splits(C)
  <2>1. ASSUME NEW o \in Seq(NameSet(C))
        PROVE  /\ Outputs(names, o)[0] = [ok |-> TRUE, names |-> o]
               /\ \A i \in 1 .. n : Outputs(names, o)[i] = Output(Outputs(names, o)[i - 1], names[i])
               /\ \A i \in 0 .. n : Outputs(names, o)[i] \in Splits(C)
    BY OutputsAre
  <2>2. <<>> \in Seq(NameSet(C))
    OBVIOUS
  <2> QED
    BY <2>1, <2>2, Zenon
<1>3. SubSeq(names, 1, 0) = <<>> /\ SubSeq(names, 1, n) = names
  BY <1>1, PrefixEnds
<1> HIDE DEF f, X
<1>4. 0 \in S
  BY <1>1, <1>2, <1>3
<1>5. ASSUME NEW i \in 0 .. n - 1, i \in S PROVE i + 1 \in S
  <2>1. i + 1 \in 1 .. n
    BY <1>1
  <2>2. PICK q \in 1 .. n : q = i + 1
    BY <2>1
  <2>3. q - 1 = i /\ q \in 0 .. n /\ i \in 0 .. n /\ q \in 1 .. Len(names)
    BY <1>1, <2>2
  <2> DEFINE r == f[i]
             a == SubSeq(names, 1, i)
             e == names[q]
             b == SubSeq(names, 1, q)
  <2>4. r \in Splits(C) /\ r = [ok |-> TRUE, names |-> a] /\ f[q] = Output(r, e)
    BY <1>2, <1>5, <2>3
  <2>5. e \in NameSet(C) /\ e # Dot /\ e # DotDot
    BY <1>1, <2>3, ElementOfSeq DEF NoDots, X
  <2>6. Append(a, e) = b
    BY <1>1, <2>3, PrefixGrows
  <2> HIDE DEF r, a, e, b
  <2>7. r.ok = TRUE /\ r.names = a
    BY <2>4
  <2>8. Output(r, e) = [ok |-> TRUE, names |-> Append(r.names, e)]
    <3>1. r.ok /\ e # Dot /\ e # DotDot => Output(r, e) = [ok |-> TRUE, names |-> Append(r.names, e)]
      BY <2>4, <2>5, OutputType
    <3> QED
      BY <2>5, <2>7, <3>1
  <2>9. f[q] = [ok |-> TRUE, names |-> b]
    BY <2>4, <2>6, <2>7, <2>8
  <2> QED
    BY <2>2, <2>3, <2>9 DEF b
<1>6. 0 .. n \subseteq S
  <2> HIDE DEF S
  <2> QED
    BY <1>1, <1>4, <1>5, Induction
<1>7. f[n] = [ok |-> TRUE, names |-> names]
  BY <1>1, <1>3, <1>6
<1> QED
  BY <1>7 DEF f

-----------------------------------------------------------------------------
(* Paths put together are in normal form.                                  *)

\* SmallestOr is the smallest number, if there is one.
LEMMA SmallestIs ==
    ASSUME NEW S, S \subseteq Nat, NEW d
    PROVE  /\ S = {} => SmallestOr(S, d) = d
           /\ S # {} => SmallestOr(S, d) \in S /\ \A k \in S : SmallestOr(S, d) <= k
<1>1. CASE S = {}
  BY <1>1 DEF SmallestOr
<1>2. CASE S # {}
  <2>1. PICK m \in S : \A k \in S : m <= k
    BY <1>2, Least
  <2> DEFINE Is(i) == \A j \in S : i <= j
             c == CHOOSE i \in S : Is(i)
  <2>2. SmallestOr(S, d) = c
    BY <1>2 DEF SmallestOr
  <2>3. c \in S /\ Is(c)
    <3>1. \E i \in S : Is(i)
      BY <2>1
    <3> HIDE DEF Is
    <3> QED
      BY <3>1
  <2> QED
    BY <1>2, <2>2, <2>3
<1> QED
  BY <1>1, <1>2

\* The root of a path is the beginning of the path.
LEMMA RootLenIs ==
    ASSUME NEW C, NEW p \in Seq(C)
    PROVE  PathRootLen(p) \in 0 .. Len(p)
<1> DEFINE l     == Len(p)
           Lead  == l >= 2 /\ IsSep(p[1]) /\ IsSep(p[2])
           Drive(i) == p[i] \in Letters /\ p[i + 1] = ":"
           S     == {k \in 4 .. l - 1 : IsSep(p[k])}
           share == SmallestOr(S, 0) + 1
           E     == {k \in share .. l : IsSep(p[k])}
           end   == SmallestOr(E, l + 1) - 1
           Two   == l >= 2 /\ Drive(1)
           Prefix == l >= 6 /\ Lead /\ p[3] \in {".", "?"} /\ IsSep(p[4])
           Share == l >= 5 /\ Lead /\ ~IsSep(p[3]) /\ p[3] # "." /\ share # 1
                    /\ ~IsSep(p[share]) /\ p[share] # "."
<1>1. PathRootLen(p) = IF Two THEN 2 ELSE IF Prefix THEN IF Drive(5) THEN 6 ELSE 4 ELSE IF Share THEN end ELSE 0
  BY DEF PathRootLen
<1>2. l \in Nat
  OBVIOUS
<1>3. (Two => l >= 2) /\ (Prefix => l >= 6) /\ (Share => l >= 5 /\ share # 1)
  OBVIOUS
<1>4. S \subseteq Nat /\ S \subseteq 4 .. l - 1
  BY <1>2
<1> HIDE DEF l, S, Two, Prefix, Drive
<1>5. share # 1 => share \in 5 .. l
  <2>1. SmallestOr(S, 0) = 0 \/ SmallestOr(S, 0) \in S
    BY <1>4, SmallestIs
  <2> DEFINE z == SmallestOr(S, 0)
  <2>2. z = 0 \/ z \in 4 .. l - 1
    BY <1>4, <2>1
  <2> HIDE DEF z
  <2>3. z + 1 # 1 => z + 1 \in 5 .. l
    BY <1>2, <2>2
  <2> QED
    BY <2>3 DEF z
<1> HIDE DEF share
<1>6. ASSUME share # 1 PROVE end \in 0 .. l
  <2>1. E \subseteq Nat /\ E \subseteq 5 .. l
    BY <1>2, <1>5, <1>6
  <2> HIDE DEF E
  <2> DEFINE z == SmallestOr(E, l + 1)
  <2>2. z = l + 1 \/ z \in 5 .. l
    BY <2>1, SmallestIs
  <2> HIDE DEF z
  <2>3. z - 1 \in 0 .. l
    BY <1>2, <2>2
  <2> QED
    BY <2>3 DEF z
<1> HIDE DEF end, Share
<1>7. PathRootLen(p) \in 0 .. l
  <2> DEFINE r == PathRootLen(p)
  <2>1. r = IF Two THEN 2 ELSE IF Prefix THEN IF Drive(5) THEN 6 ELSE 4 ELSE IF Share THEN end ELSE 0
    BY <1>1
  <2> HIDE DEF r
  <2>2. (Share => end \in 0 .. l) /\ (Two => 2 \in 0 .. l) /\ (Prefix => 4 \in 0 .. l /\ 6 \in 0 .. l) /\ 0 \in 0 .. l
    BY <1>2, <1>3, <1>6
  <2>3. r \in 0 .. l
    BY <2>1, <2>2, Zenon
  <2> QED
    BY <2>3 DEF r
<1> QED
  BY <1>7 DEF l

Rest(p) == SubSeq(p, PathRootLen(p) + 1, Len(p))

\* A path of one piece is its root and the names the rest is split into.
LEMMA PathCatIs ==
    ASSUME NEW C, NEW p \in Seq(C)
    PROVE  /\ Rest(p) \in Seq(C)
           /\ SplitPathInternal(Rest(p), <<>>).names \in Seq(NameSet(C))
           /\ NoDots(SplitPathInternal(Rest(p), <<>>).names)
           /\ PathCat(p, <<>>) = Joined(SubSeq(p, 1, PathRootLen(p)), SplitPathInternal(Rest(p), <<>>).names)
<1>1. PathRootLen(p) \in 0 .. Len(p)
  BY RootLenIs
<1>2. Rest(p) \in Seq(C)
  <2> DEFINE i == PathRootLen(p) + 1
  <2>1. i \in 1 .. Len(p) + 1
    BY <1>1
  <2> HIDE DEF i
  <2>2. From(p, i) \in Seq(C)
    BY <2>1, FromIs
  <2> QED
    BY <2>2 DEF From, i, Rest
<1> DEFINE t == SplitPathInternal(Rest(p), <<>>)
           X == NameSet(C)
<1>3. t.names \in Seq(X) /\ NoDots(t.names)
  <2> DEFINE ns == Names(Rest(p))
             f == Outputs(ns, <<>>)
  <2>1. ns \in Seq(NameSet(C)) /\ <<>> \in Seq(NameSet(C)) /\ NoDots(<<>>) /\ Len(ns) \in 0 .. Len(ns)
    BY <1>2, NamesType DEF NoDots
  <2>2. t = f[Len(ns)]
    BY DEF SplitPathInternal
  <2>3. ASSUME NEW o \in Seq(NameSet(C)), NoDots(o)
        PROVE  \A i \in 0 .. Len(ns) : Outputs(ns, o)[i] \in Splits(C) /\ NoDots(Outputs(ns, o)[i].names)
    <3> HIDE DEF ns
    <3> QED
      BY <2>1, <2>3, OutputsAre
  <2>4. \A i \in 0 .. Len(ns) : f[i] \in Splits(C) /\ NoDots(f[i].names)
    BY <2>1, <2>3, Zenon
  <2> HIDE DEF f, ns, t
  <2>5. t \in Splits(C) /\ NoDots(t.names)
    BY <2>1, <2>2, <2>4
  <2> QED
    BY <2>5 DEF Splits
<1>4. PathCat(p, <<>>) = Joined(SubSeq(p, 1, PathRootLen(p)), t.names)
  <2> DEFINE first == t.names
             base == [ok |-> TRUE, names |-> first]
             Turn(r, k) == CatOne(r, <<>>[k])
             n == Len(<<>>)
             Is(g) == g = [k \in 0 .. n |-> IF k = 0 THEN base ELSE Turn(g[k - 1], k)]
             all == CHOOSE g : Is(g)
             end == all[n]
  <2>1. n = 0
    OBVIOUS
  <2>2. PathCat(p, <<>>) = IF end.ok THEN Joined(SubSeq(p, 1, PathRootLen(p)), end.names) ELSE Dot
    BY DEF PathCat, Rest
  <2>3. Is([k \in 0 .. n |-> base])
    <3>1. \A k \in 0 .. n : k = 0
      BY <2>1
    <3> HIDE DEF base, Turn
    <3> QED
      BY <3>1
  <2>4. Is(all)
    <3> HIDE DEF Is
    <3> QED
      BY <2>3, Zenon
  <2> HIDE DEF all
  <2>5. all[n] = base
    <3>1. n \in 0 .. n /\ n = 0
      BY <2>1
    <3> HIDE DEF base, Turn, n
    <3> QED
      BY <2>4, <3>1
  <2> HIDE DEF first
  <2>6. end.ok = TRUE /\ end.names = first
    BY <2>5
  <2> HIDE DEF end
  <2> QED
    BY <2>2, <2>6 DEF first
<1> HIDE DEF t
<1> QED
  BY <1>2, <1>3, <1>4 DEF t

\* The normal form of a path of any length (PathsNormal).
LEMMA CatNormal ==
    ASSUME NEW C, Back \in C, NEW p0 \in Seq(C)
    PROVE  LET p    == PathCat(p0, <<>>)
               root == SubSeq(p0, 1, PathRootLen(p0))
               rest == From(p, Len(root) + 1)
           IN PathRootLen(p) = Len(root) =>
                 /\ IsPrefix(root, p)
                 /\ {Dot, DotDot} \cap ToSet(Names(rest)) = {}
                 /\ \A i \in DOMAIN rest : IsSep(rest[i]) =>
                       i < Len(rest) /\ ~IsSep(rest[i + 1]) /\ (i > 1 \/ root # <<>>)
                 /\ PathCat(p, <<>>) = p
<1> DEFINE p    == PathCat(p0, <<>>)
           root == SubSeq(p0, 1, PathRootLen(p0))
           rest == From(p, Len(root) + 1)
           ns   == SplitPathInternal(Rest(p0), <<>>).names
           X    == NameSet(C)
           l    == Len(root)
<1>1. ns \in Seq(X) /\ NoDots(ns) /\ p = Joined(root, ns)
  BY PathCatIs
<1>2. root \in Seq(C)
  BY RootLenIs, PrefixIs
<1> HIDE DEF ns, root, p
<1>3. p \in Seq(C) /\ IsJoined(p, root, ns)
  BY <1>1, <1>2, JoinedAll
<1>4. /\ l \in Nat /\ Len(p) \in Nat /\ l <= Len(p) /\ (\A i \in 1 .. l : p[i] = root[i])
      /\ \A i \in l + 1 .. Len(p) : IsSep(p[i]) => i < Len(p) /\ ~IsSep(p[i + 1]) /\ (i > l + 1 \/ root # <<>>)
      /\ Names(rest) = ns
  BY <1>2, <1>3 DEF IsJoined
<1>5. /\ rest \in Seq(C) /\ Len(rest) = Len(p) - l /\ \A k \in 1 .. Len(p) - l : rest[k] = p[l + k]
  <2> DEFINE i == l + 1
  <2>1. i \in 1 .. Len(p) + 1 /\ Len(p) + 1 - i = Len(p) - l /\ \A k \in 1 .. Len(p) - l : i + k - 1 = l + k
    BY <1>4
  <2> HIDE DEF i
  <2>2. /\ From(p, i) \in Seq(C) /\ Len(From(p, i)) = Len(p) + 1 - i
        /\ \A k \in 1 .. Len(p) + 1 - i : From(p, i)[k] = p[i + k - 1]
    BY <1>3, <2>1, FromIs
  <2> QED
    BY <2>1, <2>2 DEF i
<1>6. SubSeq(p, 1, l) = root
  <2> DEFINE u == SubSeq(p, 1, l)
  <2>1. l \in 0 .. Len(p)
    BY <1>4
  <2>2. u \in Seq(C) /\ Len(u) = l /\ \A k \in 1 .. l : u[k] = p[k]
    <3> HIDE DEF l
    <3> QED
      BY <1>3, <2>1, PrefixIs
  <2> HIDE DEF u
  <2>3. \A k \in 1 .. l : u[k] = root[k]
    BY <1>4, <2>2
  <2> QED
    BY <1>2, <2>2, <2>3 DEF u
<1>7. IsPrefix(root, p)
  BY <1>2, <1>4, <1>6, PrefixEnds DEF IsPrefix
<1>8. {Dot, DotDot} \cap ToSet(Names(rest)) = {}
  <2>1. DOMAIN ns = 1 .. Len(ns)
    BY <1>1
  <2> QED
    BY <1>1, <1>4, <2>1 DEF ToSet, NoDots
<1>9. \A i \in DOMAIN rest : IsSep(rest[i]) => i < Len(rest) /\ ~IsSep(rest[i + 1]) /\ (i > 1 \/ root # <<>>)
  <2> HIDE DEF rest, l
  <2>1. DOMAIN rest = 1 .. Len(p) - l
    BY <1>5
  <2> SUFFICES ASSUME NEW i \in 1 .. Len(p) - l, IsSep(rest[i])
               PROVE  i < Len(rest) /\ ~IsSep(rest[i + 1]) /\ (i > 1 \/ root # <<>>)
    BY <2>1
  <2>2. l + i \in l + 1 .. Len(p) /\ IsSep(p[l + i])
    BY <1>4, <1>5
  <2>3. l + i < Len(p) /\ ~IsSep(p[l + i + 1]) /\ (l + i > l + 1 \/ root # <<>>)
    BY <1>4, <2>2
  <2>4. i + 1 \in 1 .. Len(p) - l /\ l + (i + 1) = l + i + 1 /\ i < Len(p) - l /\ (l + i > l + 1 => i > 1)
    BY <1>4, <2>3
  <2> QED
    BY <1>5, <2>3, <2>4
<1>10. ASSUME PathRootLen(p) = l PROVE PathCat(p, <<>>) = p
  <2>1. Rest(p) = rest
    BY <1>10 DEF Rest, From
  <2>2. PathCat(p, <<>>) = Joined(SubSeq(p, 1, PathRootLen(p)), SplitPathInternal(Rest(p), <<>>).names)
    BY <1>3, PathCatIs
  <2>3. SplitPathInternal(rest, <<>>) = Outputs(ns, <<>>)[Len(ns)]
    BY <1>4 DEF SplitPathInternal
  <2>4. Outputs(ns, <<>>)[Len(ns)] = [ok |-> TRUE, names |-> ns]
    BY <1>1, OutputsSame
  <2>5. SplitPathInternal(rest, <<>>).names = ns
    <3> DEFINE t == SplitPathInternal(rest, <<>>)
    <3>1. t = [ok |-> TRUE, names |-> ns]
      BY <2>3, <2>4
    <3> HIDE DEF t
    <3>2. t.names = ns
      BY <3>1
    <3> QED
      BY <3>2 DEF t
  <2> QED
    BY <1>1, <1>6, <1>10, <2>1, <2>2, <2>5
<1> QED
  BY <1>7, <1>8, <1>9, <1>10 DEF p, root

\* Whatever is typed for the path program, and however long it is: the path that is
\* put together of it is in normal form.
THEOREM EveryPathNormal == ProgramsSpec => []PathsNormal
<1>1. TextOK => PathsNormal
  <2> SUFFICES ASSUME TextOK PROVE PathsNormal
    OBVIOUS
  <2> DEFINE C == STRING \cup {Back}
  <2>1. Typed \in Seq(STRING)
    BY FlattenIs DEF Typed, TextOK
  <2>2. Typed \in Seq(C) /\ Back \in C
    BY <2>1, Wider
  <2> HIDE DEF C
  <2> QED
    BY <2>2, CatNormal DEF PathsNormal
<1> QED
  BY <1>1, TextType, PTL

-----------------------------------------------------------------------------
(* The directories above a program.                                        *)

SpecStates == [spec : Nat, next : Nat]

\* One more character read by PathRemoveFileSpecU.
LEMMA SpecTurnType ==
    ASSUME NEW p, NEW r \in SpecStates, NEW i \in Nat
    PROVE  SpecTurn(p, r, i) \in SpecStates
<1> DEFINE v == IF i < Len(p) /\ p[i + 1] = Back THEN i + 2 ELSE i + 1
           t == SpecTurn(p, r, i)
           w == r.spec
<1>1. v \in Nat /\ w \in Nat /\ i + 1 \in Nat /\ i + 2 \in Nat
  BY DEF SpecStates
<1>2. \/ t = r
      \/ t = [spec |-> i, next |-> i + 1]
      \/ t = [spec |-> v, next |-> i + 2]
      \/ t = [spec |-> w, next |-> i + 1]
  <2> HIDE DEF v, w
  <2>1. CASE i < r.next
    BY <2>1 DEF SpecTurn
  <2>2. CASE ~(i < r.next) /\ p[i] = Back
    BY <2>2, Zenon DEF SpecTurn, Back
  <2>3. CASE ~(i < r.next) /\ p[i] = ":" /\ p[i] # Back
    BY <2>3 DEF SpecTurn, v
  <2>4. CASE ~(i < r.next) /\ p[i] # ":" /\ p[i] # Back
    BY <2>4 DEF SpecTurn, w
  <2> QED
    BY <2>1, <2>2, <2>3, <2>4
<1> HIDE DEF v, w, t
<1>3. t \in SpecStates
  BY <1>1, <1>2 DEF SpecStates
<1> QED
  BY <1>3 DEF t

Leading(p) == IF p # <<>> /\ p[1] = Back THEN (IF Len(p) >= 2 /\ p[2] = Back THEN 2 ELSE 1) ELSE 0

\* FileSpecs goes character by character.
LEMMA FileSpecsAre ==
    ASSUME NEW C, NEW p \in Seq(C)
    PROVE  /\ FileSpecs(p)[0] = [spec |-> Leading(p) + 1, next |-> Leading(p) + 1]
           /\ \A i \in 1 .. Len(p) : FileSpecs(p)[i] = SpecTurn(p, FileSpecs(p)[i - 1], i)
<1> DEFINE n == Len(p)
           T == SpecStates
           base == [spec |-> Leading(p) + 1, next |-> Leading(p) + 1]
           Turn(r, i) == SpecTurn(p, r, i)
           step == [x \in T \X (1 .. n) |-> Turn(x[1], x[2])]
           Is(g) == g = [i \in 0 .. n |-> IF i = 0 THEN base ELSE Turn(g[i - 1], i)]
           turn == CHOOSE g : Is(g)
<1>1. n \in Nat
  OBVIOUS
<1>2. FileSpecs(p) = turn
  BY DEF FileSpecs, Leading
<1>3. base \in T
  BY DEF SpecStates, Leading
<1>4. ASSUME NEW r \in T, NEW i \in 1 .. n PROVE Turn(r, i) \in T
  <2>1. i \in Nat
    BY <1>1
  <2> QED
    BY <2>1, SpecTurnType
<1> HIDE DEF Turn, T, n, base
<1>5. PICK f \in [0 .. n -> T] : Recurs(f, base, n, step)
  <2>1. step \in [T \X (1 .. n) -> T]
    BY <1>4
  <2> HIDE DEF step
  <2> QED
    BY <1>1, <1>3, <2>1, Recursion, Zenon
<1>6. f[0] = base /\ \A k \in 1 .. n : f[k] = Turn(f[k - 1], k)
  <2>1. ASSUME NEW k \in 1 .. n PROVE f[k] = Turn(f[k - 1], k)
    <3>1. f[k - 1] \in T
      BY <1>1, <1>5
    <3> QED
      BY <1>5, <3>1 DEF Recurs
  <2> QED
    BY <1>5, <2>1 DEF Recurs
<1>7. Is(f)
  <2>1. f = [k \in 0 .. n |-> f[k]] /\ \A k \in 0 .. n : k = 0 \/ k \in 1 .. n
    BY <1>1, <1>5
  <2> QED
    BY <1>6, <2>1
<1>8. Is(turn)
  <2> HIDE DEF Is
  <2> QED
    BY <1>7, Zenon
<1> HIDE DEF turn
<1>9. turn[0] = base /\ \A k \in 1 .. n : turn[k] = Turn(turn[k - 1], k)
  <2>1. 0 \in 0 .. n /\ \A k \in 1 .. n : k \in 0 .. n /\ k # 0
    BY <1>1
  <2>2. \A k \in 0 .. n : turn[k] = IF k = 0 THEN base ELSE Turn(turn[k - 1], k)
    BY <1>8, Zenon
  <2> QED
    BY <2>1, <2>2
<1> QED
  BY <1>2, <1>9 DEF n, Turn, base

\* Below a drive, PathRemoveFileSpecU cuts at the last backslash, but leaves that of
\* the drive.
LEMMA SpecCut ==
    ASSUME NEW C, NEW q \in Seq(C), NEW j \in 3 .. Len(q) - 1,
           q[1] \notin {Back, ":"}, q[2] = ":", q[3] = Back, \A i \in 3 .. Len(q) : q[i] # ":",
           q[j] = Back, \A i \in j + 1 .. Len(q) : q[i] # Back
    PROVE  PathRemoveFileSpecU(q) =
               [path |-> SubSeq(q, 1, IF j = 3 THEN 3 ELSE j - 1), modified |-> TRUE]
<1> DEFINE n == Len(q)
           f == FileSpecs(q)
           cut == IF j = 3 THEN 4 ELSE j
           CutAt(i) == f[i].next = i + 1 /\ (i >= j => f[i].spec = cut) /\ (i = 3 => f[i].spec = 4)
           S == {k \in 0 .. n - 3 : CutAt(k + 3)}
<1>0. n \in Nat /\ n >= 4 /\ j \in Nat /\ j >= 3 /\ j < n /\ ":" # Back
  BY DEF Back
<1>1. f[0] = [spec |-> Leading(q) + 1, next |-> Leading(q) + 1] /\ \A i \in 1 .. n : f[i] = SpecTurn(q, f[i - 1], i)
  BY FileSpecsAre
<1>s. Leading(q) = 0
  BY DEF Leading
<1> HIDE DEF f, n
<1>2. f[0] = [spec |-> 1, next |-> 1]
  BY <1>1, <1>s
<1>3. f[1] = [spec |-> 1, next |-> 2]
  <2>1. f[1] = SpecTurn(q, f[0], 1) /\ f[0].next = 1 /\ f[0].spec = 1
    BY <1>0, <1>1, <1>2
  <2> QED
    BY <2>1 DEF SpecTurn
<1>4. f[2] = [spec |-> 4, next |-> 4]
  <2>1. f[2] = SpecTurn(q, f[1], 2) /\ f[1].next = 2 /\ 2 < Len(q)
    BY <1>0, <1>1, <1>3 DEF n
  <2> QED
    BY <1>0, <2>1 DEF SpecTurn
<1>5. f[3] = [spec |-> 4, next |-> 4]
  <2>1. f[3] = SpecTurn(q, f[2], 3) /\ f[2].next = 4 /\ 3 < 4
    BY <1>0, <1>1, <1>4
  <2> QED
    BY <1>4, <2>1 DEF SpecTurn
<1>6. 0 \in S
  BY <1>0, <1>5
<1>7. ASSUME NEW k \in 0 .. n - 3 - 1, k \in S PROVE k + 1 \in S
  <2> DEFINE i == k + 3
             m == i + 1
             r == f[i]
             t == f[m]
  <2>1. /\ i \in 3 .. n - 1 /\ m \in 4 .. n /\ m \in Nat /\ m - 1 = i /\ k + 1 + 3 = m /\ k + 1 \in 0 .. n - 3
        /\ m \in 3 .. Len(q) /\ m \in 1 .. n
    BY <1>0 DEF n
  <2>2. r.next = m /\ (i >= j => r.spec = cut) /\ (i = 3 => r.spec = 4)
    BY <1>7
  <2>3. t = SpecTurn(q, r, m) /\ q[m] # ":"
    BY <1>1, <2>1
  <2> HIDE DEF r, t, m, i
  <2>4. ~(m < r.next)
    BY <2>1, <2>2
  <2>5. CASE q[m] = Back
    <3>1. t = [spec |-> m, next |-> m + 1]
      BY <2>3, <2>4, <2>5 DEF SpecTurn
    <3>2. m <= j
      <4>1. m > j => m \in j + 1 .. Len(q)
        BY <1>0, <2>1
      <4> QED
        BY <1>0, <2>1, <2>5, <4>1
    <3>3. t.next = m + 1 /\ t.spec = m
      BY <3>1
    <3>4. (m >= j => t.spec = cut) /\ m # 3
      BY <1>0, <2>1, <3>2, <3>3
    <3> QED
      BY <2>1, <3>3, <3>4 DEF t
  <2>6. CASE q[m] # Back
    <3> DEFINE w == r.spec
    <3>1. t = [spec |-> w, next |-> m + 1]
      BY <2>3, <2>4, <2>6 DEF SpecTurn
    <3>2. m # j /\ (m >= j => i >= j) /\ m # 3
      BY <1>0, <2>1, <2>6
    <3> HIDE DEF w
    <3>3. t.next = m + 1 /\ t.spec = w
      BY <3>1
    <3>4. m >= j => t.spec = cut
      BY <2>2, <3>2, <3>3 DEF w
    <3> QED
      BY <2>1, <3>2, <3>3, <3>4 DEF t
  <2> QED
    BY <2>5, <2>6
<1>8. 0 .. n - 3 \subseteq S
  <2> HIDE DEF S
  <2>1. n - 3 \in Nat
    BY <1>0
  <2> QED
    BY <1>6, <1>7, <2>1, Induction
<1>9. f[n].spec = cut
  <2>1. n - 3 \in 0 .. n - 3 /\ n - 3 + 3 = n /\ n >= j
    BY <1>0
  <2> QED
    BY <1>8, <2>1
<1>10. /\ PathRemoveFileSpecU(q) = [path |-> SubSeq(q, 1, cut - 1), modified |-> cut <= n]
  BY <1>9 DEF PathRemoveFileSpecU, f, n
<1>11. cut <= n /\ cut - 1 = IF j = 3 THEN 3 ELSE j - 1
  BY <1>0
<1>12. (cut <= n) = TRUE
  BY <1>11
<1> QED
  BY <1>10, <1>11, <1>12

\* Names put together step by step are put together alike, whichever follow.
LEMMA JoinsAlike ==
    ASSUME NEW C, Back \in C, NEW root \in Seq(C), NEW names \in Seq(NameSet(C)), NEW k \in 0 .. Len(names)
    PROVE  Joined(root, SubSeq(names, 1, k)) = Joins(root, names)[k]
<1> DEFINE a == SubSeq(names, 1, k)
           J == Joins(root, names)
           K == Joins(root, a)
           S == {i \in 0 .. k : K[i] = J[i]}
<1>1. a \in Seq(NameSet(C)) /\ Len(a) = k /\ \A i \in 1 .. k : a[i] = names[i]
  BY PrefixIs
<1>2. J[0] = root /\ \A i \in 1 .. Len(names) : J[i] = JoinOne(J[i - 1], names[i])
  BY JoinsAre
<1> HIDE DEF a
<1>3. K[0] = root /\ \A i \in 1 .. k : K[i] = JoinOne(K[i - 1], a[i])
  <2>1. K[0] = root /\ \A i \in 1 .. Len(a) : K[i] = JoinOne(K[i - 1], a[i])
    <3>1. a \in Seq(NameSet(C))
      BY <1>1
    <3> HIDE DEF S, J
    <3> QED
      BY <3>1, JoinsAre
  <2> HIDE DEF K
  <2> QED
    BY <1>1, <2>1
<1>4. k \in Nat /\ Len(names) \in Nat /\ k <= Len(names) /\ 0 \in 0 .. k /\ k \in 0 .. k
  OBVIOUS
<1> HIDE DEF J, K
<1>5. 0 \in S
  BY <1>2, <1>3, <1>4
<1>6. ASSUME NEW i \in 0 .. k - 1, i \in S PROVE i + 1 \in S
  <2>1. i + 1 \in 1 .. k /\ i + 1 \in 0 .. k /\ i + 1 \in 1 .. Len(names) /\ i + 1 - 1 = i
    BY <1>4
  <2>2. PICK q \in 1 .. k : q = i + 1
    BY <2>1
  <2>3. K[q] = JoinOne(K[i], a[q]) /\ J[q] = JoinOne(J[i], names[q]) /\ a[q] = names[q] /\ K[i] = J[i]
    BY <1>1, <1>2, <1>3, <1>6, <2>1, <2>2
  <2> QED
    BY <2>1, <2>2, <2>3
<1>7. 0 .. k \subseteq S
  <2> HIDE DEF S
  <2> QED
    BY <1>4, <1>5, <1>6, Induction
<1>8. K[k] = J[k]
  BY <1>4, <1>7
<1> QED
  BY <1>1, <1>8 DEF Joined, a, J, K

\* The paths on the way from a root to a path: each begins the next one.
LEMMA JoinsGrow ==
    ASSUME NEW C, Back \in C, NEW root \in Seq(C), NEW names \in Seq(NameSet(C)), Len(root) = 2
    PROVE  /\ \A k \in 0 .. Len(names) : /\ Joins(root, names)[k] \in Seq(C)
                                         /\ Len(Joins(root, names)[k]) >= IF k = 0 THEN 2 ELSE 4
           /\ \A k \in 1 .. Len(names) :
                 /\ names[k] \in NameSet(C)
                 /\ Joins(root, names)[k] = JoinOne(Joins(root, names)[k - 1], names[k])
                 /\ Joins(root, names)[k - 1] # <<>>
                 /\ Len(Joins(root, names)[k]) = Len(Joins(root, names)[k - 1]) + 1 + Len(names[k])
                 /\ Len(names[k]) >= 1
           /\ Joins(root, names)[0] = root
<1> DEFINE J == Joins(root, names)
           n == Len(names)
           S == {k \in 0 .. n : Len(J[k]) >= IF k = 0 THEN 2 ELSE 4}
<1>1. J[0] = root /\ (\A i \in 1 .. n : J[i] = JoinOne(J[i - 1], names[i])) /\ \A i \in 0 .. n : J[i] \in Seq(C)
  BY JoinsAre
<1>2. n \in Nat /\ 0 \in 0 .. n
  OBVIOUS
<1>3. ASSUME NEW k \in 1 .. n
      PROVE  names[k] \in NameSet(C) /\ Len(names[k]) \in Nat \ {0}
  <2>1. names[k] \in NameSet(C)
    BY ElementOfSeq
  <2> DEFINE e == names[k]
  <2>2. e \in Seq(NameChars(C)) /\ e # <<>>
    BY <2>1 DEF NameSet
  <2> HIDE DEF e
  <2>3. Len(e) \in Nat \ {0}
    BY <2>2
  <2> QED
    BY <2>1, <2>3 DEF e
<1> HIDE DEF J, n
<1>4. ASSUME NEW k \in 1 .. n, Len(J[k - 1]) >= 2
      PROVE  J[k - 1] # <<>> /\ Len(J[k]) = Len(J[k - 1]) + 1 + Len(names[k]) /\ Len(J[k]) >= 4
  <2> DEFINE s == J[k - 1]
             e == names[k]
             t == J[k]
  <2>1. s \in Seq(C) /\ e \in NameSet(C) /\ Len(e) \in Nat \ {0} /\ t = JoinOne(s, e) /\ Len(s) >= 2
    <3>1. k - 1 \in 0 .. n
      BY <1>2
    <3> QED
      BY <1>1, <1>3, <1>4, <3>1
  <2> HIDE DEF s, e, t
  <2>2. s # <<>> /\ Len(s) \in Nat
    BY <2>1
  <2>3. Len(t) = Len(s) + 1 + Len(e)
    BY <2>1, <2>2, JoinOneIs
  <2>4. Len(t) >= 4
    BY <2>1, <2>2, <2>3
  <2> QED
    BY <2>2, <2>3, <2>4 DEF s, e, t
<1>5. 0 \in S
  <2>1. Len(J[0]) = 2
    <3>1. J[0] = root
      BY <1>1, Zenon
    <3> QED
      BY <3>1, Zenon
  <2>2. Len(J[0]) >= 2
    BY <2>1
  <2> QED
    BY <1>2, <2>2, Zenon
<1>6. ASSUME NEW k \in 0 .. n - 1, k \in S PROVE k + 1 \in S
  <2>1. k + 1 \in 1 .. n /\ k + 1 \in 0 .. n /\ k + 1 - 1 = k /\ k + 1 # 0 /\ k \in 0 .. n
    BY <1>2
  <2>2. PICK q \in 1 .. n : q = k + 1
    BY <2>1
  <2>3. Len(J[k]) \in Nat
    BY <1>1, <2>1
  <2>4. Len(J[q - 1]) >= 2
    BY <1>6, <2>1, <2>2, <2>3
  <2>5. Len(J[q]) >= 4
    BY <1>4, <2>4
  <2> QED
    BY <2>1, <2>2, <2>5
<1>7. 0 .. n \subseteq S
  <2> HIDE DEF S
  <2> QED
    BY <1>2, <1>5, <1>6, Induction
<1>8. ASSUME NEW k \in 1 .. n PROVE Len(J[k - 1]) >= 2
  <2>1. k - 1 \in 0 .. n
    BY <1>2
  <2>2. Len(J[k - 1]) \in Nat
    BY <1>1, <2>1
  <2> QED
    BY <1>7, <2>1, <2>2
<1>9. \A k \in 1 .. n : Len(names[k]) >= 1
  BY <1>3
<1> QED
  BY <1>1, <1>3, <1>4, <1>7, <1>8, <1>9 DEF J, n

\* One of them is the beginning of the path.
LEMMA JoinsBegin ==
    ASSUME NEW C, Back \in C, NEW root \in Seq(C), NEW names \in Seq(NameSet(C)), Len(root) = 2,
           NEW k \in 0 .. Len(names)
    PROVE  /\ Len(Joins(root, names)[k]) <= Len(Joined(root, names))
           /\ \A x \in 1 .. Len(Joins(root, names)[k]) : Joins(root, names)[k][x] = Joined(root, names)[x]
           /\ k < Len(names) => Len(Joins(root, names)[k]) < Len(Joined(root, names))
           /\ \A i \in 0 .. k - 1 : Len(Joins(root, names)[i]) < Len(Joins(root, names)[k])
<1> DEFINE J == Joins(root, names)
           n == Len(names)
           Leads(i, j) == Len(J[i]) <= Len(J[j]) /\ \A x \in 1 .. Len(J[i]) : J[i][x] = J[j][x]
           S == {j \in 0 .. n : \A i \in 0 .. j : Leads(i, j) /\ (i < j => Len(J[i]) < Len(J[j]))}
<1>1. n \in Nat /\ 0 \in 0 .. n /\ n \in 0 .. n /\ k \in 0 .. n
  OBVIOUS
<1>2. /\ \A j \in 0 .. n : J[j] \in Seq(C) /\ Len(J[j]) \in Nat
      /\ \A j \in 1 .. n : /\ names[j] \in NameSet(C) /\ J[j] = JoinOne(J[j - 1], names[j]) /\ J[j - 1] # <<>>
                           /\ Len(J[j]) = Len(J[j - 1]) + 1 + Len(names[j]) /\ Len(names[j]) >= 1
                           /\ Len(names[j]) \in Nat
  <2>1. /\ \A j \in 0 .. n : J[j] \in Seq(C) /\ Len(J[j]) >= IF j = 0 THEN 2 ELSE 4
        /\ \A j \in 1 .. n :
              /\ names[j] \in NameSet(C)
              /\ J[j] = JoinOne(J[j - 1], names[j])
              /\ J[j - 1] # <<>>
              /\ Len(J[j]) = Len(J[j - 1]) + 1 + Len(names[j])
              /\ Len(names[j]) >= 1
        /\ J[0] = root
    BY JoinsGrow, Zenon
  <2>2. ASSUME NEW e \in NameSet(C) PROVE Len(e) \in Nat
    BY DEF NameSet
  <2> HIDE DEF J, n
  <2>3. \A j \in 0 .. n : J[j] \in Seq(C) /\ Len(J[j]) \in Nat
    BY <2>1
  <2> QED
    BY <2>1, <2>2, <2>3, Zenon
<1>3. J[n] = Joined(root, names)
  BY DEF Joined
<1> HIDE DEF J, n
<1>4. 0 \in S
  <2>1. \A i \in 0 .. 0 : i = 0
    OBVIOUS
  <2> QED
    BY <1>1, <1>2, <2>1
<1>5. ASSUME NEW j \in 0 .. n - 1, j \in S PROVE j + 1 \in S
  <2>1. j + 1 \in 1 .. n /\ j + 1 \in 0 .. n /\ j + 1 - 1 = j /\ j \in 0 .. n
    BY <1>1
  <2>2. PICK q \in 1 .. n : q = j + 1
    BY <2>1
  <2>3. Len(J[j]) < Len(J[q]) /\ \A x \in 1 .. Len(J[j]) : J[j][x] = J[q][x]
    <3> DEFINE s == J[j]
               e == names[q]
    <3>1. s \in Seq(C) /\ e \in NameSet(C) /\ J[q] = JoinOne(s, e) /\ s # <<>> /\ Len(s) \in Nat /\ Len(e) \in Nat
      <4>1. q - 1 = j /\ j \in 0 .. n
        BY <2>1, <2>2
      <4>2. J[q] = JoinOne(J[q - 1], names[q]) /\ J[q - 1] # <<>> /\ names[q] \in NameSet(C) /\ Len(names[q]) \in Nat
        BY <1>2
      <4> QED
        BY <1>2, <4>1, <4>2
    <3> HIDE DEF s, e
    <3>2. Len(JoinOne(s, e)) = Len(s) + 1 + Len(e) /\ \A x \in 1 .. Len(s) : JoinOne(s, e)[x] = s[x]
      BY <3>1, JoinOneIs
    <3>3. Len(s) < Len(s) + 1 + Len(e)
      BY <3>1
    <3> QED
      BY <3>1, <3>2, <3>3 DEF s
  <2>4. ASSUME NEW i \in 0 .. q PROVE Leads(i, q) /\ (i < q => Len(J[i]) < Len(J[q]))
    <3>0. q \in 0 .. n /\ i \in 0 .. n /\ Len(J[i]) \in Nat /\ Len(J[q]) \in Nat /\ Len(J[j]) \in Nat
      <4>1. q \in 0 .. n /\ i \in 0 .. n
        BY <1>1
      <4> QED
        BY <1>2, <2>1, <4>1
    <3>1. CASE i = q
      BY <3>0, <3>1
    <3>2. CASE i # q
      <4>1. i \in 0 .. j
        BY <2>2, <3>2, <1>1
      <4>2. Len(J[i]) <= Len(J[j]) /\ \A x \in 1 .. Len(J[i]) : J[i][x] = J[j][x]
        BY <1>5, <4>1
      <4>3. Len(J[i]) < Len(J[q])
        BY <2>3, <3>0, <4>2
      <4>4. ASSUME NEW x \in 1 .. Len(J[i]) PROVE J[i][x] = J[q][x]
        <5>1. x \in 1 .. Len(J[j])
          BY <3>0, <4>2
        <5> QED
          BY <2>3, <4>2, <5>1
      <4> QED
        BY <3>0, <4>3, <4>4
    <3> QED
      BY <3>1, <3>2
  <2>5. q \in 0 .. n
    BY <2>1, <2>2
  <2>6. q \in S
    BY <2>4, <2>5
  <2> QED
    BY <2>2, <2>6
<1>6. 0 .. n \subseteq S
  <2> HIDE DEF S
  <2> QED
    BY <1>1, <1>4, <1>5, Induction
<1>7. /\ Len(J[k]) <= Len(J[n]) /\ \A x \in 1 .. Len(J[k]) : J[k][x] = J[n][x]
      /\ k < n => Len(J[k]) < Len(J[n])
  <2>1. k \in 0 .. n /\ n \in S
    BY <1>1, <1>6
  <2> QED
    BY <2>1
<1>8. ASSUME NEW i \in 0 .. k - 1 PROVE Len(J[i]) < Len(J[k])
  <2>1. i \in 0 .. k /\ i < k /\ k \in S
    BY <1>1, <1>6
  <2> QED
    BY <2>1
<1> QED
  BY <1>3, <1>7, <1>8 DEF J, n

\* A path of a drive and names, with a colon in its drive only.
OfDrive(root, names, p) ==
    /\ Len(root) = 2 /\ root[1] \notin {Back, ":"} /\ root[2] = ":"
    /\ p = Joined(root, names)
    /\ \A i \in 3 .. Len(p) : p[i] # ":"

\* One directory up.
LEMMA OneUp ==
    ASSUME NEW C, Back \in C, NEW root \in Seq(C), NEW names \in Seq(NameSet(C)), NEW p,
           OfDrive(root, names, p), NEW k \in 1 .. Len(names)
    PROVE  PathRemoveFileSpecU(Joins(root, names)[k]) =
               [path |-> IF k = 1 THEN Append(root, Back) ELSE Joins(root, names)[k - 1], modified |-> TRUE]
<1> DEFINE J == Joins(root, names)
           q == J[k]
           s == J[k - 1]
           e == names[k]
           o == J[1]
           j == Len(s) + 1
           n == Len(names)
<1>1. Len(root) = 2 /\ root[1] \notin {Back, ":"} /\ root[2] = ":" /\ p = Joined(root, names) /\ \A i \in 3 .. Len(p) : p[i] # ":"
  BY DEF OfDrive
<1>h. Len(root) = 2
  BY <1>1
<1>2. n \in Nat /\ k \in 1 .. n /\ 1 \in 1 .. n /\ k \in 0 .. n /\ k - 1 \in 0 .. n /\ 1 \in 0 .. n /\ 0 \in 0 .. n /\ 1 - 1 = 0
  OBVIOUS
<1>3. /\ \A i \in 0 .. n : J[i] \in Seq(C) /\ Len(J[i]) >= IF i = 0 THEN 2 ELSE 4
      /\ \A i \in 1 .. n :
            /\ names[i] \in NameSet(C)
            /\ J[i] = JoinOne(J[i - 1], names[i])
            /\ J[i - 1] # <<>>
            /\ Len(J[i]) = Len(J[i - 1]) + 1 + Len(names[i])
            /\ Len(names[i]) >= 1
      /\ J[0] = root
  BY <1>h, JoinsGrow, Zenon
<1>4. ASSUME NEW i \in 0 .. n
      PROVE  Len(J[i]) <= Len(p) /\ \A x \in 1 .. Len(J[i]) : J[i][x] = p[x]
  <2>1. /\ Len(Joins(root, names)[i]) <= Len(Joined(root, names))
        /\ \A x \in 1 .. Len(Joins(root, names)[i]) : Joins(root, names)[i][x] = Joined(root, names)[x]
        /\ i < Len(names) => Len(Joins(root, names)[i]) < Len(Joined(root, names))
        /\ \A y \in 0 .. i - 1 : Len(Joins(root, names)[y]) < Len(Joins(root, names)[i])
    BY <1>h, JoinsBegin, Zenon
  <2> HIDE DEF J
  <2> QED
    BY <1>1, <2>1, Zenon DEF J
<1>p. p \in Seq(C)
  <2>1. J[n] \in Seq(C)
    BY <1>2, <1>3
  <2> QED
    BY <1>1, <2>1 DEF Joined
<1>5. q \in Seq(C) /\ s \in Seq(C) /\ e \in NameSet(C) /\ q = JoinOne(s, e) /\ s # <<>> /\ Len(e) >= 1
  BY <1>2, <1>3
<1>6. e \in Seq(C) /\ (\A x \in 1 .. Len(e) : ~IsSep(e[x]))
      /\ Len(q) = Len(s) + 1 + Len(e) /\ (\A x \in 1 .. Len(s) : q[x] = s[x])
      /\ q[Len(s) + 1] = Back /\ (\A x \in 1 .. Len(e) : q[Len(s) + 1 + x] = e[x])
  <2> HIDE DEF q, s, e
  <2>1. e \in Seq(C) /\ (\A x \in 1 .. Len(e) : ~IsSep(e[x]))
    BY <1>5, JoinOneIs
  <2>2. /\ Len(JoinOne(s, e)) = Len(s) + 1 + Len(e) /\ (\A x \in 1 .. Len(s) : JoinOne(s, e)[x] = s[x])
        /\ JoinOne(s, e)[Len(s) + 1] = Back /\ (\A x \in 1 .. Len(e) : JoinOne(s, e)[Len(s) + 1 + x] = e[x])
    <3>1. s \in Seq(C) /\ e \in NameSet(C) /\ s # <<>>
      BY <1>5
    <3>2. \A d \in Seq(C), m \in NameSet(C) :
              d # <<>> => /\ Len(JoinOne(d, m)) = Len(d) + 1 + Len(m) /\ (\A x \in 1 .. Len(d) : JoinOne(d, m)[x] = d[x])
                          /\ JoinOne(d, m)[Len(d) + 1] = Back
                          /\ (\A x \in 1 .. Len(m) : JoinOne(d, m)[Len(d) + 1 + x] = m[x])
      BY JoinOneIs
    <3> QED
      BY <3>1, <3>2, Zenon
  <2> QED
    BY <1>5, <2>1, <2>2
<1>7. /\ o \in Seq(C) /\ o[1] = root[1] /\ o[2] = root[2] /\ o[3] = Back /\ Len(o) >= 4
  <2> DEFINE d == names[1]
  <2>1. d \in NameSet(C) /\ o = JoinOne(root, d) /\ root # <<>> /\ o \in Seq(C) /\ Len(o) >= 4
    <3>1. o = JoinOne(J[1 - 1], names[1]) /\ names[1] \in NameSet(C) /\ J[1 - 1] # <<>> /\ J[1 - 1] = root
      BY <1>2, <1>3
    <3>2. o \in Seq(C) /\ Len(o) >= 4
      BY <1>2, <1>3
    <3> QED
      BY <3>1, <3>2
  <2> HIDE DEF d, o
  <2>2. (\A x \in 1 .. Len(root) : JoinOne(root, d)[x] = root[x]) /\ JoinOne(root, d)[Len(root) + 1] = Back
    BY <2>1, JoinOneIs
  <2>3. 1 \in 1 .. Len(root) /\ 2 \in 1 .. Len(root) /\ Len(root) + 1 = 3
    BY <1>1
  <2> QED
    BY <2>1, <2>2, <2>3
<1>8. Len(o) <= Len(p) /\ (\A x \in 1 .. Len(o) : o[x] = p[x]) /\ Len(q) <= Len(p) /\ (\A x \in 1 .. Len(q) : q[x] = p[x])
  BY <1>2, <1>4
<1>9. Len(q) >= 4 /\ Len(s) >= 2 /\ (k = 1 => s = root) /\ (k # 1 => Len(s) >= 4)
  <2>1. k # 0 /\ (k = 1 => k - 1 = 0) /\ (k # 1 => k - 1 # 0)
    BY <1>2
  <2>2. Len(q) >= 4 /\ (k # 1 => Len(s) >= 4)
    <3>1. \A i \in 0 .. n : i # 0 => Len(J[i]) >= 4
      <4> HIDE DEF J
      <4> QED
        BY <1>3
    <3> QED
      BY <1>2, <2>1, <3>1
  <2>3. k = 1 => s = root
    BY <1>2, <1>3, <2>1
  <2>4. Len(s) \in Nat
    BY <1>5
  <2> QED
    <3> HIDE DEF s, q
    <3>1. k = 1 => Len(s) = 2
      BY <1>h, <2>3
    <3>2. k # 1 => Len(s) >= 4
      BY <2>2
    <3> DEFINE m == Len(s)
    <3>3. m \in Nat /\ (k = 1 => m = 2) /\ (k # 1 => m >= 4)
      BY <2>4, <3>1, <3>2
    <3> HIDE DEF m
    <3>4. m >= 2
      BY <3>3
    <3> QED
      BY <2>2, <2>3, <3>4 DEF m
<1> HIDE DEF J, q, s, e, o, n
<1>10. Len(q) \in Nat /\ Len(s) \in Nat /\ Len(e) \in Nat /\ Len(p) \in Nat /\ Len(o) \in Nat
  BY <1>5, <1>6, <1>7, <1>p
<1>11. q[1] \notin {Back, ":"} /\ q[2] = ":" /\ q[3] = Back
  <2>1. 1 \in 1 .. Len(o) /\ 2 \in 1 .. Len(o) /\ 3 \in 1 .. Len(o) /\ 1 \in 1 .. Len(q) /\ 2 \in 1 .. Len(q) /\ 3 \in 1 .. Len(q)
    BY <1>7, <1>9, <1>10
  <2> QED
    BY <1>1, <1>7, <1>8, <2>1
<1>12. \A i \in 3 .. Len(q) : q[i] # ":"
  <2> TAKE i \in 3 .. Len(q)
  <2>1. i \in 3 .. Len(p) /\ i \in 1 .. Len(q)
    BY <1>8, <1>10
  <2> QED
    BY <1>1, <1>8, <2>1
<1>13. j \in 3 .. Len(q) - 1 /\ q[j] = Back
  BY <1>5, <1>6, <1>9, <1>10
<1>14. \A i \in j + 1 .. Len(q) : q[i] # Back
  <2> TAKE i \in j + 1 .. Len(q)
  <2>1. i - j \in 1 .. Len(e) /\ Len(s) + 1 + (i - j) = i
    BY <1>6, <1>10
  <2> DEFINE x == i - j
  <2>2. x \in 1 .. Len(e) /\ Len(s) + 1 + x = i
    BY <2>1
  <2> HIDE DEF x, j
  <2>3. q[i] = e[x] /\ ~IsSep(e[x])
    BY <1>6, <2>2
  <2> QED
    BY <2>3 DEF IsSep, Seps
<1>15. PathRemoveFileSpecU(q) = [path |-> SubSeq(q, 1, IF j = 3 THEN 3 ELSE j - 1), modified |-> TRUE]
  <2> HIDE DEF j
  <2> QED
    BY <1>5, <1>11, <1>12, <1>13, <1>14, SpecCut
<1>16. k # 1 => SubSeq(q, 1, IF j = 3 THEN 3 ELSE j - 1) = s
  <2> SUFFICES ASSUME k # 1 PROVE SubSeq(q, 1, IF j = 3 THEN 3 ELSE j - 1) = s
    OBVIOUS
  <2> DEFINE m == Len(s)
             u == SubSeq(q, 1, m)
  <2>1. (IF j = 3 THEN 3 ELSE j - 1) = m
    BY <1>9, <1>10
  <2>2. m \in 0 .. Len(q)
    BY <1>6, <1>10
  <2>3. u \in Seq(C) /\ Len(u) = m /\ \A x \in 1 .. m : u[x] = q[x]
    <3> HIDE DEF m
    <3> QED
      BY <1>5, <2>2, PrefixIs
  <2> HIDE DEF u
  <2>4. u = s
    <3>1. s \in Seq(C) /\ u \in Seq(C) /\ Len(u) = Len(s) /\ \A x \in 1 .. Len(s) : u[x] = q[x]
      BY <1>5, <2>3
    <3>2. \A x \in 1 .. Len(s) : u[x] = s[x]
      BY <1>6, <3>1
    <3> QED
      BY <3>1, <3>2
  <2> QED
    BY <2>1, <2>4 DEF u
<1>17. k = 1 => SubSeq(q, 1, IF j = 3 THEN 3 ELSE j - 1) = Append(root, Back)
  <2> SUFFICES ASSUME k = 1 PROVE SubSeq(q, 1, IF j = 3 THEN 3 ELSE j - 1) = Append(root, Back)
    OBVIOUS
  <2> DEFINE u == SubSeq(q, 1, 3)
             a == Append(root, Back)
  <2>1. (IF j = 3 THEN 3 ELSE j - 1) = 3 /\ s = root
    <3>1. s = root
      BY <1>9
    <3>2. Len(s) = 2
      BY <1>h, <3>1
    <3> QED
      BY <3>1, <3>2
  <2>2. 3 \in 0 .. Len(q)
    BY <1>9, <1>10
  <2>3. u \in Seq(C) /\ Len(u) = 3 /\ \A x \in 1 .. 3 : u[x] = q[x]
    BY <1>5, <2>2, PrefixIs
  <2>4. a \in Seq(C) /\ Len(a) = 3 /\ a[1] = root[1] /\ a[2] = root[2] /\ a[3] = Back
    <3>1. root \in Seq(C) /\ Back \in C /\ Len(root) = 2
      BY <1>h
    <3>2. a \in Seq(C) /\ Len(a) = Len(root) + 1 /\ (\A x \in 1 .. Len(root) : a[x] = root[x]) /\ a[Len(root) + 1] = Back
      <4>1. ASSUME NEW d \in Seq(C), NEW b \in C
            PROVE  /\ Append(d, b) \in Seq(C) /\ Len(Append(d, b)) = Len(d) + 1
                   /\ (\A x \in 1 .. Len(d) : Append(d, b)[x] = d[x]) /\ Append(d, b)[Len(d) + 1] = b
        OBVIOUS
      <4> QED
        BY <3>1, <4>1, Zenon
    <3> HIDE DEF a
    <3>3. 1 \in 1 .. Len(root) /\ 2 \in 1 .. Len(root) /\ Len(root) + 1 = 3
      BY <3>1
    <3> QED
      BY <3>2, <3>3
  <2>5. u[1] = root[1] /\ u[2] = root[2] /\ u[3] = Back
    <3>1. 1 \in 1 .. 3 /\ 2 \in 1 .. 3 /\ 3 \in 1 .. 3 /\ 1 \in 1 .. Len(s) /\ 2 \in 1 .. Len(s)
      <4>1. Len(s) = 2
        BY <1>h, <2>1
      <4> QED
        BY <4>1
    <3>2. q[1] = root[1] /\ q[2] = root[2]
      BY <1>6, <2>1, <3>1
    <3> HIDE DEF u
    <3> QED
      BY <1>11, <2>3, <3>1, <3>2
  <2> HIDE DEF u, a
  <2>6. u = a
    <3>1. \A x \in 1 .. 3 : x = 1 \/ x = 2 \/ x = 3
      OBVIOUS
    <3>2. \A x \in 1 .. 3 : u[x] = a[x]
      BY <2>4, <2>5, <3>1
    <3> QED
      BY <2>3, <2>4, <3>2
  <2> QED
    BY <2>1, <2>6 DEF u, a
<1>18. SubSeq(q, 1, IF j = 3 THEN 3 ELSE j - 1) = IF k = 1 THEN Append(root, Back) ELSE s
  BY <1>16, <1>17
<1> QED
  BY <1>15, <1>18 DEF q, s, J

\* The i-th directory above p.
Above(root, names, i) ==
    IF i = Len(names) THEN Append(root, Back) ELSE Joins(root, names)[Len(names) - i]

\* Each directory is longer than those above it.
LEMMA AboveLess ==
    ASSUME NEW C, Back \in C, NEW root \in Seq(C), NEW names \in Seq(NameSet(C)), Len(root) = 2,
           NEW i \in 0 .. Len(names), NEW k \in 0 .. Len(names), i < k
    PROVE  Above(root, names, i) # Above(root, names, k)
<1> DEFINE J == Joins(root, names)
           n == Len(names)
           a == J[n - i]
<1>1. n \in Nat /\ i \in Nat /\ k \in Nat /\ i < k /\ k <= n /\ n - i \in 1 .. n /\ n - k \in 0 .. n - i - 1 /\ i # n
      /\ n - i \in 0 .. n /\ n - k \in 0 .. n /\ n - i # 0
  OBVIOUS
<1>2. \A x \in 0 .. n : J[x] \in Seq(C) /\ Len(J[x]) >= IF x = 0 THEN 2 ELSE 4
  BY JoinsGrow
<1>3. Above(root, names, i) = a
  BY <1>1 DEF Above
<1>4. Len(a) >= 4
  <2> HIDE DEF J, n
  <2>1. \A x \in 0 .. n : x # 0 => Len(J[x]) >= 4
    BY <1>2
  <2> QED
    BY <1>1, <2>1
<1>5. CASE k = n
  <2>1. Above(root, names, k) = Append(root, Back) /\ Len(Append(root, Back)) = 3
    <3>1. ASSUME NEW d \in Seq(C), NEW b \in C PROVE Len(Append(d, b)) = Len(d) + 1
      OBVIOUS
    <3>2. Len(Append(root, Back)) = Len(root) + 1
      BY <3>1
    <3> QED
      BY <1>5, <3>2 DEF Above
  <2> QED
    BY <1>3, <1>4, <2>1
<1>6. CASE k # n
  <2>1. Above(root, names, k) = J[n - k]
    BY <1>6 DEF Above
  <2>2. Len(J[n - k]) < Len(J[n - i])
    <3> DEFINE q == n - i
               x == n - k
    <3>1. q \in 0 .. Len(names) /\ x \in 0 .. q - 1
      BY <1>1
    <3> HIDE DEF q, x
    <3>2. \A y \in 0 .. q - 1 : Len(Joins(root, names)[y]) < Len(Joins(root, names)[q])
      BY <3>1, JoinsBegin
    <3> QED
      BY <3>1, <3>2 DEF q, x
  <2>3. Len(J[n - k]) \in Nat /\ Len(J[n - i]) \in Nat
    BY <1>1, <1>2
  <2> QED
    BY <1>3, <2>1, <2>2, <2>3
<1> QED
  BY <1>5, <1>6

Ups(exe) ==
    LET up[n \in 0 .. 5] == IF n = 0 THEN [path |-> exe, modified |-> TRUE]
                            ELSE IF up[n - 1].modified THEN PathRemoveFileSpecU(up[n - 1].path)
                            ELSE up[n - 1]
    IN up

\* LookupClangbuilderTarget goes up directory by directory.
LEMMA UpsAre ==
    ASSUME NEW exe
    PROVE  /\ Ups(exe)[0] = [path |-> exe, modified |-> TRUE]
           /\ \A n \in 1 .. 5 : Ups(exe)[n] = IF Ups(exe)[n - 1].modified THEN PathRemoveFileSpecU(Ups(exe)[n - 1].path)
                                              ELSE Ups(exe)[n - 1]
<1> DEFINE base == [path |-> exe, modified |-> TRUE]
           Turn(r) == IF r.modified THEN PathRemoveFileSpecU(r.path) ELSE r
           Is(g) == g = [n \in 0 .. 5 |-> IF n = 0 THEN base ELSE Turn(g[n - 1])]
           up == CHOOSE g : Is(g)
           r1 == Turn(base)
           r2 == Turn(r1)
           r3 == Turn(r2)
           r4 == Turn(r3)
           r5 == Turn(r4)
           f == [n \in 0 .. 5 |-> IF n = 0 THEN base ELSE IF n = 1 THEN r1 ELSE IF n = 2 THEN r2
                                  ELSE IF n = 3 THEN r3 ELSE IF n = 4 THEN r4 ELSE r5]
<1>1. Ups(exe) = up
  BY DEF Ups
<1> HIDE DEF base, Turn
<1>2. Is(f)
  <2>1. /\ f[0] = base /\ f[1] = r1 /\ f[2] = r2 /\ f[3] = r3 /\ f[4] = r4 /\ f[5] = r5
        /\ f = [n \in 0 .. 5 |-> f[n]]
    <3> HIDE DEF r1, r2, r3, r4, r5
    <3> QED
      OBVIOUS
  <2>2. r1 = Turn(base) /\ r2 = Turn(r1) /\ r3 = Turn(r2) /\ r4 = Turn(r3) /\ r5 = Turn(r4)
    OBVIOUS
  <2> HIDE DEF f, r1, r2, r3, r4, r5
  <2>3. f[1] = Turn(f[0]) /\ f[2] = Turn(f[1]) /\ f[3] = Turn(f[2]) /\ f[4] = Turn(f[3]) /\ f[5] = Turn(f[4])
    BY <2>1, <2>2
  <2>4. ASSUME NEW n \in 0 .. 5 PROVE f[n] = IF n = 0 THEN base ELSE Turn(f[n - 1])
    <3>1. n = 0 \/ n = 1 \/ n = 2 \/ n = 3 \/ n = 4 \/ n = 5
      OBVIOUS
    <3>2. 1 - 1 = 0 /\ 2 - 1 = 1 /\ 3 - 1 = 2 /\ 4 - 1 = 3 /\ 5 - 1 = 4
      OBVIOUS
    <3> QED
      BY <2>1, <2>3, <3>1, <3>2
  <2> QED
    BY <2>1, <2>4
<1>3. Is(up)
  <2> HIDE DEF Is, f
  <2> QED
    BY <1>2, Zenon
<1> HIDE DEF up
<1>4. up[0] = base /\ \A n \in 1 .. 5 : up[n] = Turn(up[n - 1])
  <2>1. 0 \in 0 .. 5 /\ \A n \in 1 .. 5 : n \in 0 .. 5 /\ n # 0
    OBVIOUS
  <2>2. \A n \in 0 .. 5 : up[n] = IF n = 0 THEN base ELSE Turn(up[n - 1])
    BY <1>3, Zenon
  <2> QED
    BY <2>1, <2>2
<1> QED
  BY <1>1, <1>4 DEF base, Turn

\* As long as there is a name to take, each step of it is one directory up.
LEMMA UpsAbove ==
    ASSUME NEW C, Back \in C, NEW root \in Seq(C), NEW names \in Seq(NameSet(C)), NEW p,
           OfDrive(root, names, p), names # <<>>, NEW k \in 0 .. 5, k <= Len(names)
    PROVE  Ups(p)[k] = [path |-> Above(root, names, k), modified |-> TRUE]
<1> DEFINE n == Len(names)
           J == Joins(root, names)
           u == Ups(p)
           S == {i \in 0 .. k : u[i] = [path |-> Above(root, names, i), modified |-> TRUE]}
<1>1. n \in Nat /\ n # 0 /\ k \in Nat /\ 0 \in 0 .. k /\ k \in 0 .. k /\ k <= n /\ k <= 5
  OBVIOUS
<1>2. /\ u[0] = [path |-> p, modified |-> TRUE]
      /\ \A i \in 1 .. 5 : u[i] = IF u[i - 1].modified THEN PathRemoveFileSpecU(u[i - 1].path) ELSE u[i - 1]
  BY UpsAre
<1> HIDE DEF u
<1>3. 0 \in S
  <2>1. n - 0 = n /\ n # 0
    BY <1>1
  <2>2. Above(root, names, 0) = p
    BY <2>1 DEF Above, OfDrive, Joined
  <2> QED
    BY <1>1, <1>2, <2>2
<1>4. ASSUME NEW i \in 0 .. k - 1, i \in S PROVE i + 1 \in S
  <2>1. i + 1 \in 1 .. 5 /\ i + 1 \in 0 .. k /\ i + 1 - 1 = i /\ i # n /\ n - i \in 1 .. n
        /\ n - (i + 1) = n - i - 1 /\ (n - i = 1 <=> i + 1 = n)
    BY <1>1
  <2>2. PICK q \in 1 .. 5 : q = i + 1
    BY <2>1
  <2>3. PICK m \in 1 .. n : m = n - i
    BY <2>1
  <2> DEFINE t == J[m]
             v == IF m = 1 THEN Append(root, Back) ELSE J[m - 1]
  <2>4. u[i] = [path |-> t, modified |-> TRUE]
    <3>1. Above(root, names, i) = J[n - i]
      BY <2>1 DEF Above
    <3> HIDE DEF J
    <3> QED
      BY <1>4, <2>3, <3>1
  <2>5. PathRemoveFileSpecU(t) = [path |-> v, modified |-> TRUE]
    BY OneUp
  <2>6. v = Above(root, names, q)
    <3>1. (m = 1 <=> q = n) /\ m - 1 = n - q
      BY <2>1, <2>2, <2>3
    <3> QED
      BY <3>1 DEF Above
  <2> HIDE DEF t, v
  <2>7. u[i].modified = TRUE /\ u[i].path = t
    BY <2>4
  <2>8. u[q] = PathRemoveFileSpecU(t)
    <3>1. q - 1 = i
      <4>1. i \in Int
        BY <1>1
      <4> QED
        BY <2>2, <4>1
    <3>2. u[q] = IF u[q - 1].modified THEN PathRemoveFileSpecU(u[q - 1].path) ELSE u[q - 1]
      BY <1>2
    <3> QED
      BY <2>7, <3>1, <3>2
  <2>9. u[q] = [path |-> Above(root, names, q), modified |-> TRUE]
    BY <2>5, <2>6, <2>8
  <2> QED
    BY <2>1, <2>2, <2>9
<1>5. 0 .. k \subseteq S
  <2> HIDE DEF S
  <2> QED
    BY <1>1, <1>3, <1>4, Induction
<1> QED
  BY <1>1, <1>5 DEF u

TwoRoots(root, names, n, m) == {Above(root, names, n), Above(root, names, m)}

\* Of two roots above a program, at most five directories up, the nearer one is found.
LEMMA NearerFound ==
    ASSUME NEW C, Back \in C, NEW root \in Seq(C), NEW names \in Seq(NameSet(C)), NEW p,
           OfDrive(root, names, p), NEW n \in 1 .. 5, NEW m \in 1 .. 5, n <= m, m <= Len(names)
    PROVE  LookupClangbuilderTarget(p, TwoRoots(root, names, n, m)) = Above(root, names, n)
<1> DEFINE u == Ups(p)
           A(i) == Above(root, names, i)
           roots == TwoRoots(root, names, n, m)
           Good(i) == u[i].path \in roots /\ \A x \in 1 .. i : u[x].modified
           S == {i \in 1 .. 5 : Good(i)}
           first == SmallestOr(S, 0)
<1>1. Len(names) \in Nat /\ names # <<>> /\ n \in Nat /\ m \in Nat /\ n <= m /\ m <= Len(names) /\ Len(root) = 2
  BY DEF OfDrive
<1>2. LookupClangbuilderTarget(p, roots) = IF first = 0 THEN <<>> ELSE u[first].path
  BY DEF LookupClangbuilderTarget, Ups
<1>3. ASSUME NEW i \in 1 .. n PROVE u[i].path = A(i) /\ u[i].modified
  <2>1. i \in 0 .. 5 /\ i <= Len(names)
    BY <1>1
  <2> DEFINE w == Above(root, names, i)
  <2>2. u[i] = [path |-> w, modified |-> TRUE]
    BY <1>1, <2>1, UpsAbove
  <2> HIDE DEF w, u
  <2>3. u[i].path = w /\ u[i].modified = TRUE
    BY <2>2
  <2> QED
    BY <2>3 DEF w
<1>4. ASSUME NEW i \in 1 .. n, A(i) \in roots PROVE i = n
  <2> SUFFICES ASSUME i # n PROVE FALSE
    OBVIOUS
  <2>1. i \in 0 .. Len(names) /\ n \in 0 .. Len(names) /\ m \in 0 .. Len(names) /\ i < n /\ i < m
    BY <1>1
  <2>2. A(i) # A(n)
    BY <1>1, <2>1, AboveLess
  <2>3. A(i) # A(m)
    BY <1>1, <2>1, AboveLess
  <2> QED
    BY <1>4, <2>2, <2>3 DEF TwoRoots
<1>r. roots = {A(n), A(m)}
  BY DEF TwoRoots
<1> HIDE DEF u, A, roots
<1>5. n \in S /\ S \subseteq Nat
  <2>1. n \in 1 .. n
    BY <1>1
  <2>2. Good(n)
    BY <1>3, <1>r, <2>1
  <2> QED
    BY <2>2
<1>6. first \in S /\ first <= n
  <2> HIDE DEF S
  <2> QED
    BY <1>5, SmallestIs
<1>7. first = n
  <2>1. first \in 1 .. 5 /\ Good(first)
    <3> HIDE DEF Good, first
    <3> QED
      BY <1>6
  <2> HIDE DEF first
  <2>2. first \in 1 .. n
    BY <1>1, <1>6, <2>1
  <2>3. A(first) \in roots
    BY <1>3, <2>1, <2>2
  <2> QED
    BY <1>4, <2>2, <2>3
<1> HIDE DEF first
<1>8. LookupClangbuilderTarget(p, roots) = u[n].path
  BY <1>1, <1>2, <1>7
<1>9. u[n].path = A(n)
  <2>1. n \in 1 .. n
    BY <1>1
  <2> QED
    BY <1>3, <2>1
<1> QED
  BY <1>8, <1>9 DEF A, roots

\* A root of two characters is a drive.
LEMMA RootOfTwo ==
    ASSUME NEW C, NEW p \in Seq(C), PathRootLen(p) = 2
    PROVE  Len(p) >= 2 /\ p[1] \in Letters /\ p[2] = ":"
<1> DEFINE l     == Len(p)
           Lead  == l >= 2 /\ IsSep(p[1]) /\ IsSep(p[2])
           Drive(i) == p[i] \in Letters /\ p[i + 1] = ":"
           S     == {k \in 4 .. l - 1 : IsSep(p[k])}
           share == SmallestOr(S, 0) + 1
           E     == {k \in share .. l : IsSep(p[k])}
           end   == SmallestOr(E, l + 1) - 1
           Two   == l >= 2 /\ Drive(1)
           Prefix == l >= 6 /\ Lead /\ p[3] \in {".", "?"} /\ IsSep(p[4])
           Share == l >= 5 /\ Lead /\ ~IsSep(p[3]) /\ p[3] # "." /\ share # 1
                    /\ ~IsSep(p[share]) /\ p[share] # "."
<1>1. PathRootLen(p) = IF Two THEN 2 ELSE IF Prefix THEN IF Drive(5) THEN 6 ELSE 4 ELSE IF Share THEN end ELSE 0
  BY DEF PathRootLen
<1>2. l \in Nat
  OBVIOUS
<1>3. (Two => l >= 2 /\ p[1] \in Letters /\ p[2] = ":") /\ (Share => l >= 5 /\ share # 1)
  OBVIOUS
<1>4. S \subseteq Nat /\ S \subseteq 4 .. l - 1
  BY <1>2
<1> HIDE DEF l, S, Two, Prefix, Drive
<1>5. share # 1 => share \in 5 .. l
  <2> DEFINE z == SmallestOr(S, 0)
  <2>1. z = 0 \/ z \in 4 .. l - 1
    BY <1>4, SmallestIs
  <2> HIDE DEF z
  <2>2. z + 1 # 1 => z + 1 \in 5 .. l
    BY <1>2, <2>1
  <2> QED
    BY <2>2 DEF z
<1> HIDE DEF share
<1>6. ASSUME Share PROVE end # 2
  <2>0. share \in 5 .. l /\ l >= 5
    BY <1>3, <1>5, <1>6
  <2>1. E \subseteq Nat /\ E \subseteq 5 .. l
    BY <1>2, <2>0
  <2> HIDE DEF E
  <2> DEFINE z == SmallestOr(E, l + 1)
  <2>2. z = l + 1 \/ z \in 5 .. l
    BY <2>1, SmallestIs
  <2> HIDE DEF z
  <2>3. z - 1 # 2
    BY <1>2, <2>0, <2>2
  <2> QED
    BY <2>3 DEF z
<1> HIDE DEF end, Share
<1>7. Two
  BY <1>1, <1>6
<1> QED
  BY <1>3, <1>7 DEF l

\* The nearest root is found from any path of a drive, however long (RootFound).
LEMMA LookupFinds ==
    ASSUME NEW C, Back \in C, NEW p \in Seq(C), PathRootLen(p) = 2, IsPath(p), PathCat(p, <<>>) = p
    PROVE  LET root  == SubSeq(p, 1, 2)
               names == Names(From(p, 3))
               Up(n) == IF n = Len(names) THEN Append(root, Back)
                        ELSE Joined(root, SubSeq(names, 1, Len(names) - n))
               Levels == 1 .. (IF Len(names) < 5 THEN Len(names) ELSE 5)
           IN \A n, m \in Levels :
                  n <= m => LookupClangbuilderTarget(p, {Up(n), Up(m)}) = Up(n)
<1> DEFINE root  == SubSeq(p, 1, 2)
           names == Names(From(p, 3))
           Up(n) == IF n = Len(names) THEN Append(root, Back)
                    ELSE Joined(root, SubSeq(names, 1, Len(names) - n))
           Levels == 1 .. (IF Len(names) < 5 THEN Len(names) ELSE 5)
           ns == SplitPathInternal(Rest(p), <<>>).names
<1>1. Len(p) >= 2 /\ p[1] \in Letters /\ p[2] = ":" /\ Len(p) \in Nat
  BY RootOfTwo
<1>2. root \in Seq(C) /\ Len(root) = 2 /\ root[1] = p[1] /\ root[2] = p[2]
  <2>1. 2 \in 0 .. Len(p) /\ 1 \in 1 .. 2 /\ 2 \in 1 .. 2
    BY <1>1
  <2>2. root \in Seq(C) /\ Len(root) = 2 /\ \A k \in 1 .. 2 : root[k] = p[k]
    BY <2>1, PrefixIs
  <2> HIDE DEF root
  <2> QED
    BY <2>1, <2>2
<1>3. ns \in Seq(NameSet(C)) /\ p = Joined(root, ns)
  <2>1. /\ SplitPathInternal(Rest(p), <<>>).names \in Seq(NameSet(C))
        /\ PathCat(p, <<>>) = Joined(SubSeq(p, 1, PathRootLen(p)), SplitPathInternal(Rest(p), <<>>).names)
    BY PathCatIs
  <2> QED
    BY <2>1
<1> HIDE DEF root, ns
<1>4. names = ns
  <2>1. IsJoined(p, root, ns)
    BY <1>2, <1>3, JoinedAll
  <2>2. Len(root) + 1 = 3
    BY <1>2
  <2> QED
    BY <2>1, <2>2 DEF IsJoined
<1> HIDE DEF names
<1>5. \A i \in 3 .. Len(p) : p[i] # ":"
  <2> DEFINE f == From(p, 3)
  <2>1. 3 \in 1 .. Len(p) + 1 /\ PathRootLen(p) + 1 = 3
    BY <1>1
  <2>2. f \in Seq(C) /\ Len(f) = Len(p) + 1 - 3 /\ \A k \in 1 .. Len(p) + 1 - 3 : f[k] = p[3 + k - 1]
    BY <2>1, FromIs
  <2>3. ":" \notin ToSet(f)
    BY <2>1 DEF IsPath
  <2> HIDE DEF f
  <2> TAKE i \in 3 .. Len(p)
  <2>4. i - 2 \in 1 .. Len(p) + 1 - 3 /\ 3 + (i - 2) - 1 = i /\ i - 2 \in 1 .. Len(f)
    BY <1>1, <2>2
  <2>5. DOMAIN f = 1 .. Len(f)
    BY <2>2
  <2>6. f[i - 2] = p[i]
    BY <2>2, <2>4
  <2> QED
    BY <2>3, <2>4, <2>5, <2>6 DEF ToSet
<1>6. OfDrive(root, names, p)
  <2>1. p[1] \notin {Back, ":"}
    BY <1>1 DEF Letters, Back
  <2> QED
    BY <1>1, <1>2, <1>3, <1>4, <1>5, <2>1 DEF OfDrive
<1>7. names \in Seq(NameSet(C)) /\ Len(names) \in Nat
  BY <1>3, <1>4
<1>8. ASSUME NEW n \in Levels PROVE Up(n) = Above(root, names, n) /\ n \in 1 .. 5 /\ n <= Len(names)
  <2>1. n \in 1 .. 5 /\ n <= Len(names) /\ Len(names) - n \in 0 .. Len(names)
    BY <1>7
  <2> DEFINE k == Len(names) - n
  <2>2. Joined(root, SubSeq(names, 1, k)) = Joins(root, names)[k]
    <3>1. k \in 0 .. Len(names)
      BY <2>1
    <3> HIDE DEF k
    <3> QED
      BY <1>2, <1>7, <3>1, JoinsAlike
  <2> QED
    BY <2>1, <2>2 DEF Above
<1> HIDE DEF Levels, Up
<1>9. ASSUME NEW n \in Levels, NEW m \in Levels, n <= m
      PROVE  LookupClangbuilderTarget(p, {Up(n), Up(m)}) = Up(n)
  <2>1. n \in 1 .. 5 /\ m \in 1 .. 5 /\ m <= Len(names) /\ Up(n) = Above(root, names, n) /\ Up(m) = Above(root, names, m)
    BY <1>8
  <2>2. LookupClangbuilderTarget(p, {Above(root, names, n), Above(root, names, m)}) = Above(root, names, n)
    <3>1. root \in Seq(C) /\ names \in Seq(NameSet(C)) /\ OfDrive(root, names, p)
      BY <1>2, <1>6, <1>7
    <3>2. n \in 1 .. 5 /\ m \in 1 .. 5 /\ n <= m /\ m <= Len(names)
      BY <1>9, <2>1
    <3>3. LookupClangbuilderTarget(p, TwoRoots(root, names, n, m)) = Above(root, names, n)
      BY <3>1, <3>2, NearerFound
    <3> QED
      BY <3>3 DEF TwoRoots
  <2> QED
    BY <2>1, <2>2
<1> QED
  BY <1>9 DEF Levels, Up, root, names

\* Whatever path of a drive is typed, and however long it is: a program there finds the
\* root of clangbuilder up to five directories above it, and the nearer one of two.
THEOREM NearestRootFound == ProgramsSpec => []RootFound
<1>1. TextOK => RootFound
  <2> SUFFICES ASSUME TextOK PROVE RootFound
    OBVIOUS
  <2> DEFINE C == STRING \cup {Back}
  <2>1. Typed \in Seq(STRING)
    BY FlattenIs DEF Typed, TextOK
  <2>2. Typed \in Seq(C) /\ Back \in C
    BY <2>1, Wider
  <2> HIDE DEF C
  <2> QED
    BY <2>2, LookupFinds DEF RootFound
<1> QED
  BY <1>1, TextType, PTL

-----------------------------------------------------------------------------
(* The directory and the name of a path.                                   *)

\* LargestOr is the largest number, if there is one.
LEMMA LargestIs ==
    ASSUME NEW i \in Nat, NEW S, S \subseteq 1 .. i, NEW d
    PROVE  /\ S = {} => LargestOr(S, d) = d
           /\ S # {} => LargestOr(S, d) \in S /\ \A k \in S : k <= LargestOr(S, d)
<1>1. CASE S = {}
  BY <1>1 DEF LargestOr
<1>2. CASE S # {}
  <2> DEFINE R == {i - k : k \in S}
             Is(m) == \A j \in S : j <= m
             c == CHOOSE m \in S : Is(m)
  <2>1. R \subseteq Nat /\ R # {}
    <3>1. \A k \in S : i - k \in Nat
      OBVIOUS
    <3>2. PICK k \in S : TRUE
      BY <1>2
    <3>3. i - k \in R
      BY <3>2
    <3> QED
      BY <3>1, <3>3
  <2>2. PICK r \in R : \A k \in R : r <= k
    BY <2>1, Least
  <2>3. PICK m \in S : r = i - m
    OBVIOUS
  <2>4. Is(m)
    <3> TAKE j \in S
    <3>1. i - j \in R /\ i - m <= i - j /\ j \in 1 .. i /\ m \in 1 .. i
      BY <2>2, <2>3
    <3> QED
      BY <3>1
  <2>5. LargestOr(S, d) = c
    BY <1>2 DEF LargestOr
  <2>6. c \in S /\ Is(c)
    <3> HIDE DEF Is
    <3> QED
      BY <2>4
  <2> QED
    BY <1>2, <2>5, <2>6
<1> QED
  BY <1>1, <1>2

\* What LastPlain finds, and what follows it.
LEMMA LastPlainIs ==
    ASSUME NEW p, NEW i \in Nat
    PROVE  /\ LastPlain(p, i) \in 0 .. i
           /\ LastPlain(p, i) # 0 => ~IsSep(p[LastPlain(p, i)])
           /\ \A k \in LastPlain(p, i) + 1 .. i : IsSep(p[k])
<1> DEFINE S == {k \in 1 .. i : ~IsSep(p[k])}
           m == LastPlain(p, i)
<1>1. m = LargestOr(S, 0)
  BY DEF LastPlain
<1> HIDE DEF m
<1>2. S \subseteq 1 .. i
  OBVIOUS
<1>3. CASE S = {}
  <2>1. m = 0
    BY <1>1, <1>2, <1>3, LargestIs
  <2> QED
    BY <1>3, <2>1 DEF m
<1>4. CASE S # {}
  <2>1. m \in S /\ \A k \in S : k <= m
    <3> HIDE DEF S
    <3> QED
      BY <1>1, <1>2, <1>4, LargestIs
  <2>2. m \in 1 .. i /\ ~IsSep(p[m])
    BY <2>1
  <2>3. ASSUME NEW k \in m + 1 .. i PROVE IsSep(p[k])
    <3>1. k \in 1 .. i /\ ~(k <= m)
      BY <2>2
    <3> QED
      BY <2>1, <3>1
  <2> QED
    BY <2>2, <2>3 DEF m
<1> QED
  BY <1>3, <1>4

\* What LastSep finds, and what follows it.
LEMMA LastSepIs ==
    ASSUME NEW p, NEW i \in Nat
    PROVE  /\ LastSep(p, i) \in 0 .. i
           /\ LastSep(p, i) # 0 => IsSep(p[LastSep(p, i)])
           /\ \A k \in LastSep(p, i) + 1 .. i : ~IsSep(p[k])
<1> DEFINE S == {k \in 1 .. i : IsSep(p[k])}
           m == LastSep(p, i)
<1>1. m = LargestOr(S, 0)
  BY DEF LastSep
<1> HIDE DEF m
<1>2. S \subseteq 1 .. i
  OBVIOUS
<1>3. CASE S = {}
  <2>1. m = 0
    BY <1>1, <1>2, <1>3, LargestIs
  <2> QED
    BY <1>3, <2>1 DEF m
<1>4. CASE S # {}
  <2>1. m \in S /\ \A k \in S : k <= m
    <3> HIDE DEF S
    <3> QED
      BY <1>1, <1>2, <1>4, LargestIs
  <2>2. m \in 1 .. i /\ IsSep(p[m])
    BY <2>1
  <2>3. ASSUME NEW k \in m + 1 .. i PROVE ~IsSep(p[k])
    <3>1. k \in 1 .. i /\ ~(k <= m)
      BY <2>2
    <3> QED
      BY <2>1, <3>1
  <2> QED
    BY <2>2, <2>3 DEF m
<1> QED
  BY <1>3, <1>4

\* A character before separators only is the one LastPlain finds.
LEMMA LastPlainAt ==
    ASSUME NEW p, NEW i \in Nat, NEW k \in 1 .. i, ~IsSep(p[k]), \A j \in k + 1 .. i : IsSep(p[j])
    PROVE  LastPlain(p, i) = k
<1> DEFINE m == LastPlain(p, i)
<1>1. m \in 0 .. i /\ (m # 0 => ~IsSep(p[m])) /\ \A j \in m + 1 .. i : IsSep(p[j])
  BY LastPlainIs
<1> HIDE DEF m
<1>2. ~(m < k)
  <2>1. m < k => k \in m + 1 .. i
    BY <1>1
  <2> QED
    BY <1>1, <2>1
<1>3. ~(k < m)
  <2>1. k < m => m \in k + 1 .. i /\ m # 0
    BY <1>1
  <2> QED
    BY <1>1, <2>1
<1>4. m = k
  BY <1>1, <1>2, <1>3
<1> QED
  BY <1>4 DEF m

\* A separator before other characters only is the one LastSep finds.
LEMMA LastSepAt ==
    ASSUME NEW p, NEW i \in Nat, NEW k \in 1 .. i, IsSep(p[k]), \A j \in k + 1 .. i : ~IsSep(p[j])
    PROVE  LastSep(p, i) = k
<1> DEFINE m == LastSep(p, i)
<1>1. m \in 0 .. i /\ (m # 0 => IsSep(p[m])) /\ \A j \in m + 1 .. i : ~IsSep(p[j])
  BY LastSepIs
<1> HIDE DEF m
<1>2. ~(m < k)
  <2>1. m < k => k \in m + 1 .. i
    BY <1>1
  <2> QED
    BY <1>1, <2>1
<1>3. ~(k < m)
  <2>1. k < m => m \in k + 1 .. i /\ m # 0
    BY <1>1
  <2> QED
    BY <1>1, <2>1
<1>4. m = k
  BY <1>1, <1>2, <1>3
<1> QED
  BY <1>4 DEF m

\* Separators add no name.
LEMMA NamesSkip ==
    ASSUME NEW C, NEW p \in Seq(C), NEW i \in 0 .. Len(p), NEW j \in i .. Len(p),
           \A k \in i + 1 .. j : IsSep(p[k])
    PROVE  /\ WithName(NamesRead(p)[j]) = WithName(NamesRead(p)[i])
           /\ j > i => NamesRead(p)[j].name = <<>>
<1> DEFINE f == NamesRead(p)
           l == j - i
           S == {k \in 0 .. l : WithName(f[i + k]) = WithName(f[i]) /\ (k > 0 => f[i + k].name = <<>>)}
<1>1. /\ \A k \in 1 .. Len(p) : f[k] = NamesTurn(f[k - 1], p[k])
      /\ \A k \in 0 .. Len(p) : f[k] \in Readings(C)
  BY NamesReadIs
<1>2. i \in Nat /\ j \in Nat /\ l \in Nat /\ Len(p) \in Nat /\ i + l = j /\ j <= Len(p) /\ i + 0 = i /\ 0 \in 0 .. l /\ l \in 0 .. l
  OBVIOUS
<1> HIDE DEF f, l
<1>3. 0 \in S
  BY <1>2
<1>4. ASSUME NEW k \in 0 .. l - 1, k \in S PROVE k + 1 \in S
  <2>1. k + 1 \in 1 .. l /\ k + 1 \in 0 .. l
    BY <1>2
  <2>2. PICK q \in 1 .. l : q = k + 1
    BY <2>1
  <2> DEFINE m == i + q
             c == p[m]
             r == f[i + k]
             t == f[m]
  <2>3. m \in 1 .. Len(p) /\ m \in i + 1 .. j /\ m - 1 = i + k /\ i + k \in 0 .. Len(p)
    BY <1>2, <2>2
  <2>4. r \in Readings(C) /\ c \in C /\ IsSep(c) /\ t = NamesTurn(r, c)
    BY <1>1, <2>3, ElementOfSeq
  <2>w. WithName(r) = WithName(f[i])
    BY <1>4
  <2> HIDE DEF r, c, t, m
  <2>5. IsSep(c) => NamesTurn(r, c).names = WithName(r) /\ NamesTurn(r, c).name = <<>>
    BY <2>4, NamesTurnType
  <2>6. t.names = WithName(r) /\ t.name = <<>>
    BY <2>4, <2>5
  <2>7. WithName(t) = WithName(r)
    BY <2>6 DEF WithName
  <2> QED
    BY <2>1, <2>2, <2>6, <2>7, <2>w DEF t, m
<1>5. 0 .. l \subseteq S
  <2> HIDE DEF S
  <2> QED
    BY <1>2, <1>3, <1>4, Induction
<1>6. l \in S
  BY <1>2, <1>5
<1>7. j > i => l > 0
  BY <1>2
<1> QED
  BY <1>2, <1>6, <1>7 DEF f

\* A part of a sequence.
LEMMA SubSeqIs ==
    ASSUME NEW X, NEW p \in Seq(X), NEW i \in 1 .. Len(p) + 1, NEW j \in i - 1 .. Len(p)
    PROVE  /\ SubSeq(p, i, j) \in Seq(X) /\ Len(SubSeq(p, i, j)) = j + 1 - i
           /\ \A k \in 1 .. j + 1 - i : SubSeq(p, i, j)[k] = p[i + k - 1]
OBVIOUS

\* The directory of a path, and its name.
LastOf(p) == LastPlain(p, Len(p))
LastDir(p) == SubSeq(p, 1, LastPlain(p, LastSep(p, LastOf(p))))
LastName(p) == SubSeq(p, LastSep(p, LastOf(p)) + 1, LastOf(p))

\* The last name of a path comes after those of its directory.
LEMMA NamesOfDir ==
    ASSUME NEW C, NEW p \in Seq(C)
    PROVE  /\ LastOf(p) = 0 => Names(p) = <<>>
           /\ LastOf(p) # 0 => /\ LastName(p) \in NameSet(C)
                               /\ Names(p) = Append(Names(LastDir(p)), LastName(p))
<1> DEFINE last == LastOf(p)
           sep  == LastSep(p, last)
           dir  == LastPlain(p, sep)
           f    == NamesRead(p)
           l    == Len(p)
           q    == SubSeq(p, 1, last)
           d    == SubSeq(p, 1, dir)
           n    == SubSeq(p, sep + 1, last)
<1>1. l \in Nat
  OBVIOUS
<1>2. last \in 0 .. l /\ (\A k \in last + 1 .. l : IsSep(p[k]))
  BY <1>1, LastPlainIs DEF LastOf
<1>3. sep \in 0 .. last /\ (sep # 0 => IsSep(p[sep])) /\ \A k \in sep + 1 .. last : ~IsSep(p[k])
  <2> HIDE DEF last
  <2>1. last \in Nat
    BY <1>1, <1>2
  <2> QED
    BY <2>1, LastSepIs
<1>4. dir \in 0 .. sep /\ \A k \in dir + 1 .. sep : IsSep(p[k])
  <2> HIDE DEF sep
  <2>1. sep \in Nat
    BY <1>1, <1>2, <1>3
  <2> QED
    BY <2>1, LastPlainIs
<1>5. /\ f[0] = NoNames
      /\ \A i \in 1 .. l : f[i] = NamesTurn(f[i - 1], p[i])
      /\ \A i \in 0 .. l : f[i] \in Readings(C)
  BY NamesReadIs
<1>6. LastDir(p) = d /\ LastName(p) = n
  BY DEF LastDir, LastName
<1> HIDE DEF last, sep, dir
<1>7. last \in Nat /\ sep \in Nat /\ dir \in Nat /\ last <= l /\ sep <= last /\ dir <= sep /\ l \in last .. l
  BY <1>1, <1>2, <1>3, <1>4
<1>8. WithName(f[l]) = WithName(f[last])
  BY <1>2, <1>7, NamesSkip
<1>9. Names(p) = WithName(f[last])
  BY <1>8 DEF Names
<1>10. WithName(NoNames) = <<>>
  BY DEF WithName, NoNames
<1>11. last = 0 => Names(p) = <<>>
  BY <1>5, <1>9, <1>10
<1>12. /\ q \in Seq(C) /\ Len(q) = last /\ \A k \in 1 .. last : q[k] = p[k]
       /\ d \in Seq(C) /\ Len(d) = dir /\ \A k \in 1 .. dir : d[k] = p[k]
  <2>1. last \in 0 .. Len(p) /\ dir \in 0 .. Len(p)
    BY <1>7
  <2> QED
    BY <2>1, PrefixIs
<1>13. /\ n \in Seq(C) /\ Len(n) = last - sep /\ \A k \in 1 .. last - sep : n[k] = p[sep + k]
  <2> DEFINE i == sep + 1
  <2>1. i \in 1 .. Len(p) + 1 /\ last \in i - 1 .. Len(p) /\ last + 1 - i = last - sep
        /\ \A k \in 1 .. last - sep : i + k - 1 = sep + k
    BY <1>7
  <2> HIDE DEF i
  <2>2. /\ SubSeq(p, i, last) \in Seq(C) /\ Len(SubSeq(p, i, last)) = last + 1 - i
        /\ \A k \in 1 .. last + 1 - i : SubSeq(p, i, last)[k] = p[i + k - 1]
    BY <2>1, SubSeqIs
  <2> QED
    BY <2>1, <2>2 DEF i
<1> HIDE DEF f, q, d, n
<1>14. ASSUME last # 0 PROVE n \in NameSet(C)
  <2>1. ~IsSep(p[last])
    <3>1. last # 0 => ~IsSep(p[last])
      BY <1>1, LastPlainIs DEF last, LastOf
    <3> QED
      BY <1>14, <3>1
  <2>2. sep < last
    BY <1>3, <1>7, <1>14, <2>1
  <2>3. n # <<>>
    BY <1>7, <1>13, <2>2
  <2>4. \A k \in 1 .. Len(n) : n[k] \in NameChars(C)
    <3> TAKE k \in 1 .. Len(n)
    <3>1. sep + k \in sep + 1 .. last /\ sep + k \in 1 .. Len(p) /\ k \in 1 .. last - sep
      BY <1>7, <1>13
    <3>2. p[sep + k] \in C /\ ~IsSep(p[sep + k]) /\ n[k] = p[sep + k]
      BY <1>3, <1>13, <3>1, ElementOfSeq
    <3> QED
      BY <3>2 DEF NameChars, IsSep
  <2>5. n \in Seq(NameChars(C))
    BY <1>13, <2>4, IsASeq
  <2> QED
    BY <2>3, <2>5 DEF NameSet
<1>15. ASSUME NEW k \in 0 .. last PROVE NamesRead(q)[k] = f[k]
  <2>1. k \in 0 .. Len(q) /\ k <= Len(p) /\ \A x \in 1 .. k : q[x] = p[x]
    BY <1>7, <1>12
  <2> QED
    BY <1>12, <2>1, ReadAlike DEF f
<1>16. NamesRead(d)[dir] = f[dir]
  <2>1. dir \in 0 .. Len(d) /\ dir <= Len(p) /\ \A x \in 1 .. dir : d[x] = p[x]
    BY <1>7, <1>12
  <2> QED
    BY <1>12, <2>1, ReadAlike DEF f
<1>17. f[sep].name = <<>>
  <2>1. CASE sep = 0
    BY <1>5, <2>1 DEF NoNames
  <2>2. CASE sep # 0
    <3>1. sep \in 1 .. l /\ sep - 1 \in 0 .. l /\ sep \in 1 .. Len(p)
      BY <1>7, <2>2
    <3> DEFINE r == f[sep - 1]
               c == p[sep]
               t == f[sep]
    <3>2. r \in Readings(C) /\ c \in C /\ IsSep(c) /\ t = NamesTurn(r, c)
      BY <1>3, <1>5, <2>2, <3>1, ElementOfSeq
    <3> HIDE DEF r, c, t
    <3>3. IsSep(c) => NamesTurn(r, c).names = WithName(r) /\ NamesTurn(r, c).name = <<>>
      BY <3>2, NamesTurnType
    <3>4. t.name = <<>>
      BY <3>2, <3>3
    <3> QED
      BY <3>4 DEF t
  <2> QED
    BY <2>1, <2>2
<1>18. f[sep].names = Names(d)
  <2>1. WithName(f[sep]) = f[sep].names
    BY <1>17 DEF WithName
  <2>2. WithName(f[sep]) = WithName(f[dir])
    <3>1. dir \in 0 .. Len(p) /\ sep \in dir .. Len(p)
      BY <1>7
    <3> QED
      BY <1>4, <3>1, NamesSkip DEF f
  <2>3. Names(d) = WithName(f[dir])
    BY <1>12, <1>16 DEF Names
  <2> QED
    BY <2>1, <2>2, <2>3
<1>19. ASSUME last # 0 PROVE Names(p) = Append(Names(d), n)
  <2>1. n \in NameSet(C)
    BY <1>14, <1>19
  <2>2. NamesRead(q)[last] = f[last] /\ NamesRead(q)[sep] = f[sep]
    <3>1. last \in 0 .. last /\ sep \in 0 .. last
      BY <1>7
    <3> QED
      BY <1>15, <3>1
  <2>3. Names(p) = Names(q)
    BY <1>9, <1>12, <2>2 DEF Names
  <2>4. Names(q) = Append(NamesRead(q)[sep].names, n)
    <3>1. sep \in 0 .. Len(q) /\ Len(q) = sep + Len(n)
      BY <1>7, <1>12, <1>13
    <3>2. \A k \in 1 .. Len(n) : q[sep + k] = n[k]
      <4> TAKE k \in 1 .. Len(n)
      <4>1. sep + k \in 1 .. last /\ k \in 1 .. last - sep
        BY <1>7, <1>13
      <4> QED
        BY <1>12, <1>13, <4>1
    <3>3. NamesRead(q)[sep].name = <<>>
      BY <1>17, <2>2
    <3> QED
      BY <1>12, <2>1, <3>1, <3>2, <3>3, ReadName
  <2> QED
    BY <1>18, <2>2, <2>3, <2>4
<1> QED
  BY <1>6, <1>11, <1>14, <1>19 DEF last

\* Names are put out one after the other, whichever follow.
LEMMA OutputsMore ==
    ASSUME NEW C, NEW names \in Seq(NameSet(C)), NEW n \in NameSet(C), NEW o \in Seq(NameSet(C))
    PROVE  Outputs(Append(names, n), o)[Len(names) + 1] = Output(Outputs(names, o)[Len(names)], n)
<1> DEFINE a == Append(names, n)
           k == Len(names)
           X == NameSet(C)
           J == Outputs(names, o)
           K == Outputs(a, o)
           S == {i \in 0 .. k : K[i] = J[i]}
<1>1. a \in Seq(X) /\ Len(a) = k + 1 /\ (\A i \in 1 .. k : a[i] = names[i]) /\ a[k + 1] = n
  <2> HIDE DEF X
  <2> QED
    BY DEF X
<1>2. k \in Nat /\ 0 \in 0 .. k /\ k \in 0 .. k /\ k + 1 \in 1 .. k + 1 /\ k + 1 - 1 = k
  OBVIOUS
<1>3. J[0] = [ok |-> TRUE, names |-> o] /\ \A i \in 1 .. k : J[i] = Output(J[i - 1], names[i])
  BY OutputsAre
<1> HIDE DEF a, k
<1>4. K[0] = [ok |-> TRUE, names |-> o] /\ \A i \in 1 .. k + 1 : K[i] = Output(K[i - 1], a[i])
  <2>1. K[0] = [ok |-> TRUE, names |-> o] /\ \A i \in 1 .. Len(a) : K[i] = Output(K[i - 1], a[i])
    BY <1>1, OutputsAre
  <2> QED
    BY <1>1, <2>1
<1> HIDE DEF J, K
<1>5. 0 \in S
  BY <1>2, <1>3, <1>4
<1>6. ASSUME NEW i \in 0 .. k - 1, i \in S PROVE i + 1 \in S
  <2>1. i + 1 \in 1 .. k /\ i + 1 \in 0 .. k /\ i + 1 \in 1 .. k + 1 /\ i + 1 - 1 = i
    BY <1>2
  <2>2. PICK q \in 1 .. k : q = i + 1
    BY <2>1
  <2>3. K[q] = Output(K[i], a[q]) /\ J[q] = Output(J[i], names[q]) /\ a[q] = names[q] /\ K[i] = J[i]
    BY <1>1, <1>3, <1>4, <1>6, <2>1, <2>2
  <2> QED
    BY <2>1, <2>2, <2>3
<1>7. 0 .. k \subseteq S
  <2> HIDE DEF S
  <2> QED
    BY <1>2, <1>5, <1>6, Induction
<1>8. K[k + 1] = Output(K[k], n) /\ K[k] = J[k]
  BY <1>1, <1>2, <1>4, <1>7
<1> QED
  BY <1>8 DEF K, J, a, k

\* What is before a path without a root has none.
LEMMA RootNone ==
    ASSUME NEW C, NEW p \in Seq(C), PathRootLen(p) = 0, NEW d \in Seq(C), Len(d) <= Len(p),
           \A k \in 1 .. Len(d) : d[k] = p[k]
    PROVE  PathRootLen(d) = 0
<1> DEFINE l     == Len(p)
           Lead  == l >= 2 /\ IsSep(p[1]) /\ IsSep(p[2])
           Drive(i) == p[i] \in Letters /\ p[i + 1] = ":"
           S     == {k \in 4 .. l - 1 : IsSep(p[k])}
           z     == SmallestOr(S, 0)
           share == z + 1
           E     == {k \in share .. l : IsSep(p[k])}
           end   == SmallestOr(E, l + 1) - 1
           Two   == l >= 2 /\ Drive(1)
           Device == l >= 6 /\ Lead /\ p[3] \in {".", "?"} /\ IsSep(p[4])
           Share == l >= 5 /\ Lead /\ ~IsSep(p[3]) /\ p[3] # "." /\ share # 1
                    /\ ~IsSep(p[share]) /\ p[share] # "."
           m     == Len(d)
           Leadd == m >= 2 /\ IsSep(d[1]) /\ IsSep(d[2])
           Drived(i) == d[i] \in Letters /\ d[i + 1] = ":"
           Sd    == {k \in 4 .. m - 1 : IsSep(d[k])}
           zd    == SmallestOr(Sd, 0)
           shared == zd + 1
           Ed    == {k \in shared .. m : IsSep(d[k])}
           endd  == SmallestOr(Ed, m + 1) - 1
           Twod  == m >= 2 /\ Drived(1)
           Deviced == m >= 6 /\ Leadd /\ d[3] \in {".", "?"} /\ IsSep(d[4])
           Shared == m >= 5 /\ Leadd /\ ~IsSep(d[3]) /\ d[3] # "." /\ shared # 1
                    /\ ~IsSep(d[shared]) /\ d[shared] # "."
<1>1. PathRootLen(p) = IF Two THEN 2 ELSE IF Device THEN IF Drive(5) THEN 6 ELSE 4 ELSE IF Share THEN end ELSE 0
  BY DEF PathRootLen
<1>2. PathRootLen(d) = IF Twod THEN 2 ELSE IF Deviced THEN IF Drived(5) THEN 6 ELSE 4 ELSE IF Shared THEN endd ELSE 0
  BY DEF PathRootLen
<1>3. l \in Nat /\ m \in Nat /\ m <= l /\ \A k \in 1 .. m : d[k] = p[k]
  OBVIOUS
<1>4. S \subseteq Nat /\ S \subseteq 4 .. l - 1 /\ Sd \subseteq Nat /\ Sd \subseteq 4 .. m - 1
  BY <1>3
<1>5. Twod => Two
  <2>1. m >= 2 => l >= 2 /\ d[1] = p[1] /\ d[2] = p[2]
    BY <1>3
  <2> HIDE DEF l, m
  <2> QED
    BY <2>1
<1>6. Leadd => Lead
  <2>1. m >= 2 => l >= 2 /\ d[1] = p[1] /\ d[2] = p[2]
    BY <1>3
  <2> HIDE DEF l, m
  <2> QED
    BY <2>1
<1>7. Deviced => Device
  <2>1. m >= 6 => l >= 6 /\ d[3] = p[3] /\ d[4] = p[4]
    BY <1>3
  <2> HIDE DEF l, m, Lead, Leadd
  <2> QED
    BY <1>6, <2>1
<1>8. ASSUME shared # 1 PROVE zd \in 4 .. m - 1 /\ z = zd
  <2>1. zd = 0 \/ (zd \in Sd /\ \A k \in Sd : zd <= k)
    <3> HIDE DEF Sd
    <3> QED
      BY <1>4, SmallestIs
  <2> HIDE DEF zd
  <2>2. zd # 0
    BY <1>8
  <2>3. zd \in 4 .. m - 1 /\ IsSep(d[zd]) /\ \A k \in Sd : zd <= k
    BY <2>1, <2>2
  <2>4. zd \in S
    <3> HIDE DEF l, m
    <3> QED
      BY <1>3, <2>3
  <2>5. z \in S /\ z <= zd
    <3> HIDE DEF S
    <3> QED
      BY <1>4, <2>4, SmallestIs
  <2> HIDE DEF z
  <2>6. z \in Sd
    <3> HIDE DEF l, m
    <3> QED
      BY <1>3, <2>3, <2>5
  <2>7. zd <= z
    BY <2>3, <2>6
  <2> QED
    BY <1>4, <2>3, <2>5, <2>7
<1>9. Shared => Share
  <2> SUFFICES ASSUME Shared PROVE Share
    OBVIOUS
  <2>1. m >= 5 => l >= 5 /\ d[3] = p[3]
    BY <1>3
  <2>2. zd \in 4 .. m - 1 /\ z = zd
    BY <1>8
  <2> HIDE DEF z, zd
  <2>3. shared \in 1 .. m /\ share = shared /\ shared # 1
    BY <1>3, <2>2
  <2> HIDE DEF share, shared
  <2>4. d[shared] = p[share]
    BY <1>3, <2>3
  <2> HIDE DEF Lead, Leadd, l, m
  <2> QED
    BY <1>6, <2>1, <2>3, <2>4
<1>10. ASSUME Share PROVE end # 0
  <2>0. share # 1 /\ l >= 5
    BY <1>10
  <2>1. z = 0 \/ z \in 4 .. l - 1
    <3> HIDE DEF S
    <3> QED
      BY <1>4, SmallestIs
  <2> HIDE DEF z, l
  <2>2. share \in 5 .. l
    BY <1>3, <2>0, <2>1
  <2>3. E \subseteq Nat /\ E \subseteq 5 .. l
    BY <1>3, <2>2
  <2> HIDE DEF E, share
  <2> DEFINE y == SmallestOr(E, l + 1)
  <2>4. y = l + 1 \/ y \in 5 .. l
    BY <2>3, SmallestIs
  <2> HIDE DEF y
  <2>5. y - 1 # 0
    BY <1>3, <2>0, <2>4
  <2> QED
    BY <2>5 DEF y
<1> HIDE DEF Two, Device, Share, Twod, Deviced, Shared, end, endd, Drive, Drived
<1>11. ~Two /\ ~Device /\ ~Share
  BY <1>1, <1>10
<1>12. ~Twod /\ ~Deviced /\ ~Shared
  BY <1>5, <1>7, <1>9, <1>11
<1> QED
  BY <1>2, <1>12

\* One character is no root.
LEMMA RootShort ==
    ASSUME NEW p, Len(p) = 1
    PROVE  PathRootLen(p) = 0
<1>1. ~(Len(p) >= 2) /\ ~(Len(p) >= 6) /\ ~(Len(p) >= 5)
  OBVIOUS
<1> QED
  BY <1>1 DEF PathRootLen

\* A path, and one more name.
LEMMA PathCatOne ==
    ASSUME NEW C, NEW p \in Seq(C), NEW b \in NameSet(C), NEW r,
           r = Output([ok |-> TRUE, names |-> SplitPathInternal(Rest(p), <<>>).names], b)
    PROVE  PathCat(p, <<b>>) = IF r.ok THEN Joined(SubSeq(p, 1, PathRootLen(p)), r.names) ELSE Dot
<1> DEFINE first == SplitPathInternal(Rest(p), <<>>).names
           root == SubSeq(p, 1, PathRootLen(p))
           base == [ok |-> TRUE, names |-> first]
           X == NameSet(C)
<1>1. Len(<<b>>) = 1 /\ <<b>>[1] = b
  OBVIOUS
<1>2. first \in Seq(X)
  BY PathCatIs
<1>3. SplitPathInternal(b, first) = Output(base, b)
  <2> DEFINE K == Outputs(<<b>>, first)
  <2>1. Names(b) = <<b>>
    BY NamesOfOne
  <2>2. SplitPathInternal(b, first) = K[1]
    BY <1>1, <2>1 DEF SplitPathInternal
  <2>3. <<b>> \in Seq(X)
    OBVIOUS
  <2> HIDE DEF first
  <2>4. Outputs(<<b>>, first)[0] = base /\ \A i \in 1 .. Len(<<b>>) : Outputs(<<b>>, first)[i] = Output(Outputs(<<b>>, first)[i - 1], <<b>>[i])
    <3> DEFINE w == <<b>>
    <3>1. w \in Seq(NameSet(C))
      BY <2>3
    <3> HIDE DEF w
    <3>2. /\ Outputs(w, first)[0] = [ok |-> TRUE, names |-> first]
          /\ \A i \in 1 .. Len(w) : Outputs(w, first)[i] = Output(Outputs(w, first)[i - 1], w[i])
      BY <1>2, <3>1, OutputsAre
    <3> QED
      BY <3>2 DEF w
  <2> HIDE DEF K
  <2>5. K[1] = Output(K[0], b) /\ K[0] = base
    <3>1. 1 \in 1 .. Len(<<b>>) /\ 1 - 1 = 0
      BY <1>1
    <3> HIDE DEF base
    <3> QED
      BY <1>1, <2>4, <3>1 DEF K
  <2> QED
    BY <2>2, <2>5
<1> DEFINE pieces == <<b>>
           n == Len(pieces)
           Turn(s, k) == CatOne(s, pieces[k])
           Is(g) == g = [k \in 0 .. n |-> IF k = 0 THEN base ELSE Turn(g[k - 1], k)]
           all == CHOOSE g : Is(g)
           end == all[n]
<1>4. PathCat(p, pieces) = IF end.ok THEN Joined(root, end.names) ELSE Dot
  <2> DEFINE F(x, y) ==
                 LET fi == SplitPathInternal(x, <<>>).names
                     al[k \in 0 .. Len(pieces)] ==
                         IF k = 0 THEN [ok |-> TRUE, names |-> fi] ELSE CatOne(al[k - 1], pieces[k])
                     en == al[Len(pieces)]
                 IN IF en.ok THEN Joined(y, en.names) ELSE Dot
             u == SubSeq(p, PathRootLen(p) + 1, Len(p))
  <2>1. u = Rest(p)
    BY DEF Rest
  <2>2. PathCat(p, pieces) = F(u, root)
    BY DEF PathCat
  <2>3. F(Rest(p), root) = IF end.ok THEN Joined(root, end.names) ELSE Dot
    OBVIOUS
  <2> HIDE DEF F, u, root
  <2> QED
    BY <2>1, <2>2, <2>3
<1>5. n = 1 /\ pieces[1] = b
  BY <1>1
<1> HIDE DEF pieces, n, base
<1>6. Turn(base, 1) = r
  <2>1. base.ok = TRUE /\ base.names = first
    <3> HIDE DEF first
    <3> QED
      BY DEF base
  <2>2. CatOne(base, b) = SplitPathInternal(b, first)
    BY <2>1 DEF CatOne
  <2> QED
    BY <1>3, <1>5, <2>2 DEF base
<1> HIDE DEF Turn
<1>7. Is([k \in 0 .. n |-> IF k = 0 THEN base ELSE r])
  <2> DEFINE g == [k \in 0 .. n |-> IF k = 0 THEN base ELSE r]
  <2>1. g[0] = base /\ g[1] = r
    BY <1>5
  <2>2. \A k \in 0 .. n : k = 0 \/ k = 1
    BY <1>5
  <2>3. g = [k \in 0 .. n |-> g[k]]
    OBVIOUS
  <2> HIDE DEF g
  <2>4. \A k \in 0 .. n : g[k] = IF k = 0 THEN base ELSE Turn(g[k - 1], k)
    <3>1. 1 - 1 = 0 /\ 1 # 0
      OBVIOUS
    <3> QED
      BY <1>6, <2>1, <2>2, <3>1
  <2>5. Is(g)
    BY <2>3, <2>4
  <2> QED
    BY <2>5 DEF g
<1>8. Is(all)
  <2> HIDE DEF Is
  <2> QED
    BY <1>7, Zenon
<1> HIDE DEF all
<1>9. all[n] = r
  <2>1. 0 \in 0 .. n /\ 1 \in 0 .. n /\ 1 - 1 = 0 /\ 1 # 0
    BY <1>5
  <2>2. \A k \in 0 .. n : all[k] = IF k = 0 THEN base ELSE Turn(all[k - 1], k)
    BY <1>8, Zenon
  <2> QED
    BY <1>5, <1>6, <2>1, <2>2
<1> QED
  BY <1>4, <1>9 DEF pieces

\* What DirName and PathStripName leave of a path.
LEMMA DirOfDir ==
    ASSUME NEW p
    PROVE  /\ p # <<>> /\ LastOf(p) = 0 => DirName(p) = <<"/">>
           /\ p # <<>> /\ LastOf(p) # 0 => DirName(p) \in {Dot, <<"/">>, LastDir(p)}
           /\ p # <<>> /\ LastOf(p) # 0 /\ DirName(p) # LastDir(p) => LastDir(p) = SubSeq(p, 1, 0)
           /\ p # <<>> => PathStripName(p) \in {p, DirName(p)}
<1> DEFINE last == LastOf(p)
           sep  == LastSep(p, last)
           dir  == LastPlain(p, sep)
<1>1. p # <<>> => DirName(p) = IF last = 0 THEN <<"/">> ELSE IF sep = 0 THEN Dot ELSE IF dir = 0 THEN <<"/">> ELSE SubSeq(p, 1, dir)
  BY DEF DirName, LastOf
<1>2. PathStripName(p) = IF dir = 0 THEN p ELSE SubSeq(p, 1, dir)
  BY DEF PathStripName, LastOf
<1>3. LastDir(p) = SubSeq(p, 1, dir)
  BY DEF LastDir
<1>4. sep = 0 => dir = 0
  <2> HIDE DEF sep
  <2> SUFFICES ASSUME sep = 0 PROVE dir = 0
    OBVIOUS
  <2>1. 0 \in Nat
    OBVIOUS
  <2>2. LastPlain(p, 0) \in 0 .. 0
    BY <2>1, LastPlainIs
  <2> QED
    BY <2>2
<1>5. last = 0 => sep = 0
  <2> HIDE DEF last
  <2> SUFFICES ASSUME last = 0 PROVE sep = 0
    OBVIOUS
  <2>1. 0 \in Nat
    OBVIOUS
  <2>2. LastSep(p, 0) \in 0 .. 0
    BY <2>1, LastSepIs
  <2> QED
    BY <2>2
<1> HIDE DEF last, sep, dir
<1>6. p # <<>> => PathStripName(p) \in {p, DirName(p)}
  BY <1>1, <1>2, <1>4, <1>5
<1>7. p # <<>> /\ last # 0 => DirName(p) \in {Dot, <<"/">>, LastDir(p)}
  BY <1>1, <1>3
<1>8. p # <<>> /\ last # 0 /\ DirName(p) # LastDir(p) => LastDir(p) = SubSeq(p, 1, 0)
  BY <1>1, <1>3, <1>4
<1> QED
  BY <1>1, <1>6, <1>7, <1>8 DEF last

\* Without a colon the name is the last one, or "." if there is none.
LEMMA BaseIs ==
    ASSUME NEW C, NEW p \in Seq(C), p # <<>>, \A i \in 1 .. Len(p) : p[i] # ":"
    PROVE  BaseName(p) = IF LastOf(p) = 0 THEN Dot ELSE LastName(p)
<1>1. ~(Len(p) > 2 /\ p[2] = ":") /\ ~(Len(p) = 2 /\ p[2] = ":")
  OBVIOUS
<1> QED
  BY <1>1, Zenon DEF BaseName, LastOf, LastName

\* Paths of no names, and of the name ".".
LEMMA SplitShort ==
    ASSUME NEW C, {".", "/"} \subseteq C
    PROVE  /\ SplitPathInternal(<<"/">>, <<>>) = [ok |-> TRUE, names |-> <<>>]
           /\ SplitPathInternal(Dot, <<>>) = [ok |-> TRUE, names |-> <<>>]
           /\ SplitPathInternal(<<>>, <<>>) = [ok |-> TRUE, names |-> <<>>]
           /\ Dot \in NameSet(C)
<1>1. ASSUME NEW D, NEW p \in Seq(D), Names(p) = <<>>
      PROVE  SplitPathInternal(p, <<>>) = [ok |-> TRUE, names |-> <<>>]
  <2> DEFINE e == <<>>
  <2>1. e \in Seq(NameSet(D)) /\ Len(e) = 0
    OBVIOUS
  <2>2. Outputs(e, e)[0] = [ok |-> TRUE, names |-> e]
    <3>1. ASSUME NEW a \in Seq(NameSet(D)), NEW o \in Seq(NameSet(D))
          PROVE  Outputs(a, o)[0] = [ok |-> TRUE, names |-> o]
      BY OutputsAre
    <3> HIDE DEF e
    <3> QED
      BY <2>1, <3>1, Zenon
  <2> QED
    BY <1>1, <2>1, <2>2 DEF SplitPathInternal
<1>2. Names(<<"/">>) = <<>>
  <2> DEFINE p == <<"/">>
  <2>1. p \in Seq(C) /\ Len(p) = 1 /\ p[1] = "/"
    OBVIOUS
  <2>2. IsSep("/")
    BY DEF IsSep, Seps
  <2> HIDE DEF p
  <2>3. 0 \in 0 .. Len(p) /\ 1 \in 0 .. Len(p) /\ \A k \in 0 + 1 .. 1 : IsSep(p[k])
    BY <2>1, <2>2
  <2>4. WithName(NamesRead(p)[1]) = WithName(NamesRead(p)[0])
    <3>1. 1 \in 0 .. Len(p) /\ \A k \in 0 + 1 .. 1 : IsSep(p[k])
      BY <2>3
    <3> QED
      BY <2>1, <2>3, <3>1, NamesSkip
  <2>5. WithName(NamesRead(p)[0]) = <<>>
    BY <2>1, NamesReadIs DEF NoNames, WithName
  <2>6. Names(p) = <<>>
    BY <2>1, <2>4, <2>5 DEF Names
  <2> QED
    BY <2>6 DEF p
<1>3. Dot \in NameSet(C)
  <2>1. "." \in NameChars(C)
    BY DEF NameChars, Seps, Back
  <2> HIDE DEF NameChars
  <2> QED
    BY <2>1 DEF NameSet, Dot
<1>4. SplitPathInternal(<<"/">>, <<>>) = [ok |-> TRUE, names |-> <<>>]
  <2> DEFINE p == <<"/">>
  <2>1. p \in Seq(C) /\ Names(p) = <<>>
    BY <1>2
  <2> HIDE DEF p
  <2>2. SplitPathInternal(p, <<>>) = [ok |-> TRUE, names |-> <<>>]
    BY <1>1, <2>1
  <2> QED
    BY <2>2 DEF p
<1>5. SplitPathInternal(<<>>, <<>>) = [ok |-> TRUE, names |-> <<>>]
  <2> DEFINE p == <<>>
  <2>1. p \in Seq(C) /\ Names(p) = <<>>
    BY NamesOfNone
  <2> HIDE DEF p
  <2>2. SplitPathInternal(p, <<>>) = [ok |-> TRUE, names |-> <<>>]
    BY <1>1, <2>1
  <2> QED
    BY <2>2 DEF p
<1>6. SplitPathInternal(Dot, <<>>) = [ok |-> TRUE, names |-> <<>>]
  <2> DEFINE e == <<>>
             w == Append(e, Dot)
  <2>1. Names(Dot) = <<Dot>>
    BY <1>3, NamesOfOne
  <2>2. w = <<Dot>> /\ Len(w) = Len(e) + 1 /\ Len(e) = 0
    <3>1. ASSUME NEW x PROVE Append(<<>>, x) = <<x>> /\ Len(<<x>>) = 1
      OBVIOUS
    <3> QED
      BY <3>1
  <2>3. e \in Seq(NameSet(C))
    OBVIOUS
  <2> HIDE DEF e
  <2>4. Outputs(w, e)[Len(e) + 1] = Output(Outputs(e, e)[Len(e)], Dot)
    BY <1>3, <2>3, OutputsMore
  <2>5. Outputs(e, e)[Len(e)] = [ok |-> TRUE, names |-> e]
    <3>1. ASSUME NEW a \in Seq(NameSet(C)), NEW o \in Seq(NameSet(C))
          PROVE  Outputs(a, o)[0] = [ok |-> TRUE, names |-> o]
      BY OutputsAre
    <3>2. Outputs(e, e)[0] = [ok |-> TRUE, names |-> e]
      BY <2>3, <3>1, Zenon
    <3> QED
      BY <2>2, <3>2
  <2> DEFINE b == [ok |-> TRUE, names |-> e]
  <2>6. Output(b, Dot) = b
    <3> HIDE DEF b
    <3> QED
      BY DEF Output
  <2>7. SplitPathInternal(Dot, <<>>) = b
    <3> HIDE DEF w, b
    <3>1. SplitPathInternal(Dot, e) = Outputs(w, e)[Len(w)]
      BY <2>1, <2>2 DEF SplitPathInternal
    <3> QED
      BY <2>2, <2>4, <2>5, <2>6, <3>1 DEF e, b
  <2> QED
    BY <2>7 DEF e
<1> QED
  BY <1>3, <1>4, <1>5, <1>6

\* One more name is put out after those of the directory.
LEMMA SplitMore ==
    ASSUME NEW C, NEW d \in Seq(C), NEW n \in NameSet(C), NEW p, Names(p) = Append(Names(d), n)
    PROVE  /\ SplitPathInternal(p, <<>>) = Output(SplitPathInternal(d, <<>>), n)
           /\ SplitPathInternal(d, <<>>) \in Splits(C)
<1> DEFINE a == Names(d)
           e == <<>>
<1>1. a \in Seq(NameSet(C)) /\ e \in Seq(NameSet(C))
  BY NamesType
<1>2. SplitPathInternal(d, <<>>) = Outputs(a, e)[Len(a)]
  BY DEF SplitPathInternal
<1>3. SplitPathInternal(p, <<>>) = Outputs(Append(a, n), e)[Len(a) + 1]
  <2> HIDE DEF a
  <2>1. Len(Append(a, n)) = Len(a) + 1
    BY <1>1
  <2> QED
    BY <2>1 DEF SplitPathInternal, a
<1> HIDE DEF a, e
<1>4. Outputs(Append(a, n), e)[Len(a) + 1] = Output(Outputs(a, e)[Len(a)], n)
  BY <1>1, OutputsMore
<1>5. Len(a) \in 0 .. Len(a)
  BY <1>1
<1>6. \A i \in 0 .. Len(a) : Outputs(a, e)[i] \in Splits(C)
  BY <1>1, OutputsAre
<1> QED
  BY <1>2, <1>3, <1>4, <1>5, <1>6

\* If the names split well, those before the last one did.
LEMMA SplitBefore ==
    ASSUME NEW C, NEW b \in Splits(C), NEW n, Output(b, n).ok
    PROVE  b.ok /\ b = [ok |-> TRUE, names |-> b.names]
<1>1. b.ok
  <2>1. ~b.ok => Output(b, n) = b
    BY DEF Output
  <2> QED
    BY <2>1
<1>2. b.ok = TRUE
  BY <1>1 DEF Splits
<1> QED
  BY <1>1, <1>2 DEF Splits

\* Directory and name of a path without a root and a colon, put together, are that path.
LEMMA DirAndBase ==
    ASSUME NEW C, {".", "/"} \subseteq C, NEW p \in Seq(C), p # <<>>, PathRootLen(p) = 0,
           \A i \in 1 .. Len(p) : p[i] # ":", SplitPathInternal(p, <<>>).ok
    PROVE  PathCat(DirName(p), <<BaseName(p)>>) = PathCat(p, <<>>)
<1> DEFINE none == [ok |-> TRUE, names |-> <<>>]
           t == SplitPathInternal(p, <<>>)
           X == NameSet(C)
<1>1. /\ SplitPathInternal(<<"/">>, <<>>) = none /\ SplitPathInternal(Dot, <<>>) = none
      /\ SplitPathInternal(<<>>, <<>>) = none /\ Dot \in X
  BY SplitShort
<1>2. PathCat(p, <<>>) = Joined(<<>>, t.names)
  <2>1. Rest(p) = p /\ SubSeq(p, 1, PathRootLen(p)) = <<>>
    BY PrefixEnds DEF Rest
  <2>2. PathCat(p, <<>>) = Joined(SubSeq(p, 1, PathRootLen(p)), SplitPathInternal(Rest(p), <<>>).names)
    BY PathCatIs
  <2> QED
    BY <2>1, <2>2
<1>3. PathRootLen(<<"/">>) = 0 /\ PathRootLen(Dot) = 0 /\ <<"/">> \in Seq(C) /\ Dot \in Seq(C)
  <2>1. Len(<<"/">>) = 1 /\ Len(Dot) = 1
    BY DEF Dot
  <2>2. <<"/">> \in Seq(C) /\ Dot \in Seq(C)
    BY DEF Dot
  <2> QED
    BY <2>1, <2>2, RootShort
<1>4. none.ok = TRUE /\ none.names = <<>>
  OBVIOUS
<1> HIDE DEF none, X
<1>5. CASE LastOf(p) = 0
  <2>1. BaseName(p) = Dot /\ DirName(p) = <<"/">> /\ Names(p) = <<>>
    <3>1. BaseName(p) = IF LastOf(p) = 0 THEN Dot ELSE LastName(p)
      BY BaseIs
    <3>2. DirName(p) = <<"/">>
      BY <1>5, DirOfDir
    <3>3. Names(p) = <<>>
      BY <1>5, NamesOfDir
    <3> QED
      BY <1>5, <3>1, <3>2, <3>3
  <2>2. t = none
    <3>1. SplitPathInternal(p, <<>>) = SplitPathInternal(<<>>, <<>>)
      BY <2>1, NamesOfNone DEF SplitPathInternal
    <3> QED
      BY <1>1, <3>1
  <2>3. Output([ok |-> TRUE, names |-> SplitPathInternal(<<"/">>, <<>>).names], Dot) = none
    <3>1. [ok |-> TRUE, names |-> SplitPathInternal(<<"/">>, <<>>).names] = none
      BY <1>1, <1>4 DEF none
    <3>2. Output(none, Dot) = none
      BY DEF Output
    <3> QED
      BY <3>1, <3>2
  <2>4. PathCat(<<"/">>, <<Dot>>) = IF none.ok THEN Joined(<<>>, none.names) ELSE Dot
    <3> DEFINE s == <<"/">>
    <3>1. s \in Seq(C) /\ PathRootLen(s) = 0 /\ none = Output([ok |-> TRUE, names |-> SplitPathInternal(s, <<>>).names], Dot)
      BY <1>3, <2>3
    <3> HIDE DEF s
    <3>3. Rest(s) = s /\ SubSeq(s, 1, PathRootLen(s)) = <<>>
      BY <3>1, PrefixEnds DEF Rest
    <3>2. PathCat(s, <<Dot>>) = IF none.ok THEN Joined(<<>>, none.names) ELSE Dot
      BY <1>1, <3>1, <3>3, PathCatOne DEF X
    <3> QED
      BY <3>2 DEF s
  <2> QED
    BY <1>2, <1>4, <2>1, <2>2, <2>4
<1>6. CASE LastOf(p) # 0
  <2> DEFINE n == LastName(p)
             d == LastDir(p)
             D == DirName(p)
             a == Names(d)
             b == SplitPathInternal(d, <<>>)
  <2>1. BaseName(p) = n
    <3>1. BaseName(p) = IF LastOf(p) = 0 THEN Dot ELSE LastName(p)
      BY BaseIs
    <3> QED
      BY <1>6, <3>1
  <2>2. n \in X /\ Names(p) = Append(a, n)
    BY <1>6, NamesOfDir DEF X
  <2>3. d \in Seq(C) /\ Len(d) <= Len(p) /\ \A k \in 1 .. Len(d) : d[k] = p[k]
    <3> DEFINE i == LastPlain(p, LastSep(p, LastOf(p)))
    <3>1. i \in 0 .. Len(p)
      <4>1. Len(p) \in Nat
        OBVIOUS
      <4>2. LastOf(p) \in 0 .. Len(p)
        BY <4>1, LastPlainIs DEF LastOf
      <4> DEFINE x == LastOf(p)
                 y == LastSep(p, x)
      <4>3. x \in Nat /\ x <= Len(p)
        BY <4>1, <4>2
      <4> HIDE DEF x
      <4>4. y \in 0 .. x
        BY <4>3, LastSepIs
      <4> HIDE DEF y
      <4>5. y \in Nat /\ y <= x
        BY <4>3, <4>4
      <4>6. LastPlain(p, y) \in 0 .. y
        BY <4>5, LastPlainIs
      <4>7. LastPlain(p, y) \in 0 .. Len(p)
        BY <4>1, <4>3, <4>5, <4>6
      <4> QED
        BY <4>7 DEF x, y
    <3> HIDE DEF i
    <3>2. /\ SubSeq(p, 1, i) \in Seq(C) /\ Len(SubSeq(p, 1, i)) = i
          /\ \A k \in 1 .. i : SubSeq(p, 1, i)[k] = p[k]
      BY <3>1, PrefixIs
    <3>3. d = SubSeq(p, 1, i)
      BY DEF LastDir, i
    <3> QED
      BY <3>1, <3>2, <3>3
  <2>4. PathRootLen(d) = 0
    <3> HIDE DEF d
    <3> QED
      BY <2>3, RootNone
  <2>5. t = Output(b, n) /\ b \in Splits(C)
    <3> HIDE DEF d, n
    <3> QED
      BY <2>2, <2>3, SplitMore DEF X
  <2>6. /\ D \in Seq(C) /\ PathRootLen(D) = 0 /\ SplitPathInternal(D, <<>>).names = b.names
    <3>1. CASE D = d
      BY <2>3, <2>4, <3>1
    <3>2. CASE D # d
      <4>1. d = <<>>
        <5>1. d = SubSeq(p, 1, 0)
          BY <1>6, <3>2, DirOfDir
        <5> QED
          BY <5>1, PrefixEnds
      <4>2. D \in {Dot, <<"/">>}
        BY <1>6, <3>2, DirOfDir
      <4>3. SplitPathInternal(D, <<>>) = none
        BY <1>1, <4>2
      <4>4. b = none
        BY <1>1, <4>1
      <4> QED
        BY <1>3, <4>2, <4>3, <4>4
    <3> QED
      BY <3>1, <3>2
  <2> HIDE DEF n, d, D, a, b, t
  <2>7. t.ok
    BY DEF t
  <2>8. b.ok /\ b = [ok |-> TRUE, names |-> b.names]
    BY <2>5, <2>7, SplitBefore
  <2>9. t = Output([ok |-> TRUE, names |-> SplitPathInternal(D, <<>>).names], n)
    BY <2>5, <2>6, <2>8
  <2>10. PathCat(D, <<n>>) = IF t.ok THEN Joined(<<>>, t.names) ELSE Dot
    <3>1. Rest(D) = D /\ SubSeq(D, 1, PathRootLen(D)) = <<>>
      BY <2>6, PrefixEnds DEF Rest
    <3> QED
      BY <2>2, <2>6, <2>9, <3>1, PathCatOne DEF X
  <2> QED
    BY <1>2, <2>1, <2>7, <2>10 DEF D
<1> QED
  BY <1>5, <1>6

\* Where the last name of a path and its directory end, if the directory is not
\* shorter than the root: in the rest of the path, all are further to the left.
LEMMA RestOfDir ==
    ASSUME NEW C, NEW p \in Seq(C), NEW r \in Nat, PathRootLen(p) = r, r # 0, LastOf(p) # 0,
           LastPlain(p, LastSep(p, LastOf(p))) >= r
    PROVE  /\ LastOf(Rest(p)) # 0 /\ Rest(p) \in Seq(C) /\ LastName(Rest(p)) = LastName(p)
           /\ LastDir(p) \in Seq(C) /\ Len(LastDir(p)) = LastPlain(p, LastSep(p, LastOf(p)))
           /\ LastDir(Rest(p)) = SubSeq(LastDir(p), r + 1, Len(LastDir(p)))
           /\ SubSeq(LastDir(p), 1, r) = SubSeq(p, 1, r) /\ LastSep(p, LastOf(p)) # 0
<1> DEFINE l == Len(p)
           x == LastOf(p)
           y == LastSep(p, x)
           z == LastPlain(p, y)
           T == Rest(p)
           D == LastDir(p)
<1>1. l \in Nat
  OBVIOUS
<1>2. /\ x \in 0 .. l /\ x # 0 /\ ~IsSep(p[x])
      /\ \A k \in x + 1 .. l : IsSep(p[k])
  BY LastPlainIs DEF LastOf
<1> HIDE DEF x
<1>3. /\ y \in 0 .. x /\ (y # 0 => IsSep(p[y]))
      /\ \A k \in y + 1 .. x : ~IsSep(p[k])
  <2>1. x \in Nat
    BY <1>1, <1>2
  <2> QED
    BY <2>1, LastSepIs
<1> HIDE DEF y
<1>4. /\ z \in 0 .. y /\ (z # 0 => ~IsSep(p[z]))
      /\ \A k \in z + 1 .. y : IsSep(p[k])
  <2>1. y \in Nat
    BY <1>1, <1>2, <1>3
  <2> QED
    BY <2>1, LastPlainIs
<1>5. z >= r
  BY DEF x, y
<1>6. D = SubSeq(p, 1, z)
  BY DEF LastDir, x, y
<1>7. LastName(p) = SubSeq(p, y + 1, x)
  BY DEF LastName, x, y
<1> HIDE DEF z
<1>8. r <= z /\ z < y /\ y < x /\ x <= l /\ x \in Nat /\ y \in Nat /\ z \in Nat
  <2>1. z # 0 /\ z <= y /\ y <= x /\ x <= l /\ x \in Nat /\ y \in Nat /\ z \in Nat
    BY <1>1, <1>2, <1>3, <1>4, <1>5
  <2>2. y # 0 /\ IsSep(p[y]) /\ ~IsSep(p[z])
    BY <1>3, <1>4, <2>1
  <2> QED
    BY <1>2, <1>5, <2>1, <2>2
<1>9. T \in Seq(C) /\ Len(T) = l - r /\ \A k \in 1 .. l - r : T[k] = p[r + k]
  <2>1. r + 1 \in 1 .. l + 1 /\ l \in r + 1 - 1 .. l /\ l + 1 - (r + 1) = l - r
    BY <1>1, <1>8
  <2>2. /\ SubSeq(p, r + 1, l) \in Seq(C) /\ Len(SubSeq(p, r + 1, l)) = l + 1 - (r + 1)
        /\ \A k \in 1 .. l + 1 - (r + 1) : SubSeq(p, r + 1, l)[k] = p[r + 1 + k - 1]
    BY <2>1, SubSeqIs
  <2>3. T = SubSeq(p, r + 1, l)
    BY DEF Rest
  <2> HIDE DEF T, l
  <2>4. \A k \in 1 .. l - r : r + 1 + k - 1 = r + k
    BY <1>1
  <2> QED
    BY <2>1, <2>2, <2>3, <2>4
<1>10. D \in Seq(C) /\ Len(D) = z /\ \A k \in 1 .. z : D[k] = p[k]
  <2>1. z \in 0 .. l
    BY <1>1, <1>8
  <2> HIDE DEF l, D
  <2> QED
    BY <1>6, <2>1, PrefixIs DEF l
<1> HIDE DEF T, D
<1>11. LastOf(T) = x - r
  <2> DEFINE i == l - r
             k == x - r
  <2>1. i \in Nat /\ k \in 1 .. i /\ r + k = x
    BY <1>1, <1>8
  <2>2. ~IsSep(T[k])
    BY <1>2, <1>9, <2>1
  <2>3. ASSUME NEW j \in k + 1 .. i PROVE IsSep(T[j])
    <3>1. r + j \in x + 1 .. l /\ j \in 1 .. i
      BY <1>1, <1>8
    <3> QED
      BY <1>2, <1>9, <3>1
  <2> HIDE DEF i, k
  <2>4. LastPlain(T, i) = k
    BY <2>1, <2>2, <2>3, LastPlainAt
  <2> QED
    BY <1>9, <2>4 DEF LastOf, i, k
<1>12. LastSep(T, x - r) = y - r
  <2> DEFINE i == x - r
             k == y - r
  <2>1. i \in Nat /\ k \in 1 .. i /\ r + k = y /\ k \in 1 .. l - r /\ y # 0
    BY <1>1, <1>8
  <2>2. IsSep(T[k])
    BY <1>3, <1>9, <2>1
  <2>3. ASSUME NEW j \in k + 1 .. i PROVE ~IsSep(T[j])
    <3>1. r + j \in y + 1 .. x /\ j \in 1 .. l - r
      BY <1>1, <1>8
    <3> QED
      BY <1>3, <1>9, <3>1
  <2> HIDE DEF i, k
  <2>4. LastSep(T, i) = k
    BY <2>1, <2>2, <2>3, LastSepAt
  <2> QED
    BY <2>4 DEF i, k
<1>13. LastPlain(T, y - r) = z - r
  <2> DEFINE i == y - r
             m == LastPlain(T, i)
  <2>1. i \in Nat
    BY <1>8
  <2>2. m \in 0 .. i /\ (m # 0 => ~IsSep(T[m])) /\ \A k \in m + 1 .. i : IsSep(T[k])
    <3> HIDE DEF i
    <3> QED
      BY <2>1, LastPlainIs
  <2> HIDE DEF m
  <2>3. ~(m > z - r)
    <3> SUFFICES ASSUME m > z - r PROVE FALSE
      OBVIOUS
    <3>1. m \in 1 .. l - r /\ r + m \in z + 1 .. y /\ m # 0
      BY <1>1, <1>8, <2>2
    <3> QED
      BY <1>4, <1>9, <2>2, <3>1
  <2>4. ~(m < z - r)
    <3> SUFFICES ASSUME m < z - r PROVE FALSE
      OBVIOUS
    <3>1. z - r \in m + 1 .. i /\ z - r \in 1 .. l - r /\ r + (z - r) = z /\ z # 0
      BY <1>1, <1>8, <2>2
    <3> QED
      BY <1>4, <1>9, <2>2, <3>1
  <2>5. m = z - r
    BY <1>8, <2>2, <2>3, <2>4
  <2> QED
    BY <2>5 DEF m
<1>14. LastName(T) = LastName(p)
  <2> DEFINE u == SubSeq(T, y - r + 1, x - r)
             v == SubSeq(p, y + 1, x)
  <2>1. LastName(T) = u
    BY <1>11, <1>12 DEF LastName
  <2>2. u \in Seq(C) /\ Len(u) = x - y /\ \A k \in 1 .. x - y : u[k] = p[y + k]
    <3> DEFINE i == y - r + 1
               j == x - r
    <3>1. i \in 1 .. Len(T) + 1 /\ j \in i - 1 .. Len(T) /\ j + 1 - i = x - y
      BY <1>1, <1>8, <1>9
    <3> HIDE DEF i, j
    <3>2. /\ SubSeq(T, i, j) \in Seq(C) /\ Len(SubSeq(T, i, j)) = j + 1 - i
          /\ \A k \in 1 .. j + 1 - i : SubSeq(T, i, j)[k] = T[i + k - 1]
      BY <1>9, <3>1, SubSeqIs
    <3>3. ASSUME NEW k \in 1 .. x - y PROVE T[i + k - 1] = p[y + k]
      <4>1. i + k - 1 \in 1 .. l - r /\ r + (i + k - 1) = y + k
        BY <1>1, <1>8 DEF i
      <4> QED
        BY <1>9, <4>1
    <3> QED
      BY <3>1, <3>2, <3>3 DEF i, j
  <2>3. v \in Seq(C) /\ Len(v) = x - y /\ \A k \in 1 .. x - y : v[k] = p[y + k]
    <3> DEFINE i == y + 1
    <3>1. i \in 1 .. Len(p) + 1 /\ x \in i - 1 .. Len(p) /\ x + 1 - i = x - y
      BY <1>1, <1>8
    <3> HIDE DEF i
    <3>2. /\ SubSeq(p, i, x) \in Seq(C) /\ Len(SubSeq(p, i, x)) = x + 1 - i
          /\ \A k \in 1 .. x + 1 - i : SubSeq(p, i, x)[k] = p[i + k - 1]
      BY <3>1, SubSeqIs
    <3>3. \A k \in 1 .. x - y : i + k - 1 = y + k
      BY <1>8 DEF i
    <3> QED
      BY <3>1, <3>2, <3>3 DEF i
  <2> HIDE DEF u, v
  <2>4. u = v
    BY <2>2, <2>3
  <2> QED
    BY <1>7, <2>1, <2>4 DEF v
<1>15. LastDir(T) = SubSeq(D, r + 1, z)
  <2> DEFINE u == SubSeq(T, 1, z - r)
             v == SubSeq(D, r + 1, z)
  <2>1. LastDir(T) = u
    BY <1>11, <1>12, <1>13 DEF LastDir
  <2>2. u \in Seq(C) /\ Len(u) = z - r /\ \A k \in 1 .. z - r : u[k] = p[r + k]
    <3> DEFINE i == z - r
    <3>1. i \in 0 .. Len(T) /\ \A k \in 1 .. i : k \in 1 .. l - r
      BY <1>1, <1>8, <1>9
    <3> HIDE DEF i
    <3>2. SubSeq(T, 1, i) \in Seq(C) /\ Len(SubSeq(T, 1, i)) = i /\ \A k \in 1 .. i : SubSeq(T, 1, i)[k] = T[k]
      BY <1>9, <3>1, PrefixIs
    <3> QED
      BY <1>9, <3>1, <3>2 DEF i
  <2>3. v \in Seq(C) /\ Len(v) = z - r /\ \A k \in 1 .. z - r : v[k] = p[r + k]
    <3> DEFINE i == r + 1
    <3>1. i \in 1 .. Len(D) + 1 /\ z \in i - 1 .. Len(D) /\ z + 1 - i = z - r
      BY <1>8, <1>10
    <3> HIDE DEF i
    <3>2. /\ SubSeq(D, i, z) \in Seq(C) /\ Len(SubSeq(D, i, z)) = z + 1 - i
          /\ \A k \in 1 .. z + 1 - i : SubSeq(D, i, z)[k] = D[i + k - 1]
      BY <1>10, <3>1, SubSeqIs
    <3>3. \A k \in 1 .. z - r : i + k - 1 = r + k /\ r + k \in 1 .. z
      BY <1>8 DEF i
    <3> QED
      BY <1>10, <3>1, <3>2, <3>3 DEF i
  <2> HIDE DEF u, v
  <2>4. u = v
    BY <2>2, <2>3
  <2> QED
    BY <2>1, <2>4 DEF v
<1>16. SubSeq(D, 1, r) = SubSeq(p, 1, r)
  <2> DEFINE u == SubSeq(D, 1, r)
             v == SubSeq(p, 1, r)
  <2>1. r \in 0 .. Len(D) /\ r \in 0 .. Len(p) /\ \A k \in 1 .. r : k \in 1 .. z
    BY <1>1, <1>8, <1>10
  <2>2. u \in Seq(C) /\ Len(u) = r /\ \A k \in 1 .. r : u[k] = D[k]
    BY <1>10, <2>1, PrefixIs
  <2>3. v \in Seq(C) /\ Len(v) = r /\ \A k \in 1 .. r : v[k] = p[k]
    BY <2>1, PrefixIs
  <2> HIDE DEF u, v
  <2>4. u = v
    BY <1>10, <2>1, <2>2, <2>3
  <2> QED
    BY <2>4 DEF u, v
<1>17. LastOf(T) # 0 /\ y # 0
  BY <1>8, <1>11
<1> QED
  BY <1>9, <1>10, <1>14, <1>15, <1>16, <1>17 DEF T, D, x, y, z

\* A path with a root and a colon in the second place begins with a drive.
LEMMA ColonIsDrive ==
    ASSUME NEW p, PathRootLen(p) # 0, p[2] = ":"
    PROVE  PathRootLen(p) = 2
<1>1. ~IsSep(p[2])
  BY DEF IsSep, Seps, Back
<1> QED
  BY <1>1 DEF PathRootLen

\* Of a path with a root that its directory keeps, the name is the last one.
LEMMA BaseOfRooted ==
    ASSUME NEW C, NEW p \in Seq(C), NEW r \in Nat, PathRootLen(p) = r, r # 0, LastOf(p) # 0,
           LastPlain(p, LastSep(p, LastOf(p))) >= r
    PROVE  BaseName(p) = LastName(p)
<1>1. LastOf(Rest(p)) # 0 /\ LastName(Rest(p)) = LastName(p)
  BY RestOfDir
<1>2. LastOf(p) > 2 => Len(p) > 2
  BY LastPlainIs DEF LastOf
<1>3. CASE p[2] = ":"
  <2>1. r = 2
    BY <1>3, ColonIsDrive
  <2>2. Len(p) > 2
    <3> DEFINE x == LastOf(p)
               y == LastSep(p, x)
               z == LastPlain(p, y)
    <3>1. x \in 0 .. Len(p) /\ ~IsSep(p[x]) /\ Len(p) \in Nat
      BY LastPlainIs DEF LastOf
    <3> HIDE DEF x
    <3>2. y \in 0 .. x /\ (y # 0 => IsSep(p[y]))
      BY <3>1, LastSepIs
    <3>3. z >= 2
      BY <2>1 DEF x
    <3> HIDE DEF y
    <3>4. z \in 0 .. y
      BY <3>1, <3>2, LastPlainIs
    <3> HIDE DEF z
    <3>5. y # x
      BY <3>1, <3>2, <3>3, <3>4
    <3> QED
      BY <3>1, <3>2, <3>3, <3>4, <3>5
  <2> DEFINE q == SubSeq(p, 3, Len(p))
  <2>3. Rest(p) = q
    BY <2>1 DEF Rest
  <2>4. BaseName(p) = IF LastPlain(q, Len(q)) = 0 THEN Dot
                      ELSE SubSeq(q, LastSep(q, LastPlain(q, Len(q))) + 1, LastPlain(q, Len(q)))
    <3>1. Len(p) \in Nat /\ (p = <<>> => Len(p) = 0)
      OBVIOUS
    <3> DEFINE l == Len(p)
    <3>2. l # 0 /\ ~(l = 2)
      <4>1. l \in Nat /\ l > 2
        BY <2>2, <3>1
      <4> HIDE DEF l
      <4> QED
        BY <4>1
    <3>3. p # <<>>
      BY <3>1, <3>2
    <3> QED
      BY <1>3, <2>2, <3>2, <3>3 DEF BaseName
  <2> HIDE DEF q
  <2>5. BaseName(p) = IF LastOf(q) = 0 THEN Dot ELSE LastName(q)
    BY <2>4 DEF LastOf, LastName
  <2> QED
    BY <1>1, <2>3, <2>5
<1>4. CASE p[2] # ":"
  <2>1. p # <<>>
    <3>1. Len(p) # 0
      BY LastPlainIs DEF LastOf
    <3> QED
      BY <3>1
  <2> QED
    BY <1>4, <2>1, Zenon DEF BaseName, LastOf, LastName
<1> QED
  BY <1>3, <1>4

\* Directory and name of a path with a root that its directory keeps, put together,
\* are that path.
LEMMA DirAndBaseRooted ==
    ASSUME NEW C, NEW p \in Seq(C), NEW r \in Nat, p # <<>>, PathRootLen(p) = r, r # 0,
           PathRootLen(DirName(p)) = r, SplitPathInternal(Rest(p), <<>>).ok
    PROVE  PathCat(DirName(p), <<BaseName(p)>>) = PathCat(p, <<>>)
<1> DEFINE d == LastDir(p)
           n == LastName(p)
           t == SplitPathInternal(Rest(p), <<>>)
           b == SplitPathInternal(Rest(d), <<>>)
           z == LastPlain(p, LastSep(p, LastOf(p)))
<1>1. DirName(p) # <<"/">> /\ DirName(p) # Dot
  <2>1. Len(<<"/">>) = 1 /\ Len(Dot) = 1
    BY DEF Dot
  <2> QED
    BY <2>1, RootShort
<1>2. LastOf(p) # 0 /\ DirName(p) = d
  BY <1>1, DirOfDir
<1>3. z \in 0 .. Len(p) /\ d = SubSeq(p, 1, z)
  <2> DEFINE x == LastOf(p)
             y == LastSep(p, x)
  <2>1. x \in 0 .. Len(p) /\ Len(p) \in Nat
    BY LastPlainIs DEF LastOf
  <2> HIDE DEF x
  <2>2. y \in 0 .. x
    BY <2>1, LastSepIs
  <2> HIDE DEF y
  <2>3. LastPlain(p, y) \in 0 .. y
    BY <2>1, <2>2, LastPlainIs
  <2>4. LastPlain(p, y) \in 0 .. Len(p)
    BY <2>1, <2>2, <2>3
  <2> QED
    BY <2>4 DEF x, y, LastDir
<1> HIDE DEF z
<1>4. z >= r
  <2>1. d \in Seq(C) /\ Len(d) = z
    BY <1>3, PrefixIs
  <2> HIDE DEF d
  <2>2. PathRootLen(d) \in 0 .. Len(d)
    BY <2>1, RootLenIs
  <2> QED
    BY <1>2, <1>3, <2>1, <2>2
<1>5. /\ LastOf(Rest(p)) # 0 /\ Rest(p) \in Seq(C) /\ LastName(Rest(p)) = n
      /\ d \in Seq(C) /\ LastDir(Rest(p)) = SubSeq(d, r + 1, Len(d)) /\ SubSeq(d, 1, r) = SubSeq(p, 1, r)
  BY <1>2, <1>4, RestOfDir DEF z
<1>6. BaseName(p) = n
  BY <1>2, <1>4, BaseOfRooted DEF z
<1> HIDE DEF d, n
<1>7. Rest(d) = LastDir(Rest(p)) /\ Rest(d) \in Seq(C)
  <2>1. Rest(d) = SubSeq(d, r + 1, Len(d))
    BY <1>2 DEF Rest
  <2> QED
    BY <1>5, <2>1, PathCatIs
<1>8. n \in NameSet(C) /\ Names(Rest(p)) = Append(Names(Rest(d)), n)
  BY <1>5, <1>7, NamesOfDir
<1>9. t = Output(b, n) /\ b \in Splits(C)
  BY <1>7, <1>8, SplitMore
<1>10. b = [ok |-> TRUE, names |-> b.names]
  <2> HIDE DEF b
  <2> QED
    BY <1>9, SplitBefore
<1>11. t = Output([ok |-> TRUE, names |-> SplitPathInternal(Rest(d), <<>>).names], n)
  BY <1>9, <1>10
<1>12. t.ok
  OBVIOUS
<1>13. PathCat(p, <<>>) = Joined(SubSeq(p, 1, r), t.names)
  BY PathCatIs
<1> HIDE DEF t
<1>14. PathCat(d, <<n>>) = IF t.ok THEN Joined(SubSeq(d, 1, PathRootLen(d)), t.names) ELSE Dot
  BY <1>5, <1>8, <1>11, PathCatOne
<1> QED
  BY <1>2, <1>5, <1>6, <1>12, <1>13, <1>14

\* A letter and a colon are a root.
LEMMA RootOfDrive ==
    ASSUME NEW q, Len(q) >= 2, q[1] \in Letters, q[2] = ":"
    PROVE  PathRootLen(q) = 2
BY DEF PathRootLen

\* Of a drive alone nothing is taken.
LEMMA DriveStays ==
    ASSUME NEW C, NEW q \in Seq(C), Len(q) = 2, q[1] \notin {Back, ":"}, q[2] = ":"
    PROVE  ~PathRemoveFileSpecU(q).modified
<1> DEFINE f == FileSpecs(q)
<1>0. ":" # Back
  BY DEF Back
<1>1. f[0] = [spec |-> Leading(q) + 1, next |-> Leading(q) + 1] /\ \A i \in 1 .. Len(q) : f[i] = SpecTurn(q, f[i - 1], i)
  BY FileSpecsAre
<1>s. Leading(q) = 0
  BY DEF Leading
<1> HIDE DEF f
<1>2. f[0] = [spec |-> 1, next |-> 1]
  BY <1>1, <1>s
<1>3. f[1] = [spec |-> 1, next |-> 2]
  <2>1. f[1] = SpecTurn(q, f[0], 1) /\ f[0].next = 1 /\ f[0].spec = 1
    BY <1>1, <1>2
  <2> QED
    BY <2>1 DEF SpecTurn
<1>4. f[2] = [spec |-> 3, next |-> 4]
  <2>1. f[2] = SpecTurn(q, f[1], 2) /\ f[1].next = 2 /\ ~(2 < Len(q))
    BY <1>1, <1>3
  <2> QED
    BY <1>0, <2>1 DEF SpecTurn
<1>5. f[2].spec = 3 /\ ~(3 <= Len(q))
  BY <1>4
<1>6. PathRemoveFileSpecU(q).modified = (f[2].spec <= Len(q))
  BY DEF PathRemoveFileSpecU, f
<1> QED
  BY <1>5, <1>6

\* A directory of a path of a drive is in normal form.
LEMMA CatOfJoins ==
    ASSUME NEW C, Back \in C, NEW root \in Seq(C), NEW names \in Seq(NameSet(C)), NoDots(names),
           Len(root) = 2, root[1] \in Letters, root[2] = ":", NEW k \in 0 .. Len(names)
    PROVE  PathCat(Joins(root, names)[k], <<>>) = Joins(root, names)[k]
<1> DEFINE q == Joins(root, names)[k]
           a == SubSeq(names, 1, k)
<1>1. a \in Seq(NameSet(C)) /\ NoDots(a)
  <2>1. a \in Seq(NameSet(C)) /\ Len(a) = k /\ \A i \in 1 .. k : a[i] = names[i]
    BY PrefixIs
  <2> HIDE DEF a
  <2>2. \A i \in 1 .. k : i \in 1 .. Len(names)
    OBVIOUS
  <2> QED
    BY <2>1, <2>2 DEF NoDots
<1>2. q \in Seq(C) /\ IsJoined(q, root, a)
  BY JoinedIs
<1>3. q = Joined(root, a)
  BY JoinsAlike
<1> HIDE DEF q, a
<1>4. 2 <= Len(q) /\ (\A i \in 1 .. 2 : q[i] = root[i]) /\ Names(From(q, 3)) = a /\ Len(q) \in Nat
  BY <1>2 DEF IsJoined
<1>5. PathRootLen(q) = 2 /\ SubSeq(q, 1, 2) = root
  <2>1. q[1] = root[1] /\ q[2] = root[2]
    BY <1>4
  <2>2. PathRootLen(q) = 2
    BY <1>4, <2>1, RootOfDrive
  <2> DEFINE u == SubSeq(q, 1, 2)
  <2>3. u \in Seq(C) /\ Len(u) = 2 /\ \A x \in 1 .. 2 : u[x] = q[x]
    <3>1. 2 \in 0 .. Len(q)
      BY <1>4
    <3> QED
      BY <1>2, <3>1, PrefixIs
  <2> HIDE DEF u
  <2>4. u = root
    BY <1>4, <2>3
  <2> QED
    BY <2>2, <2>4 DEF u
<1>6. Rest(q) = From(q, 3)
  BY <1>5 DEF Rest, From
<1>7. PathCat(q, <<>>) = Joined(SubSeq(q, 1, PathRootLen(q)), SplitPathInternal(Rest(q), <<>>).names)
  BY <1>2, PathCatIs
<1>8. SplitPathInternal(From(q, 3), <<>>).names = a
  <2> DEFINE t == SplitPathInternal(From(q, 3), <<>>)
  <2>1. Outputs(a, <<>>)[Len(a)] = [ok |-> TRUE, names |-> a]
    BY <1>1, OutputsSame
  <2>2. t = [ok |-> TRUE, names |-> a]
    BY <1>4, <2>1 DEF SplitPathInternal
  <2> HIDE DEF t
  <2>3. t.names = a
    BY <2>2
  <2> QED
    BY <2>3 DEF t
<1>9. PathCat(q, <<>>) = q
  BY <1>3, <1>5, <1>6, <1>7, <1>8
<1> QED
  BY <1>9 DEF q

\* A drive with a backslash is, put together, the drive.
LEMMA CatOfDrive ==
    ASSUME NEW C, Back \in C, NEW root \in Seq(C), Len(root) = 2, root[1] \in Letters, root[2] = ":"
    PROVE  PathCat(Append(root, Back), <<>>) = root
<1> DEFINE q == Append(root, Back)
           r == From(q, 3)
           b == Back
<1>1. q \in Seq(C) /\ Len(q) = 3 /\ q[1] = root[1] /\ q[2] = root[2] /\ q[3] = b
  <2>1. ASSUME NEW x \in C
        PROVE  LET s == Append(root, x) IN s \in Seq(C) /\ Len(s) = 3 /\ s[1] = root[1] /\ s[2] = root[2] /\ s[3] = x
    OBVIOUS
  <2> QED
    BY <2>1, Zenon
<1>2. IsSep(b)
  BY DEF IsSep, Seps
<1> HIDE DEF q, b
<1>3. PathRootLen(q) = 2
  BY <1>1, RootOfDrive
<1>4. SubSeq(q, 1, 2) = root
  <2> DEFINE u == SubSeq(q, 1, 2)
  <2>1. u \in Seq(C) /\ Len(u) = 2 /\ \A x \in 1 .. 2 : u[x] = q[x]
    <3>1. 2 \in 0 .. Len(q)
      BY <1>1
    <3> QED
      BY <1>1, <3>1, PrefixIs
  <2> HIDE DEF u
  <2>2. \A x \in 1 .. 2 : x = 1 \/ x = 2
    OBVIOUS
  <2>3. \A x \in 1 .. 2 : u[x] = root[x]
    BY <1>1, <2>1, <2>2
  <2>4. u = root
    BY <2>1, <2>3
  <2> QED
    BY <2>4 DEF u
<1>5. r \in Seq(C) /\ Len(r) = 1 /\ r[1] = b
  <2>1. 3 \in 1 .. Len(q) + 1 /\ Len(q) + 1 - 3 = 1 /\ 1 \in 1 .. 1 /\ 3 + 1 - 1 = 3
    BY <1>1
  <2>2. /\ r \in Seq(C) /\ Len(r) = Len(q) + 1 - 3
        /\ \A k \in 1 .. Len(q) + 1 - 3 : r[k] = q[3 + k - 1]
    BY <1>1, <2>1, FromIs
  <2> HIDE DEF r
  <2>3. r[1] = q[3 + 1 - 1]
    BY <2>1, <2>2
  <2> QED
    BY <1>1, <2>1, <2>2, <2>3
<1>6. Rest(q) = r
  BY <1>3 DEF Rest, From
<1> HIDE DEF r
<1>7. LastOf(r) = 0
  <2>1. LastPlain(r, 1) \in 0 .. 1 /\ (LastPlain(r, 1) # 0 => ~IsSep(r[LastPlain(r, 1)]))
    BY LastPlainIs
  <2> DEFINE m == LastPlain(r, 1)
  <2>2. m \in 0 .. 1 /\ (m # 0 => ~IsSep(r[m]))
    BY <2>1
  <2> HIDE DEF m
  <2>3. m = 0
    BY <1>2, <1>5, <2>2
  <2> QED
    BY <1>5, <2>3 DEF m, LastOf
<1>8. Names(r) = <<>>
  BY <1>5, <1>7, NamesOfDir
<1>9. SplitPathInternal(r, <<>>).names = <<>>
  <2> DEFINE t == SplitPathInternal(r, <<>>)
             e == <<>>
  <2>1. e \in Seq(NameSet(C)) /\ Len(e) = 0
    OBVIOUS
  <2>2. t = Outputs(e, e)[Len(e)]
    BY <1>8 DEF SplitPathInternal
  <2>3. ASSUME NEW a \in Seq(NameSet(C)), NEW o \in Seq(NameSet(C))
        PROVE  Outputs(a, o)[0] = [ok |-> TRUE, names |-> o]
    BY OutputsAre
  <2> HIDE DEF t, e
  <2>4. Outputs(e, e)[0] = [ok |-> TRUE, names |-> e]
    BY <2>1, <2>3, Zenon
  <2>5. t.names = e
    BY <2>1, <2>2, <2>4
  <2> QED
    BY <2>5 DEF t, e
<1>10. PathCat(q, <<>>) = Joined(SubSeq(q, 1, PathRootLen(q)), SplitPathInternal(Rest(q), <<>>).names)
  BY <1>1, PathCatIs
<1>11. Joined(root, <<>>) = root
  <2> DEFINE e == <<>>
  <2>1. e \in Seq(NameSet(C)) /\ Len(e) = 0
    OBVIOUS
  <2> HIDE DEF e
  <2>2. Joins(root, e)[0] = root
    BY <2>1, JoinsAre
  <2>3. Joined(root, e) = root
    BY <2>1, <2>2 DEF Joined
  <2> QED
    BY <2>3 DEF e
<1>12. PathCat(q, <<>>) = root
  BY <1>3, <1>4, <1>6, <1>9, <1>10, <1>11
<1> QED
  BY <1>12 DEF q, b

\* A path of a drive and names does not end in a separator.
LEMMA JoinsEnd ==
    ASSUME NEW C, Back \in C, NEW root \in Seq(C), NEW names \in Seq(NameSet(C)),
           Len(root) = 2, root[2] = ":", NEW k \in 0 .. Len(names)
    PROVE  ~IsSep(Joins(root, names)[k][Len(Joins(root, names)[k])])
<1> DEFINE J == Joins(root, names)
           n == Len(names)
<1>1. /\ \A i \in 0 .. n : J[i] \in Seq(C) /\ Len(J[i]) >= IF i = 0 THEN 2 ELSE 4
      /\ \A i \in 1 .. n :
            /\ names[i] \in NameSet(C)
            /\ J[i] = JoinOne(J[i - 1], names[i])
            /\ J[i - 1] # <<>>
            /\ Len(J[i]) = Len(J[i - 1]) + 1 + Len(names[i])
            /\ Len(names[i]) >= 1
      /\ J[0] = root
  BY JoinsGrow, Zenon
<1>2. n \in Nat
  OBVIOUS
<1>3. CASE k = 0
  <2>1. ~IsSep(":")
    BY DEF IsSep, Seps, Back
  <2> HIDE DEF J
  <2> QED
    BY <1>1, <1>3, <2>1 DEF J
<1>4. CASE k # 0
  <2> DEFINE s == J[k - 1]
             e == names[k]
             q == J[k]
  <2>1. k \in 1 .. n /\ k - 1 \in 0 .. n
    BY <1>2, <1>4
  <2>2. s \in Seq(C) /\ e \in NameSet(C) /\ q = JoinOne(s, e) /\ s # <<>> /\ Len(q) = Len(s) + 1 + Len(e) /\ Len(e) >= 1
    BY <1>1, <2>1
  <2> HIDE DEF s, e, q, J
  <2>3. e \in Seq(C) /\ \A x \in 1 .. Len(e) : ~IsSep(e[x])
    BY <2>2, JoinOneIs
  <2>4. \A x \in 1 .. Len(e) : JoinOne(s, e)[Len(s) + 1 + x] = e[x]
    BY <2>2, JoinOneIs
  <2>5. Len(e) \in 1 .. Len(e)
    BY <2>2, <2>3
  <2>6. q[Len(q)] = e[Len(e)] /\ ~IsSep(e[Len(e)])
    BY <2>2, <2>3, <2>4, <2>5
  <2> QED
    BY <2>6 DEF q, J
<1> QED
  BY <1>3, <1>4

\* The directory of a path of a drive and names is the path of one name less.
LEMMA DirOfJoined ==
    ASSUME NEW C, Back \in C, NEW root \in Seq(C), NEW names \in Seq(NameSet(C)), names # <<>>,
           Len(root) = 2, root[2] = ":"
    PROVE  DirName(Joined(root, names)) = Joins(root, names)[Len(names) - 1]
<1> DEFINE J == Joins(root, names)
           n == Len(names)
           s == J[n - 1]
           e == names[n]
           q == J[n]
           l == Len(s)
<1>1. n \in Nat /\ n # 0 /\ n \in 1 .. n /\ n \in 0 .. n /\ n - 1 \in 0 .. n
  OBVIOUS
<1>2. /\ \A i \in 0 .. n : J[i] \in Seq(C) /\ Len(J[i]) >= IF i = 0 THEN 2 ELSE 4
      /\ \A i \in 1 .. n :
            /\ names[i] \in NameSet(C)
            /\ J[i] = JoinOne(J[i - 1], names[i])
            /\ J[i - 1] # <<>>
            /\ Len(J[i]) = Len(J[i - 1]) + 1 + Len(names[i])
            /\ Len(names[i]) >= 1
      /\ J[0] = root
  BY JoinsGrow, Zenon
<1>3. Joined(root, names) = q
  BY DEF Joined
<1>4. s \in Seq(C) /\ e \in NameSet(C) /\ q = JoinOne(s, e) /\ s # <<>> /\ Len(q) = l + 1 + Len(e) /\ Len(e) >= 1 /\ q \in Seq(C)
  BY <1>1, <1>2
<1>5. ~IsSep(q[Len(q)]) /\ ~IsSep(s[l])
  <2>1. ASSUME NEW i \in 0 .. n PROVE ~IsSep(J[i][Len(J[i])])
    BY JoinsEnd
  <2> HIDE DEF J, n
  <2> QED
    BY <1>1, <2>1
<1> HIDE DEF J, n, s, e, q
<1>6. e \in Seq(C) /\ \A x \in 1 .. Len(e) : ~IsSep(e[x])
  BY <1>4, JoinOneIs
<1>7. /\ \A x \in 1 .. l : q[x] = s[x]
      /\ q[l + 1] = Back /\ \A x \in 1 .. Len(e) : q[l + 1 + x] = e[x]
  <2>1. /\ \A x \in 1 .. Len(s) : JoinOne(s, e)[x] = s[x]
        /\ JoinOne(s, e)[Len(s) + 1] = Back /\ \A x \in 1 .. Len(e) : JoinOne(s, e)[Len(s) + 1 + x] = e[x]
    <3>1. s \in Seq(C) /\ e \in NameSet(C) /\ s # <<>>
      BY <1>4
    <3>2. \A d \in Seq(C), m \in NameSet(C) :
              d # <<>> => /\ (\A x \in 1 .. Len(d) : JoinOne(d, m)[x] = d[x])
                          /\ JoinOne(d, m)[Len(d) + 1] = Back
                          /\ (\A x \in 1 .. Len(m) : JoinOne(d, m)[Len(d) + 1 + x] = m[x])
      BY JoinOneIs
    <3> QED
      BY <3>1, <3>2, Zenon
  <2> QED
    BY <1>4, <2>1
<1>8. l \in Nat /\ l # 0 /\ Len(e) \in Nat /\ Len(q) \in Nat
  BY <1>4, <1>6
<1> DEFINE m == Len(q)
<1>9. LastPlain(q, m) = m
  <2>1. m \in Nat /\ m \in 1 .. m /\ \A j \in m + 1 .. m : IsSep(q[j])
    BY <1>4, <1>8
  <2> QED
    BY <1>5, <2>1, LastPlainAt
<1>10. LastSep(q, m) = l + 1
  <2> DEFINE k == l + 1
  <2>1. m \in Nat /\ k \in 1 .. m
    BY <1>4, <1>8
  <2>2. IsSep(q[k])
    BY <1>7 DEF IsSep, Seps
  <2>3. ASSUME NEW j \in k + 1 .. m PROVE ~IsSep(q[j])
    <3> DEFINE x == j - k
    <3>1. x \in 1 .. Len(e) /\ j = l + 1 + x
      BY <1>4, <1>8
    <3> HIDE DEF x
    <3> QED
      BY <1>6, <1>7, <3>1
  <2> HIDE DEF k, m
  <2>4. LastSep(q, m) = k
    BY <2>1, <2>2, <2>3, LastSepAt
  <2> QED
    BY <2>4 DEF k
<1>11. LastPlain(q, l + 1) = l
  <2>1. l + 1 \in Nat /\ l \in 1 .. l + 1 /\ l \in 1 .. l /\ \A j \in l + 1 .. l + 1 : j = l + 1
    BY <1>8
  <2>2. ~IsSep(q[l]) /\ IsSep(q[l + 1])
    BY <1>5, <1>7, <2>1 DEF IsSep, Seps
  <2>3. \A j \in l + 1 .. l + 1 : IsSep(q[j])
    BY <2>1, <2>2
  <2> QED
    BY <2>1, <2>2, <2>3, LastPlainAt
<1>12. DirName(q) = SubSeq(q, 1, l)
  <2>1. q # <<>> /\ m # 0 /\ l + 1 # 0
    BY <1>4, <1>8
  <2> QED
    BY <1>8, <1>9, <1>10, <1>11, <2>1 DEF DirName
<1>13. SubSeq(q, 1, l) = s
  <2> DEFINE u == SubSeq(q, 1, l)
  <2>1. l \in 0 .. Len(q)
    BY <1>4, <1>8
  <2>2. u \in Seq(C) /\ Len(u) = l /\ \A x \in 1 .. l : u[x] = q[x]
    <3> HIDE DEF l
    <3> QED
      BY <1>4, <2>1, PrefixIs
  <2> HIDE DEF u
  <2>3. \A x \in 1 .. Len(s) : u[x] = s[x]
    BY <1>7, <2>2
  <2>4. u = s
    BY <1>4, <2>2, <2>3
  <2> QED
    BY <2>4 DEF u
<1> QED
  BY <1>3, <1>12, <1>13 DEF s, n, J

\* What PathRemoveFileSpecU leaves of a path of a drive is, put together, its directory.
LEMMA UpIsDir ==
    ASSUME NEW C, Back \in C, NEW p \in Seq(C), PathCat(p, <<>>) = p, PathRootLen(p) = 2,
           \A i \in 3 .. Len(p) : p[i] # ":", PathRemoveFileSpecU(p).modified
    PROVE  PathCat(PathRemoveFileSpecU(p).path, <<>>) = DirName(p)
<1> DEFINE root == SubSeq(p, 1, 2)
           ns == SplitPathInternal(Rest(p), <<>>).names
           n == Len(ns)
           J == Joins(root, ns)
           up == PathRemoveFileSpecU(p)
<1>1. Len(p) >= 2 /\ p[1] \in Letters /\ p[2] = ":" /\ Len(p) \in Nat
  BY RootOfTwo
<1>2. root \in Seq(C) /\ Len(root) = 2 /\ root[1] = p[1] /\ root[2] = p[2]
  <2>1. 2 \in 0 .. Len(p) /\ 1 \in 1 .. 2 /\ 2 \in 1 .. 2
    BY <1>1
  <2>2. root \in Seq(C) /\ Len(root) = 2 /\ \A k \in 1 .. 2 : root[k] = p[k]
    BY <2>1, PrefixIs
  <2> HIDE DEF root
  <2> QED
    BY <2>1, <2>2
<1>3. ns \in Seq(NameSet(C)) /\ NoDots(ns) /\ p = Joined(root, ns)
  <2>1. /\ SplitPathInternal(Rest(p), <<>>).names \in Seq(NameSet(C))
        /\ NoDots(SplitPathInternal(Rest(p), <<>>).names)
        /\ PathCat(p, <<>>) = Joined(SubSeq(p, 1, PathRootLen(p)), SplitPathInternal(Rest(p), <<>>).names)
    BY PathCatIs
  <2> QED
    BY <2>1
<1> HIDE DEF root, ns
<1>4. root[1] \in Letters /\ root[2] = ":" /\ root[1] \notin {Back, ":"} /\ OfDrive(root, ns, p)
  <2>1. p[1] \notin {Back, ":"}
    BY <1>1 DEF Letters, Back
  <2> QED
    BY <1>1, <1>2, <1>3, <2>1 DEF OfDrive
<1>5. n # 0 /\ ns # <<>>
  <2> SUFFICES ASSUME n = 0 PROVE FALSE
    BY <1>3
  <2>1. p = root
    BY <1>2, <1>3, JoinsAre DEF Joined
  <2>2. ~PathRemoveFileSpecU(root).modified
    BY <1>2, <1>4, DriveStays
  <2> QED
    BY <2>1, <2>2
<1>6. n \in Nat /\ n \in 1 .. n /\ n - 1 \in 0 .. n
  BY <1>3, <1>5
<1>7. p = J[n] /\ DirName(p) = J[n - 1]
  <2>1. DirName(Joined(root, ns)) = Joins(root, ns)[Len(ns) - 1]
    BY <1>2, <1>3, <1>4, <1>5, DirOfJoined
  <2> QED
    BY <1>3, <2>1 DEF Joined
<1>8. up.path = IF n = 1 THEN Append(root, Back) ELSE J[n - 1]
  <2> DEFINE v == IF n = 1 THEN Append(root, Back) ELSE J[n - 1]
  <2>1. PathRemoveFileSpecU(J[n]) = [path |-> v, modified |-> TRUE]
    <3>1. ASSUME NEW k \in 1 .. Len(ns)
          PROVE  PathRemoveFileSpecU(Joins(root, ns)[k]) =
                     [path |-> IF k = 1 THEN Append(root, Back) ELSE Joins(root, ns)[k - 1], modified |-> TRUE]
      BY <1>2, <1>3, <1>4, OneUp
    <3> QED
      BY <1>6, <3>1, Zenon
  <2>2. up = [path |-> v, modified |-> TRUE]
    BY <1>7, <2>1
  <2> HIDE DEF v, up
  <2>3. up.path = v
    BY <2>2
  <2> QED
    BY <2>3 DEF v
<1>9. CASE n = 1
  <2>1. PathCat(Append(root, Back), <<>>) = root
    BY <1>2, <1>4, CatOfDrive
  <2>2. J[0] = root
    BY <1>2, <1>3, JoinsAre
  <2>3. n - 1 = 0
    BY <1>9
  <2> QED
    BY <1>7, <1>8, <1>9, <2>1, <2>2, <2>3
<1>10. CASE n # 1
  <2> DEFINE k == n - 1
  <2>1. k \in 0 .. Len(ns)
    BY <1>6
  <2> HIDE DEF k
  <2>2. PathCat(Joins(root, ns)[k], <<>>) = Joins(root, ns)[k]
    BY <1>2, <1>3, <1>4, <2>1, CatOfJoins
  <2> QED
    BY <1>7, <1>8, <1>10, <2>2 DEF k
<1> QED
  BY <1>9, <1>10

\* Whatever path is typed, with or without a root, and however long it is: if its
\* directory keeps the root, directory and name put together are that path, and one
\* directory up is the directory (DirAndName).
THEOREM DirAndNameOfAll == ProgramsSpec => []DirAndName
<1>1. TextOK => DirAndName
  <2> SUFFICES ASSUME TextOK, IsPath(Typed), Typed # <<>> PROVE DirAndName
    BY DEF DirAndName
  <2> DEFINE C == STRING \cup {Back, ".", "/"}
             p == Typed
             full == PathCat(p, <<>>)
             up == PathRemoveFileSpecU(full)
  <2>1. p \in Seq(STRING)
    BY FlattenIs DEF Typed, TextOK
  <2>2. p \in Seq(C) /\ Back \in C /\ {".", "/"} \subseteq C
    BY <2>1, Wider
  <2> HIDE DEF C, p
  <2>p. p # <<>> /\ IsPath(p) /\ p = Typed
    BY DEF p
  <2>3. ASSUME NEW r \in 0 .. Len(p), PathRootLen(p) = r
        PROVE  \A i \in r + 1 .. Len(p) : p[i] # ":"
    <3> DEFINE f == From(p, r + 1)
    <3>1. r + 1 \in 1 .. Len(p) + 1 /\ r \in Nat /\ Len(p) \in Nat
      BY <2>2
    <3>2. f \in Seq(C) /\ Len(f) = Len(p) + 1 - (r + 1) /\ \A k \in 1 .. Len(p) + 1 - (r + 1) : f[k] = p[r + 1 + k - 1]
      BY <2>2, <3>1, FromIs
    <3>3. ":" \notin ToSet(f)
      BY <2>3, <2>p DEF IsPath
    <3> HIDE DEF f
    <3> TAKE i \in r + 1 .. Len(p)
    <3>4. i - r \in 1 .. Len(p) + 1 - (r + 1) /\ r + 1 + (i - r) - 1 = i /\ i - r \in 1 .. Len(f)
      BY <3>1, <3>2
    <3>5. DOMAIN f = 1 .. Len(f)
      BY <3>2
    <3>6. f[i - r] = p[i]
      BY <3>2, <3>4
    <3> QED
      BY <3>3, <3>4, <3>5, <3>6 DEF ToSet
  <2>4. ASSUME PathRootLen(DirName(p)) = PathRootLen(p), SplitPathInternal(From(p, PathRootLen(p) + 1), <<>>).ok
        PROVE  PathCat(DirName(p), <<BaseName(p)>>) = full
    <3>1. Rest(p) = From(p, PathRootLen(p) + 1)
      BY DEF Rest, From
    <3>2. CASE PathRootLen(p) = 0
      <4>1. 0 \in 0 .. Len(p) /\ 0 + 1 = 1
        BY <2>2
      <4>2. \A i \in 1 .. Len(p) : p[i] # ":"
        BY <2>3, <3>2, <4>1
      <4>3. Rest(p) = p
        BY <2>2, <3>2, PrefixEnds DEF Rest
      <4> QED
        BY <2>2, <2>4, <2>p, <3>1, <3>2, <4>2, <4>3, DirAndBase
    <3>3. CASE PathRootLen(p) # 0
      <4>1. PathRootLen(p) \in Nat
        BY <2>2, RootLenIs
      <4> QED
        BY <2>2, <2>4, <2>p, <3>1, <3>3, <4>1, DirAndBaseRooted
    <3> QED
      BY <3>2, <3>3
  <2>5. PathStripName(p) \in {p, DirName(p)}
    BY <2>p, DirOfDir
  <2>6. ASSUME full = p, PathRootLen(full) = 2, up.modified
        PROVE  PathCat(up.path, <<>>) = DirName(full)
    <3>1. PathRootLen(p) = 2 /\ PathRemoveFileSpecU(p).modified /\ PathCat(p, <<>>) = p
      BY <2>6
    <3>2. \A i \in 3 .. Len(p) : p[i] # ":"
      <4>1. 2 \in 0 .. Len(p) /\ 2 + 1 = 3
        BY <2>2, <3>1, RootLenIs
      <4> QED
        BY <2>3, <3>1, <4>1
    <3>3. PathCat(PathRemoveFileSpecU(p).path, <<>>) = DirName(p)
      BY <2>2, <3>1, <3>2, UpIsDir
    <3> QED
      BY <2>6, <3>3
  <2> QED
    BY <2>4, <2>5, <2>6, <2>p DEF DirAndName
<1> QED
  BY <1>1, TextType, PTL
=============================================================================
