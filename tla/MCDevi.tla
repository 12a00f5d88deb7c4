------------------------------- MODULE MCDevi -------------------------------
(* Small instances of Devi for TLC. *)
EXTENDS Devi, TLC

CONSTANTS d1, d2, cmake, sz, a, b, c

MCNames == {a, b, c}
\* cmake gives up link a and takes up b in version 2; the file of b was in
\* version 1 already.  7z has the same link in both.
Both(x, y) == 1 :> x @@ 2 :> y
MCProvides == [p \in Pkgs |-> IF p = cmake THEN Both({a}, {b}) ELSE Both({c}, {c})]
MCFiles == [p \in Pkgs |-> IF p = cmake THEN Both({a, b}, {b}) ELSE Both({c}, {c})]

Symmetric == Permutations(Procs)
=============================================================================
