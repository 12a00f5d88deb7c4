---------------------------- MODULE MCMklauncher ----------------------------
(* Small instances of Mklauncher for TLC. *)
EXTENDS Mklauncher, TLC

CONSTANTS nasm, sz, n1, n2, z, exe

MCNames == {n1, n2, z, exe}
Always(x) == [v \in Versions |-> x]
\* nasm has two launchers, 7z one; neither has a link, as in ports/.
MCProvides == [p \in Pkgs |-> Always({})]
MCLaunchers == [p \in Pkgs |-> Always(IF p = nasm THEN {n1, n2} ELSE {z})]
\* The program of the second launcher is not in version 2 of nasm.
MCPrograms == [MCLaunchers EXCEPT ![nasm] = 1 :> {n1, n2} @@ 2 :> {n1}]
=============================================================================
