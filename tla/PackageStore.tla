---------------------------- MODULE PackageStore ----------------------------
(***************************************************************************)
(* What devi promises to whoever reads its lock files: a register of       *)
(* packages.  One process at a time writes it.  A package is recorded with *)
(* a version and its links, it moves to later versions only until it is    *)
(* removed, and a writer that dies loses at most one record.               *)
(***************************************************************************)
EXTENDS Naturals

CONSTANTS Writers, NoWriter, Pkgs, Versions, Provides

VARIABLES
    record,     \* record[p]: version, 0 when there is none, and links
    writer      \* who writes, or NoWriter

svars == <<record, writer>>

Empty == [version |-> 0, links |-> {}]

StoreInit ==
    /\ record = [p \in Pkgs |-> Empty]
    /\ writer = NoWriter

Enter(w) == writer = NoWriter /\ writer' = w /\ UNCHANGED record
Leave(w) == writer = w /\ writer' = NoWriter /\ UNCHANGED record

\* To a later version, with some of the links that version asks for.
Put(w, p, v, l) ==
    /\ writer = w /\ UNCHANGED writer
    /\ v > record[p].version /\ l \subseteq Provides[p][v]
    /\ record' = [record EXCEPT ![p] = [version |-> v, links |-> l]]

Remove(w, p) ==
    /\ writer = w /\ UNCHANGED writer
    /\ record' = [record EXCEPT ![p] = Empty]

\* The writer dies in the middle of a Put.
Lose(w, p) ==
    /\ writer = w /\ writer' = NoWriter
    /\ record' = [record EXCEPT ![p] = Empty]

StoreNext ==
    \E w \in Writers :
        \/ Enter(w) \/ Leave(w)
        \/ \E p \in Pkgs :
             \/ Remove(w, p) \/ Lose(w, p)
             \/ \E v \in Versions : \E l \in SUBSET Provides[p][v] : Put(w, p, v, l)

StoreSpec == StoreInit /\ [][StoreNext]_svars
=============================================================================
