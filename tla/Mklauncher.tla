----------------------------- MODULE Mklauncher -----------------------------
(***************************************************************************)
(* mklauncher (bin/Mklauncher.ps1, modules/Launcher) beside devi.          *)
(*                                                                         *)
(* For a port whose programs cannot be linked, mklauncher compiles a small *)
(* program per launcher into pkgs/.linked and rewrites the lock file of    *)
(* the package, so that devi removes the launchers with it.  It works on   *)
(* the files of devi, and does not take devi's mutex.                      *)
(***************************************************************************)
EXTENDS Devi

CONSTANTS
    Makers,         \* slots in which mklauncher processes run
    Launchers,      \* Launchers[p][v]: the launchers version v of port p asks for
    DotExe,         \* ".exe", the launcher of a program that has no base name
    BuildFaults,    \* what may go wrong in mklauncher
    Serial,         \* do users start one command at a time?
    MaxBuilds       \* bound: mklauncher processes started in a behaviour

Launched(p) == UNION {Launchers[p][v] : v \in Versions}

ASSUME LaunchersOK ==
    /\ Launchers \in [Pkgs -> [Versions -> SUBSET Names]]
    /\ BuildFaults \subseteq {"compile", "throw", "unnoticed", "crash"}
    /\ Serial \in BOOLEAN
    /\ MaxBuilds \in Nat
\* No port asks for a link or a launcher of that name.
ASSUME DotExeOK ==
    /\ DotExe \in Names
    /\ \A p \in Pkgs : DotExe \notin Owned(p) \cup Launched(p)
\* A port of ports/ has links or launchers, never both, and no two share a name.
ASSUME LaunchersDisjoint ==
    /\ \A p \in Pkgs : Launched(p) = {} \/ Owned(p) = {}
    /\ \A p, q \in Pkgs : p # q => Launched(p) \cap (Launched(q) \cup Owned(q)) = {}

VARIABLES
    mpc, mjob,      \* where each mklauncher process is, and its variables
    builds          \* mklauncher processes started so far

mkvars  == <<mpc, mjob, builds>>
allvars == <<vars, mkvars>>

MakerLabels == {"idle", "args", "build", "trunc", "write"}
MakerJobs ==
    [args  : SUBSET Pkgs,   \* packages still to be handled
     pkg   : Pkgs,          \* $Name
     todo  : SUBSET Names,  \* $launchers the loop has still to visit
     made  : SUBSET Names,  \* $mlinks
     seen  : Locks]         \* $instmd

NewMaker(a) == [args |-> a, pkg |-> SevenZip, todo |-> {}, made |-> {}, seen |-> NoLock]

MkInit ==
    /\ Init
    /\ mpc = [m \in Makers |-> "idle"]
    /\ mjob = [m \in Makers |-> NewMaker({})]
    /\ builds = 0

MkMove(m, from, to) == mpc[m] = from /\ mpc' = [mpc EXCEPT ![m] = to]
MkSet(m, j) == mjob' = [mjob EXCEPT ![m] = j]
MayBuild(f) == f \in BuildFaults

AllIdle == /\ \A s \in Procs : At(s, "idle")
           /\ \A m \in Makers : mpc[m] = "idle"
MayStart == Serial => AllIdle

-----------------------------------------------------------------------------
(* The script.                                                             *)

\* (When there is no Visual Studio the script exits before it does anything.)
MkStart(m, a) ==
    /\ MayStart /\ builds < MaxBuilds /\ builds' = builds + 1
    /\ a # {} /\ MkMove(m, "idle", "args") /\ MkSet(m, NewMaker(a))
    /\ UNCHANGED vars

\* Mutant: $mlinks is not emptied for the next package.
MkCheckKeeps(m, p) ==
    /\ p \in mjob[m].args /\ ports[p] # None
    /\ MkMove(m, "args", "build")
    /\ MkSet(m, [mjob[m] EXCEPT !.args = @ \ {p}, !.pkg = p,
                                !.todo = Launchers[p][ports[p]]])
    /\ UNCHANGED <<vars, builds>>

\* Is the package installed, ported and to be launched at all?
MkCheck(m, p) ==
    LET j == [mjob[m] EXCEPT !.args = @ \ {p}] IN
    /\ p \in mjob[m].args
    /\ IF locks[p] # NoLock /\ ports[p] # None /\ Launchers[p][ports[p]] # {}
       THEN /\ MkMove(m, "args", "build")
            /\ MkSet(m, [j EXCEPT !.pkg = p, !.todo = Launchers[p][ports[p]],
                                  !.made = {}])
       ELSE MkMove(m, "args", "args") /\ MkSet(m, j)
    /\ UNCHANGED <<vars, builds>>

\* MakeLauncher compiles and links, and moves the result over an old one.
MkBuild(m, n) ==
    /\ n \in mjob[m].todo /\ MkMove(m, "build", "build")
    /\ MayHaveFile(mjob[m].pkg, n)
    /\ linked' = linked \cup {n}
    /\ MkSet(m, [mjob[m] EXCEPT !.todo = @ \ {n}, !.made = @ \cup {n}])
    /\ OnlyLinks /\ UNCHANGED <<pc, job, builds>>

\* The exit codes of rc and link are not looked at, a Move-Item that finds no
\* program, or one that runs in its place, does not throw, and what mt writes
\* makes a "return $false" after it an array: the result of MakeLauncher is true.
MkBuildUnnoticed(m, n) ==
    /\ n \in mjob[m].todo /\ MkMove(m, "build", "build")
    /\ MayBuild("unnoticed") /\ MayHaveFile(mjob[m].pkg, n)
    /\ MkSet(m, [mjob[m] EXCEPT !.todo = @ \ {n}, !.made = @ \cup {n}])
    /\ UNCHANGED <<vars, builds>>

\* A program that is not there has no base name: the resources do not compile,
\* nothing is linked, and ".exe" is recorded.
MkBuildNothing(m, n) ==
    /\ n \in mjob[m].todo /\ MkMove(m, "build", "build")
    /\ MayLackFile(mjob[m].pkg, n)
    /\ MkSet(m, [mjob[m] EXCEPT !.todo = @ \ {n}, !.made = @ \cup {DotExe}])
    /\ UNCHANGED <<vars, builds>>

\* Mutant: the launchers are recorded although the compiler failed.
MkBuildFailsRecorded(m, n) ==
    /\ n \in mjob[m].todo /\ MkMove(m, "build", "trunc") /\ MayBuild("compile")
    /\ MkSet(m, [mjob[m] EXCEPT !.made = @ \cup mjob[m].todo, !.todo = {},
                                !.seen = locks[mjob[m].pkg]])
    /\ UNCHANGED <<vars, builds>>

\* cl fails, blast is missing or its try block throws: the lock file stays as it
\* was, whatever launchers were made before.
MkBuildFails(m, n) ==
    /\ n \in mjob[m].todo /\ MkMove(m, "build", "args")
    /\ MayBuild("compile") \/ MayLackFile(mjob[m].pkg, n)
    /\ MkSet(m, [mjob[m] EXCEPT !.todo = {}])
    /\ UNCHANGED <<vars, builds>>

\* What throws outside MakeLauncher's try, such as a scratch file that cannot be
\* written, is caught in Mklauncher, and ends in the same way.
MkThrow(m, n) ==
    /\ n \in mjob[m].todo /\ MkMove(m, "build", "args")
    /\ MayBuild("throw") \/ MayLackFile(mjob[m].pkg, n)
    /\ MkSet(m, [mjob[m] EXCEPT !.todo = {}])
    /\ UNCHANGED <<vars, builds>>

\* The lock file is read.  The links it records are looked at only when there
\* are none: what is not in $mlinks is forgotten.
MkReread(m) ==
    /\ mjob[m].todo = {} /\ MkMove(m, "build", "trunc")
    /\ MkSet(m, [mjob[m] EXCEPT !.seen = locks[mjob[m].pkg]])
    /\ UNCHANGED <<vars, builds>>

MkTruncate(m) ==
    /\ MkMove(m, "trunc", "write") /\ UNCHANGED mjob
    /\ locks' = [locks EXCEPT ![mjob[m].pkg] = BrokenLock]
    /\ UNCHANGED <<ports, pkgdir, temp, stray, linked, mutex, pc, job, runs, builds>>

MkRecord(m, v, l) ==
    /\ MkMove(m, "write", "args") /\ UNCHANGED mjob
    /\ locks' = [locks EXCEPT ![mjob[m].pkg] = [version |-> v, links |-> l]]
    /\ UNCHANGED <<ports, pkgdir, temp, stray, linked, mutex, pc, job, runs, builds>>

\* A lock file that is gone or broken gives a record without a version.
SeenVersion(m) == IF Parsed(mjob[m].seen) THEN mjob[m].seen.version ELSE -1

\* Mutants: the version comes from the port; the links from the old record.
MkWriteFromPort(m) == MkRecord(m, ports[mjob[m].pkg], mjob[m].made)
MkWriteOldLinks(m) == MkRecord(m, SeenVersion(m), mjob[m].seen.links)
MkWrite(m) == MkRecord(m, SeenVersion(m), mjob[m].made)

MkDone(m) ==
    /\ mjob[m].args = {} /\ MkMove(m, "args", "idle") /\ MkSet(m, NewMaker({}))
    /\ UNCHANGED <<vars, builds>>

\* A mklauncher process is killed.
MkCrash(m) ==
    /\ MayBuild("crash") /\ mpc[m] # "idle"
    /\ mpc' = [mpc EXCEPT ![m] = "idle"] /\ MkSet(m, NewMaker({}))
    /\ UNCHANGED <<vars, builds>>

MkStep(m) ==
    \/ MkReread(m) \/ MkTruncate(m) \/ MkWrite(m) \/ MkDone(m) \/ MkCrash(m)
    \/ \E a \in SUBSET Pkgs : MkStart(m, a)
    \/ \E p \in mjob[m].args : MkCheck(m, p)
    \/ \E n \in mjob[m].todo : \/ MkBuild(m, n) \/ MkBuildUnnoticed(m, n)
                               \/ MkBuildNothing(m, n) \/ MkBuildFails(m, n)
                               \/ MkThrow(m, n)

\* A step of Devi, whose processes start when the users start them.
DeviStep ==
    /\ UNCHANGED mkvars
    /\ \/ \E s \in Procs : \/ Step(s) \/ Crash(s)
                           \/ \E c \in Commands, a \in SUBSET Pkgs : MayStart /\ Start(s, c, a)
       \/ \E p \in Pkgs : Pull(p)

MkNext == DeviStep \/ \E m \in Makers : MkStep(m)

MkSpec == MkInit /\ [][MkNext]_allvars

-----------------------------------------------------------------------------
(* Properties.                                                             *)

\* Every variable keeps its type, and a lock file records names of its own
\* package only, whatever packages mklauncher was called for together, and, if
\* the package has launchers, perhaps ".exe".
Nameless(p) == IF Launched(p) = {} THEN {} ELSE {DotExe}
MkTypeOK ==
    /\ TypeOK
    /\ mpc \in [Makers -> MakerLabels]
    /\ mjob \in [Makers -> MakerJobs]
    /\ builds \in Nat
    /\ \A p \in Pkgs : locks[p].links \subseteq Owned(p) \cup Launched(p) \cup Nameless(p)

\* A lock file with launchers keeps the package directory out of the PATH
\* (DevinitializeEnv skips what is linked): so the launchers it names exist
\* whenever devi does not work on the package, also after a launcher could not
\* be compiled, its program was missing, or mklauncher died half way.  ".exe",
\* written for a missing program, names none, and is never there.
RecordedLaunchersExist ==
    \A p \in Pkgs : Quiet(p) => locks[p].links \ {DotExe} \subseteq linked

\* With commands started one at a time mklauncher never makes a lock file claim
\* a version the package directory does not hold, even if the port has moved on
\* since the package was installed, or mklauncher was killed and run again.
LaunchedIsTrue == UpToDateIsTrue

\* A launcher is in .linked only while a lock file records it: none outlives
\* the upgrade or the removal of its package, however often it was made.
Made(m, n) == mpc[m] # "idle" /\ n \in mjob[m].made
NoOrphanLaunchers ==
    \A p \in Pkgs : Quiet(p) => \A n \in linked \cap Launched(p) :
        n \in locks[p].links \/ \E m \in Makers : mjob[m].pkg = p /\ Made(m, n)

\* "devi: <name> is up to date" (devi.ps1:292), with devi and mklauncher used
\* at the same time.
UpToDateBesideMklauncher == UpToDateIsTrue
=============================================================================
