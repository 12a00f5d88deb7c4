-------------------------------- MODULE Devi --------------------------------
(***************************************************************************)
(* devi, the portable package manager of Clangbuilder (bin/devi.ps1).      *)
(*                                                                         *)
(* Any number of devi processes share, on the disk, the ports, the lock    *)
(* files (pkgs/.locks), the package directories (pkgs/<name>), the         *)
(* temporary directories (pkgs/.temp/<name>) and the link directory        *)
(* (pkgs/.linked).  install, uninstall and upgrade serialise on the named  *)
(* mutex "Clangbuilder.devi.lock"; repair does not take it.  One action is *)
(* one step another process, or a crash, can fall between.                 *)
(***************************************************************************)
EXTENDS Integers, FiniteSets

CONSTANTS
    Procs,          \* slots in which devi processes run, one after the other
    Pkgs,           \* package names
    Names,          \* leaf names a port may ask to be linked into .linked
    MaxVersion,     \* bound: versions a port goes through, in order
    Provides,       \* Provides[p][v]: the links version v of port p asks for
    Files,          \* Files[p][v]: the names for which that version has a file
    Archives,       \* ports that are a zip, msi or 7z; the others are one exe
    Needs7z,        \* ports whose extension is 7z
    SevenZip,       \* the package that holds 7z.exe
    Core,           \* config/devi.json#core
    Commands,       \* subcommands the sessions of an instance may use
    Faults,         \* what may go wrong in an instance
    MaxRuns         \* bound: devi processes started in a behaviour

None  == 0                  \* no such directory, no such port, no lock file
Mixed == MaxVersion + 1     \* a directory that holds no version whole and alone
Versions == 1 .. MaxVersion
Contents == 0 .. MaxVersion + 1

Free      == "free"         \* the mutex has no owner
Abandoned == "abandoned"    \* its owner died without releasing it

\* A lock file: version 0 when there is none, -1 when it holds no JSON.
Locks == [version : -1 .. MaxVersion, links : SUBSET Names]
NoLock     == [version |-> 0,  links |-> {}]
BrokenLock == [version |-> -1, links |-> {}]
Parsed(lock) == lock.version > 0

Labels == {"idle", "wait", "next", "fail", "check", "download", "unpack",
           "rename", "move", "drop", "oldlinks", "clear", "make", "trunc",
           "write", "ulock", "ulinks", "unlocked", "udir",
           "repair", "rcheck", "rmake"}
AllFaults == {"download", "unpack", "rename", "move", "link", "remove", "crash"}
AllCommands == {"install", "uninstall", "upgrade", "default", "repair"}

Owned(p) == UNION {Provides[p][v] : v \in Versions}

ASSUME ConstantsOK ==
    /\ MaxVersion \in Nat \ {0}
    /\ MaxRuns \in Nat
    /\ Procs \cap {Free, Abandoned} = {}
    /\ Provides \in [Pkgs -> [Versions -> SUBSET Names]]
    /\ Files \in [Pkgs -> [Versions -> SUBSET Names]]
    /\ SevenZip \in Pkgs
    /\ Archives \subseteq Pkgs /\ Needs7z \subseteq Archives /\ Core \subseteq Pkgs
    /\ Commands \subseteq AllCommands
    /\ Faults \subseteq AllFaults
\* No two ports of ports/ link the same leaf name.
ASSUME LinksDisjoint ==
    \A p, q \in Pkgs : p # q => Owned(p) \cap Owned(q) = {}

VARIABLES
    ports,      \* the version in ports/<name>.json
    locks,      \* pkgs/.locks/<name>.json
    pkgdir,     \* what pkgs/<name> holds
    temp,       \* what pkgs/.temp/<name> holds
    stray,      \* packages with a pkgs/<name>.<pid> left behind
    linked,     \* the names in pkgs/.linked
    mutex,      \* the named mutex
    pc, job,    \* where each process is, and its variables
    runs        \* processes started so far

disk == <<ports, locks, pkgdir, temp, stray, linked>>
vars == <<ports, locks, pkgdir, temp, stray, linked, mutex, pc, job, runs>>

Jobs == [cmd    : AllCommands \cup {"core"},
         args   : SUBSET Pkgs,     \* packages still to be handled
         table  : SUBSET Pkgs,     \* $pkgtable
         done   : SUBSET Pkgs,     \* packages whose operation returned $true
         failed : SUBSET Pkgs,     \* packages whose operation returned $false
         pkg    : Pkgs,            \* $Name
         ver    : 0 .. MaxVersion, \* $pkversion
         old    : Locks,           \* $oldtable
         todo   : SUBSET Names,    \* links the current loop has still to visit
         cur    : SUBSET Names,    \* the link being made, at most one
         made   : SUBSET Names,    \* $mlinks
         backup : Contents,        \* what $packDir.$PID holds
         exit   : {"none", "0", "1", "crash"}]

NewJob(c, a) ==
    [cmd |-> c, args |-> a, table |-> {}, done |-> {}, failed |-> {},
     pkg |-> SevenZip, ver |-> None, old |-> NoLock, todo |-> {}, cur |-> {},
     made |-> {}, backup |-> None, exit |-> "none"]

Init ==
    /\ ports = [p \in Pkgs |-> 1]
    /\ locks = [p \in Pkgs |-> NoLock]
    /\ pkgdir = [p \in Pkgs |-> None]
    /\ temp = [p \in Pkgs |-> None]
    /\ stray = {}
    /\ linked = {}
    /\ mutex = Free
    /\ pc = [s \in Procs |-> "idle"]
    /\ job = [s \in Procs |-> NewJob("repair", {})]
    /\ runs = 0

\* The process is gone, and its variables with it; how it ended stays known.
Exited(j, code) == [NewJob(j.cmd, {}) EXCEPT !.exit = code, !.failed = j.failed]
\* The locals of Install-Port, Uninstall-Port and Repair-Port are gone.
Left(j) == [j EXCEPT !.ver = None, !.old = NoLock, !.todo = {}, !.made = {}]

At(s, l) == pc[s] = l
Goto(s, l) == pc' = [pc EXCEPT ![s] = l]
Move(s, from, to) == At(s, from) /\ Goto(s, to)
Set(s, j) == job' = [job EXCEPT ![s] = j]
May(f) == f \in Faults
\* What the steps of a process leave alone: all but its own variables, all but
\* the link directory too.
OnlyLocal == UNCHANGED <<disk, mutex, runs>>
OnlyLinks == UNCHANGED <<ports, locks, pkgdir, temp, stray, mutex, runs>>

-----------------------------------------------------------------------------
(* Sessions: the dispatch at the end of devi.ps1, and Update-Ports.        *)

ByArgument == {"install", "uninstall"}
Locked == {p \in Pkgs : locks[p] # NoLock}

Start(s, c, a) ==
    /\ runs < MaxRuns /\ runs' = runs + 1
    /\ IF c \in ByArgument THEN a # {} ELSE a = {}
    /\ Move(s, "idle", IF c = "repair" THEN "repair" ELSE "wait")
    /\ Set(s, NewJob(c, IF c = "repair" THEN Locked ELSE a))
    /\ UNCHANGED <<disk, mutex>>

\* Mutant: the result of WaitOne is not looked at.
AcquireAnyway(s) ==
    Move(s, "wait", "next") /\ mutex' = s /\ UNCHANGED <<disk, job, runs>>
\* Mutant: a mutex left by a dead process is not taken over.
AcquireFreeOnly(s) == mutex = Free /\ AcquireAnyway(s)

\* WaitOne returns, or throws AbandonedMutexException, which leaves
\* $mtxresult unset: not $false, so the process goes on as the owner.
Acquire(s) ==
    /\ Move(s, "wait", "next")
    /\ mutex \in {Free, Abandoned} /\ mutex' = s
    /\ Set(s, [job[s] EXCEPT !.args = IF job[s].cmd \in ByArgument THEN @ ELSE Locked])
    /\ UNCHANGED <<disk, runs>>

\* "Another devi process is running, please try again later."
TimeOut(s) ==
    /\ Move(s, "wait", "idle")
    /\ mutex \in Procs
    /\ Set(s, Exited(job[s], "1"))
    /\ OnlyLocal

Release(s, from, code) ==
    /\ Move(s, from, "idle")
    /\ mutex' = Free
    /\ Set(s, Exited(job[s], code))
    /\ UNCHANGED <<disk, runs>>

NextArgument(s, p) ==
    /\ job[s].cmd \in ByArgument \cup {"core"} /\ p \in job[s].args
    /\ Move(s, "next", IF job[s].cmd = "uninstall" THEN "ulock" ELSE "check")
    /\ Set(s, [job[s] EXCEPT !.args = @ \ {p}, !.pkg = p])
    /\ OnlyLocal

\* One turn of the loop of Update-Ports.  "Invalid file locks" returns $false
\* from its body; --default removes what is not ported any more.
Deprecated(s, p) == ports[p] = None /\ job[s].cmd = "default"
NextUpgrade(s, p) ==
    LET j == [job[s] EXCEPT !.args = @ \ {p}] IN
    /\ job[s].cmd \in {"upgrade", "default"} /\ p \in job[s].args
    /\ \/ /\ ~Parsed(locks[p]) /\ Move(s, "next", "next")
          /\ Set(s, [j EXCEPT !.failed = @ \cup {p}])
       \/ /\ Parsed(locks[p]) /\ Deprecated(s, p) /\ Move(s, "next", "ulock")
          /\ Set(s, [j EXCEPT !.pkg = p])
       \/ /\ Parsed(locks[p]) /\ ~Deprecated(s, p) /\ Move(s, "next", "check")
          /\ Set(s, [j EXCEPT !.pkg = p, !.table = @ \cup {p}])
    /\ OnlyLocal

\* upgrade --default goes on with the core ports that were not in a lock.
InstallCore(s) ==
    /\ Move(s, "next", "next")
    /\ job[s].args = {} /\ job[s].cmd = "default"
    /\ Set(s, [job[s] EXCEPT !.cmd = "core", !.args = Core \ job[s].table])
    /\ OnlyLocal

\* $ret is the array of everything the loop wrote, and "$ret -eq $false" the
\* array of its $false members: falsy when empty, and also when it has one.
UpgradeCode(s) == IF Cardinality(job[s].failed) >= 2 THEN "1" ELSE "0"

Finish(s) ==
    /\ job[s].args = {} /\ job[s].cmd # "default"
    /\ Release(s, "next", IF job[s].cmd \in ByArgument THEN "0" ELSE UpgradeCode(s))

\* install and uninstall stop at the first package that fails.
Fail(s) == Release(s, "fail", "1")

\* What a session does with the result of Install-Port or Uninstall-Port.
Return(s, from, ok) ==
    LET j == job[s] IN
    /\ Move(s, from, IF ok \/ j.cmd \notin ByArgument THEN "next" ELSE "fail")
    /\ Set(s, [Left(j) EXCEPT
                 !.done   = IF ok THEN @ \cup {j.pkg} ELSE @,
                 !.failed = IF ok \/ j.cmd = "core" THEN @ ELSE @ \cup {j.pkg}])

-----------------------------------------------------------------------------
(* Install-Port.                                                           *)

\* Not ported, or a 7z archive and no 7z.exe to open it with.
Rejected(p) == ports[p] = None \/ (p \in Needs7z /\ pkgdir[SevenZip] = None)
MayBeRejected(p) == Rejected(p) \/ (p \in Needs7z /\ pkgdir[SevenZip] = Mixed)
\* Mutant: "up to date" only when the package is ahead of its port.
UpToDateAhead(p) == Parsed(locks[p]) /\ locks[p].version > ports[p]
UpToDate(p) == Parsed(locks[p]) /\ locks[p].version = ports[p]

\* Mutant: what is wrong with a port is printed, and the install goes for done.
CheckPortLax(s) == Return(s, "check", TRUE) /\ OnlyLocal

CheckPort(s) ==
    LET p == job[s].pkg IN
    /\ \/ MayBeRejected(p) /\ Return(s, "check", FALSE)
       \/ ~Rejected(p) /\ UpToDate(p) /\ Return(s, "check", TRUE)
       \/ /\ ~Rejected(p) /\ ~UpToDate(p) /\ Move(s, "check", "download")
          /\ Set(s, [job[s] EXCEPT !.ver = ports[p], !.old = locks[p]])
    /\ OnlyLocal

\* Test-BestSourcesURL and WinGet.
Download(s) ==
    /\ \/ Move(s, "download", "unpack") /\ UNCHANGED job
       \/ May("download") /\ Return(s, "download", FALSE)
    /\ OnlyLocal

\* What unpacking v of p may leave in a temporary directory that held c.  An exe
\* is copied over an older one.  An archive goes among the files that are there:
\* Expand-Archive skips those, msiexec and 7z keep the ones they do not replace,
\* and the new tree is then not flattened, or flattened only as far as no old
\* directory is in its way, and the rest of it deleted.
Unpacked(p, c, v) ==
    IF p \in Archives /\ c \notin {None, v} THEN {v, Mixed} ELSE {v}

\* Mutant: the lock file is written as soon as the archive is unpacked.
UnpackAndLock(s) ==
    /\ Move(s, "unpack", "rename")
    /\ temp' = [temp EXCEPT ![job[s].pkg] = job[s].ver]
    /\ locks' = [locks EXCEPT ![job[s].pkg].version = job[s].ver]
    /\ UNCHANGED <<ports, pkgdir, stray, linked, mutex, job, runs>>

Unpack(s) ==
    LET p == job[s].pkg IN
    /\ \/ /\ Move(s, "unpack", "rename") /\ UNCHANGED job
          /\ \E c \in Unpacked(p, temp[p], job[s].ver) : temp' = [temp EXCEPT ![p] = c]
       \/ /\ May("unpack") /\ Return(s, "unpack", FALSE)
          /\ temp' = [temp EXCEPT ![p] = None]
    /\ UNCHANGED <<ports, locks, pkgdir, stray, linked, mutex, runs>>

\* Mutant: the old directory is removed instead of renamed.
SetAsideRemoves(s) ==
    /\ Move(s, "rename", "move")
    /\ pkgdir' = [pkgdir EXCEPT ![job[s].pkg] = None]
    /\ UNCHANGED <<ports, locks, temp, stray, linked, mutex, job, runs>>

\* Rename-Item -ErrorAction SilentlyContinue: a missing package directory, or
\* one that is in use, goes unnoticed.
SetAside(s) ==
    LET p == job[s].pkg IN
    /\ Move(s, "rename", "move")
    /\ \/ /\ pkgdir' = [pkgdir EXCEPT ![p] = None]
          /\ Set(s, [job[s] EXCEPT !.backup = pkgdir[p]])
       \/ May("rename") /\ UNCHANGED <<pkgdir, job>>
    /\ UNCHANGED <<ports, locks, temp, stray, linked, mutex, runs>>

\* Move-Item puts the directory inside a package directory that is still
\* there.  Its errors are not terminating: the catch block, which would bring
\* the backup back, is not entered.
Apply(s) ==
    LET p == job[s].pkg IN
    /\ Move(s, "move", "drop")
    /\ \/ /\ pkgdir' = [pkgdir EXCEPT ![p] = IF @ = None THEN temp[p] ELSE @]
          /\ temp' = [temp EXCEPT ![p] = None]
       \/ May("move") /\ UNCHANGED <<pkgdir, temp>>
    /\ UNCHANGED <<ports, locks, stray, linked, mutex, job, runs>>

\* The finally block, silent about files in use; then the loops over
\* $oldtable.links are prepared.
DropBackup(s) ==
    /\ Move(s, "drop", "oldlinks")
    /\ \/ stray' = stray
       \/ May("remove") /\ job[s].backup # None /\ stray' = stray \cup {job[s].pkg}
    /\ Set(s, [job[s] EXCEPT !.backup = None, !.todo = job[s].old.links])
    /\ UNCHANGED <<ports, locks, pkgdir, temp, linked, mutex, runs>>

\* $launchers comes from $portobj, which is not set: no old link is kept.
DropOldLink(s, n) ==
    /\ Move(s, "oldlinks", "oldlinks") /\ n \in job[s].todo
    /\ linked' = linked \ {n}
    /\ Set(s, [job[s] EXCEPT !.todo = @ \ {n}])
    /\ OnlyLinks

\* Mutant: the links of the old version are left where they are.
OldLinksKept(s) ==
    /\ Move(s, "oldlinks", "clear")
    /\ Set(s, [job[s] EXCEPT !.todo = Provides[job[s].pkg][job[s].ver]])
    /\ OnlyLocal

OldLinksDropped(s) ==
    /\ Move(s, "oldlinks", "clear") /\ job[s].todo = {}
    /\ Set(s, [job[s] EXCEPT !.todo = Provides[job[s].pkg][job[s].ver]])
    /\ OnlyLocal

\* Is the target of a link there?  A mixed directory may have it or not.
HasFile(p, n) == pkgdir[p] \in Versions /\ n \in Files[p][pkgdir[p]]
MayHaveFile(p, n) == pkgdir[p] = Mixed \/ HasFile(p, n)
MayLackFile(p, n) == ~HasFile(p, n)

\* One link of $pkobj.links: an old file of that name is removed first.
ClearLink(s, n) ==
    /\ Move(s, "clear", "make") /\ n \in job[s].todo
    /\ MayHaveFile(job[s].pkg, n)
    /\ linked' = linked \ {n}
    /\ Set(s, [job[s] EXCEPT !.todo = @ \ {n}, !.cur = {n}])
    /\ OnlyLinks

\* No link left, or one without its file, for which the loop ends in catch.
LinksDone(s) ==
    /\ Move(s, "clear", "trunc")
    /\ job[s].todo = {} \/ \E n \in job[s].todo : MayLackFile(job[s].pkg, n)
    /\ UNCHANGED job /\ OnlyLocal

MakeLink(s) ==
    /\ Move(s, "make", "clear") /\ job[s].cur \cap linked = {}
    /\ linked' = linked \cup job[s].cur
    /\ Set(s, [job[s] EXCEPT !.made = @ \cup job[s].cur, !.cur = {}])
    /\ OnlyLinks

\* Mutant: a link is recorded before it is known to be made.
MakeLinkFailsRecorded(s) ==
    /\ Move(s, "make", "trunc") /\ May("link")
    /\ Set(s, [job[s] EXCEPT !.made = @ \cup job[s].cur, !.cur = {}])
    /\ OnlyLocal

\* blast or mklink fails, as it does when the name is taken: throw, catch, and
\* the port is installed with the links made so far.
MakeLinkFails(s) ==
    /\ Move(s, "make", "trunc")
    /\ May("link") \/ job[s].cur \cap linked # {}
    /\ Set(s, [job[s] EXCEPT !.cur = {}])
    /\ OnlyLocal

\* Out-File opens, and empties, the lock file before it writes to it.
TruncateLock(s) ==
    /\ Move(s, "trunc", "write")
    /\ locks' = [locks EXCEPT ![job[s].pkg] = BrokenLock]
    /\ UNCHANGED <<ports, pkgdir, temp, stray, linked, mutex, job, runs>>

WriteVersion(s, v) ==
    /\ Return(s, "write", TRUE)
    /\ locks' = [locks EXCEPT ![job[s].pkg] = [version |-> v, links |-> job[s].made]]
    /\ UNCHANGED <<ports, pkgdir, temp, stray, linked, mutex, runs>>
\* Mutant: the version recorded is what the directory holds.
WriteLockFromDir(s) == WriteVersion(s, pkgdir[job[s].pkg])
WriteLock(s) == WriteVersion(s, job[s].ver)

InstallStep(s) ==
    \/ CheckPort(s) \/ Download(s) \/ Unpack(s) \/ SetAside(s) \/ Apply(s)
    \/ DropBackup(s) \/ OldLinksDropped(s) \/ LinksDone(s)
    \/ MakeLink(s) \/ MakeLinkFails(s) \/ TruncateLock(s) \/ WriteLock(s)
    \/ \E n \in job[s].todo : DropOldLink(s, n) \/ ClearLink(s, n)

-----------------------------------------------------------------------------
(* Uninstall-Port.                                                         *)

ReadLock(s) ==
    LET p == job[s].pkg IN
    /\ Move(s, "ulock", IF locks[p] = NoLock THEN "udir" ELSE "ulinks")
    /\ Set(s, [job[s] EXCEPT !.todo = locks[p].links])
    /\ OnlyLocal

RemoveLink(s, n) ==
    /\ Move(s, "ulinks", "ulinks") /\ n \in job[s].todo
    /\ linked' = linked \ {n}
    /\ Set(s, [job[s] EXCEPT !.todo = @ \ {n}])
    /\ OnlyLinks

RemoveLock(s) ==
    /\ Move(s, "ulinks", "unlocked") /\ job[s].todo = {}
    /\ locks' = [locks EXCEPT ![job[s].pkg] = NoLock]
    /\ UNCHANGED <<ports, pkgdir, temp, stray, linked, mutex, job, runs>>

\* The package directory goes last; files in use stay behind, silently.  The
\* result says whether there was a lock file.
RemoveDir(s) ==
    LET p == job[s].pkg IN
    /\ Return(s, "udir", FALSE) \/ Return(s, "unlocked", TRUE)
    /\ \/ pkgdir' = [pkgdir EXCEPT ![p] = None]
       \/ May("remove") /\ pkgdir[p] # None /\ pkgdir' = [pkgdir EXCEPT ![p] = Mixed]
    /\ UNCHANGED <<ports, locks, temp, stray, linked, mutex, runs>>

UninstallStep(s) ==
    \/ ReadLock(s) \/ RemoveLock(s) \/ RemoveDir(s)
    \/ \E n \in job[s].todo : RemoveLink(s, n)

-----------------------------------------------------------------------------
(* Repair-Ports and Repair-Port: no mutex.                                 *)

\* A lock file or a port that cannot be read is only reported.
RepairPort(s, p) ==
    LET j == [job[s] EXCEPT !.args = @ \ {p}] IN
    /\ p \in job[s].args
    /\ IF Parsed(locks[p]) /\ ports[p] # None
       THEN /\ Move(s, "repair", "rcheck")
            /\ Set(s, [j EXCEPT !.pkg = p, !.ver = ports[p],
                                !.todo = Provides[p][ports[p]]])
       ELSE Move(s, "repair", "repair") /\ Set(s, j)
    /\ OnlyLocal

\* Mutant: a link that is missing is skipped like one that exists.
SkipAnyLink(s, n) ==
    /\ Move(s, "rcheck", "rcheck") /\ n \in job[s].todo
    /\ Set(s, [job[s] EXCEPT !.todo = @ \ {n}])
    /\ OnlyLocal

\* The file is not there, or the link is: continue.
SkipLink(s, n) ==
    /\ Move(s, "rcheck", "rcheck") /\ n \in job[s].todo
    /\ MayLackFile(job[s].pkg, n) \/ n \in linked
    /\ Set(s, [job[s] EXCEPT !.todo = @ \ {n}])
    /\ OnlyLocal

LinkIsMissing(s, n) ==
    /\ Move(s, "rcheck", "rmake") /\ n \in job[s].todo
    /\ MayHaveFile(job[s].pkg, n) /\ n \notin linked
    /\ Set(s, [job[s] EXCEPT !.todo = @ \ {n}, !.cur = {n}])
    /\ OnlyLocal

\* blast looks once more for the file and for the name.
RemakeLink(s) ==
    /\ Move(s, "rmake", "rcheck")
    /\ \A n \in job[s].cur : MayHaveFile(job[s].pkg, n) /\ n \notin linked
    /\ linked' = linked \cup job[s].cur
    /\ Set(s, [job[s] EXCEPT !.cur = {}])
    /\ OnlyLinks

\* Mutant: blast --force removes the name and then fails to make the link.
RemakeLinkForces(s) ==
    /\ Move(s, "rmake", "idle")
    /\ linked' = linked \ job[s].cur
    /\ Set(s, Exited(job[s], "1"))
    /\ OnlyLinks

\* throw, which nothing catches: the process ends.
RemakeLinkFails(s) ==
    /\ Move(s, "rmake", "idle")
    /\ \/ May("link")
       \/ \E n \in job[s].cur : MayLackFile(job[s].pkg, n) \/ n \in linked
    /\ Set(s, Exited(job[s], "1"))
    /\ OnlyLocal

PortRepaired(s) ==
    Move(s, "rcheck", "repair") /\ job[s].todo = {} /\ Set(s, Left(job[s])) /\ OnlyLocal

RepairDone(s) ==
    Move(s, "repair", "idle") /\ job[s].args = {} /\ Set(s, Exited(job[s], "0")) /\ OnlyLocal

RepairStep(s) ==
    \/ RemakeLink(s) \/ RemakeLinkFails(s) \/ PortRepaired(s) \/ RepairDone(s)
    \/ \E p \in job[s].args : RepairPort(s, p)
    \/ \E n \in job[s].todo : SkipLink(s, n) \/ LinkIsMissing(s, n)

-----------------------------------------------------------------------------
(* The world around devi.                                                  *)

\* Mutant: whichever process dies, the mutex counts as abandoned.
CrashAbandons(s) ==
    /\ ~At(s, "idle") /\ Goto(s, "idle")
    /\ mutex' = Abandoned
    /\ Set(s, Exited(job[s], "crash"))
    /\ UNCHANGED <<disk, runs>>

\* A process is killed.  Its backup directory stays, under a pid nothing looks
\* for again; an unpacking or a removal may be half way through.
Crash(s) ==
    LET p == job[s].pkg IN
    /\ May("crash")
    /\ ~At(s, "idle") /\ Goto(s, "idle")
    /\ mutex' = IF mutex = s THEN Abandoned ELSE mutex
    /\ stray' = IF job[s].backup = None THEN stray ELSE stray \cup {p}
    /\ \/ temp' = temp
       \/ At(s, "unpack") /\ temp' = [temp EXCEPT ![p] = Mixed]
    /\ \/ pkgdir' = pkgdir
       \/ /\ pc[s] \in {"udir", "unlocked"} /\ pkgdir[p] # None
          /\ pkgdir' = [pkgdir EXCEPT ![p] = Mixed]
    /\ Set(s, Exited(job[s], "crash"))
    /\ UNCHANGED <<ports, locks, linked, runs>>

\* git pull: a port moves to a later version, or is dropped for good.
Pull(p) ==
    /\ ports[p] # None
    /\ \E v \in (ports[p] + 1) .. MaxVersion \cup {None} :
         ports' = [ports EXCEPT ![p] = v]
    /\ UNCHANGED <<locks, pkgdir, temp, stray, linked, mutex, pc, job, runs>>

SessionStep(s) ==
    \/ Acquire(s) \/ TimeOut(s) \/ InstallCore(s) \/ Finish(s) \/ Fail(s)
    \/ \E p \in job[s].args : NextArgument(s, p) \/ NextUpgrade(s, p)

Step(s) == SessionStep(s) \/ InstallStep(s) \/ UninstallStep(s) \/ RepairStep(s)

Next ==
    \/ \E s \in Procs : \/ Step(s)
                        \/ Crash(s)
                        \/ \E c \in Commands, a \in SUBSET Pkgs : Start(s, c, a)
    \/ \E p \in Pkgs : Pull(p)

Spec == Init /\ [][Next]_vars
\* A process that runs goes on running; nobody is obliged to start one.
FairSpec == Spec /\ \A s \in Procs : WF_vars(Step(s))

-----------------------------------------------------------------------------
(* Properties.                                                             *)

Holding(s) == pc[s] \notin {"idle", "wait", "repair", "rcheck", "rmake"}
Working(s, p) == Holding(s) /\ pc[s] \notin {"next", "fail"} /\ job[s].pkg = p
Quiet(p) == \A s \in Procs : ~Working(s, p)

\* Every variable keeps its type.
TypeOK ==
    /\ ports \in [Pkgs -> 0 .. MaxVersion]
    /\ locks \in [Pkgs -> Locks]
    /\ pkgdir \in [Pkgs -> Contents]
    /\ temp \in [Pkgs -> Contents]
    /\ stray \in SUBSET Pkgs
    /\ linked \in SUBSET Names
    /\ mutex \in Procs \cup {Free, Abandoned}
    /\ pc \in [Procs -> Labels]
    /\ job \in [Procs -> Jobs]
    /\ runs \in Nat

\* Exactly the owner of the mutex is between its WaitOne and its ReleaseMutex,
\* also after an owner died and another process took the abandoned mutex over:
\* two devi processes never change packages at the same time.
MutualExclusion == \A s \in Procs : Holding(s) <=> mutex = s

\* The lock file Install-Port read before the download (devi.ps1:289) is still
\* the lock file of the package when its links are dropped (369) and when it is
\* overwritten (423).
AfterCheck == {"download", "unpack", "rename", "move", "drop", "oldlinks",
               "clear", "make", "trunc"}
OldTableCurrent ==
    \A s \in Procs : pc[s] \in AfterCheck => job[s].old = locks[job[s].pkg]

\* While nobody works on a package, .linked holds the links its lock file
\* records and no other: a failed link is not recorded, a dropped one is gone,
\* and uninstall leaves nothing behind.
LinksMatchLocks ==
    \A p \in Pkgs : Quiet(p) => linked \cap Owned(p) = locks[p].links

\* While nobody works on a package, every link of it leads to a file, also when
\* an upgrade could not move the new directory into place.
LinksResolve ==
    \A p \in Pkgs : Quiet(p) => \A n \in linked \cap Owned(p) : MayHaveFile(p, n)

\* Contents c of the directory of p pass for version v: they are v, or, where
\* processes may be killed, an archive unpacked over what a dead one left.
PassesFor(p, c, v) == c = v \/ (p \in Archives /\ May("crash") /\ c = Mixed)

\* "devi: <name> is up to date" (devi.ps1:291-293) is never said of a package
\* whose directory is missing or holds another version, whatever step of an
\* earlier install or uninstall was cut short; after crashes an archive may hold
\* a mixture (run devi_stale_temp), an exe may not.  Not so when the directory
\* could not be replaced (run devi_failed_apply).
UpToDateIsTrue ==
    \A p \in Pkgs : UpToDate(p) => PassesFor(p, pkgdir[p], ports[p])

\* While a lock file says a package is installed, some directory holds a copy
\* of it: the package directory, the unpacked new version, or the backup of a
\* process, alive or dead.
UpgradeKeepsACopy ==
    \A p \in Pkgs : locks[p] # NoLock =>
        \/ pkgdir[p] # None \/ temp[p] # None \/ p \in stray
        \/ \E s \in Procs : job[s].pkg = p /\ job[s].backup # None

\* What a session has reported done stays done until it exits: an installed
\* package has a lock file, and its directory passes for the version in it; an
\* uninstalled one has no lock file; so "exit 0" speaks of all the arguments.
ReportedDone ==
    \A s \in Procs : Holding(s) => \A p \in job[s].done :
        IF job[s].cmd = "uninstall" THEN locks[p] = NoLock
        ELSE \/ locks[p] = NoLock /\ job[s].cmd \in {"default", "core"}
             \/ Parsed(locks[p]) /\ PassesFor(p, pkgdir[p], locks[p].version)

\* repair, which takes no mutex, never undoes what an install records: the
\* recorded links of a package nobody works on exist.
RecordedLinksExist ==
    \A p \in Pkgs : Quiet(p) => locks[p].links \subseteq linked

\* When repair is through with a package, each link its port asks for exists,
\* if the file is there, whatever was interrupted before.
RepairRestoresLinks ==
    \A s \in Procs : At(s, "rcheck") /\ job[s].todo = {} =>
        \A n \in Provides[job[s].pkg][job[s].ver] :
            HasFile(job[s].pkg, n) => n \in linked

\* Every devi process comes to its end: a waiting one gets the mutex or gives
\* up, also after the owner died, and every loop over packages and links ends.
Terminates == \A s \in Procs : ~At(s, "idle") ~> At(s, "idle")

\* What a lock file says.  The old one counts until the new one is written: only
\* the process that empties it knows of the moment in between.
Said(p) ==
    IF \E s \in Procs : At(s, "write") /\ job[s].pkg = p
    THEN job[CHOOSE s \in Procs : At(s, "write") /\ job[s].pkg = p].old
    ELSE locks[p]
Recorded(p) == IF Parsed(Said(p)) THEN Said(p) ELSE NoLock

Store == INSTANCE PackageStore WITH
    Writers  <- Procs,
    NoWriter <- Free,
    writer   <- IF mutex \in Procs THEN mutex ELSE Free,
    record   <- [p \in Pkgs |-> Recorded(p)]

\* devi implements the register of packages: through concurrent commands, failing
\* links, crashes at every step and abandoned mutexes, each lock file goes from
\* whole record to whole record, to later versions only, at the hands of the one
\* process that holds the mutex; at most the record being written is lost.
ImplementsStore == Store!StoreSpec

\* "upgrade  upgrade all upgradeable packages" (ReadMe.md:171, devi.ps1:110),
\* "Update package completed." (574): an upgrade that exits with 0 failed for
\* no package.
UpgradeTellsFailure ==
    \A s \in Procs : job[s].cmd = "upgrade" /\ job[s].exit = "0"
                        => job[s].failed = {}

\* "devi: install <name> success, version: <version>" (devi.ps1:424): when that
\* is printed the package directory holds that version.
SuccessIsApplied ==
    \A s \in Procs : At(s, "write") => pkgdir[job[s].pkg] = job[s].ver

\* "devi: <name> is up to date. version: <version>" (devi.ps1:292): the directory
\* of such a package holds that version and nothing else.
UpToDateIsWhole == \A p \in Pkgs : UpToDate(p) => pkgdir[p] = ports[p]
=============================================================================
