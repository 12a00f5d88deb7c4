----------------------------- MODULE DeviProofs -----------------------------
(* What holds of Devi for any processes, packages, ports and faults. *)
EXTENDS Devi, TLAPS

\* The fields of a process record keep their types under the changes the
\* actions make: a new process, one that exits, a function that returns.
LEMMA NewJobType ==
    ASSUME NEW c \in AllCommands, NEW a \in SUBSET Pkgs
    PROVE  NewJob(c, a) \in Jobs
<1>1. /\ SevenZip \in Pkgs /\ NoLock \in Locks
      /\ None \in Contents /\ None \in 0 .. MaxVersion
  BY ConstantsOK DEF None, Contents, NoLock, Locks
<1> QED BY <1>1 DEF NewJob, Jobs

LEMMA ExitedType ==
    ASSUME NEW j \in Jobs, NEW code \in {"none", "0", "1", "crash"}
    PROVE  Exited(j, code) \in Jobs
<1>1. /\ SevenZip \in Pkgs /\ NoLock \in Locks
      /\ None \in Contents /\ None \in 0 .. MaxVersion
  BY ConstantsOK DEF None, Contents, NoLock, Locks
<1>2. j.cmd \in AllCommands \cup {"core"} /\ j.failed \in SUBSET Pkgs
  BY DEF Jobs
<1> QED BY <1>1, <1>2 DEF Exited, NewJob, Jobs

LEMMA LeftType ==
    ASSUME NEW j \in Jobs
    PROVE  Left(j) \in Jobs
<1>1. None \in 0 .. MaxVersion /\ NoLock \in Locks
  BY ConstantsOK DEF None, NoLock, Locks
<1> QED BY <1>1 DEF Left, Jobs

\* Replacing the record, or the label, of one process.
LEMMA SetType ==
    ASSUME job \in [Procs -> Jobs], NEW s \in Procs, NEW j \in Jobs, Set(s, j)
    PROVE  job' \in [Procs -> Jobs]
BY DEF Set

LEMMA MoveType ==
    ASSUME pc \in [Procs -> Labels], NEW s \in Procs, NEW l \in Labels, Goto(s, l)
    PROVE  pc' \in [Procs -> Labels]
BY DEF Goto

LEMMA ReturnType ==
    ASSUME TypeOK, NEW s \in Procs, NEW from, NEW ok \in BOOLEAN,
           Return(s, from, ok)
    PROVE  pc' \in [Procs -> Labels] /\ job' \in [Procs -> Jobs]
<1>1. pc \in [Procs -> Labels] /\ job \in [Procs -> Jobs]
  BY DEF TypeOK
<1>2. pc' \in [Procs -> Labels]
  BY <1>1 DEF Return, Move, Goto, Labels
<1> DEFINE j == job[s]
           r == [Left(j) EXCEPT
                   !.done   = IF ok THEN @ \cup {j.pkg} ELSE @,
                   !.failed = IF ok \/ j.cmd = "core" THEN @ ELSE @ \cup {j.pkg}]
<1>3. j \in Jobs /\ Left(j) \in Jobs
  BY <1>1, LeftType
<1>4. r \in Jobs
  BY <1>3 DEF Jobs
<1>5. job' = [job EXCEPT ![s] = r]
  BY DEF Return, Set
<1> QED BY <1>1, <1>2, <1>4, <1>5

-----------------------------------------------------------------------------
\* From the check of the port to the lock file, $pkversion is a version a port
\* can have: Provides is applied to it.
VersionRead == \A s \in Procs : pc[s] \in AfterCheck \cup {"write"} =>
                                  job[s].ver \in Versions
TypeInv == TypeOK /\ VersionRead

LEMMA InitTypeInv == Init => TypeInv
<1> SUFFICES ASSUME Init PROVE TypeInv
  OBVIOUS
<1>1. NewJob("repair", {}) \in Jobs
  BY NewJobType DEF AllCommands
<1>2. /\ 1 \in 0 .. MaxVersion /\ None \in Contents /\ NoLock \in Locks
  BY ConstantsOK DEF None, Contents, NoLock, Locks
<1>3. TypeOK
  BY <1>1, <1>2 DEF Init, TypeOK, Labels
<1>4. VersionRead
  BY DEF Init, VersionRead, AfterCheck
<1> QED BY <1>3, <1>4 DEF TypeInv

\* The steps of a session.
LEMMA SessionType ==
    ASSUME TypeInv, NEW s \in Procs,
           \/ SessionStep(s) \/ Crash(s)
           \/ \E c \in Commands, a \in SUBSET Pkgs : Start(s, c, a)
    PROVE  TypeInv'
<1> USE DEF TypeInv
<1>0. /\ pc \in [Procs -> Labels] /\ job \in [Procs -> Jobs]
      /\ job[s] \in Jobs
  BY DEF TypeOK
<1>a. ASSUME NEW j \in Jobs, Set(s, j), NEW l \in Labels, Goto(s, l),
             l \notin AfterCheck \cup {"write"},
             mutex' \in Procs \cup {Free, Abandoned}, runs' \in Nat,
             ports' \in [Pkgs -> 0 .. MaxVersion], locks' \in [Pkgs -> Locks],
             pkgdir' \in [Pkgs -> Contents], temp' \in [Pkgs -> Contents],
             stray' \in SUBSET Pkgs, linked' \in SUBSET Names
      PROVE  TypeInv'
  <2>1. TypeOK'
    BY <1>0, <1>a, SetType, MoveType DEF TypeOK
  <2>2. VersionRead'
    BY <1>0, <1>a DEF VersionRead, Set, Goto
  <2> QED BY <2>1, <2>2
<1>1. ASSUME NEW c \in Commands, NEW a \in SUBSET Pkgs, Start(s, c, a)
      PROVE  TypeInv'
  <2>1. NewJob(c, IF c = "repair" THEN Locked ELSE a) \in Jobs
    BY ConstantsOK, NewJobType DEF Locked
  <2>2. runs' \in Nat
    BY <1>1 DEF Start, TypeOK
  <2> QED
    BY <1>1, <1>a, <2>1, <2>2
       DEF Start, Move, TypeOK, disk, Labels, AfterCheck
<1>2. ASSUME Acquire(s) PROVE TypeInv'
  <2>1. [job[s] EXCEPT !.args = IF job[s].cmd \in ByArgument THEN @ ELSE Locked] \in Jobs
    BY <1>0 DEF Jobs, Locked
  <2> QED
    BY <1>2, <1>a, <2>1 DEF Acquire, Move, TypeOK, disk, Labels, AfterCheck
<1>3. ASSUME TimeOut(s) PROVE TypeInv'
  BY <1>0, <1>3, <1>a, ExitedType
     DEF TimeOut, Move, TypeOK, OnlyLocal, disk, Labels, AfterCheck
<1>4. ASSUME InstallCore(s) PROVE TypeInv'
  <2>1. [job[s] EXCEPT !.cmd = "core", !.args = Core \ job[s].table] \in Jobs
    BY <1>0, ConstantsOK DEF Jobs
  <2> QED
    BY <1>4, <1>a, <2>1
       DEF InstallCore, Move, TypeOK, OnlyLocal, disk, Labels, AfterCheck
<1>5. ASSUME NEW from, NEW code \in {"0", "1"}, Release(s, from, code) PROVE TypeInv'
  BY <1>0, <1>5, <1>a, ExitedType
     DEF Release, Move, TypeOK, disk, Labels, AfterCheck
<1>6. ASSUME Finish(s) PROVE TypeInv'
  <2>1. (IF job[s].cmd \in ByArgument THEN "0" ELSE UpgradeCode(s)) \in {"0", "1"}
    BY DEF UpgradeCode
  <2> QED BY <1>6, <1>5, <2>1 DEF Finish
<1>7. ASSUME Fail(s) PROVE TypeInv'
  BY <1>7, <1>5 DEF Fail
<1>8. ASSUME Crash(s) PROVE TypeInv'
  <2>1. Exited(job[s], "crash") \in Jobs
    BY <1>0, ExitedType
  <2>2. Mixed \in Contents
    BY ConstantsOK DEF Mixed, Contents
  <2>3. job[s].pkg \in Pkgs
    BY <1>0 DEF Jobs
  <2>4. temp' \in [Pkgs -> Contents] /\ pkgdir' \in [Pkgs -> Contents]
        /\ stray' \in SUBSET Pkgs /\ mutex' \in Procs \cup {Free, Abandoned}
    BY <1>8, <2>2, <2>3 DEF Crash, TypeOK
  <2> QED
    BY <1>8, <1>a, <2>1, <2>4 DEF Crash, TypeOK, Labels, AfterCheck
<1>b. ASSUME NEW j \in Jobs, Set(s, j), NEW l \in Labels, Goto(s, l),
             l \notin AfterCheck \cup {"write"}, OnlyLocal
      PROVE  TypeInv'
  BY <1>a, <1>b DEF OnlyLocal, disk, TypeOK
<1>9. ASSUME NEW p \in job[s].args, NextArgument(s, p) PROVE TypeInv'
  <2>1. [job[s] EXCEPT !.args = @ \ {p}, !.pkg = p] \in Jobs
    BY <1>0 DEF Jobs
  <2> QED
    BY <1>9, <1>b, <2>1 DEF NextArgument, Move, Labels, AfterCheck
<1>10. ASSUME NEW p \in job[s].args, NextUpgrade(s, p) PROVE TypeInv'
  <2> DEFINE j == [job[s] EXCEPT !.args = @ \ {p}]
  <2>1. /\ [j EXCEPT !.failed = @ \cup {p}] \in Jobs
        /\ [j EXCEPT !.pkg = p] \in Jobs
        /\ [j EXCEPT !.pkg = p, !.table = @ \cup {p}] \in Jobs
    BY <1>0 DEF Jobs
  <2>2. \E k \in Jobs, l \in {"next", "ulock", "check"} : Set(s, k) /\ Goto(s, l)
    BY <1>10, <2>1 DEF NextUpgrade, Move
  <2>3. OnlyLocal
    BY <1>10 DEF NextUpgrade
  <2> QED BY <1>b, <2>2, <2>3 DEF Labels, AfterCheck
<1> QED
  BY <1>1, <1>2, <1>3, <1>4, <1>6, <1>7, <1>8, <1>9, <1>10 DEF SessionStep

\* The disk and the mutex keep their types.
DiskType ==
    /\ ports' \in [Pkgs -> 0 .. MaxVersion] /\ locks' \in [Pkgs -> Locks]
    /\ pkgdir' \in [Pkgs -> Contents] /\ temp' \in [Pkgs -> Contents]
    /\ stray' \in SUBSET Pkgs /\ linked' \in SUBSET Names
    /\ mutex' \in Procs \cup {Free, Abandoned} /\ runs' \in Nat

\* A step that gives one process a new record and a new label, or that keeps
\* its record.
LEMMA OneProcess ==
    ASSUME TypeInv, NEW s \in Procs, NEW j \in Jobs, NEW l \in Labels,
           Set(s, j) \/ (job' = job /\ j = job[s]), Goto(s, l), DiskType,
           l \in AfterCheck \cup {"write"} => j.ver \in Versions
    PROVE  TypeInv'
<1>1. pc \in [Procs -> Labels] /\ job \in [Procs -> Jobs]
  BY DEF TypeInv, TypeOK
<1>2. job' = [job EXCEPT ![s] = j]
  BY <1>1 DEF Set
<1>3. TypeOK'
  BY <1>1, <1>2 DEF TypeOK, DiskType, Goto
<1>4. VersionRead'
  BY <1>1, <1>2 DEF TypeInv, VersionRead, Goto
<1> QED BY <1>3, <1>4 DEF TypeInv

\* A step that ends Install-Port or Uninstall-Port.
LEMMA ReturnStepType ==
    ASSUME TypeInv, NEW s \in Procs, NEW from, NEW ok \in BOOLEAN,
           Return(s, from, ok), DiskType
    PROVE  TypeInv'
<1>1. TypeOK'
  BY ReturnType DEF TypeInv, TypeOK, DiskType
<1>2. VersionRead'
  BY DEF TypeInv, TypeOK, VersionRead, Return, Move, Goto, Set, AfterCheck
<1> QED BY <1>1, <1>2 DEF TypeInv

LEMMA InstallType ==
    ASSUME TypeInv, NEW s \in Procs, InstallStep(s)
    PROVE  TypeInv'
<1> DEFINE p == job[s].pkg
<1>0. /\ TypeOK /\ pc \in [Procs -> Labels] /\ job \in [Procs -> Jobs]
      /\ job[s] \in Jobs /\ p \in Pkgs
  BY DEF TypeInv, TypeOK, Jobs
<1>v. pc[s] \in AfterCheck \cup {"write"} => job[s].ver \in Versions
  BY DEF TypeInv, VersionRead
<1>a. OnlyLocal => DiskType
  BY <1>0 DEF OnlyLocal, disk, DiskType, TypeOK
<1>b. OnlyLinks /\ linked' \in SUBSET Names => DiskType
  BY <1>0 DEF OnlyLinks, DiskType, TypeOK
<1>c. /\ None \in Contents /\ Mixed \in Contents
      /\ \A v \in Versions : v \in Contents /\ v \in -1 .. MaxVersion
  BY ConstantsOK DEF None, Mixed, Contents, Versions
<1>1. ASSUME CheckPort(s) PROVE TypeInv'
  <2>1. CASE \E ok \in BOOLEAN : Return(s, "check", ok)
    BY <1>1, <1>a, <2>1, ReturnStepType DEF CheckPort
  <2>2. CASE /\ ~Rejected(p) /\ Move(s, "check", "download")
             /\ Set(s, [job[s] EXCEPT !.ver = ports[p], !.old = locks[p]])
    <3> DEFINE j == [job[s] EXCEPT !.ver = ports[p], !.old = locks[p]]
    <3>1. ports[p] \in Versions
      BY <1>0, <2>2, ConstantsOK DEF Rejected, TypeOK, None, Versions
    <3>2. j \in Jobs /\ j.ver \in Versions
      BY <1>0, <3>1, ConstantsOK DEF Jobs, TypeOK, Versions
    <3>3. DiskType
      BY <1>1, <1>a DEF CheckPort
    <3> QED BY <2>2, <3>2, <3>3, OneProcess DEF Move, Labels
  <2> QED BY <1>1, <2>1, <2>2 DEF CheckPort
<1>2. ASSUME Download(s) PROVE TypeInv'
  <2>1. DiskType
    BY <1>2, <1>a DEF Download
  <2>2. CASE Move(s, "download", "unpack") /\ UNCHANGED job
    BY <1>0, <1>v, <2>1, <2>2, OneProcess DEF Move, At, Labels, AfterCheck
  <2> QED BY <1>2, <2>1, <2>2, ReturnStepType DEF Download
<1>3. ASSUME Unpack(s) PROVE TypeInv'
  <2>1. DiskType
    BY <1>0, <1>3, <1>c, <1>v
       DEF Unpack, Unpacked, Return, Move, At, AfterCheck, DiskType, TypeOK
  <2>2. CASE Move(s, "unpack", "rename") /\ UNCHANGED job
    BY <1>0, <1>v, <2>1, <2>2, OneProcess DEF Move, At, Labels, AfterCheck
  <2> QED BY <1>3, <2>1, <2>2, ReturnStepType DEF Unpack
<1>4. ASSUME SetAside(s) PROVE TypeInv'
  <2> DEFINE j == [job[s] EXCEPT !.backup = pkgdir[p]]
  <2>1. j \in Jobs /\ j.ver = job[s].ver
    BY <1>0 DEF Jobs, TypeOK
  <2>2. DiskType
    BY <1>0, <1>4, <1>c DEF SetAside, DiskType, TypeOK
  <2>3. Move(s, "rename", "move") /\ (Set(s, j) \/ job' = job)
    BY <1>4 DEF SetAside
  <2> QED BY <1>0, <1>v, <2>1, <2>2, <2>3, OneProcess DEF Move, At, Labels, AfterCheck
<1>5. ASSUME Apply(s) PROVE TypeInv'
  <2>1. DiskType
    BY <1>0, <1>5, <1>c DEF Apply, DiskType, TypeOK
  <2> QED
    BY <1>0, <1>5, <1>v, <2>1, OneProcess DEF Apply, Move, At, Labels, AfterCheck
<1>6. ASSUME DropBackup(s) PROVE TypeInv'
  <2> DEFINE j == [job[s] EXCEPT !.backup = None, !.todo = job[s].old.links]
  <2>1. j \in Jobs /\ j.ver = job[s].ver
    BY <1>0, <1>c DEF Jobs, Locks
  <2>2. DiskType
    BY <1>0, <1>6 DEF DropBackup, DiskType, TypeOK
  <2> QED
    BY <1>6, <1>v, <2>1, <2>2, OneProcess DEF DropBackup, Move, At, Labels, AfterCheck
<1>7. ASSUME OldLinksDropped(s) PROVE TypeInv'
  <2> DEFINE j == [job[s] EXCEPT !.todo = Provides[p][job[s].ver]]
  <2>1. job[s].ver \in Versions
    BY <1>7, <1>v DEF OldLinksDropped, Move, At, AfterCheck
  <2>2. Provides[p][job[s].ver] \in SUBSET Names
    BY <1>0, <2>1, ConstantsOK
  <2>3. j \in Jobs /\ j.ver = job[s].ver
    BY <1>0, <2>2 DEF Jobs
  <2> QED
    BY <1>7, <1>a, <2>1, <2>3, OneProcess DEF OldLinksDropped, Move, Labels
<1>8. ASSUME LinksDone(s) PROVE TypeInv'
  BY <1>0, <1>8, <1>a, <1>v, OneProcess DEF LinksDone, Move, At, Labels, AfterCheck
<1>9. ASSUME NEW n \in job[s].todo, DropOldLink(s, n) \/ ClearLink(s, n)
      PROVE  TypeInv'
  <2>1. /\ [job[s] EXCEPT !.todo = @ \ {n}] \in Jobs
        /\ [job[s] EXCEPT !.todo = @ \ {n}].ver = job[s].ver
        /\ [job[s] EXCEPT !.todo = @ \ {n}, !.cur = {n}] \in Jobs
        /\ [job[s] EXCEPT !.todo = @ \ {n}, !.cur = {n}].ver = job[s].ver
    BY <1>0 DEF Jobs
  <2>2. DiskType
    BY <1>0, <1>9, <1>b DEF DropOldLink, ClearLink, TypeOK
  <2>3. CASE DropOldLink(s, n)
    BY <1>v, <2>1, <2>2, <2>3, OneProcess
       DEF DropOldLink, Move, At, Labels, AfterCheck
  <2>4. CASE ClearLink(s, n)
    BY <1>v, <2>1, <2>2, <2>4, OneProcess
       DEF ClearLink, Move, At, Labels, AfterCheck
  <2> QED BY <1>9, <2>3, <2>4
<1>10. ASSUME MakeLink(s) PROVE TypeInv'
  <2> DEFINE j == [job[s] EXCEPT !.made = @ \cup job[s].cur, !.cur = {}]
  <2>1. j \in Jobs /\ j.ver = job[s].ver
    BY <1>0 DEF Jobs
  <2>2. DiskType
    BY <1>0, <1>10, <1>b DEF MakeLink, TypeOK, Jobs
  <2> QED
    BY <1>10, <1>v, <2>1, <2>2, OneProcess DEF MakeLink, Move, At, Labels, AfterCheck
<1>11. ASSUME MakeLinkFails(s) PROVE TypeInv'
  <2> DEFINE j == [job[s] EXCEPT !.cur = {}]
  <2>1. j \in Jobs /\ j.ver = job[s].ver
    BY <1>0 DEF Jobs
  <2> QED
    BY <1>11, <1>a, <1>v, <2>1, OneProcess
       DEF MakeLinkFails, Move, At, Labels, AfterCheck
<1>12. ASSUME TruncateLock(s) PROVE TypeInv'
  <2>1. DiskType
    BY <1>0, <1>12, ConstantsOK DEF TruncateLock, DiskType, TypeOK, BrokenLock, Locks
  <2> QED
    BY <1>0, <1>12, <1>v, <2>1, OneProcess
       DEF TruncateLock, Move, At, Labels, AfterCheck
<1>13. ASSUME WriteLock(s) PROVE TypeInv'
  <2>1. job[s].ver \in Versions /\ job[s].made \in SUBSET Names
    BY <1>0, <1>13, <1>v DEF WriteLock, WriteVersion, Return, Move, At, Jobs
  <2>2. DiskType
    BY <1>0, <1>13, <1>c, <2>1 DEF WriteLock, WriteVersion, DiskType, TypeOK, Locks
  <2> QED BY <1>13, <2>2, ReturnStepType DEF WriteLock, WriteVersion
<1> QED
  BY <1>1, <1>2, <1>3, <1>4, <1>5, <1>6, <1>7, <1>8, <1>9, <1>10, <1>11,
     <1>12, <1>13 DEF InstallStep

LEMMA UninstallType ==
    ASSUME TypeInv, NEW s \in Procs, UninstallStep(s)
    PROVE  TypeInv'
<1> DEFINE p == job[s].pkg
<1>0. /\ TypeOK /\ job \in [Procs -> Jobs] /\ job[s] \in Jobs /\ p \in Pkgs
  BY DEF TypeInv, TypeOK, Jobs
<1>1. ASSUME ReadLock(s) PROVE TypeInv'
  <2>1. [job[s] EXCEPT !.todo = locks[p].links] \in Jobs
    BY <1>0 DEF Jobs, TypeOK, Locks
  <2>2. DiskType
    BY <1>0, <1>1 DEF ReadLock, OnlyLocal, disk, DiskType, TypeOK
  <2> QED BY <1>1, <2>1, <2>2, OneProcess DEF ReadLock, Move, Labels, AfterCheck
<1>2. ASSUME NEW n \in job[s].todo, RemoveLink(s, n) PROVE TypeInv'
  <2>1. [job[s] EXCEPT !.todo = @ \ {n}] \in Jobs
    BY <1>0 DEF Jobs
  <2>2. DiskType
    BY <1>0, <1>2 DEF RemoveLink, OnlyLinks, DiskType, TypeOK
  <2> QED BY <1>2, <2>1, <2>2, OneProcess DEF RemoveLink, Move, Labels, AfterCheck
<1>3. ASSUME RemoveLock(s) PROVE TypeInv'
  <2>1. DiskType
    BY <1>0, <1>3, ConstantsOK DEF RemoveLock, DiskType, TypeOK, NoLock, Locks
  <2> QED BY <1>0, <1>3, <2>1, OneProcess DEF RemoveLock, Move, Labels, AfterCheck
<1>4. ASSUME RemoveDir(s) PROVE TypeInv'
  <2>1. None \in Contents /\ Mixed \in Contents
    BY ConstantsOK DEF None, Mixed, Contents
  <2>2. DiskType
    BY <1>0, <1>4, <2>1 DEF RemoveDir, DiskType, TypeOK
  <2> QED BY <1>4, <2>2, ReturnStepType DEF RemoveDir
<1> QED BY <1>1, <1>2, <1>3, <1>4 DEF UninstallStep

LEMMA RepairType ==
    ASSUME TypeInv, NEW s \in Procs, RepairStep(s)
    PROVE  TypeInv'
<1> DEFINE Busy == {"repair", "rcheck", "rmake", "idle"}
<1>0. /\ TypeOK /\ job \in [Procs -> Jobs] /\ job[s] \in Jobs
      /\ Busy \subseteq Labels /\ Busy \cap (AfterCheck \cup {"write"}) = {}
  BY DEF TypeInv, TypeOK, Labels, AfterCheck
<1>a. ASSUME NEW j \in Jobs, NEW from, NEW l \in Busy, Set(s, j), Move(s, from, l),
             OnlyLocal \/ (OnlyLinks /\ linked' \in SUBSET Names)
      PROVE  TypeInv'
  <2>1. DiskType
    BY <1>0, <1>a DEF OnlyLocal, OnlyLinks, disk, DiskType, TypeOK
  <2> QED BY <1>0, <1>a, <2>1, OneProcess DEF Move
<1>1. ASSUME NEW p \in job[s].args, RepairPort(s, p) PROVE TypeInv'
  <2> DEFINE j == [job[s] EXCEPT !.args = @ \ {p}]
             k == [j EXCEPT !.pkg = p, !.ver = ports[p], !.todo = Provides[p][ports[p]]]
  <2>1. p \in Pkgs /\ j \in Jobs
    BY <1>0 DEF Jobs
  <2>2. CASE Parsed(locks[p]) /\ ports[p] # None
    <3>1. ports[p] \in Versions /\ ports[p] \in 0 .. MaxVersion
      BY <1>0, <2>1, <2>2, ConstantsOK DEF TypeOK, None, Versions
    <3>2. Provides[p][ports[p]] \in SUBSET Names
      BY <2>1, <3>1, ConstantsOK
    <3>3. k \in Jobs
      BY <2>1, <3>1, <3>2 DEF Jobs
    <3> QED BY <1>1, <1>a, <2>2, <3>3 DEF RepairPort
  <2>3. CASE ~(Parsed(locks[p]) /\ ports[p] # None)
    BY <1>1, <1>a, <2>1, <2>3 DEF RepairPort
  <2> QED BY <2>2, <2>3
<1>2. ASSUME NEW n \in job[s].todo, SkipLink(s, n) \/ LinkIsMissing(s, n)
      PROVE  TypeInv'
  <2>1. /\ [job[s] EXCEPT !.todo = @ \ {n}] \in Jobs
        /\ [job[s] EXCEPT !.todo = @ \ {n}, !.cur = {n}] \in Jobs
    BY <1>0 DEF Jobs
  <2> QED BY <1>2, <1>a, <2>1 DEF SkipLink, LinkIsMissing
<1>3. ASSUME RemakeLink(s) PROVE TypeInv'
  <2>1. [job[s] EXCEPT !.cur = {}] \in Jobs
    BY <1>0 DEF Jobs
  <2>2. linked' \in SUBSET Names
    BY <1>0, <1>3 DEF RemakeLink, TypeOK, Jobs
  <2> QED BY <1>3, <1>a, <2>1, <2>2 DEF RemakeLink
<1>4. ASSUME RemakeLinkFails(s) PROVE TypeInv'
  BY <1>0, <1>4, <1>a, ExitedType DEF RemakeLinkFails
<1>5. ASSUME PortRepaired(s) PROVE TypeInv'
  BY <1>0, <1>5, <1>a, LeftType DEF PortRepaired
<1>6. ASSUME RepairDone(s) PROVE TypeInv'
  BY <1>0, <1>6, <1>a, ExitedType DEF RepairDone
<1> QED BY <1>1, <1>2, <1>3, <1>4, <1>5, <1>6 DEF RepairStep

LEMMA PullType ==
    ASSUME TypeInv, NEW p \in Pkgs, Pull(p)
    PROVE  TypeInv'
<1>1. ports' \in [Pkgs -> 0 .. MaxVersion]
  BY ConstantsOK DEF TypeInv, TypeOK, Pull, None
<1> QED BY <1>1 DEF TypeInv, TypeOK, VersionRead, Pull

\* No step of any process, and no pull, takes a variable out of its type.
LEMMA NextTypeInv == TypeInv /\ [Next]_vars => TypeInv'
<1> SUFFICES ASSUME TypeInv, [Next]_vars PROVE TypeInv'
  OBVIOUS
<1>1. CASE Next
  <2>1. ASSUME NEW s \in Procs, Step(s) PROVE TypeInv'
    BY <2>1, SessionType, InstallType, UninstallType, RepairType DEF Step
  <2>2. ASSUME NEW s \in Procs,
               Crash(s) \/ \E c \in Commands, a \in SUBSET Pkgs : Start(s, c, a)
        PROVE  TypeInv'
    BY <2>2, SessionType
  <2>3. ASSUME NEW p \in Pkgs, Pull(p) PROVE TypeInv'
    BY <2>3, PullType
  <2> QED BY <1>1, <2>1, <2>2, <2>3 DEF Next
<1>2. CASE UNCHANGED vars
  BY <1>2 DEF vars, TypeInv, TypeOK, VersionRead
<1> QED BY <1>1, <1>2

\* Type correctness, for any number of processes, packages and versions.
THEOREM TypeCorrect == Spec => []TypeOK
<1>1. TypeInv => TypeOK
  BY DEF TypeInv
<1> QED BY InitTypeInv, NextTypeInv, <1>1, PTL DEF Spec

LEMMA TypeInvCorrect == Spec => []TypeInv
BY InitTypeInv, NextTypeInv, PTL DEF Spec

-----------------------------------------------------------------------------
(* Mutual exclusion, inductive as it stands. *)

Outside == {"idle", "wait", "repair", "rcheck", "rmake"}

\* A step of s that keeps the mutex and stays on its side of it.
LEMMA SameSide ==
    ASSUME TypeInv, MutualExclusion, NEW s \in Procs, NEW l, Goto(s, l),
           mutex' = mutex, pc[s] \in Outside <=> l \in Outside
    PROVE  MutualExclusion'
BY DEF TypeInv, TypeOK, MutualExclusion, Holding, Goto, Outside

LEMMA MutexStep ==
    ASSUME TypeInv, MutualExclusion, NEW s \in Procs, Step(s)
    PROVE  MutualExclusion'
<1> USE DEF Outside
<1>1. CASE Acquire(s)
  BY <1>1, ConstantsOK DEF Acquire, Move, Goto, At, TypeInv, TypeOK,
                           MutualExclusion, Holding
<1>2. ASSUME NEW from \in {"next", "fail"}, NEW code, Release(s, from, code)
      PROVE  MutualExclusion'
  BY <1>2, ConstantsOK DEF Release, Move, Goto, At, TypeInv, TypeOK,
                           MutualExclusion, Holding
<1>3. CASE TimeOut(s) \/ InstallCore(s)
  BY <1>3, SameSide DEF TimeOut, InstallCore, OnlyLocal, Move, At
<1>4. ASSUME NEW p, NextArgument(s, p) \/ NextUpgrade(s, p) PROVE MutualExclusion'
  BY <1>4, SameSide DEF NextArgument, NextUpgrade, OnlyLocal, Move, At
<1>5. ASSUME NEW from, from \notin Outside, NEW ok, Return(s, from, ok), mutex' = mutex
      PROVE  MutualExclusion'
  BY <1>5, SameSide DEF Return, Move, At
<1>6. CASE InstallStep(s)
  <2>1. CASE CheckPort(s) \/ Download(s) \/ Unpack(s) \/ WriteLock(s)
    BY <1>5, <2>1, SameSide
       DEF CheckPort, Download, Unpack, WriteLock, WriteVersion, OnlyLocal, Move, At
  <2>2. CASE SetAside(s) \/ Apply(s) \/ TruncateLock(s)
    BY <2>2, SameSide DEF SetAside, Apply, TruncateLock, Move, At
  <2>3. CASE DropBackup(s) \/ OldLinksDropped(s) \/ LinksDone(s) \/ MakeLinkFails(s)
    BY <2>3, SameSide
       DEF DropBackup, OldLinksDropped, LinksDone, MakeLinkFails, OnlyLocal, Move, At
  <2>4. ASSUME NEW n, MakeLink(s) \/ DropOldLink(s, n) \/ ClearLink(s, n)
        PROVE  MutualExclusion'
    BY <2>4, SameSide DEF MakeLink, DropOldLink, ClearLink, OnlyLinks, Move, At
  <2> QED BY <1>6, <2>1, <2>2, <2>3, <2>4 DEF InstallStep
<1>7. CASE UninstallStep(s)
  <2>1. CASE ReadLock(s) \/ RemoveLock(s)
    BY <2>1, SameSide DEF ReadLock, RemoveLock, OnlyLocal, Move, At
  <2>2. CASE RemoveDir(s)
    BY <1>5, <2>2 DEF RemoveDir
  <2>3. ASSUME NEW n, RemoveLink(s, n) PROVE MutualExclusion'
    BY <2>3, SameSide DEF RemoveLink, OnlyLinks, Move, At
  <2> QED BY <1>7, <2>1, <2>2, <2>3 DEF UninstallStep
<1>8. CASE RepairStep(s)
  <2>1. CASE PortRepaired(s) \/ RepairDone(s) \/ RemakeLinkFails(s) \/ RemakeLink(s)
    BY <2>1, SameSide DEF PortRepaired, RepairDone, RemakeLinkFails, RemakeLink,
                          OnlyLocal, OnlyLinks, Move, At
  <2>2. ASSUME NEW p, RepairPort(s, p) \/ SkipLink(s, p) \/ LinkIsMissing(s, p)
        PROVE  MutualExclusion'
    BY <2>2, SameSide DEF RepairPort, SkipLink, LinkIsMissing, OnlyLocal, Move, At
  <2> QED BY <1>8, <2>1, <2>2 DEF RepairStep
<1>9. CASE SessionStep(s)
  <2>1. CASE Finish(s) \/ Fail(s)
    BY <1>2, <2>1 DEF Finish, Fail
  <2> QED BY <1>1, <1>3, <1>4, <1>9, <2>1 DEF SessionStep
<1> QED BY <1>6, <1>7, <1>8, <1>9 DEF Step

LEMMA MutexNext == TypeInv /\ MutualExclusion /\ [Next]_vars => MutualExclusion'
<1> SUFFICES ASSUME TypeInv, MutualExclusion, [Next]_vars PROVE MutualExclusion'
  OBVIOUS
<1>1. ASSUME NEW s \in Procs, Crash(s) PROVE MutualExclusion'
  BY <1>1, ConstantsOK DEF Crash, At, Goto, TypeInv, TypeOK, MutualExclusion, Holding
<1>2. ASSUME NEW s \in Procs, NEW c, NEW a, Start(s, c, a) PROVE MutualExclusion'
  BY <1>2, SameSide DEF Start, Move, At, Outside
<1>3. ASSUME NEW p \in Pkgs, Pull(p) PROVE MutualExclusion'
  BY <1>3 DEF Pull, MutualExclusion, Holding
<1>4. CASE UNCHANGED vars
  BY <1>4 DEF vars, MutualExclusion, Holding
<1> QED BY <1>1, <1>2, <1>3, <1>4, MutexStep DEF Next

\* Whatever dies or times out, the owner of the mutex and nobody else is between
\* WaitOne and ReleaseMutex.
THEOREM Exclusive == Spec => []MutualExclusion
<1>1. Init => MutualExclusion
  BY ConstantsOK DEF Init, MutualExclusion, Holding
<1> QED BY <1>1, MutexNext, TypeInvCorrect, PTL DEF Spec

-----------------------------------------------------------------------------
(* "Up to date" is true: the inductive invariant. *)

\* The directory of a package can be replaced: not so on a disk that refuses
\* Rename-Item or Move-Item (run DeviFailedApply shows what happens there).
ApplyWorks == ~May("rename") /\ ~May("move")

Inside == AfterCheck \cup {"write"}
Fresh   == {"rename", "move"}
Applied == {"drop", "oldlinks", "clear", "make", "trunc", "write"}

\* A lock file is never ahead of its port.
LockBehindPort ==
    \A p \in Pkgs : ports[p] # None => locks[p].version <= ports[p]
\* An installation goes up, to a version its port has reached.
GoesUp ==
    \A s \in Procs : pc[s] \in Inside =>
        /\ job[s].old.version < job[s].ver
        /\ ports[job[s].pkg] # None => job[s].ver <= ports[job[s].pkg]
WritesLast == \A s \in Procs : At(s, "write") => locks[job[s].pkg] = BrokenLock
LockGone ==
    \A s \in Procs : pc[s] \in {"udir", "unlocked"} => locks[job[s].pkg] = NoLock
\* What an installation has got where, on the way to the lock file.
Carried ==
    \A s \in Procs : ApplyWorks =>
        LET p == job[s].pkg IN
        /\ pc[s] \in Fresh => PassesFor(p, temp[p], job[s].ver)
        /\ At(s, "move") => pkgdir[p] = None
        /\ pc[s] \in Applied => PassesFor(p, pkgdir[p], job[s].ver)
\* Only a crash leaves something behind in .temp.
TempClean ==
    ApplyWorks /\ ~May("crash") => \A p \in Pkgs :
        temp[p] = None \/ \E s \in Procs : pc[s] \in Fresh /\ job[s].pkg = p
UpToDateIfApplied ==
    \A p \in Pkgs : ApplyWorks /\ UpToDate(p) => PassesFor(p, pkgdir[p], ports[p])

SafeInv == /\ OldTableCurrent /\ LockBehindPort /\ GoesUp /\ WritesLast
           /\ LockGone /\ Carried /\ TempClean /\ UpToDateIfApplied

\* While s is between WaitOne and ReleaseMutex nobody else is.
LEMMA Alone ==
    ASSUME MutualExclusion, NEW s \in Procs, Holding(s), NEW t \in Procs, t # s
    PROVE  pc[t] \notin Inside \cup {"udir", "unlocked"}
BY DEF MutualExclusion, Holding, Inside, AfterCheck

\* A process record, before and after a step that replaces one.
LEMMA Records ==
    ASSUME TypeInv, NEW s \in Procs, NEW j, job' = [job EXCEPT ![s] = j],
           NEW l, Goto(s, l)
    PROVE  /\ pc'[s] = l /\ job'[s] = j
           /\ \A t \in Procs : t # s => pc'[t] = pc[t] /\ job'[t] = job[t]
BY DEF TypeInv, TypeOK, Goto

\* A step of s changes the label and the variables of no other process.
LEMMA Others ==
    ASSUME TypeInv, NEW s \in Procs,
           \/ Step(s) \/ Crash(s)
           \/ \E c \in Commands, a \in SUBSET Pkgs : Start(s, c, a)
    PROVE  \A t \in Procs : t # s => pc'[t] = pc[t] /\ job'[t] = job[t]
<1>a. ASSUME NEW l, Goto(s, l), NEW j, Set(s, j) \/ job' = job
      PROVE  \A t \in Procs : t # s => pc'[t] = pc[t] /\ job'[t] = job[t]
  BY <1>a DEF TypeInv, TypeOK, Goto, Set
<1>b. \A from, ok : Return(s, from, ok) => \E l, j : Goto(s, l) /\ Set(s, j)
  BY DEF Return, Move
<1>1. CASE SessionStep(s) \/ Crash(s) \/ \E c \in Commands, a \in SUBSET Pkgs : Start(s, c, a)
  <2>1. CASE Crash(s) \/ \E c \in Commands, a \in SUBSET Pkgs : Start(s, c, a)
    BY <2>1, <1>a DEF Crash, Start, Move
  <2>2. CASE Acquire(s) \/ TimeOut(s) \/ InstallCore(s) \/ Finish(s) \/ Fail(s)
    BY <2>2, <1>a DEF Acquire, TimeOut, InstallCore, Finish, Fail, Release, Move
  <2>3. ASSUME NEW p, NextArgument(s, p) \/ NextUpgrade(s, p)
        PROVE  \E l, j : Goto(s, l) /\ Set(s, j)
    BY <2>3 DEF NextArgument, NextUpgrade, Move
  <2> QED
    BY <1>1, <1>a, <2>1, <2>2, <2>3 DEF SessionStep
<1>2. CASE InstallStep(s)
  <2>1. CASE CheckPort(s) \/ Download(s) \/ Unpack(s) \/ WriteLock(s)
    BY <2>1, <1>a, <1>b DEF CheckPort, Download, Unpack, WriteLock, WriteVersion, Move
  <2>2. CASE SetAside(s) \/ Apply(s) \/ DropBackup(s) \/ OldLinksDropped(s) \/ LinksDone(s)
    BY <2>2, <1>a DEF SetAside, Apply, DropBackup, OldLinksDropped, LinksDone, Move
  <2>3. CASE MakeLink(s) \/ MakeLinkFails(s) \/ TruncateLock(s)
    BY <2>3, <1>a DEF MakeLink, MakeLinkFails, TruncateLock, Move
  <2>4. ASSUME NEW n, DropOldLink(s, n) \/ ClearLink(s, n)
        PROVE  \E l, j : Goto(s, l) /\ Set(s, j)
    BY <2>4 DEF DropOldLink, ClearLink, Move
  <2> QED
    BY <1>2, <1>a, <2>1, <2>2, <2>3, <2>4 DEF InstallStep
<1>3. CASE UninstallStep(s)
  <2>1. CASE RemoveDir(s)
    BY <2>1, <1>a, <1>b DEF RemoveDir
  <2> QED
    BY <1>3, <1>a, <2>1 DEF UninstallStep, ReadLock, RemoveLink, RemoveLock, Move
<1>4. CASE RepairStep(s)
  BY <1>4, <1>a DEF RepairStep, RemakeLink, RemakeLinkFails, PortRepaired, RepairDone,
                    RepairPort, SkipLink, LinkIsMissing, Move
<1> QED
  BY <1>1, <1>2, <1>3, <1>4 DEF Step

Truth == <<ports, locks, pkgdir, temp>>

\* A step of a process that is, or gets, outside Install-Port.
LEMMA FrameOut ==
    ASSUME TypeInv, SafeInv, NEW s \in Procs, NEW j, job' = [job EXCEPT ![s] = j],
           NEW l, Goto(s, l), UNCHANGED Truth,
           l \notin Inside, pc[s] \notin Fresh \/ May("crash"),
           l \in {"udir", "unlocked"} => locks[j.pkg] = NoLock
    PROVE  SafeInv'
<1>1. /\ pc'[s] = l /\ job'[s] = j
      /\ \A t \in Procs : t # s => pc'[t] = pc[t] /\ job'[t] = job[t]
  BY Records
<1>2. UNCHANGED <<ports, locks, pkgdir, temp>>
  BY DEF Truth
<1>3. OldTableCurrent' /\ LockBehindPort' /\ GoesUp' /\ WritesLast' /\ LockGone'
  BY <1>1, <1>2 DEF SafeInv, OldTableCurrent, LockBehindPort, GoesUp, WritesLast,
                    LockGone, Inside, At
<1>4. Carried'
  BY <1>1, <1>2 DEF SafeInv, Carried, Inside, Fresh, Applied, AfterCheck, At,
                    PassesFor, ApplyWorks, May
<1>5. TempClean'
  BY <1>1, <1>2 DEF SafeInv, TempClean, ApplyWorks, May
<1>6. UpToDateIfApplied'
  BY <1>2 DEF SafeInv, UpToDateIfApplied, PassesFor, ApplyWorks, May, UpToDate
<1> QED BY <1>3, <1>4, <1>5, <1>6 DEF SafeInv

\* A step inside Install-Port that touches neither directories nor lock files.
LEMMA FrameIn ==
    ASSUME TypeInv, SafeInv, NEW s \in Procs, NEW j, job' = [job EXCEPT ![s] = j],
           NEW l, Goto(s, l), UNCHANGED Truth,
           j.pkg = job[s].pkg, j.ver = job[s].ver, j.old = job[s].old,
           pc[s] \in AfterCheck, l \in AfterCheck \ Fresh, pc[s] \notin Fresh,
           l \in Applied => pc[s] \in Applied
    PROVE  SafeInv'
<1>1. /\ pc'[s] = l /\ job'[s] = j
      /\ \A t \in Procs : t # s => pc'[t] = pc[t] /\ job'[t] = job[t]
  BY Records
<1>2. UNCHANGED <<ports, locks, pkgdir, temp>>
  BY DEF Truth
<1>3. OldTableCurrent' /\ LockBehindPort' /\ GoesUp' /\ WritesLast' /\ LockGone'
  BY <1>1, <1>2 DEF SafeInv, OldTableCurrent, LockBehindPort, GoesUp, WritesLast,
                    LockGone, Inside, AfterCheck, At
<1>4. Carried'
  BY <1>1, <1>2 DEF SafeInv, Carried, Fresh, AfterCheck, At,
                    PassesFor, ApplyWorks, May
<1>5. TempClean'
  BY <1>1, <1>2 DEF SafeInv, TempClean, ApplyWorks, May
<1>6. UpToDateIfApplied'
  BY <1>2 DEF SafeInv, UpToDateIfApplied, PassesFor, ApplyWorks, May, UpToDate
<1> QED BY <1>3, <1>4, <1>5, <1>6 DEF SafeInv

\* A function that returns leaves Install-Port.
LEMMA FrameReturn ==
    ASSUME TypeInv, SafeInv, NEW s \in Procs, NEW from, NEW ok,
           Return(s, from, ok), from \notin Fresh, UNCHANGED Truth
    PROVE  SafeInv'
<1>1. PICK j : job' = [job EXCEPT ![s] = j]
  BY DEF Return, Set
<1>2. PICK l \in {"next", "fail"} : Goto(s, l)
  BY DEF Return, Move
<1>3. pc[s] \notin Fresh /\ l \notin Inside \cup {"udir", "unlocked"}
  BY <1>2 DEF Return, Move, At, Inside, AfterCheck
<1> QED BY <1>1, <1>2, <1>3, FrameOut

LEMMA CheckSafe ==
    ASSUME TypeInv, SafeInv, NEW s \in Procs, CheckPort(s)
    PROVE  SafeInv'
<1> DEFINE p == job[s].pkg
           j == [job[s] EXCEPT !.ver = ports[p], !.old = locks[p]]
<1>0. UNCHANGED Truth
  BY DEF CheckPort, OnlyLocal, disk, Truth
<1>1. CASE \E ok : Return(s, "check", ok)
  BY <1>0, <1>1, FrameReturn DEF Fresh
<1>2. CASE ~Rejected(p) /\ ~UpToDate(p) /\ Move(s, "check", "download") /\ Set(s, j)
  <2>1. /\ job[s] \in Jobs /\ p \in Pkgs
        /\ ports[p] \in 1 .. MaxVersion /\ locks[p].version \in -1 .. MaxVersion
    BY <1>2 DEF TypeInv, TypeOK, Jobs, Locks, Rejected, None
  <2>2. j.pkg = p /\ j.ver = ports[p] /\ j.old = locks[p]
    BY <2>1 DEF Jobs
  <2> HIDE DEF j
  <2>a. job' = [job EXCEPT ![s] = j]
    BY <1>2 DEF Set
  <2>b. pc[s] = "check" /\ Goto(s, "download")
    BY <1>2 DEF Move, At
  <2>3. /\ pc'[s] = "download" /\ pc[s] = "check"
        /\ job'[s].pkg = p /\ job'[s].ver = ports[p] /\ job'[s].old = locks[p]
        /\ \A t \in Procs : t # s => pc'[t] = pc[t] /\ job'[t] = job[t]
    BY <2>a, <2>b, <2>2, Records
  <2>4. UNCHANGED <<ports, locks, pkgdir, temp>>
    BY <1>0 DEF Truth
  <2>5. locks[p].version < ports[p]
    <3>1. ports[p] # None => locks[p].version <= ports[p]
      BY <2>1 DEF SafeInv, LockBehindPort
    <3>2. ~(locks[p].version > 0 /\ locks[p].version = ports[p])
      BY <1>2 DEF UpToDate, Parsed
    <3>3. MaxVersion \in Nat
      BY ConstantsOK
    <3> HIDE DEF p
    <3> QED BY <2>1, <3>1, <3>2, <3>3 DEF None
  <2>6. OldTableCurrent' /\ LockBehindPort' /\ WritesLast' /\ LockGone'
    BY <2>3, <2>4
       DEF SafeInv, OldTableCurrent, LockBehindPort, WritesLast, LockGone, At
  <2>7. GoesUp'
    BY <2>1, <2>3, <2>4, <2>5, ConstantsOK DEF SafeInv, GoesUp
  <2>8. Carried'
    BY <2>3, <2>4 DEF SafeInv, Carried, Fresh, Applied, At,
                            PassesFor, ApplyWorks, May
  <2>9. TempClean'
    BY <2>3, <2>4 DEF SafeInv, TempClean, ApplyWorks, May, Fresh
  <2>10. UpToDateIfApplied'
    BY <2>4 DEF SafeInv, UpToDateIfApplied, PassesFor, ApplyWorks, May, UpToDate
  <2> QED BY <2>6, <2>7, <2>8, <2>9, <2>10 DEF SafeInv
<1> QED BY <1>1, <1>2 DEF CheckPort

LEMMA UnpackSafe ==
    ASSUME TypeInv, MutualExclusion, SafeInv, NEW s \in Procs, Unpack(s)
    PROVE  SafeInv'
<1> DEFINE p == job[s].pkg
<1>0. /\ job[s] \in Jobs /\ p \in Pkgs /\ pc[s] = "unpack"
      /\ UNCHANGED <<ports, locks, pkgdir>> /\ temp \in [Pkgs -> Contents]
      /\ \E c : temp' = [temp EXCEPT ![p] = c]
  BY DEF TypeInv, TypeOK, Jobs, Unpack, Return, Move, At
<1>1. \A t \in Procs : t # s => pc[t] \notin Inside
  BY <1>0, Alone DEF Holding
<1>2. \A t \in Procs : t # s => pc'[t] = pc[t] /\ job'[t] = job[t]
  BY DEF TypeInv, TypeOK, Unpack, Return, Move, Goto, Set
<1>3. UpToDateIfApplied' /\ LockBehindPort'
  BY <1>0 DEF SafeInv, UpToDateIfApplied, LockBehindPort, PassesFor, ApplyWorks,
              May, UpToDate
<1>4. ASSUME Move(s, "unpack", "rename"), UNCHANGED job,
             NEW c \in Unpacked(p, temp[p], job[s].ver), temp' = [temp EXCEPT ![p] = c]
      PROVE  SafeInv'
  <2>1. pc'[s] = "rename" /\ job'[s] = job[s]
    BY <1>4 DEF TypeInv, TypeOK, Move, Goto
  <2>2. OldTableCurrent' /\ GoesUp' /\ WritesLast' /\ LockGone'
    BY <1>0, <1>2, <2>1 DEF SafeInv, OldTableCurrent, GoesUp, WritesLast, LockGone,
                            Inside, AfterCheck, At
  <2>3. ASSUME ApplyWorks PROVE PassesFor(p, temp'[p], job[s].ver)
    <3>1. temp'[p] = c
      BY <1>0, <1>4
    <3>2. CASE May("crash")
      BY <1>4, <3>1, <3>2 DEF Unpacked, PassesFor
    <3>3. CASE ~May("crash")
      <4>1. temp[p] = None
        BY <1>0, <1>1, <2>3, <3>3 DEF SafeInv, TempClean, Fresh, Inside, AfterCheck
      <4> QED BY <1>4, <3>1, <4>1 DEF Unpacked, PassesFor
    <3> QED BY <3>2, <3>3
  <2>4. Carried'
    BY <1>0, <1>1, <1>2, <2>1, <2>3
       DEF Carried, Inside, AfterCheck, Fresh, Applied, At, PassesFor, ApplyWorks, May
  <2>5. TempClean'
    BY <1>0, <1>2, <2>1 DEF SafeInv, TempClean, ApplyWorks, May, Fresh
  <2> QED BY <1>3, <2>2, <2>4, <2>5 DEF SafeInv
<1>5. CASE Return(s, "unpack", FALSE) /\ temp' = [temp EXCEPT ![p] = None]
  <2>1. pc'[s] \in {"next", "fail"}
    BY <1>5 DEF TypeInv, TypeOK, Return, Move, Goto
  <2>2. OldTableCurrent' /\ GoesUp' /\ WritesLast' /\ LockGone'
    BY <1>0, <1>2, <2>1 DEF SafeInv, OldTableCurrent, GoesUp, WritesLast, LockGone,
                            Inside, AfterCheck, At
  <2>3. Carried'
    BY <1>0, <1>1, <1>2, <2>1
       DEF Carried, Inside, AfterCheck, Fresh, Applied, At
  <2>4. TempClean'
    BY <1>0, <1>2, <1>5 DEF SafeInv, TempClean, ApplyWorks, May, Fresh
  <2> QED BY <1>3, <2>2, <2>3, <2>4 DEF SafeInv
<1> QED BY <1>4, <1>5 DEF Unpack

LEMMA SetAsideSafe ==
    ASSUME TypeInv, MutualExclusion, SafeInv, NEW s \in Procs, SetAside(s)
    PROVE  SafeInv'
<1> DEFINE p == job[s].pkg
<1>0. /\ job[s] \in Jobs /\ p \in Pkgs /\ pc[s] = "rename" /\ pc'[s] = "move"
      /\ UNCHANGED <<ports, locks, temp>> /\ pkgdir \in [Pkgs -> Contents]
      /\ \A t \in Procs : t # s => pc'[t] = pc[t] /\ job'[t] = job[t]
  BY DEF TypeInv, TypeOK, Jobs, SetAside, Move, Goto, At, Set
<1>1. /\ job'[s].pkg = p /\ job'[s].ver = job[s].ver /\ job'[s].old = job[s].old
  BY <1>0 DEF TypeInv, TypeOK, Jobs, SetAside, Set
<1>2. \A t \in Procs : t # s => pc[t] \notin Inside
  BY <1>0, Alone DEF Holding
<1>3. /\ pkgdir' = pkgdir \/ pkgdir' = [pkgdir EXCEPT ![p] = None]
      /\ ~May("rename") => pkgdir'[p] = None
  BY <1>0 DEF SetAside
<1>4. OldTableCurrent' /\ LockBehindPort' /\ GoesUp' /\ WritesLast' /\ LockGone'
  BY <1>0, <1>1 DEF SafeInv, OldTableCurrent, LockBehindPort, GoesUp, WritesLast,
                    LockGone, Inside, AfterCheck, At
<1>5. Carried'
  BY <1>0, <1>1, <1>2, <1>3
     DEF SafeInv, Carried, Inside, AfterCheck, Fresh, Applied, At,
         PassesFor, ApplyWorks, May
<1>6. TempClean'
  BY <1>0, <1>1 DEF SafeInv, TempClean, ApplyWorks, May, Fresh
\* The directory of p goes, but the lock file of p is behind its port.
<1>7. ASSUME NEW q \in Pkgs, ApplyWorks, UpToDate(q)
      PROVE  PassesFor(q, pkgdir'[q], ports[q])
  <2>1. PassesFor(q, pkgdir[q], ports[q])
    BY <1>7 DEF SafeInv, UpToDateIfApplied
  <2>2. CASE q = p
    <3>1. ports[p] # None => job[s].ver <= ports[p]
      BY <1>0 DEF SafeInv, GoesUp, Inside, AfterCheck
    <3>2. job[s].old = locks[p] /\ job[s].old.version < job[s].ver
      BY <1>0 DEF SafeInv, GoesUp, OldTableCurrent, Inside, AfterCheck
    <3>3. locks[p].version > 0 /\ locks[p].version = ports[p]
      BY <1>7, <2>2 DEF UpToDate, Parsed
    <3>4. locks[p].version \in Int /\ job[s].ver \in Int
      BY <1>0, ConstantsOK DEF TypeInv, TypeOK, Locks, Jobs
    <3> HIDE DEF p
    <3> QED BY <3>1, <3>2, <3>3, <3>4 DEF None
  <2>3. CASE q # p
    BY <1>0, <1>3, <2>1, <2>3
  <2> QED BY <2>2, <2>3
<1>8. UpToDateIfApplied'
  BY <1>0, <1>7 DEF UpToDateIfApplied, PassesFor, ApplyWorks, May, UpToDate
<1> QED BY <1>4, <1>5, <1>6, <1>8 DEF SafeInv

LEMMA ApplySafe ==
    ASSUME TypeInv, MutualExclusion, SafeInv, NEW s \in Procs, Apply(s)
    PROVE  SafeInv'
<1> DEFINE p == job[s].pkg
<1>0. /\ job[s] \in Jobs /\ p \in Pkgs /\ pc[s] = "move" /\ pc'[s] = "drop"
      /\ UNCHANGED <<ports, locks, job>>
      /\ pkgdir \in [Pkgs -> Contents] /\ temp \in [Pkgs -> Contents]
      /\ \A t \in Procs : t # s => pc'[t] = pc[t]
  BY DEF TypeInv, TypeOK, Jobs, Apply, Move, Goto, At
<1>1. \A t \in Procs : t # s => pc[t] \notin Inside
  BY <1>0, Alone DEF Holding
<1>2. ASSUME ApplyWorks
      PROVE  /\ pkgdir' = [pkgdir EXCEPT ![p] = temp[p]]
             /\ temp' = [temp EXCEPT ![p] = None]
             /\ PassesFor(p, temp[p], job[s].ver)
  BY <1>0, <1>2 DEF SafeInv, Carried, Apply, Fresh, At, ApplyWorks
<1>3. /\ \A q \in Pkgs : q # p => pkgdir'[q] = pkgdir[q]
      /\ ApplyWorks => temp' = [temp EXCEPT ![p] = None]
  BY <1>0 DEF Apply, ApplyWorks
<1>4. OldTableCurrent' /\ LockBehindPort' /\ GoesUp' /\ WritesLast' /\ LockGone'
  BY <1>0 DEF SafeInv, OldTableCurrent, LockBehindPort, GoesUp, WritesLast,
              LockGone, Inside, AfterCheck, At
<1>5. Carried'
  BY <1>0, <1>1, <1>2
     DEF Carried, Inside, AfterCheck, Fresh, Applied, At, PassesFor, ApplyWorks, May
<1>6. TempClean'
  BY <1>0, <1>3 DEF SafeInv, TempClean, ApplyWorks, May, Fresh
<1>7. ASSUME NEW q \in Pkgs, ApplyWorks, UpToDate(q)
      PROVE  PassesFor(q, pkgdir'[q], ports[q])
  <2>1. PassesFor(q, pkgdir[q], ports[q])
    BY <1>7 DEF SafeInv, UpToDateIfApplied
  <2>2. CASE q = p
    <3>1. pkgdir[p] = None
      BY <1>0, <1>7, <2>2 DEF SafeInv, Carried, At
    <3>2. ports[p] # None
      BY <1>7, <2>2 DEF UpToDate, Parsed, None
    <3> QED BY <2>1, <2>2, <3>1, <3>2, ConstantsOK DEF PassesFor, None, Mixed
  <2> QED BY <1>3, <2>1, <2>2
<1>8. UpToDateIfApplied'
  BY <1>0, <1>7 DEF UpToDateIfApplied, PassesFor, ApplyWorks, May, UpToDate
<1> QED BY <1>4, <1>5, <1>6, <1>8 DEF SafeInv

LEMMA TruncateSafe ==
    ASSUME TypeInv, MutualExclusion, SafeInv, NEW s \in Procs, TruncateLock(s)
    PROVE  SafeInv'
<1> DEFINE p == job[s].pkg
<1>0. /\ job[s] \in Jobs /\ p \in Pkgs /\ pc[s] = "trunc" /\ pc'[s] = "write"
      /\ UNCHANGED <<ports, pkgdir, temp, job>> /\ locks \in [Pkgs -> Locks]
      /\ locks' = [locks EXCEPT ![p] = BrokenLock]
      /\ \A t \in Procs : t # s => pc'[t] = pc[t]
  BY DEF TypeInv, TypeOK, Jobs, TruncateLock, Move, Goto, At
<1>1. \A t \in Procs : t # s => pc[t] \notin Inside \cup {"udir", "unlocked"}
  BY <1>0, Alone DEF Holding
<1>2. OldTableCurrent' /\ GoesUp' /\ WritesLast' /\ LockGone'
  BY <1>0, <1>1 DEF SafeInv, OldTableCurrent, GoesUp, WritesLast, LockGone,
                    Inside, AfterCheck, At
<1>3. LockBehindPort'
  <2>1. \A q \in Pkgs : ports[q] \in 0 .. MaxVersion
    BY DEF TypeInv, TypeOK
  <2> QED BY <1>0, <2>1, ConstantsOK DEF SafeInv, LockBehindPort, BrokenLock
<1>4. Carried'
  BY <1>0, <1>1 DEF SafeInv, Carried, Fresh, Applied, At, PassesFor, ApplyWorks, May
<1>5. TempClean'
  BY <1>0 DEF SafeInv, TempClean, ApplyWorks, May, Fresh
<1>6. UpToDateIfApplied'
  BY <1>0 DEF SafeInv, UpToDateIfApplied, PassesFor, ApplyWorks, May, UpToDate,
              Parsed, BrokenLock
<1> QED BY <1>2, <1>3, <1>4, <1>5, <1>6 DEF SafeInv

LEMMA WriteSafe ==
    ASSUME TypeInv, MutualExclusion, SafeInv, NEW s \in Procs, WriteLock(s)
    PROVE  SafeInv'
<1> DEFINE p == job[s].pkg
           v == job[s].ver
<1>0. /\ job[s] \in Jobs /\ p \in Pkgs /\ pc[s] = "write" /\ pc'[s] \in {"next", "fail"}
      /\ UNCHANGED <<ports, pkgdir, temp>> /\ locks \in [Pkgs -> Locks]
      /\ locks' = [locks EXCEPT ![p] = [version |-> v, links |-> job[s].made]]
      /\ \A t \in Procs : t # s => pc'[t] = pc[t] /\ job'[t] = job[t]
  BY DEF TypeInv, TypeOK, Jobs, WriteLock, WriteVersion, Return, Move, Goto, At, Set
<1>1. \A t \in Procs : t # s => pc[t] \notin Inside \cup {"udir", "unlocked"}
  BY <1>0, Alone DEF Holding
<1>2. /\ ports[p] # None => v <= ports[p]
      /\ ApplyWorks => PassesFor(p, pkgdir[p], v)
  BY <1>0 DEF SafeInv, GoesUp, Carried, Inside, Applied
<1>3. OldTableCurrent' /\ GoesUp' /\ WritesLast' /\ LockGone'
  BY <1>0, <1>1 DEF SafeInv, OldTableCurrent, GoesUp, WritesLast, LockGone,
                    Inside, AfterCheck, At
<1>4. LockBehindPort'
  BY <1>0, <1>2 DEF SafeInv, LockBehindPort
<1>5. Carried'
  BY <1>0, <1>1 DEF SafeInv, Carried, Fresh, Applied, Inside, AfterCheck, At
<1>6. TempClean'
  BY <1>0 DEF SafeInv, TempClean, ApplyWorks, May, Fresh
<1>7. UpToDateIfApplied'
  BY <1>0, <1>2
     DEF SafeInv, UpToDateIfApplied, PassesFor, ApplyWorks, May, UpToDate, Parsed
<1> QED BY <1>3, <1>4, <1>5, <1>6, <1>7 DEF SafeInv

LEMMA InstallSafe ==
    ASSUME TypeInv, MutualExclusion, SafeInv, NEW s \in Procs, InstallStep(s)
    PROVE  SafeInv'
<1>0. job[s] \in Jobs
  BY DEF TypeInv, TypeOK
<1>a. /\ OnlyLocal => UNCHANGED Truth
      /\ OnlyLinks => UNCHANGED Truth
  BY DEF OnlyLocal, OnlyLinks, disk, Truth
<1>1. CASE Download(s)
  <2>1. CASE Return(s, "download", FALSE)
    BY <1>1, <1>a, <2>1, FrameReturn DEF Download, Fresh
  <2>2. CASE Move(s, "download", "unpack") /\ UNCHANGED job
    <3>1. job' = [job EXCEPT ![s] = job[s]]
      BY <2>2 DEF TypeInv, TypeOK
    <3> QED BY <1>1, <1>a, <2>2, <3>1, FrameIn
            DEF Download, Move, At, AfterCheck, Fresh, Applied
  <2> QED BY <1>1, <2>1, <2>2 DEF Download
\* The steps on the links keep what SafeInv reads of the record.
<1>b. ASSUME NEW j, Set(s, j), NEW from, NEW l, Move(s, from, l),
             UNCHANGED Truth, from \in Applied \ {"write"},
             l \in Applied \ {"write"},
             j.pkg = job[s].pkg, j.ver = job[s].ver, j.old = job[s].old
      PROVE  SafeInv'
  BY <1>b, FrameIn DEF Set, Move, At, AfterCheck, Fresh, Applied
<1>2. CASE DropBackup(s) \/ OldLinksDropped(s)
  <2>1. CASE DropBackup(s)
    <3> DEFINE j == [job[s] EXCEPT !.backup = None, !.todo = job[s].old.links]
    <3>1. j.pkg = job[s].pkg /\ j.ver = job[s].ver /\ j.old = job[s].old
      BY <1>0 DEF Jobs
    <3>2. Set(s, j) /\ Move(s, "drop", "oldlinks") /\ UNCHANGED Truth
      BY <2>1 DEF DropBackup, Truth
    <3> HIDE DEF j
    <3> QED BY <1>b, <3>1, <3>2 DEF Applied
  <2>2. CASE OldLinksDropped(s)
    <3> DEFINE j == [job[s] EXCEPT !.todo = Provides[job[s].pkg][job[s].ver]]
    <3>1. j.pkg = job[s].pkg /\ j.ver = job[s].ver /\ j.old = job[s].old
      BY <1>0 DEF Jobs
    <3>2. Set(s, j) /\ Move(s, "oldlinks", "clear") /\ UNCHANGED Truth
      BY <2>2, <1>a DEF OldLinksDropped
    <3> HIDE DEF j
    <3> QED BY <1>b, <3>1, <3>2 DEF Applied
  <2> QED BY <1>2, <2>1, <2>2
<1>3. CASE MakeLink(s) \/ MakeLinkFails(s)
  <2>1. \A x : LET j == [job[s] EXCEPT !.made = x, !.cur = {}] IN
               j.pkg = job[s].pkg /\ j.ver = job[s].ver /\ j.old = job[s].old
    BY <1>0 DEF Jobs
  <2>2. LET j == [job[s] EXCEPT !.cur = {}] IN
        j.pkg = job[s].pkg /\ j.ver = job[s].ver /\ j.old = job[s].old
    BY <1>0 DEF Jobs
  <2> QED BY <1>3, <1>a, <1>b, <2>1, <2>2 DEF MakeLink, MakeLinkFails, Applied
<1>4. CASE LinksDone(s)
  <2>1. Set(s, job[s])
    BY <1>4 DEF LinksDone, Set, TypeInv, TypeOK
  <2> QED BY <1>4, <1>a, <1>b, <2>1 DEF LinksDone, Applied
<1>5. ASSUME NEW n, DropOldLink(s, n) \/ ClearLink(s, n) PROVE SafeInv'
  <2>1. LET j == [job[s] EXCEPT !.todo = @ \ {n}] IN
        j.pkg = job[s].pkg /\ j.ver = job[s].ver /\ j.old = job[s].old
    BY <1>0 DEF Jobs
  <2>2. LET j == [job[s] EXCEPT !.todo = @ \ {n}, !.cur = {n}] IN
        j.pkg = job[s].pkg /\ j.ver = job[s].ver /\ j.old = job[s].old
    BY <1>0 DEF Jobs
  <2> QED BY <1>5, <1>a, <1>b, <2>1, <2>2 DEF DropOldLink, ClearLink, Applied
<1> QED
  BY <1>1, <1>2, <1>3, <1>4, <1>5, CheckSafe, UnpackSafe, SetAsideSafe, ApplySafe,
     TruncateSafe, WriteSafe DEF InstallStep

LEMMA UninstallSafe ==
    ASSUME TypeInv, MutualExclusion, SafeInv, NEW s \in Procs, UninstallStep(s)
    PROVE  SafeInv'
<1> DEFINE p == job[s].pkg
<1>0. /\ job[s] \in Jobs /\ p \in Pkgs /\ locks \in [Pkgs -> Locks]
      /\ pkgdir \in [Pkgs -> Contents]
  BY DEF TypeInv, TypeOK, Jobs
<1>1. CASE ReadLock(s)
  <2> DEFINE j == [job[s] EXCEPT !.todo = locks[p].links]
             l == IF locks[p] = NoLock THEN "udir" ELSE "ulinks"
  <2>1. j.pkg = p
    BY <1>0 DEF Jobs
  <2>2. job' = [job EXCEPT ![s] = j] /\ pc[s] = "ulock" /\ Goto(s, l)
    BY <1>1 DEF ReadLock, Move, At, Set
  <2>3. UNCHANGED Truth
    BY <1>1 DEF ReadLock, OnlyLocal, disk, Truth
  <2>4. /\ l \notin Inside /\ pc[s] \notin Fresh
        /\ l \in {"udir", "unlocked"} => locks[j.pkg] = NoLock
    BY <2>1, <2>2 DEF Inside, AfterCheck, Fresh
  <2> HIDE DEF j, l
  <2> QED BY <2>2, <2>3, <2>4, FrameOut
<1>2. ASSUME NEW n, RemoveLink(s, n) PROVE SafeInv'
  BY <1>2, FrameOut
     DEF RemoveLink, OnlyLinks, Truth, Move, At, Set, Inside, AfterCheck, Fresh
<1>3. CASE RemoveLock(s)
  <2>0. /\ pc[s] = "ulinks" /\ pc'[s] = "unlocked"
        /\ UNCHANGED <<ports, pkgdir, temp, job>>
        /\ locks' = [locks EXCEPT ![p] = NoLock]
        /\ \A t \in Procs : t # s => pc'[t] = pc[t]
    BY <1>3 DEF RemoveLock, Move, At, Goto, TypeInv, TypeOK
  <2>1. \A t \in Procs : t # s => pc[t] \notin Inside \cup {"udir", "unlocked"}
    BY <2>0, Alone DEF Holding
  <2>2. OldTableCurrent' /\ GoesUp' /\ WritesLast' /\ LockGone'
    BY <1>0, <2>0, <2>1 DEF SafeInv, OldTableCurrent, GoesUp, WritesLast, LockGone,
                            Inside, AfterCheck, At
  <2>3. LockBehindPort'
    <3>1. \A q \in Pkgs : ports[q] \in 0 .. MaxVersion
      BY DEF TypeInv, TypeOK
    <3> QED BY <1>0, <2>0, <3>1, ConstantsOK DEF SafeInv, LockBehindPort, NoLock
  <2>4. Carried'
    BY <2>0, <2>1 DEF SafeInv, Carried, Fresh, Applied, Inside, AfterCheck, At,
                      PassesFor, ApplyWorks, May
  <2>5. TempClean'
    BY <2>0 DEF SafeInv, TempClean, ApplyWorks, May, Fresh
  <2>6. UpToDateIfApplied'
    BY <1>0, <2>0 DEF SafeInv, UpToDateIfApplied, PassesFor, ApplyWorks, May,
                      UpToDate, Parsed, NoLock
  <2> QED BY <2>2, <2>3, <2>4, <2>5, <2>6 DEF SafeInv
<1>4. CASE RemoveDir(s)
  <2>0. /\ pc[s] \in {"udir", "unlocked"} /\ pc'[s] \in {"next", "fail"}
        /\ UNCHANGED <<ports, locks, temp>>
        /\ \A q \in Pkgs : q # p => pkgdir'[q] = pkgdir[q]
        /\ \A t \in Procs : t # s => pc'[t] = pc[t] /\ job'[t] = job[t]
    BY <1>0, <1>4 DEF RemoveDir, Return, Move, At, Goto, Set, TypeInv, TypeOK
  <2>1. \A t \in Procs : t # s => pc[t] \notin Inside \cup {"udir", "unlocked"}
    BY <2>0, Alone DEF Holding
  <2>2. OldTableCurrent' /\ GoesUp' /\ WritesLast' /\ LockGone' /\ LockBehindPort'
    BY <2>0 DEF SafeInv, OldTableCurrent, GoesUp, WritesLast, LockGone,
                LockBehindPort, Inside, AfterCheck, At
  <2>3. Carried'
    BY <2>0, <2>1 DEF Carried, Fresh, Applied, Inside, AfterCheck, At
  <2>4. TempClean'
    BY <2>0 DEF SafeInv, TempClean, ApplyWorks, May, Fresh
  <2>5. locks[p] = NoLock
    BY <2>0 DEF SafeInv, LockGone
  <2>6. UpToDateIfApplied'
    BY <2>0, <2>5 DEF SafeInv, UpToDateIfApplied, PassesFor, ApplyWorks, May,
                      UpToDate, Parsed, NoLock
  <2> QED BY <2>2, <2>3, <2>4, <2>6 DEF SafeInv
<1> QED BY <1>1, <1>2, <1>3, <1>4 DEF UninstallStep

LEMMA OtherSafe ==
    ASSUME TypeInv, MutualExclusion, SafeInv, NEW s \in Procs,
           \/ SessionStep(s) \/ RepairStep(s)
           \/ \E c \in Commands, a \in SUBSET Pkgs : Start(s, c, a)
    PROVE  SafeInv'
<1>a. ASSUME NEW j, Set(s, j), NEW from, NEW l, Move(s, from, l), UNCHANGED Truth,
             from \notin Fresh, l \notin Inside \cup {"udir", "unlocked"}
      PROVE  SafeInv'
  BY <1>a, FrameOut DEF Set, Move, At
<1>b. /\ OnlyLocal => UNCHANGED Truth
      /\ OnlyLinks => UNCHANGED Truth
      /\ UNCHANGED disk => UNCHANGED Truth
  BY DEF OnlyLocal, OnlyLinks, disk, Truth
<1> USE DEF Fresh, Inside, AfterCheck
<1>1. ASSUME NEW c, NEW a, Start(s, c, a) PROVE SafeInv'
  BY <1>1, <1>a, <1>b DEF Start
<1>2. CASE Acquire(s) \/ TimeOut(s) \/ InstallCore(s)
  BY <1>2, <1>a, <1>b DEF Acquire, TimeOut, InstallCore
<1>3. CASE Finish(s) \/ Fail(s)
  BY <1>3, <1>a, <1>b DEF Finish, Fail, Release
<1>4. ASSUME NEW p, NextArgument(s, p) \/ NextUpgrade(s, p) PROVE SafeInv'
  BY <1>4, <1>a, <1>b DEF NextArgument, NextUpgrade
<1>5. CASE RepairStep(s)
  <2>1. CASE RemakeLink(s) \/ RemakeLinkFails(s) \/ PortRepaired(s) \/ RepairDone(s)
    BY <2>1, <1>a, <1>b DEF RemakeLink, RemakeLinkFails, PortRepaired, RepairDone
  <2>2. ASSUME NEW p, RepairPort(s, p) \/ SkipLink(s, p) \/ LinkIsMissing(s, p)
        PROVE  SafeInv'
    BY <2>2, <1>a, <1>b DEF RepairPort, SkipLink, LinkIsMissing
  <2> QED BY <1>5, <2>1, <2>2 DEF RepairStep
<1> QED BY <1>1, <1>2, <1>3, <1>4, <1>5 DEF SessionStep

\* A crash, also while an archive is unpacked or a directory removed.
LEMMA CrashSafe ==
    ASSUME TypeInv, MutualExclusion, SafeInv, NEW s \in Procs, Crash(s)
    PROVE  SafeInv'
<1> DEFINE p == job[s].pkg
<1>0. /\ job[s] \in Jobs /\ p \in Pkgs /\ May("crash") /\ pc'[s] = "idle"
      /\ UNCHANGED <<ports, locks>>
      /\ temp \in [Pkgs -> Contents] /\ pkgdir \in [Pkgs -> Contents]
      /\ \A t \in Procs : t # s => pc'[t] = pc[t] /\ job'[t] = job[t]
  BY DEF TypeInv, TypeOK, Jobs, Crash, Goto, Set
<1>1. \/ UNCHANGED <<temp, pkgdir>>
      \/ /\ Holding(s)
         /\ \A q \in Pkgs : temp'[q] # temp[q] => q = p /\ pc[s] = "unpack"
         /\ \A q \in Pkgs : pkgdir'[q] # pkgdir[q] =>
                               q = p /\ pc[s] \in {"udir", "unlocked"}
  BY <1>0 DEF Crash, At, Holding
<1>2. OldTableCurrent' /\ GoesUp' /\ WritesLast' /\ LockGone' /\ LockBehindPort'
  BY <1>0 DEF SafeInv, OldTableCurrent, GoesUp, WritesLast, LockGone,
              LockBehindPort, Inside, AfterCheck, At
<1>3. Carried'
  <2>1. CASE UNCHANGED <<temp, pkgdir>>
    BY <1>0, <2>1 DEF SafeInv, Carried, Fresh, Applied, At, PassesFor, ApplyWorks, May
  <2>2. CASE Holding(s)
    <3>1. \A t \in Procs : t # s => pc[t] \notin Inside
      BY <2>2, Alone
    <3> QED BY <1>0, <3>1 DEF Carried, Fresh, Applied, Inside, AfterCheck, At
  <2> QED BY <1>1, <2>1, <2>2
<1>4. TempClean'
  BY <1>0 DEF TempClean, May
<1>5. UpToDateIfApplied'
  <2>1. \A q \in Pkgs : pkgdir'[q] # pkgdir[q] => locks[q] = NoLock
    BY <1>1 DEF SafeInv, LockGone
  <2> QED BY <1>0, <2>1 DEF SafeInv, UpToDateIfApplied, PassesFor, ApplyWorks, May,
                            UpToDate, Parsed, NoLock
<1> QED BY <1>2, <1>3, <1>4, <1>5 DEF SafeInv

\* A port goes up, and no lock file and no installation was ahead of it.
LEMMA PullSafe ==
    ASSUME TypeInv, SafeInv, NEW q \in Pkgs, Pull(q)
    PROVE  SafeInv'
<1>0. /\ UNCHANGED <<locks, pkgdir, temp, pc, job>> /\ ports \in [Pkgs -> 0 .. MaxVersion]
      /\ locks \in [Pkgs -> Locks] /\ job \in [Procs -> Jobs] /\ MaxVersion \in Nat
  BY ConstantsOK DEF TypeInv, TypeOK, Pull
<1>1. /\ \A p \in Pkgs : p # q => ports'[p] = ports[p]
      /\ ports[q] # None
      /\ ports'[q] = None \/ (ports'[q] \in Int /\ ports'[q] > ports[q])
  BY <1>0 DEF Pull
<1>2. \A p \in Pkgs : ports[p] \in Int /\ locks[p].version \in Int
  BY <1>0 DEF Locks
<1>3. \A s \in Procs : job[s].ver \in Int /\ job[s].pkg \in Pkgs
  BY <1>0 DEF Jobs
<1>4. LockBehindPort'
  BY <1>0, <1>1, <1>2 DEF SafeInv, LockBehindPort
<1>5. GoesUp'
  BY <1>0, <1>1, <1>2, <1>3 DEF SafeInv, GoesUp
<1>6. OldTableCurrent' /\ WritesLast' /\ LockGone' /\ Carried' /\ TempClean'
  BY <1>0 DEF SafeInv, OldTableCurrent, WritesLast, LockGone, Carried, TempClean, At,
              PassesFor, ApplyWorks, May
<1>7. ASSUME NEW p \in Pkgs, ApplyWorks, UpToDate(p)'
      PROVE  PassesFor(p, pkgdir[p], ports'[p])
  <2>1. locks[p].version > 0 /\ locks[p].version = ports'[p]
    BY <1>0, <1>7 DEF UpToDate, Parsed
  <2>2. CASE p = q
    BY <1>1, <1>2, <2>1, <2>2 DEF SafeInv, LockBehindPort, None
  <2>3. CASE p # q
    BY <1>1, <1>7, <2>1, <2>3 DEF SafeInv, UpToDateIfApplied, UpToDate, Parsed
  <2> QED BY <2>2, <2>3
<1>8. UpToDateIfApplied'
  BY <1>0, <1>7 DEF UpToDateIfApplied, PassesFor, ApplyWorks, May
<1> QED BY <1>4, <1>5, <1>6, <1>8 DEF SafeInv

LEMMA InitSafe == Init => SafeInv
<1> SUFFICES ASSUME Init PROVE SafeInv
  OBVIOUS
<1>1. OldTableCurrent /\ GoesUp /\ WritesLast /\ LockGone /\ Carried
  BY DEF Init, OldTableCurrent, GoesUp, WritesLast, LockGone, Carried, Inside,
         AfterCheck, Fresh, Applied, At
<1>2. LockBehindPort /\ TempClean /\ UpToDateIfApplied
  BY DEF Init, LockBehindPort, TempClean, UpToDateIfApplied, UpToDate, Parsed, NoLock, None
<1> QED BY <1>1, <1>2 DEF SafeInv

LEMMA NextSafe == TypeInv /\ MutualExclusion /\ SafeInv /\ [Next]_vars => SafeInv'
<1> SUFFICES ASSUME TypeInv, MutualExclusion, SafeInv, [Next]_vars PROVE SafeInv'
  OBVIOUS
<1>1. CASE Next
  BY <1>1, InstallSafe, UninstallSafe, OtherSafe, CrashSafe, PullSafe DEF Next, Step
<1>2. CASE UNCHANGED vars
  BY <1>2 DEF vars, SafeInv, OldTableCurrent, LockBehindPort, GoesUp, WritesLast,
              LockGone, Carried, TempClean, UpToDateIfApplied, UpToDate, At, PassesFor,
              ApplyWorks, May
<1> QED BY <1>1, <1>2

LEMMA SafeInvCorrect == Spec => []SafeInv
BY InitSafe, NextSafe, TypeInvCorrect, Exclusive, PTL DEF Spec

\* What Install-Port knows of the lock file from line 289 on stays true to 423,
\* without a lock on the file: the mutex is enough, whatever crashes.
THEOREM Snapshot == Spec => []OldTableCurrent
<1>1. SafeInv => OldTableCurrent
  BY DEF SafeInv
<1> QED BY <1>1, SafeInvCorrect, PTL

\* Where directories can be replaced, "is up to date" is only said of a package
\* whose directory is there and holds that version, or, an archive in a world
\* where processes are killed, perhaps a mixture, whatever was interrupted before.
THEOREM UpToDateCorrect == Spec => [](ApplyWorks => UpToDateIsTrue)
<1>1. SafeInv => (ApplyWorks => UpToDateIsTrue)
  BY DEF SafeInv, UpToDateIfApplied, UpToDateIsTrue
<1> QED BY <1>1, SafeInvCorrect, PTL
=============================================================================
