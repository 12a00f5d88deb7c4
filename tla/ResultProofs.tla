---------------------------- MODULE ResultProofs ----------------------------
(***************************************************************************)
(* What a command of devi leaves behind: a copy of every package a lock    *)
(* file speaks of, packages that are as they were reported, and the links  *)
(* a repair goes for.                                                      *)
(***************************************************************************)
EXTENDS DeviProofs

-----------------------------------------------------------------------------
(* A copy of the package is somewhere.                                     *)

\* With both, an unpacking that fails takes the copy away that a failed move
\* left in .temp.
NotBoth == ~May("move") \/ ~May("unpack")
InTemp(p) == May("move") /\ temp[p] # None

CopyKept ==
    \A p \in Pkgs : locks[p] # NoLock =>
        \/ pkgdir[p] # None \/ p \in stray \/ InTemp(p)
        \/ \E s \in Procs : job[s].pkg = p /\ job[s].backup # None
NewCopy ==
    \A s \in Procs :
        /\ pc[s] \in Fresh => temp[job[s].pkg] # None
        /\ pc[s] \in Applied => pkgdir[job[s].pkg] # None \/ InTemp(job[s].pkg)
BackupBriefly == \A s \in Procs : job[s].backup # None => pc[s] \in {"move", "drop"}
CopyInv == CopyKept /\ NewCopy /\ BackupBriefly

\* What is left of a process record when Install-Port or Uninstall-Port returns.
LEMMA Returned ==
    ASSUME TypeInv, NEW s \in Procs, NEW from, NEW ok, Return(s, from, ok)
    PROVE  LET j == job[s]  k == job'[s] IN
           /\ pc[s] = from /\ pc'[s] \in {"next", "fail"}
           /\ k.cmd = j.cmd /\ k.args = j.args /\ k.table = j.table /\ k.pkg = j.pkg
           /\ k.backup = j.backup /\ k.cur = j.cur /\ k.todo = {} /\ k.made = {}
           /\ k.done = IF ok THEN j.done \cup {j.pkg} ELSE j.done
<1>0. job[s] \in Jobs /\ job \in [Procs -> Jobs] /\ pc \in [Procs -> Labels]
  BY DEF TypeInv, TypeOK
<1>1. pc[s] = from /\ pc'[s] \in {"next", "fail"}
  BY <1>0 DEF Return, Move, At, Goto
<1> DEFINE l == Left(job[s])
           k == [l EXCEPT !.done = IF ok THEN @ \cup {job[s].pkg} ELSE @,
                          !.failed = IF ok \/ job[s].cmd = "core" THEN @ ELSE @ \cup {job[s].pkg}]
<1>2. /\ l \in Jobs /\ l.cmd = job[s].cmd /\ l.args = job[s].args /\ l.table = job[s].table
      /\ l.pkg = job[s].pkg /\ l.backup = job[s].backup /\ l.cur = job[s].cur
      /\ l.todo = {} /\ l.made = {} /\ l.done = job[s].done
  BY <1>0, LeftType DEF Left, Jobs
<1>3. job'[s] = k
  BY <1>0 DEF Return, Set
<1> HIDE DEF l
<1>4. /\ k.cmd = l.cmd /\ k.args = l.args /\ k.table = l.table /\ k.pkg = l.pkg
      /\ k.backup = l.backup /\ k.cur = l.cur /\ k.todo = l.todo /\ k.made = l.made
      /\ k.done = IF ok THEN l.done \cup {job[s].pkg} ELSE l.done
  BY <1>2 DEF Jobs
<1> QED
  BY <1>1, <1>2, <1>3, <1>4

\* A step that leaves the directories alone, of a process without a backup.
LEMMA CopyFrame ==
    ASSUME CopyInv, NEW s \in Procs,
           \A t \in Procs : t # s => pc'[t] = pc[t] /\ job'[t] = job[t],
           UNCHANGED <<pkgdir, temp, stray>>,
           \A p \in Pkgs : locks'[p] # NoLock => locks[p] # NoLock,
           job[s].backup = None, job'[s].backup = None,
           pc'[s] \notin Fresh,
           pc'[s] \in Applied => pc[s] \in Applied /\ job'[s].pkg = job[s].pkg
    PROVE  CopyInv'
<1>1. BackupBriefly' /\ NewCopy'
  BY DEF CopyInv, BackupBriefly, NewCopy, InTemp, May
<1>2. ASSUME NEW p \in Pkgs, locks'[p] # NoLock
      PROVE  \/ pkgdir'[p] # None \/ p \in stray' \/ InTemp(p)'
             \/ \E t \in Procs : job'[t].pkg = p /\ job'[t].backup # None
  <2>1. \/ pkgdir[p] # None \/ p \in stray \/ InTemp(p)
        \/ \E t \in Procs : job[t].pkg = p /\ job[t].backup # None
    BY <1>2 DEF CopyInv, CopyKept
  <2>2. ASSUME NEW t \in Procs, job[t].pkg = p, job[t].backup # None
        PROVE  job'[t].pkg = p /\ job'[t].backup # None
    BY <2>2
  <2> QED
    BY <2>1, <2>2 DEF InTemp, May
<1> QED
  BY <1>1, <1>2 DEF CopyInv, CopyKept

\* The steps of the process that replaces, or removes, the directory of p or
\* its lock file; whatever another process held back for p stays.
LEMMA CopyStep ==
    ASSUME MutualExclusion, CopyInv, NEW s \in Procs, Holding(s),
           \A t \in Procs : t # s => pc'[t] = pc[t] /\ job'[t] = job[t],
           stray \subseteq stray', NEW p \in Pkgs, p = job[s].pkg,
           \A q \in Pkgs : q # p => /\ locks'[q] = locks[q]
                                    /\ pkgdir'[q] = pkgdir[q] /\ temp'[q] = temp[q],
           job'[s].backup # None => pc'[s] \in {"move", "drop"},
           pc'[s] \in Fresh => temp'[job'[s].pkg] # None,
           pc'[s] \in Applied => pkgdir'[job'[s].pkg] # None \/ InTemp(job[s].pkg)',
           locks'[p] # NoLock => \/ pkgdir'[p] # None \/ p \in stray' \/ InTemp(p)'
                                \/ \E t \in Procs : job'[t].pkg = p /\ job'[t].backup # None
    PROVE  CopyInv'
<1>1. \A t \in Procs : t # s => pc'[t] \notin Fresh \cup Applied \cup {"move", "drop"}
  BY Alone DEF Inside, AfterCheck, Fresh, Applied
<1>2. BackupBriefly' /\ NewCopy'
  BY <1>1 DEF CopyInv, BackupBriefly, NewCopy
<1>3. ASSUME NEW q \in Pkgs, q # p, locks'[q] # NoLock
      PROVE  \/ pkgdir'[q] # None \/ q \in stray' \/ InTemp(q)'
             \/ \E t \in Procs : job'[t].pkg = q /\ job'[t].backup # None
  <2>1. \/ pkgdir[q] # None \/ q \in stray \/ InTemp(q)
        \/ \E t \in Procs : job[t].pkg = q /\ job[t].backup # None
    BY <1>3 DEF CopyInv, CopyKept
  <2>2. ASSUME NEW t \in Procs, job[t].pkg = q, job[t].backup # None
        PROVE  job'[t].pkg = q /\ job'[t].backup # None
    BY <1>3, <2>2
  <2> QED
    BY <1>3, <2>1, <2>2 DEF InTemp, May
<1> QED
  BY <1>2, <1>3 DEF CopyInv, CopyKept

LEMMA CopyInstall ==
    ASSUME TypeInv, MutualExclusion, NotBoth, CopyInv, NEW s \in Procs,
           \/ Unpack(s) \/ SetAside(s) \/ Apply(s) \/ DropBackup(s)
           \/ TruncateLock(s) \/ WriteLock(s)
    PROVE  CopyInv'
<1> USE DEF Move, At, Goto
<1>1. PICK p \in Pkgs : p = job[s].pkg
  BY DEF TypeInv, TypeOK, Jobs
<1>0. /\ job[s] \in Jobs /\ job \in [Procs -> Jobs] /\ pc \in [Procs -> Labels]
      /\ locks \in [Pkgs -> Locks] /\ pkgdir \in [Pkgs -> Contents]
      /\ temp \in [Pkgs -> Contents]
      /\ \A t \in Procs : t # s => pc'[t] = pc[t] /\ job'[t] = job[t]
  BY Others DEF TypeInv, TypeOK, Step, InstallStep
<1>2. /\ Holding(s) /\ stray \subseteq stray'
      /\ \A q \in Pkgs : q # p => /\ locks'[q] = locks[q]
                                /\ pkgdir'[q] = pkgdir[q] /\ temp'[q] = temp[q]
  BY <1>0, <1>1 DEF Unpack, SetAside, Apply, DropBackup, TruncateLock, WriteLock,
                    WriteVersion, Return, Holding
<1>3. /\ job[s].backup # None => pc[s] \in {"move", "drop"}
      /\ pc[s] \in Fresh => temp[p] # None
      /\ pc[s] \in Applied => pkgdir[p] # None \/ InTemp(p)
  BY <1>1 DEF CopyInv, BackupBriefly, NewCopy
<1>4. locks[p] # NoLock =>
        \/ pkgdir[p] # None \/ p \in stray \/ InTemp(p)
        \/ \E t \in Procs : job[t].pkg = p /\ job[t].backup # None
  BY DEF CopyInv, CopyKept
<1>5. CASE Unpack(s)
  <2>1. /\ pc[s] = "unpack" /\ job[s].backup = None /\ UNCHANGED <<locks, pkgdir>>
        /\ job'[s].backup = None /\ job'[s].pkg = p
    <3>1. pc[s] = "unpack" /\ UNCHANGED <<locks, pkgdir>>
      BY <1>5 DEF Unpack, Return
    <3>2. job'[s].backup = job[s].backup /\ job'[s].pkg = p
      BY <1>1, <1>5, Returned DEF Unpack
    <3> QED
      BY <1>3, <3>1, <3>2
  <2>2. CASE pc'[s] = "rename" /\ temp'[p] \in Unpacked(p, temp[p], job[s].ver)
    <3>1. job[s].ver \in Versions
      BY <2>1 DEF TypeInv, VersionRead, AfterCheck
    <3>2. temp'[p] # None
      <4>1. temp'[p] \in {job[s].ver, Mixed}
        BY <2>2 DEF Unpacked
      <4> QED
        BY <3>1, <4>1, ConstantsOK DEF Mixed, None, Versions
    <3>3. locks'[p] # NoLock =>
            \/ pkgdir'[p] # None \/ p \in stray' \/ InTemp(p)'
            \/ \E t \in Procs : job'[t].pkg = p /\ job'[t].backup # None
      BY <1>0, <1>2, <1>4, <2>1, <3>2 DEF InTemp, May
    <3> QED
      BY <1>0, <1>1, <1>2, <2>1, <2>2, <3>2, <3>3, CopyStep DEF Fresh, Applied
  <2>3. CASE pc'[s] \in {"next", "fail"} /\ May("unpack")
    <3>1. locks'[p] # NoLock =>
            \/ pkgdir'[p] # None \/ p \in stray' \/ InTemp(p)'
            \/ \E t \in Procs : job'[t].pkg = p /\ job'[t].backup # None
      BY <1>0, <1>2, <1>4, <2>1, <2>3 DEF InTemp, NotBoth
    <3> QED
      BY <1>0, <1>1, <1>2, <2>1, <2>3, <3>1, CopyStep DEF Fresh, Applied
  <2> QED
    BY <1>0, <1>1, <1>5, <2>2, <2>3 DEF Unpack, Return
<1>6. CASE SetAside(s)
  <2>1. /\ pc[s] = "rename" /\ pc'[s] = "move" /\ UNCHANGED <<locks, temp>>
        /\ job'[s].pkg = p /\ job[s].backup = None
        /\ pkgdir' = pkgdir \/ job'[s].backup = pkgdir[p]
    BY <1>0, <1>1, <1>3, <1>6 DEF SetAside, Set, Jobs
  <2>2. locks'[p] # NoLock =>
          \/ pkgdir'[p] # None \/ p \in stray' \/ InTemp(p)'
          \/ \E t \in Procs : job'[t].pkg = p /\ job'[t].backup # None
    BY <1>0, <1>2, <1>4, <2>1 DEF InTemp, May
  <2> QED
    BY <1>0, <1>1, <1>2, <1>3, <2>1, <2>2, CopyStep DEF Fresh, Applied
<1>7. CASE Apply(s)
  <2>1. /\ pc[s] = "move" /\ pc'[s] = "drop" /\ UNCHANGED <<locks, job>>
        /\ pkgdir'[p] # None \/ InTemp(p)'
    BY <1>0, <1>1, <1>3, <1>7 DEF Apply, Fresh, InTemp, May
  <2> QED
    BY <1>0, <1>1, <1>2, <2>1, CopyStep DEF Fresh, Applied
<1>8. CASE DropBackup(s)
  <2>1. /\ pc[s] = "drop" /\ pc'[s] = "oldlinks" /\ UNCHANGED <<locks, pkgdir, temp>>
        /\ job'[s].pkg = p /\ job'[s].backup = None
    BY <1>0, <1>1, <1>8 DEF DropBackup, Set, Jobs
  <2>2. pkgdir'[p] # None \/ InTemp(p)'
    BY <1>3, <2>1 DEF Applied, InTemp, May
  <2> QED
    BY <1>0, <1>1, <1>2, <2>1, <2>2, CopyStep DEF Fresh, Applied
<1>9. CASE TruncateLock(s) \/ WriteLock(s)
  <2>1. /\ pc[s] \in {"trunc", "write"} /\ pc'[s] \in {"write", "next", "fail"}
        /\ UNCHANGED <<pkgdir, temp>> /\ job'[s].pkg = p /\ job'[s].backup = job[s].backup
    BY <1>0, <1>1, <1>9, Returned DEF TruncateLock, WriteLock, WriteVersion
  <2>2. job'[s].backup = None /\ (pkgdir'[p] # None \/ InTemp(p)')
    BY <1>3, <2>1 DEF Applied, InTemp, May
  <2> QED
    BY <1>0, <1>1, <1>2, <2>1, <2>2, CopyStep DEF Fresh
<1> QED
  BY <1>5, <1>6, <1>7, <1>8, <1>9

LEMMA CopyLocal ==
    ASSUME TypeInv, CopyInv, NEW s \in Procs,
           \/ SessionStep(s) \/ RepairStep(s)
           \/ \E c \in Commands, a \in SUBSET Pkgs : Start(s, c, a)
           \/ CheckPort(s) \/ Download(s) \/ OldLinksDropped(s) \/ LinksDone(s)
           \/ MakeLink(s) \/ MakeLinkFails(s) \/ ReadLock(s) \/ RemoveLock(s)
           \/ \E n \in job[s].todo : DropOldLink(s, n) \/ ClearLink(s, n) \/ RemoveLink(s, n)
    PROVE  CopyInv'
<1> USE DEF Move, At, Goto
<1>0. /\ job[s] \in Jobs /\ job \in [Procs -> Jobs] /\ pc \in [Procs -> Labels]
      /\ locks \in [Pkgs -> Locks]
      /\ \A t \in Procs : t # s => pc'[t] = pc[t] /\ job'[t] = job[t]
  BY Others DEF TypeInv, TypeOK, Step, InstallStep, UninstallStep
<1>1. pc[s] \notin {"move", "drop"} => job[s].backup = None
  BY DEF CopyInv, BackupBriefly
\* The record changes, but not its backup, outside of the steps above.
<1>2. ASSUME NEW j, Set(s, j), j.backup = job[s].backup \/ j.backup = None,
             pc[s] \notin {"move", "drop"}, pc'[s] \notin Fresh \cup Applied,
             UNCHANGED <<pkgdir, temp, stray>>,
             locks' = locks \/ RemoveLock(s)
      PROVE  CopyInv'
  <2>1. job'[s] = j
    BY <1>0, <1>2 DEF Set
  <2>2. \A p \in Pkgs : locks'[p] # NoLock => locks[p] # NoLock
    BY <1>0, <1>2 DEF RemoveLock
  <2> QED
    BY <1>0, <1>1, <1>2, <2>1, <2>2, CopyFrame
<1>3. ASSUME NEW from, NEW ok, Return(s, from, ok), from \notin {"move", "drop"},
             UNCHANGED <<pkgdir, temp, stray, locks>>
      PROVE  CopyInv'
  <2>1. /\ pc[s] = from /\ pc'[s] \in {"next", "fail"} /\ job'[s].backup = job[s].backup
    BY <1>3, Returned
  <2> QED
    BY <1>0, <1>1, <1>3, <2>1, CopyFrame DEF Fresh, Applied
<1>4. CASE SessionStep(s) \/ \E c \in Commands, a \in SUBSET Pkgs : Start(s, c, a)
  <2>1. /\ pc[s] \notin {"move", "drop"} /\ pc'[s] \notin Fresh \cup Applied
        /\ UNCHANGED <<pkgdir, temp, stray, locks>>
    BY <1>0, <1>4 DEF SessionStep, Acquire, TimeOut, InstallCore, Finish, Fail, Release,
                      NextArgument, NextUpgrade, Start, OnlyLocal, disk, Fresh, Applied
  <2>2. CASE \E c, a : Start(s, c, a)
    BY <1>2, <2>1, <2>2 DEF Start, NewJob
  <2>3. CASE TimeOut(s) \/ Finish(s) \/ Fail(s)
    BY <1>2, <2>1, <2>3 DEF TimeOut, Finish, Fail, Release, Exited, NewJob
  <2>4. CASE Acquire(s) \/ InstallCore(s) \/ \E p : NextArgument(s, p)
    BY <1>0, <1>2, <2>1, <2>4 DEF Acquire, InstallCore, NextArgument, Jobs
  <2>5. ASSUME NEW p, NextUpgrade(s, p) PROVE CopyInv'
    <3> DEFINE j == [job[s] EXCEPT !.args = @ \ {p}]
    <3>1. /\ [j EXCEPT !.failed = @ \cup {p}].backup = job[s].backup
          /\ [j EXCEPT !.pkg = p].backup = job[s].backup
          /\ [j EXCEPT !.pkg = p, !.table = @ \cup {p}].backup = job[s].backup
      BY <1>0 DEF Jobs
    <3>2. \/ Set(s, [j EXCEPT !.failed = @ \cup {p}])
          \/ Set(s, [j EXCEPT !.pkg = p])
          \/ Set(s, [j EXCEPT !.pkg = p, !.table = @ \cup {p}])
      BY <2>5 DEF NextUpgrade
    <3> QED
      BY <1>2, <2>1, <3>1, <3>2
  <2> QED
    BY <1>4, <2>2, <2>3, <2>4, <2>5 DEF SessionStep
<1>5. CASE RepairStep(s)
  <2>1. /\ pc[s] \notin {"move", "drop"} /\ pc'[s] \notin Fresh \cup Applied
        /\ UNCHANGED <<pkgdir, temp, stray, locks>>
    BY <1>0, <1>5 DEF RepairStep, RemakeLink, RemakeLinkFails, PortRepaired, RepairDone,
                      RepairPort, SkipLink, LinkIsMissing, OnlyLocal, OnlyLinks, disk,
                      Fresh, Applied
  <2>2. PICK j : Set(s, j) /\ (j.backup = job[s].backup \/ j.backup = None)
    <3>1. CASE RemakeLinkFails(s) \/ RepairDone(s)
      <4>1. \A code : Exited(job[s], code).backup = None
        BY DEF Exited, NewJob
      <4> QED
        BY <3>1, <4>1 DEF RemakeLinkFails, RepairDone
    <3>2. CASE PortRepaired(s) \/ RemakeLink(s) \/ \E n : SkipLink(s, n) \/ LinkIsMissing(s, n)
      <4>1. /\ Left(job[s]).backup = job[s].backup
            /\ [job[s] EXCEPT !.cur = {}].backup = job[s].backup
            /\ \A n : /\ [job[s] EXCEPT !.todo = @ \ {n}].backup = job[s].backup
                      /\ [job[s] EXCEPT !.todo = @ \ {n}, !.cur = {n}].backup = job[s].backup
        BY <1>0 DEF Left, Jobs
      <4>2. \/ Set(s, Left(job[s])) \/ Set(s, [job[s] EXCEPT !.cur = {}])
            \/ \E n : \/ Set(s, [job[s] EXCEPT !.todo = @ \ {n}])
                     \/ Set(s, [job[s] EXCEPT !.todo = @ \ {n}, !.cur = {n}])
        BY <3>2 DEF PortRepaired, RemakeLink, SkipLink, LinkIsMissing
      <4> QED
        BY <4>1, <4>2
    <3>3. ASSUME NEW p, RepairPort(s, p)
          PROVE  \E j : Set(s, j) /\ (j.backup = job[s].backup \/ j.backup = None)
      <4> DEFINE j == [job[s] EXCEPT !.args = @ \ {p}]
      <4>1. /\ j.backup = job[s].backup
            /\ [j EXCEPT !.pkg = p, !.ver = ports[p],
                         !.todo = Provides[p][ports[p]]].backup = job[s].backup
        BY <1>0 DEF Jobs
      <4>2. \/ Set(s, j)
            \/ Set(s, [j EXCEPT !.pkg = p, !.ver = ports[p], !.todo = Provides[p][ports[p]]])
        BY <3>3 DEF RepairPort
      <4> HIDE DEF j
      <4> QED
        BY <4>1, <4>2
    <3> QED
      BY <1>5, <3>1, <3>2, <3>3 DEF RepairStep
  <2> QED
    BY <1>2, <2>1, <2>2
<1>6. CASE CheckPort(s) \/ Download(s)
  <2>1. UNCHANGED <<pkgdir, temp, stray, locks>>
    BY <1>6 DEF CheckPort, Download, OnlyLocal, disk
  <2>2. CASE Return(s, "check", FALSE) \/ Return(s, "check", TRUE) \/ Return(s, "download", FALSE)
    BY <1>3, <2>1, <2>2
  <2>3. CASE /\ pc[s] = "check" /\ Goto(s, "download")
             /\ Set(s, [job[s] EXCEPT !.ver = ports[job[s].pkg], !.old = locks[job[s].pkg]])
    BY <1>0, <1>2, <2>1, <2>3 DEF Jobs, Fresh, Applied
  <2>4. CASE pc[s] = "download" /\ Goto(s, "unpack") /\ UNCHANGED job
    BY <1>0, <1>1, <2>1, <2>4, CopyFrame DEF Fresh, Applied
  <2> QED
    BY <1>6, <2>2, <2>3, <2>4 DEF CheckPort, Download
<1>7. CASE \/ ReadLock(s) \/ RemoveLock(s) \/ \E n \in job[s].todo : RemoveLink(s, n)
  <2>1. /\ pc[s] \notin {"move", "drop"} /\ pc'[s] \notin Fresh \cup Applied
        /\ UNCHANGED <<pkgdir, temp, stray>> /\ (locks' = locks \/ RemoveLock(s))
    BY <1>0, <1>7 DEF ReadLock, RemoveLock, RemoveLink, OnlyLocal, OnlyLinks, disk,
                      Fresh, Applied
  <2>2. PICK j : Set(s, j) /\ j.backup = job[s].backup
    BY <1>0, <1>7 DEF ReadLock, RemoveLock, RemoveLink, Set, Jobs
  <2> QED
    BY <1>2, <2>1, <2>2
\* The loops over the links, after the backup is gone.
<1>8. CASE \/ OldLinksDropped(s) \/ LinksDone(s) \/ MakeLink(s) \/ MakeLinkFails(s)
           \/ \E n \in job[s].todo : DropOldLink(s, n) \/ ClearLink(s, n)
  <2>1. /\ pc[s] \in Applied \ {"drop"} /\ pc'[s] \in Applied \ {"drop"}
        /\ UNCHANGED <<pkgdir, temp, stray, locks>>
    BY <1>0, <1>8 DEF OldLinksDropped, LinksDone, MakeLink, MakeLinkFails, DropOldLink,
                      ClearLink, OnlyLocal, OnlyLinks, disk, Applied
  <2>2. job'[s].pkg = job[s].pkg /\ job'[s].backup = job[s].backup
    <3>1. CASE OldLinksDropped(s) \/ LinksDone(s)
      BY <1>0, <3>1 DEF OldLinksDropped, LinksDone, Set, Jobs
    <3>a. CASE MakeLink(s)
      BY <1>0, <3>a DEF MakeLink, Set, Jobs
    <3>b. CASE MakeLinkFails(s)
      BY <1>0, <3>b DEF MakeLinkFails, Set, Jobs
    <3>3. ASSUME NEW n \in job[s].todo, DropOldLink(s, n) \/ ClearLink(s, n)
          PROVE  job'[s].pkg = job[s].pkg /\ job'[s].backup = job[s].backup
      <4>1. CASE DropOldLink(s, n)
        BY <1>0, <4>1 DEF DropOldLink, Set, Jobs
      <4>2. CASE ClearLink(s, n)
        BY <1>0, <4>2 DEF ClearLink, Set, Jobs
      <4> QED
        BY <3>3, <4>1, <4>2
    <3> QED
      BY <1>8, <3>1, <3>a, <3>b, <3>3
  <2> QED
    BY <1>0, <1>1, <2>1, <2>2, CopyFrame DEF Fresh, Applied
<1> QED
  BY <1>4, <1>5, <1>6, <1>7, <1>8

LEMMA CopyRemoveDir ==
    ASSUME TypeInv, MutualExclusion, SafeInv, CopyInv, NEW s \in Procs, RemoveDir(s)
    PROVE  CopyInv'
<1> USE DEF Move, At, Goto
<1>1. PICK p \in Pkgs : p = job[s].pkg
  BY DEF TypeInv, TypeOK, Jobs
<1>0. /\ job[s] \in Jobs /\ job \in [Procs -> Jobs] /\ pc \in [Procs -> Labels]
      /\ pkgdir \in [Pkgs -> Contents]
      /\ \A t \in Procs : t # s => pc'[t] = pc[t] /\ job'[t] = job[t]
  BY Others DEF TypeInv, TypeOK, Step, UninstallStep
<1>2. /\ pc[s] \in {"udir", "unlocked"} /\ pc'[s] \in {"next", "fail"}
      /\ UNCHANGED <<locks, temp, stray>> /\ job'[s].backup = job[s].backup
      /\ \A q \in Pkgs : q # p => pkgdir'[q] = pkgdir[q]
  BY <1>0, <1>1, Returned DEF RemoveDir
<1>3. locks[p] = NoLock /\ job[s].backup = None /\ Holding(s)
  BY <1>1, <1>2 DEF SafeInv, LockGone, CopyInv, BackupBriefly, Holding
<1> QED
  BY <1>0, <1>1, <1>2, <1>3, CopyStep DEF Fresh, Applied

\* The backup of a process that dies becomes a directory nobody looks for.
LEMMA CopyCrash ==
    ASSUME TypeInv, CopyInv, NEW s \in Procs, Crash(s)
    PROVE  CopyInv'
<1>0. /\ job[s] \in Jobs /\ job \in [Procs -> Jobs] /\ pc \in [Procs -> Labels]
      /\ temp \in [Pkgs -> Contents] /\ pkgdir \in [Pkgs -> Contents] /\ job[s].pkg \in Pkgs
      /\ \A t \in Procs : t # s => pc'[t] = pc[t] /\ job'[t] = job[t]
  BY Others DEF TypeInv, TypeOK, Jobs
<1>1. /\ pc'[s] = "idle" /\ job'[s].backup = None /\ locks' = locks /\ stray \subseteq stray'
      /\ job[s].backup # None => job[s].pkg \in stray'
  BY <1>0 DEF Crash, Goto, Set, Exited, NewJob
<1>2. Mixed # None
  BY ConstantsOK DEF Mixed, None
<1>3. \A p \in Pkgs : /\ temp[p] # None => temp'[p] # None
                      /\ pkgdir[p] # None => pkgdir'[p] # None
  BY <1>0, <1>2 DEF Crash
<1>4. BackupBriefly'
  BY <1>0, <1>1 DEF CopyInv, BackupBriefly
<1>5. NewCopy'
  <2>1. \A t \in Procs : job[t].pkg \in Pkgs
    BY <1>0 DEF Jobs
  <2> QED
    BY <1>0, <1>1, <1>3, <2>1 DEF CopyInv, NewCopy, InTemp, May, Fresh, Applied
<1>6. ASSUME NEW p \in Pkgs, locks'[p] # NoLock
      PROVE  \/ pkgdir'[p] # None \/ p \in stray' \/ InTemp(p)'
             \/ \E t \in Procs : job'[t].pkg = p /\ job'[t].backup # None
  <2>1. \/ pkgdir[p] # None \/ p \in stray \/ InTemp(p)
        \/ \E t \in Procs : job[t].pkg = p /\ job[t].backup # None
    BY <1>1, <1>6 DEF CopyInv, CopyKept
  <2>2. ASSUME NEW t \in Procs, job[t].pkg = p, job[t].backup # None
        PROVE  p \in stray' \/ (job'[t].pkg = p /\ job'[t].backup # None)
    BY <1>0, <1>1, <2>2
  <2> QED
    BY <1>1, <1>3, <2>1, <2>2 DEF InTemp, May
<1> QED
  BY <1>4, <1>5, <1>6 DEF CopyInv, CopyKept

LEMMA NextCopy ==
    TypeInv /\ MutualExclusion /\ SafeInv /\ (NotBoth => CopyInv) /\ [Next]_vars
    => (NotBoth => CopyInv)'
<1> SUFFICES ASSUME TypeInv, MutualExclusion, SafeInv, NotBoth, CopyInv, [Next]_vars
             PROVE  CopyInv'
  BY DEF NotBoth, May
<1>1. CASE UNCHANGED vars \/ \E p \in Pkgs : Pull(p)
  BY <1>1 DEF vars, Pull, CopyInv, CopyKept, NewCopy, BackupBriefly, InTemp, May
<1>2. ASSUME NEW s \in Procs, InstallStep(s) \/ UninstallStep(s) PROVE CopyInv'
  BY <1>2, CopyInstall, CopyLocal, CopyRemoveDir DEF InstallStep, UninstallStep
<1> QED
  BY <1>1, <1>2, CopyLocal, CopyCrash DEF Next, Step

\* Whatever is cut short, a package that has a lock file has a directory: the
\* package directory, the unpacked new version, or a backup.
THEOREM CopyCorrect == Spec => [](NotBoth => UpgradeKeepsACopy)
<1>1. Init => (NotBoth => CopyInv)
  BY DEF Init, CopyInv, CopyKept, NewCopy, BackupBriefly, Fresh, Applied, NewJob
<1>2. CopyInv => UpgradeKeepsACopy
  BY DEF CopyInv, CopyKept, UpgradeKeepsACopy, InTemp
<1> QED
  BY <1>1, <1>2, NextCopy, TypeInvCorrect, Exclusive, SafeInvCorrect, PTL DEF Spec

-----------------------------------------------------------------------------
(* What was reported done.                                                 *)

Installing == Inside \cup {"check"}
Removing == {"ulock", "ulinks", "unlocked", "udir"}

\* What is done is not taken up again, but for a core port that is gone.
DoneOnce(s) ==
    /\ pc[s] \in Outside => job[s].done = {}
    /\ \A p \in job[s].done \cap job[s].args : job[s].cmd = "core" /\ ports[p] = None
    /\ pc[s] \in Installing \cup Removing =>
          /\ job[s].pkg \notin job[s].args
          /\ job[s].pkg \in job[s].done =>
                At(s, "check") /\ job[s].cmd = "core" /\ ports[job[s].pkg] = None
\* Which commands do what; upgrade --default removes what is not ported, and
\* keeps a table of the rest.
ByCommand(s) ==
    /\ pc[s] \in Installing => /\ job[s].cmd # "uninstall"
                               /\ job[s].cmd = "default" => job[s].pkg \in job[s].table
    /\ pc[s] \in Removing => /\ job[s].cmd \in {"uninstall", "default"}
                             /\ job[s].cmd = "default" => ports[job[s].pkg] = None
    /\ job[s].cmd = "default" => \A p \in job[s].done : p \in job[s].table \/ ports[p] = None
Doing == \A s \in Procs : DoneOnce(s) /\ ByCommand(s)

Results == {"check", "download", "unpack", "write", "udir", "unlocked"}
SameBooks(s) ==
    /\ job'[s].cmd = job[s].cmd /\ job'[s].args = job[s].args /\ job'[s].table = job[s].table
    /\ job'[s].pkg = job[s].pkg /\ job'[s].done = job[s].done

\* Installing Install-Port and Uninstall-Port the session's own variables stay.
LEMMA BooksStay ==
    ASSUME TypeInv, NEW s \in Procs, InstallStep(s) \/ UninstallStep(s)
    PROVE  \/ \E from \in Results, ok \in BOOLEAN : Return(s, from, ok)
           \/ /\ SameBooks(s) /\ pc'[s] # "check"
              /\ \/ pc[s] \in Installing /\ pc'[s] \in Installing
                 \/ pc[s] \in Removing /\ pc'[s] \in Removing
<1> USE DEF Move, At, Goto
<1>0. job[s] \in Jobs /\ job \in [Procs -> Jobs] /\ pc \in [Procs -> Labels]
  BY DEF TypeInv, TypeOK
<1> DEFINE Goal == \/ \E from \in Results, ok \in BOOLEAN : Return(s, from, ok)
                   \/ /\ SameBooks(s) /\ pc'[s] # "check"
                      /\ \/ pc[s] \in Installing /\ pc'[s] \in Installing
                         \/ pc[s] \in Removing /\ pc'[s] \in Removing
<1> SUFFICES Goal
  OBVIOUS
<1>1. CASE \E from \in Results, ok \in BOOLEAN : Return(s, from, ok)
  BY <1>1
<1>2. ASSUME SameBooks(s), pc'[s] # "check",
             \/ pc[s] \in Installing /\ pc'[s] \in Installing
             \/ pc[s] \in Removing /\ pc'[s] \in Removing
      PROVE  Goal
  BY <1>2
<1> HIDE DEF Goal
<1> USE DEF Installing, Inside, AfterCheck, Removing, Results
<1>3. CASE CheckPort(s) \/ Download(s) \/ Unpack(s)
  <2>1. CASE \E from \in {"check", "download", "unpack"}, ok \in BOOLEAN : Return(s, from, ok)
    BY <2>1 DEF Goal
  <2> DEFINE j == [job[s] EXCEPT !.ver = ports[job[s].pkg], !.old = locks[job[s].pkg]]
  <2>2. /\ j.cmd = job[s].cmd /\ j.args = job[s].args /\ j.table = job[s].table
        /\ j.pkg = job[s].pkg /\ j.done = job[s].done
    BY <1>0 DEF Jobs
  <2>4. CASE pc[s] = "check" /\ Goto(s, "download") /\ Set(s, j)
    <3>1. job'[s] = j /\ pc[s] = "check" /\ pc'[s] = "download"
      BY <1>0, <2>4 DEF Set
    <3> HIDE DEF j
    <3> QED
      BY <1>2, <2>2, <3>1 DEF SameBooks
  <2>5. CASE pc[s] \in {"download", "unpack"} /\ pc'[s] \in {"unpack", "rename"} /\ job' = job
    BY <1>2, <2>5 DEF SameBooks
  <2> QED
    BY <1>0, <1>3, <2>1, <2>4, <2>5 DEF CheckPort, Download, Unpack
<1>4. CASE SetAside(s) \/ DropBackup(s) \/ OldLinksDropped(s)
  <2>1. \A x : LET j == [job[s] EXCEPT !.backup = x] IN
          /\ j.cmd = job[s].cmd /\ j.args = job[s].args
          /\ j.table = job[s].table /\ j.pkg = job[s].pkg /\ j.done = job[s].done
    BY <1>0 DEF Jobs
  <2>2. CASE SetAside(s)
    <3>1. /\ pc[s] = "rename" /\ pc'[s] = "move"
          /\ job'[s] = job[s] \/ job'[s] = [job[s] EXCEPT !.backup = pkgdir[job[s].pkg]]
      BY <1>0, <2>2 DEF SetAside, Set
    <3> QED
      BY <1>2, <2>1, <3>1 DEF SameBooks
  <2>3. CASE DropBackup(s)
    <3> DEFINE j == [job[s] EXCEPT !.backup = None, !.todo = job[s].old.links]
    <3>1. /\ j.cmd = job[s].cmd /\ j.args = job[s].args /\ j.table = job[s].table
          /\ j.pkg = job[s].pkg /\ j.done = job[s].done
      BY <1>0 DEF Jobs
    <3>2. pc[s] = "drop" /\ pc'[s] = "oldlinks" /\ job'[s] = j
      BY <1>0, <2>3 DEF DropBackup, Set
    <3> HIDE DEF j
    <3> QED
      BY <1>2, <3>1, <3>2 DEF SameBooks
  <2>4. CASE OldLinksDropped(s)
    <3> DEFINE j == [job[s] EXCEPT !.todo = Provides[job[s].pkg][job[s].ver]]
    <3>1. /\ j.cmd = job[s].cmd /\ j.args = job[s].args /\ j.table = job[s].table
          /\ j.pkg = job[s].pkg /\ j.done = job[s].done
      BY <1>0 DEF Jobs
    <3>2. pc[s] = "oldlinks" /\ pc'[s] = "clear" /\ job'[s] = j
      BY <1>0, <2>4 DEF OldLinksDropped, Set
    <3> HIDE DEF j
    <3> QED
      BY <1>2, <3>1, <3>2 DEF SameBooks
  <2> QED
    BY <1>4, <2>2, <2>3, <2>4
<1>5. CASE Apply(s) \/ LinksDone(s) \/ TruncateLock(s)
  <2>1. /\ pc[s] \in Installing /\ pc'[s] \in Installing /\ pc'[s] # "check" /\ job' = job
    BY <1>0, <1>5 DEF Apply, LinksDone, TruncateLock
  <2> QED
    BY <1>2, <2>1 DEF SameBooks
<1>6. CASE WriteLock(s) \/ RemoveDir(s)
  BY <1>6 DEF WriteLock, WriteVersion, RemoveDir, Goal
\* The links: only todo, cur and made change.
<1>7. \A x, y, z : LET j == [job[s] EXCEPT !.todo = x, !.cur = y, !.made = z] IN
        /\ j.cmd = job[s].cmd /\ j.args = job[s].args /\ j.table = job[s].table
        /\ j.pkg = job[s].pkg /\ j.done = job[s].done
  BY <1>0 DEF Jobs
<1>8. ASSUME NEW x, NEW y, NEW z,
             Set(s, [job[s] EXCEPT !.todo = x, !.cur = y, !.made = z]), pc'[s] # "check",
             \/ pc[s] \in Installing /\ pc'[s] \in Installing
             \/ pc[s] \in Removing /\ pc'[s] \in Removing
      PROVE  Goal
  <2> DEFINE j == [job[s] EXCEPT !.todo = x, !.cur = y, !.made = z]
  <2>1. job'[s] = j
    BY <1>0, <1>8 DEF Set
  <2> HIDE DEF j
  <2> QED
    BY <1>7, <1>8, <2>1 DEF Goal, SameBooks, j
<1>9. CASE MakeLink(s) \/ MakeLinkFails(s) \/ ReadLock(s)
  <2>1. /\ pc'[s] # "check"
        /\ \/ pc[s] \in Installing /\ pc'[s] \in Installing
           \/ pc[s] \in Removing /\ pc'[s] \in Removing
    BY <1>0, <1>9 DEF MakeLink, MakeLinkFails, ReadLock
  <2>2. CASE MakeLink(s)
    <3>1. Set(s, [job[s] EXCEPT !.todo = job[s].todo, !.cur = {},
                               !.made = job[s].made \cup job[s].cur])
      BY <1>0, <2>2 DEF MakeLink, Set, Jobs
    <3> QED
      BY <1>8, <2>1, <3>1
  <2>3. CASE MakeLinkFails(s)
    <3>1. Set(s, [job[s] EXCEPT !.todo = job[s].todo, !.cur = {}, !.made = job[s].made])
      BY <1>0, <2>3 DEF MakeLinkFails, Set, Jobs
    <3> QED
      BY <1>8, <2>1, <3>1
  <2>4. CASE ReadLock(s)
    <3>1. Set(s, [job[s] EXCEPT !.todo = locks[job[s].pkg].links, !.cur = job[s].cur,
                               !.made = job[s].made])
      BY <1>0, <2>4 DEF ReadLock, Set, Jobs
    <3> QED
      BY <1>8, <2>1, <3>1
  <2> QED
    BY <1>9, <2>2, <2>3, <2>4
<1>10. CASE RemoveLock(s)
  BY <1>0, <1>2, <1>10 DEF RemoveLock, SameBooks
<1>11. ASSUME NEW n \in job[s].todo, DropOldLink(s, n) \/ ClearLink(s, n) \/ RemoveLink(s, n)
       PROVE  Goal
  <2>1. /\ pc'[s] # "check"
        /\ \/ pc[s] \in Installing /\ pc'[s] \in Installing
           \/ pc[s] \in Removing /\ pc'[s] \in Removing
    BY <1>0, <1>11 DEF DropOldLink, ClearLink, RemoveLink
  <2>2. \/ Set(s, [job[s] EXCEPT !.todo = job[s].todo \ {n}, !.cur = job[s].cur,
                                !.made = job[s].made])
        \/ Set(s, [job[s] EXCEPT !.todo = job[s].todo \ {n}, !.cur = {n}, !.made = job[s].made])
    BY <1>0, <1>11 DEF DropOldLink, ClearLink, RemoveLink, Set, Jobs
  <2> QED
    BY <1>8, <2>1, <2>2
<1> QED
  BY <1>3, <1>4, <1>5, <1>6, <1>9, <1>10, <1>11 DEF InstallStep, UninstallStep

\* A record without results, of a process outside.
LEMMA DoingFrame ==
    ASSUME Doing, NEW s \in Procs, ports' = ports,
           \A t \in Procs : t # s => pc'[t] = pc[t] /\ job'[t] = job[t],
           DoneOnce(s)' /\ ByCommand(s)'
    PROVE  Doing'
BY DEF Doing, DoneOnce, ByCommand, At

LEMMA DoingSession ==
    ASSUME TypeInv, Doing, NEW s \in Procs, SessionStep(s)
    PROVE  Doing'
<1> USE DEF Move, At, Goto, Outside, Installing, Inside, AfterCheck, Removing
<1>0. /\ job[s] \in Jobs /\ job \in [Procs -> Jobs] /\ pc \in [Procs -> Labels]
      /\ \A t \in Procs : t # s => pc'[t] = pc[t] /\ job'[t] = job[t]
  BY Others DEF TypeInv, TypeOK, Step
<1>1. ports' = ports /\ DoneOnce(s) /\ ByCommand(s)
  BY DEF SessionStep, Acquire, TimeOut, InstallCore, Finish, Fail, Release, NextArgument,
         NextUpgrade, OnlyLocal, disk, Doing
<1>2. CASE TimeOut(s) \/ Finish(s) \/ Fail(s)
  <2>1. \A code : Exited(job[s], code).done = {}
    BY DEF Exited, NewJob
  <2>2. pc'[s] = "idle" /\ job'[s].done = {}
    BY <1>0, <1>2, <2>1 DEF TimeOut, Finish, Fail, Release, Set
  <2>3. DoneOnce(s)' /\ ByCommand(s)'
    BY <2>2 DEF DoneOnce, ByCommand
  <2> QED
    BY <1>0, <1>1, <2>3, DoingFrame
<1>3. CASE Acquire(s)
  <2>1. pc[s] = "wait" /\ pc'[s] = "next" /\ job'[s].done = job[s].done
    BY <1>0, <1>3 DEF Acquire, Set, Jobs
  <2>2. DoneOnce(s)' /\ ByCommand(s)'
    BY <1>1, <2>1 DEF DoneOnce, ByCommand
  <2> QED
    BY <1>0, <1>1, <2>2, DoingFrame
<1>4. CASE InstallCore(s)
  <2> DEFINE j == [job[s] EXCEPT !.cmd = "core", !.args = Core \ job[s].table]
  <2>1. j.cmd = "core" /\ j.args = Core \ job[s].table /\ j.done = job[s].done
    BY <1>0 DEF Jobs
  <2>2. pc'[s] = "next" /\ job'[s] = j /\ job[s].cmd = "default"
    BY <1>0, <1>4 DEF InstallCore, Set
  <2> HIDE DEF j
  <2>3. DoneOnce(s)' /\ ByCommand(s)'
    BY <1>1, <2>1, <2>2 DEF DoneOnce, ByCommand
  <2> QED
    BY <1>0, <1>1, <2>3, DoingFrame
<1>5. ASSUME NEW p \in job[s].args, NextArgument(s, p) PROVE Doing'
  <2> DEFINE j == [job[s] EXCEPT !.args = @ \ {p}, !.pkg = p]
  <2>1. /\ j.cmd = job[s].cmd /\ j.args = job[s].args \ {p} /\ j.pkg = p
        /\ j.done = job[s].done
    BY <1>0 DEF Jobs
  <2>2. /\ pc'[s] = (IF job[s].cmd = "uninstall" THEN "ulock" ELSE "check") /\ job'[s] = j
        /\ job[s].cmd \in {"install", "uninstall", "core"}
    BY <1>0, <1>5 DEF NextArgument, ByArgument, Set
  <2> HIDE DEF j
  <2>3. DoneOnce(s)'
    BY <1>1, <1>5, <2>1, <2>2 DEF DoneOnce
  <2>4. ByCommand(s)'
    BY <2>1, <2>2 DEF ByCommand
  <2> QED
    BY <1>0, <1>1, <2>3, <2>4, DoingFrame
<1>6. ASSUME NEW p \in job[s].args, NextUpgrade(s, p) PROVE Doing'
  <2> DEFINE i == [job[s] EXCEPT !.args = @ \ {p}]
             failed == [i EXCEPT !.failed = @ \cup {p}]
             removed == [i EXCEPT !.pkg = p]
             ported == [i EXCEPT !.pkg = p, !.table = @ \cup {p}]
  <2>1. /\ failed.cmd = job[s].cmd /\ failed.args = job[s].args \ {p}
        /\ failed.done = job[s].done /\ failed.table = job[s].table
        /\ removed.cmd = job[s].cmd /\ removed.args = job[s].args \ {p}
        /\ removed.done = job[s].done /\ removed.table = job[s].table /\ removed.pkg = p
        /\ ported.cmd = job[s].cmd /\ ported.args = job[s].args \ {p} /\ ported.pkg = p
        /\ ported.done = job[s].done /\ ported.table = job[s].table \cup {p}
    BY <1>0 DEF Jobs
  <2>2. /\ job[s].cmd \in {"upgrade", "default"}
        /\ \/ pc'[s] = "next" /\ job'[s] = failed
           \/ pc'[s] = "ulock" /\ job'[s] = removed /\ Deprecated(s, p)
           \/ pc'[s] = "check" /\ job'[s] = ported
    BY <1>0, <1>6 DEF NextUpgrade, Set
  <2> HIDE DEF failed, removed, ported
  <2>3. DoneOnce(s)'
    BY <1>1, <1>6, <2>1, <2>2 DEF DoneOnce
  <2>4. ByCommand(s)'
    BY <1>1, <2>1, <2>2 DEF ByCommand, Deprecated
  <2> QED
    BY <1>0, <1>1, <2>3, <2>4, DoingFrame
<1> QED
  BY <1>2, <1>3, <1>4, <1>5, <1>6 DEF SessionStep

LEMMA DoingWork ==
    ASSUME TypeInv, Doing, NEW s \in Procs, InstallStep(s) \/ UninstallStep(s)
    PROVE  Doing'
<1>0. /\ job[s] \in Jobs
      /\ \A t \in Procs : t # s => pc'[t] = pc[t] /\ job'[t] = job[t]
  BY Others DEF TypeInv, TypeOK, Step
<1>1. ports' = ports
  <2>1. CASE InstallStep(s)
    BY <2>1 DEF InstallStep, CheckPort, Download, Unpack, SetAside, Apply, DropBackup,
                OldLinksDropped, LinksDone, MakeLink, MakeLinkFails, TruncateLock, WriteLock,
                WriteVersion, DropOldLink, ClearLink, OnlyLocal, OnlyLinks, disk
  <2>2. CASE UninstallStep(s)
    BY <2>2 DEF UninstallStep, ReadLock, RemoveLink, RemoveLock, RemoveDir, OnlyLocal,
                OnlyLinks, disk
  <2> QED
    BY <2>1, <2>2
<1>2. DoneOnce(s) /\ ByCommand(s)
  BY DEF Doing
<1>3. CASE \E from \in Results, ok \in BOOLEAN : Return(s, from, ok)
  <2>1. PICK from \in Results, ok \in BOOLEAN : Return(s, from, ok)
    BY <1>3
  <2>2. /\ pc[s] = from /\ pc'[s] \in {"next", "fail"}
        /\ job'[s].cmd = job[s].cmd /\ job'[s].args = job[s].args
        /\ job'[s].table = job[s].table
        /\ job'[s].done \subseteq job[s].done \cup {job[s].pkg}
    BY <2>1, Returned
  <2>3. pc[s] \in Installing \cup Removing
    BY <2>2 DEF Results, Installing, Inside, AfterCheck, Removing
  <2>4. DoneOnce(s)'
    BY <1>1, <1>2, <2>2, <2>3 DEF DoneOnce, Outside, Installing, Inside, AfterCheck, Removing
  <2>5. ByCommand(s)'
    BY <1>1, <1>2, <2>2, <2>3 DEF ByCommand, Installing, Inside, AfterCheck, Removing
  <2> QED
    BY <1>0, <1>1, <2>4, <2>5, DoingFrame
<1>4. CASE /\ SameBooks(s) /\ pc'[s] # "check"
           /\ \/ pc[s] \in Installing /\ pc'[s] \in Installing
              \/ pc[s] \in Removing /\ pc'[s] \in Removing
  <2>1. job[s].pkg \in job[s].done => FALSE
    <3>1. CASE pc[s] # "check"
      BY <1>2, <1>4, <3>1 DEF DoneOnce, At
    <3>2. CASE pc[s] = "check"
      <4>1. pc'[s] \in Installing
        BY <1>4, <3>2 DEF Installing, Inside, AfterCheck, Removing
      <4>2. CheckPort(s)
        BY <3>2 DEF InstallStep, UninstallStep, Download, Unpack, SetAside, Apply, DropBackup,
                    OldLinksDropped, LinksDone, MakeLink, MakeLinkFails, TruncateLock, WriteLock,
                    WriteVersion, DropOldLink, ClearLink, ReadLock, RemoveLink, RemoveLock,
                    RemoveDir, Return, Move, At
      <4>3. \A ok : ~Return(s, "check", ok)
        BY <4>1, Returned DEF Installing, Inside, AfterCheck
      <4>4. ports[job[s].pkg] # None
        BY <4>2, <4>3 DEF CheckPort, Rejected
      <4> QED
        BY <1>2, <1>4, <4>4 DEF DoneOnce
    <3> QED
      BY <3>1, <3>2
  <2>2. DoneOnce(s)'
    <3>1. pc'[s] \notin Outside
      BY <1>4 DEF Installing, Inside, AfterCheck, Removing, Outside
    <3> QED
      BY <1>1, <1>2, <1>4, <2>1, <3>1 DEF DoneOnce, SameBooks
  <2>3. ByCommand(s)'
    <3>1. Installing \cap Removing = {}
      BY DEF Installing, Inside, AfterCheck, Removing
    <3> QED
      BY <1>1, <1>2, <1>4, <3>1 DEF ByCommand, SameBooks
  <2> QED
    BY <1>0, <1>1, <2>2, <2>3, DoingFrame
<1> QED
  BY <1>3, <1>4, BooksStay

LEMMA DoingOther ==
    ASSUME TypeInv, Doing, NEW s \in Procs,
           \/ RepairStep(s) \/ Crash(s)
           \/ \E c \in Commands, a \in SUBSET Pkgs : Start(s, c, a)
    PROVE  Doing'
<1> USE DEF Move, At, Goto
<1>0. /\ job[s] \in Jobs /\ job \in [Procs -> Jobs] /\ pc \in [Procs -> Labels]
      /\ \A t \in Procs : t # s => pc'[t] = pc[t] /\ job'[t] = job[t]
  BY Others DEF TypeInv, TypeOK, Step
<1>1. /\ ports' = ports /\ pc'[s] \in Outside
      /\ RepairStep(s) => job[s].done = {}
  BY <1>0 DEF RepairStep, RemakeLink, RemakeLinkFails, PortRepaired, RepairDone, RepairPort,
              SkipLink, LinkIsMissing, Crash, Start, OnlyLocal, OnlyLinks, disk, Outside,
              Doing, DoneOnce
<1>2. \A code : Exited(job[s], code).done = {}
  BY DEF Exited, NewJob
<1>3. job'[s].done = {}
  <2>1. CASE \E c, a : Start(s, c, a)
    BY <1>0, <2>1 DEF Start, Set, NewJob
  <2>2. CASE Crash(s) \/ RemakeLinkFails(s) \/ RepairDone(s)
    BY <1>0, <1>2, <2>2 DEF Crash, RemakeLinkFails, RepairDone, Set
  <2>3. CASE RemakeLink(s)
    BY <1>0, <1>1, <2>3 DEF RepairStep, RemakeLink, Set, Jobs
  <2>4. CASE PortRepaired(s)
    <3>1. Left(job[s]).done = job[s].done
      BY <1>0 DEF Left, Jobs
    <3> QED
      BY <1>0, <1>1, <2>4, <3>1 DEF RepairStep, PortRepaired, Set
  <2>5. ASSUME NEW n \in job[s].todo, SkipLink(s, n) \/ LinkIsMissing(s, n)
        PROVE  job'[s].done = {}
    <3>1. /\ [job[s] EXCEPT !.todo = @ \ {n}].done = job[s].done
          /\ [job[s] EXCEPT !.todo = @ \ {n}, !.cur = {n}].done = job[s].done
      BY <1>0 DEF Jobs
    <3> QED
      BY <1>0, <1>1, <2>5, <3>1 DEF RepairStep, SkipLink, LinkIsMissing, Set
  <2>6. ASSUME NEW p \in job[s].args, RepairPort(s, p)
        PROVE  job'[s].done = {}
    <3> DEFINE i == [job[s] EXCEPT !.args = @ \ {p}]
               j == [i EXCEPT !.pkg = p, !.ver = ports[p], !.todo = Provides[p][ports[p]]]
    <3>1. i.done = job[s].done /\ j.done = job[s].done
      BY <1>0 DEF Jobs
    <3>2. job'[s] = i \/ job'[s] = j
      BY <1>0, <2>6 DEF RepairPort, Set
    <3> HIDE DEF i, j
    <3> QED
      BY <1>1, <2>6, <3>1, <3>2 DEF RepairStep
  <2> QED
    BY <2>1, <2>2, <2>3, <2>4, <2>5, <2>6 DEF RepairStep
<1>4. DoneOnce(s)' /\ ByCommand(s)'
  BY <1>1, <1>3 DEF DoneOnce, ByCommand, Outside, Installing, Inside, AfterCheck, Removing
<1> QED
  BY <1>0, <1>1, <1>4, DoingFrame

LEMMA NextDoing == TypeInv /\ Doing /\ [Next]_vars => Doing'
<1> SUFFICES ASSUME TypeInv, Doing, [Next]_vars PROVE Doing'
  OBVIOUS
<1>1. CASE UNCHANGED vars
  BY <1>1 DEF vars, Doing, DoneOnce, ByCommand, At
\* A port that is dropped is dropped for good.
<1>2. ASSUME NEW q \in Pkgs, Pull(q) PROVE Doing'
  <2>1. \A p \in Pkgs : ports[p] = None => ports'[p] = None
    BY <1>2 DEF Pull, TypeInv, TypeOK
  <2>2. /\ pc' = pc /\ job' = job
        /\ \A s \in Procs : job[s].pkg \in Pkgs /\ job[s].done \subseteq Pkgs
    BY <1>2 DEF Pull, TypeInv, TypeOK, Jobs
  <2> QED
    BY <2>1, <2>2 DEF Doing, DoneOnce, ByCommand, At
<1> QED
  BY <1>1, <1>2, DoingSession, DoingWork, DoingOther DEF Next, Step

\* The three ways to report a package done.
LEMMA DoneGrows ==
    ASSUME TypeInv, NEW s \in Procs, InstallStep(s) \/ UninstallStep(s)
    PROVE  /\ job'[s].cmd = job[s].cmd
           /\ \/ job'[s].done = job[s].done
              \/ /\ job'[s].done = job[s].done \cup {job[s].pkg}
                 /\ \/ CheckPort(s) /\ Return(s, "check", TRUE)
                    \/ WriteLock(s)
                    \/ RemoveDir(s) /\ Return(s, "unlocked", TRUE)
<1>1. CASE \E from \in Results, ok \in BOOLEAN : Return(s, from, ok)
  <2>1. PICK from \in Results, ok \in BOOLEAN : Return(s, from, ok)
    BY <1>1
  <2>2. /\ pc[s] = from /\ pc'[s] \in {"next", "fail"} /\ job'[s].cmd = job[s].cmd
        /\ job'[s].done = IF ok THEN job[s].done \cup {job[s].pkg} ELSE job[s].done
    <3> HIDE <1>1
    <3>1. pc[s] = from /\ pc'[s] \in {"next", "fail"}
      BY <2>1, Returned
    <3>2. job'[s].cmd = job[s].cmd
      BY <2>1, Returned
    <3>3. CASE ok
      <4>1. Return(s, from, TRUE)
        BY <2>1, <3>3
      <4>2. job'[s].done = job[s].done \cup {job[s].pkg}
        BY <4>1, Returned
      <4> QED
        BY <3>1, <3>2, <3>3, <4>2
    <3>4. CASE ~ok
      <4>1. Return(s, from, FALSE)
        BY <2>1, <3>4
      <4>2. job'[s].done = job[s].done
        BY <4>1, Returned
      <4> QED
        BY <3>1, <3>2, <3>4, <4>2
    <3> QED
      BY <3>3, <3>4
  <2>3. CASE from \in {"download", "unpack"}
    <3>1. Download(s) \/ Unpack(s)
      BY <2>2, <2>3 DEF InstallStep, UninstallStep, CheckPort, SetAside, Apply, DropBackup,
                  OldLinksDropped, LinksDone, MakeLink, MakeLinkFails, TruncateLock, WriteLock,
                  WriteVersion, DropOldLink, ClearLink, ReadLock, RemoveLink, RemoveLock,
                  RemoveDir, Return, Move, At
    <3>2. Return(s, "download", FALSE) \/ Return(s, "unpack", FALSE)
      BY <2>2, <3>1 DEF Download, Unpack, Move, Goto, TypeInv, TypeOK
    <3> QED
      BY <2>2, <3>2, Returned
  <2>4. CASE from = "check"
    <3>1. CheckPort(s)
      BY <2>2, <2>4 DEF InstallStep, UninstallStep, Download, Unpack, SetAside, Apply,
                  DropBackup, OldLinksDropped, LinksDone, MakeLink, MakeLinkFails, TruncateLock,
                  WriteLock, WriteVersion, DropOldLink, ClearLink, ReadLock, RemoveLink,
                  RemoveLock, RemoveDir, Return, Move, At
    <3> QED
      BY <2>1, <2>2, <2>4, <3>1
  <2>5. CASE from = "write"
    <3>1. WriteLock(s)
      BY <2>2, <2>5 DEF InstallStep, UninstallStep, CheckPort, Download, Unpack, SetAside, Apply,
                  DropBackup, OldLinksDropped, LinksDone, MakeLink, MakeLinkFails, TruncateLock,
                  DropOldLink, ClearLink, ReadLock, RemoveLink, RemoveLock, RemoveDir, Return,
                  Move, At
    <3> QED
      BY <2>2, <3>1
  <2>6. CASE from \in {"udir", "unlocked"}
    <3>1. RemoveDir(s)
      BY <2>2, <2>6 DEF InstallStep, UninstallStep, CheckPort, Download, Unpack, SetAside, Apply,
                  DropBackup, OldLinksDropped, LinksDone, MakeLink, MakeLinkFails, TruncateLock,
                  WriteLock, WriteVersion, DropOldLink, ClearLink, ReadLock, RemoveLink,
                  RemoveLock, Return, Move, At
    <3>2. CASE Return(s, "udir", FALSE)
      BY <2>2, <3>2, Returned
    <3>3. CASE Return(s, "unlocked", TRUE)
      BY <2>2, <3>1, <3>3, Returned
    <3> QED
      BY <3>1, <3>2, <3>3 DEF RemoveDir
  <2> QED
    BY <2>3, <2>4, <2>5, <2>6 DEF Results
<1>2. CASE SameBooks(s)
  BY <1>2 DEF SameBooks
<1> QED
  BY <1>1, <1>2, BooksStay

Stands(c, p) ==
    IF c = "uninstall" THEN locks[p] = NoLock
    ELSE \/ locks[p] = NoLock /\ c \in {"default", "core"}
         \/ Parsed(locks[p]) /\ PassesFor(p, pkgdir[p], locks[p].version)

LEMMA ReportWork ==
    ASSUME TypeInv, MutualExclusion, MutualExclusion', SafeInv, Doing, ApplyWorks, ReportedDone,
           NEW s \in Procs, InstallStep(s) \/ UninstallStep(s)
    PROVE  ReportedDone'
<1>1. PICK p \in Pkgs : p = job[s].pkg
  BY DEF TypeInv, TypeOK, Jobs
<1>2. PICK c : c = job[s].cmd /\ c = job'[s].cmd
  BY DoneGrows
<1>0. /\ job[s] \in Jobs /\ job \in [Procs -> Jobs] /\ pc \in [Procs -> Labels]
      /\ locks \in [Pkgs -> Locks] /\ pkgdir \in [Pkgs -> Contents]
      /\ \A t \in Procs : t # s => pc'[t] = pc[t] /\ job'[t] = job[t]
  BY Others DEF TypeInv, TypeOK, Step
<1>3. pc[s] \in Installing \cup Removing /\ Holding(s)
  BY DEF InstallStep, UninstallStep, CheckPort, Download, Unpack, SetAside, Apply, DropBackup,
         OldLinksDropped, LinksDone, MakeLink, MakeLinkFails, TruncateLock, WriteLock,
         WriteVersion, DropOldLink, ClearLink, ReadLock, RemoveLink, RemoveLock, RemoveDir,
         Return, Move, At, Installing, Inside, AfterCheck, Removing, Holding
<1>4. ASSUME NEW q \in Pkgs, q # p PROVE locks'[q] = locks[q] /\ pkgdir'[q] = pkgdir[q]
  <2>1. CASE InstallStep(s)
    <3>1. CASE \/ CheckPort(s) \/ Download(s) \/ Unpack(s) \/ SetAside(s) \/ Apply(s)
               \/ DropBackup(s) \/ OldLinksDropped(s) \/ LinksDone(s)
      BY <1>0, <1>1, <1>4, <3>1 DEF CheckPort, Download, Unpack, SetAside, Apply, DropBackup,
                             OldLinksDropped, LinksDone, OnlyLocal, disk
    <3>2. CASE \/ MakeLink(s) \/ MakeLinkFails(s) \/ TruncateLock(s) \/ WriteLock(s)
               \/ \E n \in job[s].todo : DropOldLink(s, n) \/ ClearLink(s, n)
      BY <1>0, <1>1, <1>4, <3>2 DEF MakeLink, MakeLinkFails, TruncateLock, WriteLock,
                             WriteVersion, DropOldLink, ClearLink, OnlyLocal, OnlyLinks, disk
    <3> QED
      BY <2>1, <3>1, <3>2 DEF InstallStep
  <2>2. CASE UninstallStep(s)
    BY <1>0, <1>1, <1>4, <2>2 DEF UninstallStep, ReadLock, RemoveLink, RemoveLock, RemoveDir,
                                  OnlyLocal, OnlyLinks, disk
  <2> QED
    BY <2>1, <2>2
<1>5. \A q \in job[s].done : Stands(c, q)
  BY <1>2, <1>3 DEF ReportedDone, Stands
\* A package that was done before is a core port that is gone: nothing happens.
<1>6. CASE p \in job[s].done
  <2>1. pc[s] = "check" /\ ports[p] = None
    BY <1>1, <1>3, <1>6 DEF Doing, DoneOnce, At
  <2>2. CheckPort(s)
    BY <2>1 DEF InstallStep, UninstallStep, Download, Unpack, SetAside, Apply, DropBackup,
                OldLinksDropped, LinksDone, MakeLink, MakeLinkFails, TruncateLock, WriteLock,
                WriteVersion, DropOldLink, ClearLink, ReadLock, RemoveLink, RemoveLock,
                RemoveDir, Return, Move, At
  <2>3. UNCHANGED <<locks, pkgdir>>
    BY <2>2 DEF CheckPort, OnlyLocal, disk
  <2>4. job'[s].done = job[s].done
    BY <1>1, <1>6, DoneGrows
  <2>5. \A q \in job'[s].done : Stands(c, q)'
    BY <1>5, <2>3, <2>4 DEF Stands, PassesFor, May
  <2> QED
    BY <1>0, <1>2, <1>3, <2>5 DEF ReportedDone, Stands, MutualExclusion, Holding
<1>7. CASE p \notin job[s].done
  <2>1. \A q \in job[s].done : q \in Pkgs /\ q # p
    BY <1>0, <1>7 DEF Jobs
  <2>2. \A q \in job[s].done : Stands(c, q)'
    BY <1>4, <1>5, <2>1 DEF Stands, PassesFor, May
  <2>3. ASSUME CheckPort(s), Return(s, "check", TRUE) PROVE Stands(c, p)'
    <3>1. pc[s] = "check" /\ pc'[s] # "download" /\ UNCHANGED <<locks, pkgdir>>
      BY <2>3, Returned DEF CheckPort, OnlyLocal, disk
    <3>2. c # "uninstall"
      BY <1>2, <3>1 DEF Doing, ByCommand, Installing
    <3>3. UpToDate(p)
      <4>1. ~Return(s, "check", FALSE)
        <5>1. job'[s].done = job[s].done \cup {p}
          BY <1>1, <2>3, Returned
        <5> QED
          BY <1>1, <1>7, <5>1, Returned
      <4>2. pc'[s] # "download"
        BY <3>1
      <4> QED
        BY <1>0, <1>1, <2>3, <4>1, <4>2 DEF CheckPort, Move, Goto
    <3>4. PassesFor(p, pkgdir[p], ports[p])
      BY <3>3 DEF SafeInv, UpToDateIfApplied
    <3> QED
      BY <3>1, <3>2, <3>3, <3>4 DEF Stands, UpToDate
  <2>4. ASSUME WriteLock(s) PROVE Stands(c, p)'
    <3>1. /\ pc[s] = "write" /\ pkgdir' = pkgdir /\ locks'[p].version = job[s].ver
      BY <1>0, <1>1, <2>4 DEF WriteLock, WriteVersion, Return, Move, At
    <3>2. c # "uninstall" /\ job[s].ver \in Versions
      BY <1>2, <3>1 DEF Doing, ByCommand, Installing, Inside, TypeInv, VersionRead
    <3>3. PassesFor(p, pkgdir[p], job[s].ver)
      BY <1>1, <3>1 DEF SafeInv, Carried, Applied
    <3> QED
      BY <3>1, <3>2, <3>3, ConstantsOK DEF Stands, Parsed, PassesFor, May, Versions
  <2>5. ASSUME RemoveDir(s), Return(s, "unlocked", TRUE) PROVE Stands(c, p)'
    <3>1. pc[s] = "unlocked" /\ locks' = locks
      BY <2>5, Returned DEF RemoveDir
    <3>2. locks[p] = NoLock /\ c \in {"uninstall", "default"}
      BY <1>1, <1>2, <3>1 DEF SafeInv, LockGone, Doing, ByCommand, Removing
    <3> QED
      BY <3>1, <3>2 DEF Stands
  <2>6. \A q \in job'[s].done : Stands(c, q)'
    BY <1>1, <2>2, <2>3, <2>4, <2>5, DoneGrows
  <2> QED
    BY <1>0, <1>2, <1>3, <2>6 DEF ReportedDone, Stands, MutualExclusion, Holding
<1> QED
  BY <1>6, <1>7

\* Sessions and repairs change neither lock files nor directories, and add no result.
LEMMA ReportOther ==
    ASSUME TypeInv, MutualExclusion, SafeInv, Doing, Doing', ReportedDone, NEW s \in Procs,
           \/ SessionStep(s) \/ RepairStep(s) \/ Crash(s)
           \/ \E c \in Commands, a \in SUBSET Pkgs : Start(s, c, a)
    PROVE  ReportedDone'
<1> USE DEF Move, At, Goto
<1>0. /\ job[s] \in Jobs /\ job \in [Procs -> Jobs] /\ pc \in [Procs -> Labels]
      /\ pkgdir \in [Pkgs -> Contents]
      /\ \A t \in Procs : t # s => pc'[t] = pc[t] /\ job'[t] = job[t]
  BY Others DEF TypeInv, TypeOK, Step
<1>1. locks' = locks /\ (pkgdir' = pkgdir \/ Holding(s))
  BY DEF SessionStep, Acquire, TimeOut, InstallCore, Finish, Fail, Release, NextArgument,
         NextUpgrade, RepairStep, RemakeLink, RemakeLinkFails, PortRepaired, RepairDone,
         RepairPort, SkipLink, LinkIsMissing, Crash, Start, OnlyLocal, OnlyLinks, disk, Holding
<1>2. ASSUME NEW t \in Procs, t # s, Holding(t)' PROVE Holding(t) /\ pkgdir' = pkgdir
  <2>1. Holding(t)
    BY <1>0, <1>2 DEF Holding
  <2> QED
    BY <1>1, <1>2, <2>1 DEF MutualExclusion
<1>3. ASSUME Holding(s)', NEW q \in job'[s].done
      PROVE  /\ pkgdir' = pkgdir /\ Holding(s) /\ q \in job[s].done
             /\ \/ job'[s].cmd = job[s].cmd
                \/ job'[s].cmd = "core" /\ job[s].cmd = "default"
  <2>1. CASE Acquire(s)
    <3>1. job'[s].done = job[s].done /\ pc[s] = "wait"
      BY <1>0, <2>1 DEF Acquire, Set, Jobs
    <3> QED
      BY <1>3, <3>1 DEF Doing, DoneOnce, Outside
  <2>2. CASE InstallCore(s)
    <3> DEFINE j == [job[s] EXCEPT !.cmd = "core", !.args = Core \ job[s].table]
    <3>1. j.cmd = "core" /\ j.done = job[s].done
      BY <1>0 DEF Jobs
    <3>2. job'[s] = j /\ pc[s] = "next" /\ job[s].cmd = "default" /\ pkgdir' = pkgdir
      BY <1>0, <2>2 DEF InstallCore, Set, OnlyLocal, disk
    <3> HIDE DEF j
    <3> QED
      BY <1>3, <3>1, <3>2 DEF Holding
  <2>3. ASSUME NEW p \in job[s].args, NextArgument(s, p)
        PROVE  /\ job'[s].done = job[s].done /\ job'[s].cmd = job[s].cmd
               /\ pc[s] = "next" /\ pkgdir' = pkgdir
    BY <1>0, <2>3 DEF NextArgument, Set, Jobs, OnlyLocal, disk
  <2>4. ASSUME NEW p \in job[s].args, NextUpgrade(s, p)
        PROVE  /\ job'[s].done = job[s].done /\ job'[s].cmd = job[s].cmd
               /\ pc[s] = "next" /\ pkgdir' = pkgdir
    <3> DEFINE i == [job[s] EXCEPT !.args = @ \ {p}]
               failed == [i EXCEPT !.failed = @ \cup {p}]
               removed == [i EXCEPT !.pkg = p]
               ported == [i EXCEPT !.pkg = p, !.table = @ \cup {p}]
    <3>1. /\ failed.cmd = job[s].cmd /\ failed.done = job[s].done
          /\ removed.cmd = job[s].cmd /\ removed.done = job[s].done
          /\ ported.cmd = job[s].cmd /\ ported.done = job[s].done
      BY <1>0 DEF Jobs
    <3>2. /\ job'[s] = failed \/ job'[s] = removed \/ job'[s] = ported
          /\ pc[s] = "next" /\ pkgdir' = pkgdir
      BY <1>0, <2>4 DEF NextUpgrade, Set, OnlyLocal, disk
    <3> HIDE DEF failed, removed, ported
    <3> QED
      BY <3>1, <3>2
  <2>5. CASE \/ TimeOut(s) \/ Finish(s) \/ Fail(s) \/ RepairStep(s) \/ Crash(s)
             \/ \E c \in Commands, a \in SUBSET Pkgs : Start(s, c, a)
    <3>1. pc'[s] \in Outside
      BY <1>0, <2>5 DEF TimeOut, Finish, Fail, Release, RepairStep, RemakeLink,
                  RemakeLinkFails, PortRepaired, RepairDone, RepairPort, SkipLink,
                  LinkIsMissing, Crash, Start, Outside
    <3> QED
      BY <1>3, <3>1 DEF Holding, Outside
  <2> QED
    BY <1>3, <2>1, <2>2, <2>3, <2>4, <2>5 DEF SessionStep, Holding
<1>4. ASSUME NEW t \in Procs, Holding(t)', NEW q \in job'[t].done
      PROVE  Stands(job[t].cmd, q)'
  <2>1. CASE t # s
    <3>1. Stands(job[t].cmd, q)
      BY <1>0, <1>2, <1>4, <2>1 DEF ReportedDone, Stands
    <3> QED
      BY <1>0, <1>1, <1>2, <1>4, <2>1, <3>1 DEF Stands, PassesFor, May
  <2>2. CASE t = s
    <3>1. Stands(job[s].cmd, q)
      BY <1>3, <1>4, <2>2 DEF ReportedDone, Stands
    <3> QED
      BY <1>1, <1>3, <1>4, <2>2, <3>1 DEF Stands, PassesFor, May
  <2> QED
    BY <2>1, <2>2
<1> QED
  BY <1>4 DEF ReportedDone, Stands

LEMMA NextReported ==
    /\ TypeInv /\ MutualExclusion /\ MutualExclusion' /\ SafeInv /\ Doing /\ Doing'
    /\ (ApplyWorks => ReportedDone) /\ [Next]_vars
    => (ApplyWorks => ReportedDone)'
<1> SUFFICES ASSUME TypeInv, MutualExclusion, MutualExclusion', SafeInv, Doing, Doing',
                    ApplyWorks, ReportedDone, [Next]_vars
             PROVE  ReportedDone'
  BY DEF ApplyWorks, May
<1>1. CASE UNCHANGED vars \/ \E p \in Pkgs : Pull(p)
  BY <1>1 DEF vars, Pull, ReportedDone, Holding, PassesFor, May
<1> QED
  BY <1>1, ReportWork, ReportOther DEF Next, Step

\* Where directories can be replaced, what a session has reported done stays
\* done until it ends, whatever else fails and whoever crashes beside it.
THEOREM ReportsStand == Spec => [](ApplyWorks => ReportedDone)
<1>1. Init => Doing /\ (ApplyWorks => ReportedDone)
  BY DEF Init, Doing, DoneOnce, ByCommand, ReportedDone, Holding, NewJob, Outside,
         Installing, Inside, AfterCheck, Removing
<1>2. Spec => []Doing
  BY <1>1, NextDoing, TypeInvCorrect, PTL DEF Spec
<1> QED
  BY <1>1, <1>2, NextReported, TypeInvCorrect, Exclusive, SafeInvCorrect, PTL DEF Spec

-----------------------------------------------------------------------------
(* What a repair has visited.                                              *)

OneProcessOnly == \A s, t \in Procs : s = t
RepairedSoFar ==
    \A s \in Procs : pc[s] \in {"rcheck", "rmake"} =>
        \A n \in Provides[job[s].pkg][job[s].ver] \ job[s].todo :
            HasFile(job[s].pkg, n) => n \in linked \/ (At(s, "rmake") /\ n \in job[s].cur)

\* Only the steps of a repair lead into the loop over its links.
LEMMA RepairOnly ==
    ASSUME TypeInv, NEW s \in Procs, pc'[s] \in {"rcheck", "rmake"},
           Step(s) \/ Crash(s) \/ \E c \in Commands, a \in SUBSET Pkgs : Start(s, c, a)
    PROVE  \/ RemakeLink(s)
           \/ \E p \in job[s].args : RepairPort(s, p)
           \/ \E n \in job[s].todo : SkipLink(s, n) \/ LinkIsMissing(s, n)
<1> USE DEF Move, At, Goto
<1>0. pc \in [Procs -> Labels]
  BY DEF TypeInv, TypeOK
<1>1. ~SessionStep(s) /\ ~Crash(s) /\ ~\E c \in Commands, a \in SUBSET Pkgs : Start(s, c, a)
  BY <1>0 DEF SessionStep, Acquire, TimeOut, InstallCore, Finish, Fail, Release,
              NextArgument, NextUpgrade, Crash, Start
<1>2. ~InstallStep(s)
  BY <1>0 DEF InstallStep, CheckPort, Download, Unpack, SetAside, Apply, DropBackup,
              OldLinksDropped, LinksDone, MakeLink, MakeLinkFails, TruncateLock, WriteLock,
              WriteVersion, DropOldLink, ClearLink, Return
<1>3. ~UninstallStep(s)
  BY <1>0 DEF UninstallStep, ReadLock, RemoveLink, RemoveLock, RemoveDir, Return
<1>4. ~RemakeLinkFails(s) /\ ~PortRepaired(s) /\ ~RepairDone(s)
  BY <1>0 DEF RemakeLinkFails, PortRepaired, RepairDone
<1> QED
  BY <1>1, <1>2, <1>3, <1>4 DEF Step, RepairStep

LEMMA NextRepaired ==
    ASSUME OneProcessOnly, TypeInv, RepairedSoFar, [Next]_vars
    PROVE  RepairedSoFar'
<1>1. CASE UNCHANGED vars \/ \E p \in Pkgs : Pull(p)
  BY <1>1 DEF vars, Pull, RepairedSoFar, HasFile, At
<1>2. ASSUME NEW s \in Procs, pc'[s] \in {"rcheck", "rmake"},
             Step(s) \/ Crash(s) \/ \E c \in Commands, a \in SUBSET Pkgs : Start(s, c, a)
      PROVE  \A n \in Provides[job'[s].pkg][job'[s].ver] \ job'[s].todo :
                HasFile(job[s].pkg, n)' =>
                    n \in linked' \/ (At(s, "rmake")' /\ n \in job'[s].cur)
  <2> USE DEF Move, At, Goto
  <2>0. job[s] \in Jobs /\ job \in [Procs -> Jobs] /\ pc \in [Procs -> Labels]
    BY DEF TypeInv, TypeOK
  <2>1. CASE RemakeLink(s)
    <3> DEFINE j == [job[s] EXCEPT !.cur = {}]
    <3>1. j.pkg = job[s].pkg /\ j.ver = job[s].ver /\ j.todo = job[s].todo
      BY <2>0 DEF Jobs
    <3>2. /\ job'[s] = j /\ pc[s] = "rmake" /\ pkgdir' = pkgdir
          /\ linked' = linked \cup job[s].cur
      BY <2>0, <2>1 DEF RemakeLink, Set, OnlyLinks
    <3> HIDE DEF j
    <3> QED
      BY <3>1, <3>2 DEF RepairedSoFar, HasFile
  <2>2. ASSUME NEW p \in job[s].args, RepairPort(s, p)
        PROVE  Provides[job'[s].pkg][job'[s].ver] = job'[s].todo
    <3> DEFINE i == [job[s] EXCEPT !.args = @ \ {p}]
               j == [i EXCEPT !.pkg = p, !.ver = ports[p], !.todo = Provides[p][ports[p]]]
    <3>1. j.pkg = p /\ j.ver = ports[p] /\ j.todo = Provides[p][ports[p]]
      BY <2>0 DEF Jobs
    <3>2. job'[s] = j
      BY <1>2, <2>0, <2>2 DEF RepairPort, Set
    <3> HIDE DEF j
    <3> QED
      BY <3>1, <3>2
  <2>3. ASSUME NEW n \in job[s].todo, SkipLink(s, n)
        PROVE  /\ job'[s].pkg = job[s].pkg /\ job'[s].ver = job[s].ver
               /\ job'[s].todo = job[s].todo \ {n} /\ pc[s] = "rcheck"
               /\ linked' = linked /\ pkgdir' = pkgdir
               /\ HasFile(job[s].pkg, n) => n \in linked
    BY <2>0, <2>3 DEF SkipLink, Set, Jobs, OnlyLocal, disk, MayLackFile
  <2>4. ASSUME NEW n \in job[s].todo, LinkIsMissing(s, n)
        PROVE  /\ job'[s].pkg = job[s].pkg /\ job'[s].ver = job[s].ver
               /\ job'[s].todo = job[s].todo \ {n} /\ job'[s].cur = {n}
               /\ pc[s] = "rcheck" /\ pc'[s] = "rmake"
               /\ linked' = linked /\ pkgdir' = pkgdir
    <3> DEFINE j == [job[s] EXCEPT !.todo = @ \ {n}, !.cur = {n}]
    <3>1. j.pkg = job[s].pkg /\ j.ver = job[s].ver /\ j.todo = job[s].todo \ {n} /\ j.cur = {n}
      BY <2>0 DEF Jobs
    <3>2. /\ job'[s] = j /\ pc[s] = "rcheck" /\ pc'[s] = "rmake"
          /\ linked' = linked /\ pkgdir' = pkgdir
      BY <2>0, <2>4 DEF LinkIsMissing, Set, OnlyLocal, disk
    <3> HIDE DEF j
    <3> QED
      BY <3>1, <3>2
  <2>5. CASE \E n \in job[s].todo : SkipLink(s, n)
    <3>1. PICK n \in job[s].todo : SkipLink(s, n)
      BY <2>5
    <3> QED
      BY <2>3, <3>1 DEF RepairedSoFar, HasFile
  <2>6. CASE \E n \in job[s].todo : LinkIsMissing(s, n)
    <3>1. PICK n \in job[s].todo : LinkIsMissing(s, n)
      BY <2>6
    <3> QED
      BY <2>4, <3>1 DEF RepairedSoFar, HasFile
  <2> QED
    BY <1>2, <2>1, <2>2, <2>5, <2>6, RepairOnly
<1>3. CASE \E s \in Procs : \/ Step(s) \/ Crash(s)
                            \/ \E c \in Commands, a \in SUBSET Pkgs : Start(s, c, a)
  <2>1. PICK s \in Procs : \/ Step(s) \/ Crash(s)
                           \/ \E c \in Commands, a \in SUBSET Pkgs : Start(s, c, a)
    BY <1>3
  <2>2. \A t \in Procs : t = s
    BY DEF OneProcessOnly
  <2> QED
    BY <1>2, <2>1, <2>2 DEF RepairedSoFar
<1> QED
  BY <1>1, <1>3 DEF Next

\* A repair that nothing disturbs has, when it is through with a package, every
\* link the port asks for whose file is there, whatever earlier commands, their
\* failures and their crashes have left behind.
THEOREM RepairRestores == Spec => [](OneProcessOnly => RepairRestoresLinks)
<1>1. Init => (OneProcessOnly => RepairedSoFar)
  BY DEF Init, RepairedSoFar
<1>2. TypeInv /\ (OneProcessOnly => RepairedSoFar) /\ [Next]_vars
        => (OneProcessOnly => RepairedSoFar)'
  BY NextRepaired DEF OneProcessOnly
<1>3. (OneProcessOnly => RepairedSoFar) => (OneProcessOnly => RepairRestoresLinks)
  BY DEF RepairedSoFar, RepairRestoresLinks, At
<1> QED
  BY <1>1, <1>2, <1>3, TypeInvCorrect, PTL DEF Spec
=============================================================================
