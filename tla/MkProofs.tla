------------------------------ MODULE MkProofs ------------------------------
(***************************************************************************)
(* mklauncher beside devi: types, for any interleaving; and, where users   *)
(* start one command at a time, what the lock files it rewrites say of the *)
(* package directories and of the launchers.                               *)
(***************************************************************************)
EXTENDS Mklauncher, StoreProofs

-----------------------------------------------------------------------------
(* Types.                                                                  *)

Own(p) == Owned(p) \cup Launched(p)

MakerType ==
    /\ mpc \in [Makers -> MakerLabels]
    /\ mjob \in [Makers -> MakerJobs]
    /\ builds \in Nat
\* mklauncher records launchers of the package it is at, also in the next round,
\* and ".exe" only if that package has launchers.
Asks(j) == /\ j.todo \subseteq Launched(j.pkg)
           /\ j.made \subseteq Launched(j.pkg) \cup Nameless(j.pkg)
MakerAsked ==
    \A m \in Makers : Asks(mjob[m])
LocksOwned == \A p \in Pkgs : locks[p].links \subseteq Own(p) \cup Nameless(p)

MkTypeInv == TypeInv /\ LinksAsked /\ MakerType /\ MakerAsked /\ LocksOwned

LEMMA DeviNext == DeviStep => Next
BY DEF DeviStep, Next

\* Replacing the record of one mklauncher process, and its label.
LEMMA MakerFrame ==
    ASSUME MkTypeInv, NEW m \in Makers, NEW from, NEW l \in MakerLabels,
           MkMove(m, from, l), NEW j \in MakerJobs, MkSet(m, j) \/ (mjob' = mjob /\ j = mjob[m]),
           builds' \in Nat,
           Asks(j)
    PROVE  MakerType' /\ MakerAsked'
<1>1. mjob' = mjob \/ mjob' = [mjob EXCEPT ![m] = j]
  BY DEF MkSet
<1>2. ASSUME NEW k \in Makers PROVE Asks(mjob'[k])
  BY <1>1 DEF MkTypeInv, MakerType, MakerAsked
<1> QED
  BY <1>1, <1>2 DEF MkTypeInv, MakerType, MakerAsked, MkMove, Asks, Nameless, Launched

LEMMA MakerRecords ==
    ASSUME MkTypeInv, NEW m \in Makers, MkStep(m)
    PROVE  MakerType' /\ MakerAsked'
<1>0. /\ mjob[m] \in MakerJobs /\ builds \in Nat
      /\ Asks(mjob[m])
  BY DEF MkTypeInv, MakerType, MakerAsked
<1> USE DEF Asks
<1>1. \A a \in SUBSET Pkgs : /\ NewMaker(a) \in MakerJobs
                             /\ NewMaker(a).made = {} /\ NewMaker(a).todo = {}
  BY ConstantsOK DEF NewMaker, MakerJobs, NoLock, Locks
<1>2. ASSUME NEW a \in SUBSET Pkgs, MkStart(m, a) PROVE MakerType' /\ MakerAsked'
  BY <1>0, <1>1, <1>2, MakerFrame DEF MkStart, MakerLabels
<1>3. CASE MkDone(m)
  BY <1>0, <1>1, <1>3, MakerFrame DEF MkDone, MakerLabels
<1>4. CASE MkCrash(m)
  BY <1>0, <1>1, <1>4, MakerFrame DEF MkCrash, MkMove, MakerLabels
<1>5. ASSUME NEW p \in mjob[m].args, MkCheck(m, p) PROVE MakerType' /\ MakerAsked'
  <2> DEFINE i == [mjob[m] EXCEPT !.args = @ \ {p}]
             j == [i EXCEPT !.pkg = p, !.todo = Launchers[p][ports[p]], !.made = {}]
  <2>1. p \in Pkgs
    BY <1>0 DEF MakerJobs
  <2>2. /\ i \in MakerJobs /\ i.made = mjob[m].made /\ i.todo = mjob[m].todo
        /\ i.pkg = mjob[m].pkg
    BY <1>0 DEF MakerJobs
  <2>3. CASE MkSet(m, i)
    <3>1. builds' \in Nat
      BY <1>0, <1>5 DEF MkCheck
    <3>2. PICK l \in MakerLabels : MkMove(m, "args", l)
      BY <1>5 DEF MkCheck, MakerLabels
    <3> HIDE DEF i
    <3> QED
      BY <1>0, <2>2, <2>3, <3>1, <3>2, MakerFrame
  <2>4. CASE ports[p] # None /\ MkMove(m, "args", "build") /\ MkSet(m, j)
    <3>1. ports[p] \in Versions
      BY <2>1, <2>4, ConstantsOK DEF MkTypeInv, TypeInv, TypeOK, None, Versions
    <3>2. Launchers[p][ports[p]] \in SUBSET Names /\ Launchers[p][ports[p]] \subseteq Launched(p)
      BY <2>1, <3>1, LaunchersOK DEF Launched
    <3>3. j \in MakerJobs /\ j.made = {} /\ j.todo = Launchers[p][ports[p]] /\ j.pkg = p
      BY <2>1, <2>2, <3>2 DEF MakerJobs
    <3>4. builds' \in Nat
      BY <1>0, <1>5 DEF MkCheck
    <3> HIDE DEF j
    <3> QED
      BY <2>4, <3>2, <3>3, <3>4, MakerFrame DEF MakerLabels
  <2> QED
    BY <1>5, <2>3, <2>4 DEF MkCheck
<1>6. ASSUME NEW n \in mjob[m].todo, MkBuild(m, n) \/ MkBuildUnnoticed(m, n)
      PROVE  MakerType' /\ MakerAsked'
  <2> DEFINE j == [mjob[m] EXCEPT !.todo = @ \ {n}, !.made = @ \cup {n}]
  <2>1. /\ j \in MakerJobs /\ j.made = mjob[m].made \cup {n} /\ j.todo = mjob[m].todo \ {n}
        /\ j.pkg = mjob[m].pkg
    BY <1>0 DEF MakerJobs
  <2>2. MkMove(m, "build", "build") /\ MkSet(m, j) /\ builds' \in Nat
    BY <1>0, <1>6 DEF MkBuild, MkBuildUnnoticed
  <2> HIDE DEF j
  <2> QED
    BY <1>0, <2>1, <2>2, MakerFrame DEF MakerLabels
<1>7. ASSUME NEW n \in mjob[m].todo, MkBuildNothing(m, n) PROVE MakerType' /\ MakerAsked'
  <2> DEFINE j == [mjob[m] EXCEPT !.todo = @ \ {n}, !.made = @ \cup {DotExe}]
  <2>1. /\ j \in MakerJobs /\ j.made = mjob[m].made \cup {DotExe}
        /\ j.todo = mjob[m].todo \ {n} /\ j.pkg = mjob[m].pkg
    BY <1>0, DotExeOK DEF MakerJobs
  <2>2. MkMove(m, "build", "build") /\ MkSet(m, j) /\ builds' \in Nat
    BY <1>0, <1>7 DEF MkBuildNothing
  <2>3. DotExe \in Nameless(mjob[m].pkg)
    BY <1>0 DEF Nameless
  <2> HIDE DEF j
  <2> QED
    BY <1>0, <2>1, <2>2, <2>3, MakerFrame DEF MakerLabels
<1>8. ASSUME NEW n \in mjob[m].todo, MkBuildFails(m, n) \/ MkThrow(m, n)
      PROVE  MakerType' /\ MakerAsked'
  <2> DEFINE j == [mjob[m] EXCEPT !.todo = {}]
  <2>1. j \in MakerJobs /\ j.made = mjob[m].made /\ j.todo = {} /\ j.pkg = mjob[m].pkg
    BY <1>0 DEF MakerJobs
  <2>2. MkMove(m, "build", "args") /\ MkSet(m, j) /\ builds' \in Nat
    BY <1>0, <1>8 DEF MkBuildFails, MkThrow
  <2> HIDE DEF j
  <2> QED
    BY <1>0, <2>1, <2>2, MakerFrame DEF MakerLabels
<1>9. CASE MkReread(m)
  <2> DEFINE j == [mjob[m] EXCEPT !.seen = locks[mjob[m].pkg]]
  <2>1. /\ j \in MakerJobs /\ j.made = mjob[m].made /\ j.todo = mjob[m].todo
        /\ j.pkg = mjob[m].pkg
    BY <1>0 DEF MakerJobs, MkTypeInv, TypeInv, TypeOK
  <2>2. MkMove(m, "build", "trunc") /\ MkSet(m, j) /\ builds' \in Nat
    BY <1>0, <1>9 DEF MkReread
  <2> HIDE DEF j
  <2> QED
    BY <1>0, <2>1, <2>2, MakerFrame DEF MakerLabels
<1>10. CASE MkTruncate(m) \/ MkWrite(m)
  BY <1>0, <1>10, MakerFrame DEF MkTruncate, MkWrite, MkRecord, MakerLabels
<1> QED
  BY <1>2, <1>3, <1>4, <1>5, <1>6, <1>7, <1>8, <1>9, <1>10 DEF MkStep

\* What mklauncher changes of devi's variables.
LEMMA MakerLeaves ==
    ASSUME NEW m \in Makers, MkStep(m)
    PROVE  /\ UNCHANGED <<ports, pkgdir, temp, stray, mutex, pc, job, runs>>
           /\ linked \subseteq linked' /\ linked' \subseteq linked \cup mjob[m].todo
           /\ locks' = locks \/ (linked' = linked /\ (MkTruncate(m) \/ MkWrite(m)))
<1>1. CASE \E n \in mjob[m].todo : MkBuild(m, n)
  BY <1>1 DEF MkBuild, OnlyLinks
<1>2. CASE MkTruncate(m) \/ MkWrite(m)
  BY <1>2 DEF MkTruncate, MkWrite, MkRecord
<1>3. CASE UNCHANGED vars
  BY <1>3 DEF vars
<1> QED
  BY <1>1, <1>2, <1>3 DEF MkStep, MkReread, MkDone, MkCrash, MkStart, MkCheck,
                          MkBuildUnnoticed, MkBuildNothing, MkBuildFails, MkThrow

LEMMA MakerLocks ==
    ASSUME MkTypeInv, NEW m \in Makers, MkTruncate(m) \/ MkWrite(m)
    PROVE  /\ locks' \in [Pkgs -> Locks]
           /\ \A p \in Pkgs : p # mjob[m].pkg => locks'[p] = locks[p]
           /\ \/ MkTruncate(m) /\ locks'[mjob[m].pkg] = BrokenLock
              \/ /\ MkWrite(m)
                 /\ locks'[mjob[m].pkg] = [version |-> SeenVersion(m), links |-> mjob[m].made]
<1>0. /\ mjob[m] \in MakerJobs /\ locks \in [Pkgs -> Locks]
  BY DEF MkTypeInv, MakerType, TypeInv, TypeOK
<1>1. BrokenLock \in Locks
  BY ConstantsOK DEF BrokenLock, Locks
<1>2. [version |-> SeenVersion(m), links |-> mjob[m].made] \in Locks
  BY <1>0, ConstantsOK DEF SeenVersion, Parsed, MakerJobs, Locks
<1>3. mjob[m].pkg \in Pkgs
  BY <1>0 DEF MakerJobs
<1> QED
  BY <1>0, <1>1, <1>2, <1>3 DEF MkTruncate, MkWrite, MkRecord

LEMMA MkTypeStep ==
    ASSUME MkTypeInv, NEW m \in Makers, MkStep(m)
    PROVE  MkTypeInv'
<1>0. /\ UNCHANGED <<ports, pkgdir, temp, stray, mutex, pc, job, runs>>
      /\ linked' \subseteq linked \cup mjob[m].todo
      /\ locks' = locks \/ (linked' = linked /\ (MkTruncate(m) \/ MkWrite(m)))
      /\ MakerType' /\ MakerAsked'
  BY MakerLeaves, MakerRecords
<1>1. locks' \in [Pkgs -> Locks] /\ linked' \in SUBSET Names
  BY <1>0, MakerLocks DEF MkTypeInv, MakerType, MakerJobs, TypeInv, TypeOK
<1>2. TypeInv' /\ LinksAsked'
  BY <1>0, <1>1 DEF MkTypeInv, TypeInv, TypeOK, VersionRead, LinksAsked, At, Asked
<1>3. LocksOwned'
  <2>1. CASE locks' = locks
    BY <2>1 DEF MkTypeInv, LocksOwned
  <2>2. CASE MkTruncate(m) \/ MkWrite(m)
    <3>1. mjob[m].made \subseteq Own(mjob[m].pkg) \cup Nameless(mjob[m].pkg)
      BY DEF MkTypeInv, MakerAsked, Asks, Own
    <3>2. ASSUME NEW p \in Pkgs PROVE locks'[p].links \subseteq Own(p) \cup Nameless(p)
      <4>1. locks[p].links \subseteq Own(p) \cup Nameless(p)
        BY DEF MkTypeInv, LocksOwned
      <4>2. \/ locks'[p] = locks[p] \/ locks'[p].links = {}
            \/ p = mjob[m].pkg /\ locks'[p].links = mjob[m].made
        <5>1. CASE p # mjob[m].pkg
          BY <2>2, <5>1, MakerLocks
        <5>2. CASE p = mjob[m].pkg
          <6>1. \/ locks'[p] = BrokenLock
                \/ locks'[p] = [version |-> SeenVersion(m), links |-> mjob[m].made]
            BY <2>2, <5>2, MakerLocks
          <6> QED
            BY <5>2, <6>1 DEF BrokenLock
        <5> QED
          BY <5>1, <5>2
      <4> QED
        BY <3>1, <4>1, <4>2
    <3> QED
      BY <3>2 DEF LocksOwned, Own, Owned, Launched, Nameless
  <2> QED
    BY <1>0, <2>1, <2>2
<1> QED
  BY <1>0, <1>2, <1>3 DEF MkTypeInv

\* devi records what it was asked to link.
LEMMA OwnedStep ==
    ASSUME MkTypeInv, [Next]_vars
    PROVE  LocksOwned'
<1>0. /\ locks \in [Pkgs -> Locks] /\ job \in [Procs -> Jobs]
      /\ \A p \in Pkgs : locks[p].links \subseteq Own(p) \cup Nameless(p)
  BY DEF MkTypeInv, TypeInv, TypeOK, LocksOwned
<1>1. CASE locks' = locks
  BY <1>1 DEF MkTypeInv, LocksOwned
<1>2. ASSUME NEW s \in Procs, TruncateLock(s) \/ RemoveLock(s) PROVE LocksOwned'
  <2>1. \A p \in Pkgs : locks'[p] = locks[p] \/ locks'[p] = BrokenLock \/ locks'[p] = NoLock
    BY <1>0, <1>2 DEF TruncateLock, RemoveLock
  <2>2. BrokenLock.links = {} /\ NoLock.links = {}
    BY DEF BrokenLock, NoLock
  <2>3. ASSUME NEW p \in Pkgs PROVE locks'[p].links \subseteq Own(p) \cup Nameless(p)
    BY <1>0, <2>1, <2>2
  <2> QED
    BY <2>3 DEF LocksOwned, Own, Owned, Launched, Nameless
<1>3. ASSUME NEW s \in Procs, WriteLock(s) PROVE LocksOwned'
  <2>1. pc[s] = "write"
    BY <1>3 DEF WriteLock, WriteVersion, Return, Move, At
  <2>2. job[s].made \subseteq Own(job[s].pkg)
    BY <2>1, AskedOwned DEF MkTypeInv, LinksAsked, Recording, Own
  <2>3. \A p \in Pkgs : \/ locks'[p] = locks[p]
                        \/ p = job[s].pkg /\ locks'[p].links = job[s].made
    BY <1>0, <1>3 DEF WriteLock, WriteVersion
  <2> QED
    BY <1>0, <2>2, <2>3 DEF LocksOwned
<1>4. ASSUME NEW s \in Procs, InstallStep(s) \/ UninstallStep(s)
      PROVE  locks' = locks \/ TruncateLock(s) \/ WriteLock(s) \/ RemoveLock(s)
  BY <1>4 DEF InstallStep, UninstallStep, CheckPort, Download, Unpack, SetAside, Apply,
              DropBackup, OldLinksDropped, LinksDone, MakeLink, MakeLinkFails, DropOldLink,
              ClearLink, ReadLock, RemoveLink, RemoveDir, OnlyLocal, OnlyLinks, disk
<1>5. ASSUME NEW s \in Procs, \/ SessionStep(s) \/ RepairStep(s) \/ Crash(s)
                              \/ \E c \in Commands, a \in SUBSET Pkgs : Start(s, c, a)
      PROVE  locks' = locks
  BY <1>5 DEF SessionStep, Acquire, TimeOut, InstallCore, Finish, Fail, Release, NextArgument,
              NextUpgrade, RepairStep, RemakeLink, RemakeLinkFails, PortRepaired, RepairDone,
              RepairPort, SkipLink, LinkIsMissing, Crash, Start, OnlyLocal, OnlyLinks, disk
<1>6. CASE UNCHANGED vars \/ \E p \in Pkgs : Pull(p)
  BY <1>1, <1>6 DEF vars, Pull
<1> QED
  BY <1>1, <1>2, <1>3, <1>4, <1>5, <1>6 DEF Next, Step

LEMMA NextMkType == MkTypeInv /\ [MkNext]_allvars => MkTypeInv'
<1> SUFFICES ASSUME MkTypeInv, [MkNext]_allvars PROVE MkTypeInv'
  OBVIOUS
<1>1. CASE DeviStep \/ UNCHANGED allvars
  <2>1. [Next]_vars /\ UNCHANGED mkvars
    BY <1>1, DeviNext DEF DeviStep, allvars
  <2>2. TypeInv' /\ LinksAsked' /\ LocksOwned'
    BY <2>1, NextTypeInv, NextAsked, OwnedStep DEF MkTypeInv
  <2> QED
    BY <2>1, <2>2 DEF MkTypeInv, mkvars, MakerType, MakerAsked
<1> QED
  BY <1>1, MkTypeStep DEF MkNext

LEMMA InitMkType == MkInit => MkTypeInv
<1> SUFFICES ASSUME MkInit PROVE MkTypeInv
  OBVIOUS
<1>1. TypeInv /\ LinksAsked
  BY InitTypeInv, InitAsked DEF MkInit
<1>2. NewMaker({}) \in MakerJobs /\ NewMaker({}).made = {} /\ NewMaker({}).todo = {}
  BY ConstantsOK DEF NewMaker, MakerJobs, NoLock, Locks
<1>3. MakerType /\ MakerAsked
  BY <1>2 DEF MkInit, MakerType, MakerAsked, Asks, MakerLabels
<1>4. LocksOwned
  BY DEF MkInit, Init, LocksOwned, NoLock
<1> QED
  BY <1>1, <1>3, <1>4 DEF MkTypeInv

LEMMA MkTypeInvCorrect == MkSpec => []MkTypeInv
BY InitMkType, NextMkType, PTL DEF MkSpec

\* However devi and mklauncher interleave, and for whatever packages mklauncher
\* is called together, a lock file records names of its own package only, and ".exe"
\* only if the package has launchers.
THEOREM MkTypeCorrect == MkSpec => []MkTypeOK
<1>1. MkTypeInv => MkTypeOK
  BY DEF MkTypeInv, TypeInv, MakerType, LocksOwned, Own, MkTypeOK
<1> QED
  BY <1>1, MkTypeInvCorrect, PTL

-----------------------------------------------------------------------------
(* One command at a time.                                                  *)

OneAtATime ==
    Serial =>
        /\ \A s, t \in Procs : ~At(s, "idle") /\ ~At(t, "idle") => s = t
        /\ \A m, k \in Makers : mpc[m] # "idle" /\ mpc[k] # "idle" => m = k
        /\ \A s \in Procs, m \in Makers : At(s, "idle") \/ mpc[m] = "idle"

\* The lock file mklauncher has read may be written back: it is not ahead of the
\* port, and if it is of the version of the port the directory passes for it.
MakerKnows ==
    \A m \in Makers : mpc[m] \in {"trunc", "write"} =>
        LET p == mjob[m].pkg  v == mjob[m].seen.version IN
        /\ ports[p] # None => v <= ports[p]
        /\ ApplyWorks /\ v > 0 /\ v = ports[p] => PassesFor(p, pkgdir[p], v)

\* A process that takes a step runs.
LEMMA RunsToStep ==
    ASSUME NEW s \in Procs, Step(s) \/ Crash(s)
    PROVE  ~At(s, "idle")
<1> USE DEF Move, At
<1>1. CASE SessionStep(s) \/ RepairStep(s) \/ Crash(s)
  BY <1>1 DEF SessionStep, Acquire, TimeOut, InstallCore, Finish, Fail, Release, NextArgument,
              NextUpgrade, RepairStep, RemakeLink, RemakeLinkFails, PortRepaired, RepairDone,
              RepairPort, SkipLink, LinkIsMissing, Crash
<1>2. CASE InstallStep(s)
  BY <1>2 DEF InstallStep, CheckPort, Download, Unpack, SetAside, Apply, DropBackup,
              OldLinksDropped, LinksDone, MakeLink, MakeLinkFails, TruncateLock, WriteLock,
              WriteVersion, DropOldLink, ClearLink, Return
<1>3. CASE UninstallStep(s)
  BY <1>3 DEF UninstallStep, ReadLock, RemoveLink, RemoveLock, RemoveDir, Return
<1> QED
  BY <1>1, <1>2, <1>3 DEF Step

LEMMA NextOne == MkTypeInv /\ OneAtATime /\ [MkNext]_allvars => OneAtATime'
<1> SUFFICES ASSUME MkTypeInv, OneAtATime, Serial, [MkNext]_allvars PROVE OneAtATime'
  BY DEF OneAtATime
<1> USE DEF At
<1>1. CASE UNCHANGED <<pc, mpc>>
  BY <1>1 DEF OneAtATime
<1>2. ASSUME NEW s \in Procs, UNCHANGED mkvars,
             \/ Step(s) \/ Crash(s)
             \/ \E c \in Commands, a \in SUBSET Pkgs : MayStart /\ Start(s, c, a)
      PROVE  OneAtATime'
  <2>1. \A t \in Procs : t # s => pc'[t] = pc[t]
    BY <1>2, Others DEF MkTypeInv
  <2>2. (\A t \in Procs : t # s => pc[t] = "idle") /\ (\A m \in Makers : mpc[m] = "idle")
    BY <1>2, RunsToStep DEF OneAtATime, MayStart, AllIdle
  <2> QED
    BY <1>2, <2>1, <2>2 DEF OneAtATime, mkvars
<1>3. ASSUME NEW m \in Makers, MkStep(m) PROVE OneAtATime'
  <2>1. pc' = pc /\ \A k \in Makers : k # m => mpc'[k] = mpc[k]
    BY <1>3, MakerLeaves DEF MkTypeInv, MakerType, MkStep, MkReread, MkTruncate, MkWrite,
           MkRecord, MkDone, MkCrash, MkStart, MkCheck, MkBuild, MkBuildUnnoticed,
           MkBuildNothing, MkBuildFails, MkThrow, MkMove
  <2>2. mpc[m] = "idle" => AllIdle
    BY <1>3 DEF MkStep, MkReread, MkTruncate, MkWrite, MkRecord, MkDone, MkCrash, MkStart,
           MkCheck, MkBuild, MkBuildUnnoticed, MkBuildNothing, MkBuildFails, MkThrow, MkMove,
           MayStart
  <2>3. (\A t \in Procs : pc[t] = "idle") /\ (\A k \in Makers : k # m => mpc[k] = "idle")
    BY <2>2 DEF OneAtATime, AllIdle
  <2> QED
    BY <2>1, <2>3 DEF OneAtATime
<1>4. ASSUME NEW p \in Pkgs, Pull(p), UNCHANGED mkvars PROVE UNCHANGED <<pc, mpc>>
  BY <1>4 DEF Pull, mkvars
<1> QED
  BY <1>1, <1>2, <1>3, <1>4 DEF MkNext, DeviStep, allvars, vars, mkvars

\* While mklauncher runs no other command does: only git pull may come between.
LEMMA Undisturbed ==
    ASSUME OneAtATime, Serial, NEW m \in Makers, mpc[m] # "idle", DeviStep
    PROVE  \E p \in Pkgs : Pull(p)
BY RunsToStep DEF OneAtATime, DeviStep, MayStart, AllIdle

LEMMA MakerAlone ==
    ASSUME MkTypeInv, OneAtATime, Serial, NEW m \in Makers, MkStep(m)
    PROVE  /\ \A s \in Procs : pc[s] = "idle"
           /\ \A k \in Makers : k # m => mpc[k] = "idle" /\ mpc'[k] = "idle"
<1>1. mpc[m] = "idle" => AllIdle
  BY DEF MkStep, MkReread, MkTruncate, MkWrite, MkRecord, MkDone, MkCrash, MkStart,
         MkCheck, MkBuild, MkBuildUnnoticed, MkBuildNothing, MkBuildFails, MkThrow, MkMove,
         MayStart
<1>2. \A k \in Makers : k # m => mpc'[k] = mpc[k]
  BY DEF MkTypeInv, MakerType, MkStep, MkReread, MkTruncate, MkWrite, MkRecord, MkDone, MkCrash,
         MkStart, MkCheck, MkBuild, MkBuildUnnoticed, MkBuildNothing, MkBuildFails, MkThrow,
         MkMove
<1> QED
  BY <1>1, <1>2 DEF OneAtATime, AllIdle, At

\* mklauncher rewrites a lock file while no devi process runs.
LEMMA MakerSafe ==
    ASSUME MkTypeInv, OneAtATime, Serial, SafeInv, MakerKnows, NEW m \in Makers, MkStep(m)
    PROVE  SafeInv'
<1>0. /\ UNCHANGED <<ports, pkgdir, temp, pc, job>> /\ \A s \in Procs : pc[s] = "idle"
      /\ locks \in [Pkgs -> Locks] /\ ports \in [Pkgs -> 0 .. MaxVersion] /\ MaxVersion \in Nat
      /\ mjob[m] \in MakerJobs /\ mjob[m].pkg \in Pkgs
  BY MakerLeaves, MakerAlone, ConstantsOK DEF MkTypeInv, TypeInv, TypeOK, MakerType, MakerJobs
<1>1. OldTableCurrent' /\ GoesUp' /\ WritesLast' /\ LockGone' /\ Carried' /\ TempClean'
  BY <1>0 DEF SafeInv, OldTableCurrent, GoesUp, WritesLast, LockGone, Carried, TempClean,
              Inside, AfterCheck, Fresh, Applied, At, PassesFor, ApplyWorks, May
<1>2. CASE locks' = locks
  BY <1>0, <1>1, <1>2 DEF SafeInv, LockBehindPort, UpToDateIfApplied, UpToDate, PassesFor,
                          ApplyWorks, May
<1>3. CASE MkTruncate(m) \/ MkWrite(m)
  <2> DEFINE p == mjob[m].pkg
             v == locks'[p].version
  <2>1. \A q \in Pkgs : q # p => locks'[q] = locks[q]
    BY <1>3, MakerLocks
  <2>2. v = -1 \/ (MkWrite(m) /\ v = mjob[m].seen.version /\ v > 0)
    <3>1. CASE MkTruncate(m) /\ locks'[p] = BrokenLock
      BY <3>1 DEF BrokenLock
    <3>2. CASE MkWrite(m) /\ locks'[p] = [version |-> SeenVersion(m), links |-> mjob[m].made]
      BY <3>2 DEF SeenVersion, Parsed
    <3> QED
      BY <1>3, <3>1, <3>2, MakerLocks
  <2>3. /\ ports[p] # None => v <= ports[p]
        /\ ApplyWorks /\ v > 0 /\ v = ports[p] => PassesFor(p, pkgdir[p], v)
    <3>1. CASE v = -1
      BY <1>0, <3>1
    <3>2. CASE MkWrite(m) /\ v = mjob[m].seen.version
      BY <3>2 DEF MakerKnows, MkWrite, MkRecord, MkMove
    <3> QED
      BY <2>2, <3>1, <3>2
  <2>4. LockBehindPort'
    BY <1>0, <2>1, <2>3 DEF SafeInv, LockBehindPort
  <2>5. ASSUME NEW q \in Pkgs, ApplyWorks, UpToDate(q)'
        PROVE  PassesFor(q, pkgdir[q], ports[q])
    <3>1. CASE q = p
      BY <1>0, <2>3, <2>5, <3>1 DEF UpToDate, Parsed
    <3>2. CASE q # p
      BY <1>0, <2>1, <2>5, <3>2 DEF SafeInv, UpToDateIfApplied, UpToDate
    <3> QED
      BY <3>1, <3>2
  <2>6. UpToDateIfApplied'
    BY <1>0, <2>5 DEF UpToDateIfApplied, PassesFor, ApplyWorks, May
  <2> QED
    BY <1>1, <2>4, <2>6 DEF SafeInv
<1> QED
  BY <1>2, <1>3, MakerLeaves

LEMMA NextKnows ==
    ASSUME MkTypeInv, OneAtATime, Serial, SafeInv, MakerKnows, [MkNext]_allvars
    PROVE  MakerKnows'
<1>0. /\ mpc \in [Makers -> MakerLabels] /\ mjob \in [Makers -> MakerJobs]
      /\ locks \in [Pkgs -> Locks] /\ ports \in [Pkgs -> 0 .. MaxVersion] /\ MaxVersion \in Nat
  BY ConstantsOK DEF MkTypeInv, TypeInv, TypeOK, MakerType
<1>1. ASSUME UNCHANGED <<ports, pkgdir, mpc, mjob>> PROVE MakerKnows'
  BY <1>1 DEF MakerKnows, PassesFor, ApplyWorks, May
<1>2. CASE DeviStep
  <2>1. CASE \A m \in Makers : mpc[m] = "idle"
    BY <1>2, <2>1 DEF DeviStep, mkvars, MakerKnows
  <2>2. CASE \E m \in Makers : mpc[m] # "idle"
    <3>1. PICK q \in Pkgs : Pull(q)
      BY <1>2, <2>2, Undisturbed
    <3>2. /\ UNCHANGED <<pkgdir, mpc, mjob>>
          /\ \A p \in Pkgs : p # q => ports'[p] = ports[p]
          /\ ports[q] # None /\ (ports'[q] = None \/ (ports'[q] \in Int /\ ports'[q] > ports[q]))
      BY <1>0, <1>2, <3>1 DEF Pull, DeviStep, mkvars
    <3>3. ASSUME NEW m \in Makers, mpc[m] \in {"trunc", "write"}, NEW p, p = mjob[m].pkg,
                 NEW v, v = mjob[m].seen.version
          PROVE  /\ ports'[p] # None => v <= ports'[p]
                 /\ ApplyWorks /\ v > 0 /\ v = ports'[p] => PassesFor(p, pkgdir[p], v)
      <4>1. p \in Pkgs /\ v \in Int /\ ports[p] \in Int
        BY <1>0, <3>3 DEF MakerJobs, Locks
      <4>2. /\ ports[p] # None => v <= ports[p]
            /\ ApplyWorks /\ v > 0 /\ v = ports[p] => PassesFor(p, pkgdir[p], v)
        BY <3>3 DEF MakerKnows
      <4>3. CASE p # q
        BY <3>2, <4>1, <4>2, <4>3
      <4>4. CASE p = q
        BY <3>2, <4>1, <4>2, <4>4 DEF None
      <4> QED
        BY <4>3, <4>4
    <3> QED
      BY <3>2, <3>3 DEF MakerKnows, PassesFor, ApplyWorks, May
  <2> QED
    BY <2>1, <2>2
<1>3. ASSUME NEW m \in Makers, MkStep(m) PROVE MakerKnows'
  <2>1. /\ UNCHANGED <<ports, pkgdir>>
        /\ \A k \in Makers : k # m => mpc'[k] = "idle"
    BY <1>3, MakerLeaves, MakerAlone
  <2>2. mpc'[m] \in {"trunc", "write"} => MkReread(m) \/ MkTruncate(m)
    BY <1>0, <1>3 DEF MkStep, MkReread, MkTruncate, MkWrite, MkRecord, MkDone, MkCrash, MkStart,
           MkCheck, MkBuild, MkBuildUnnoticed, MkBuildNothing, MkBuildFails, MkThrow, MkMove
  <2>3. CASE MkReread(m)
    <3>1. mjob'[m].pkg = mjob[m].pkg /\ mjob'[m].seen = locks[mjob[m].pkg]
      BY <1>0, <2>3 DEF MkReread, MkSet, MakerJobs
    <3>2. PICK p \in Pkgs : p = mjob[m].pkg
      BY <1>0 DEF MakerJobs
    <3>3. /\ ports[p] # None => locks[p].version <= ports[p]
          /\ ApplyWorks /\ locks[p].version > 0 /\ locks[p].version = ports[p]
               => PassesFor(p, pkgdir[p], locks[p].version)
      BY <1>0 DEF SafeInv, LockBehindPort, UpToDateIfApplied, UpToDate, Parsed
    <3> QED
      BY <2>1, <3>1, <3>2, <3>3 DEF MakerKnows, PassesFor, ApplyWorks, May
  <2>4. CASE MkTruncate(m)
    <3>1. mpc[m] = "trunc" /\ mjob' = mjob
      BY <2>4 DEF MkTruncate, MkMove
    <3> QED
      BY <2>1, <3>1 DEF MakerKnows, PassesFor, ApplyWorks, May
  <2>5. CASE mpc'[m] \notin {"trunc", "write"}
    BY <2>1, <2>5 DEF MakerKnows
  <2> QED
    BY <2>2, <2>3, <2>4, <2>5
<1> QED
  BY <1>1, <1>2, <1>3 DEF MkNext, allvars, vars, mkvars

LEMMA NextMkSafe ==
    /\ MkTypeInv /\ MutualExclusion /\ OneAtATime /\ (Serial => SafeInv /\ MakerKnows)
    /\ [MkNext]_allvars
    => (Serial => SafeInv /\ MakerKnows)'
<1> SUFFICES ASSUME MkTypeInv, MutualExclusion, OneAtATime, Serial, SafeInv, MakerKnows,
                    [MkNext]_allvars
             PROVE  SafeInv' /\ MakerKnows'
  OBVIOUS
<1>1. CASE DeviStep \/ UNCHANGED allvars
  <2>1. [Next]_vars
    BY <1>1, DeviNext DEF allvars
  <2> QED
    BY <2>1, NextSafe, NextKnows DEF MkTypeInv
<1> QED
  BY <1>1, MakerSafe, NextKnows DEF MkNext

LEMMA NextMkMutex == MkTypeInv /\ MutualExclusion /\ [MkNext]_allvars => MutualExclusion'
<1> SUFFICES ASSUME MkTypeInv, MutualExclusion, [MkNext]_allvars PROVE MutualExclusion'
  OBVIOUS
<1>1. CASE DeviStep \/ UNCHANGED allvars
  BY <1>1, DeviNext, MutexNext DEF allvars, MkTypeInv
<1>2. ASSUME NEW m \in Makers, MkStep(m) PROVE MutualExclusion'
  BY <1>2, MakerLeaves DEF MutualExclusion, Holding
<1> QED
  BY <1>1, <1>2 DEF MkNext

LEMMA MkMutexCorrect == MkSpec => []MutualExclusion
<1>1. MkInit => MutualExclusion
  BY ConstantsOK DEF MkInit, Init, MutualExclusion, Holding
<1> QED
  BY <1>1, NextMkMutex, MkTypeInvCorrect, PTL DEF MkSpec

LEMMA MkSafeCorrect == MkSpec => [](OneAtATime /\ (Serial => SafeInv /\ MakerKnows))
<1>1. MkInit => OneAtATime /\ (Serial => SafeInv /\ MakerKnows)
  BY InitSafe DEF MkInit, Init, OneAtATime, MakerKnows, At
<1> QED
  BY <1>1, NextOne, NextMkSafe, MkTypeInvCorrect, MkMutexCorrect, PTL DEF MkSpec

\* One command at a time: what mklauncher writes into a lock file is as true as
\* what it read there, although the port may have moved on in between.
THEOREM LaunchedCorrect == MkSpec => [](Serial /\ ApplyWorks => LaunchedIsTrue)
<1>1. SafeInv /\ ApplyWorks => LaunchedIsTrue
  BY DEF SafeInv, UpToDateIfApplied, UpToDateIsTrue, LaunchedIsTrue
<1> QED
  BY <1>1, MkSafeCorrect, PTL

-----------------------------------------------------------------------------
(* The launchers a lock file records.                                      *)

Noticed == ~MayBuild("unnoticed")

\* The launchers of p, and the links, that a lock file or a process answers for.
KeptExist ==
    /\ \A p \in Pkgs : Quiet(p) => locks[p].links \ {DotExe} \subseteq linked
    /\ \A s \in Procs : AtWork(s) => Kept(s) \ {DotExe} \subseteq linked \cap Own(job[s].pkg)
MadeExist ==
    \A m \in Makers : mpc[m] # "idle" => mjob[m].made \ {DotExe} \subseteq linked

LEMMA OwnDisjoint ==
    ASSUME NEW p \in Pkgs, NEW q \in Pkgs, p # q
    PROVE  Own(p) \cap Own(q) = {}
BY LinksDisjoint, LaunchersDisjoint DEF Own

\* A step of a process that is not at work on a package removes no link.
LEMMA KeptIdle ==
    ASSUME KeptExist, NEW s \in Procs, ~AtWork(s), ~AtWork(s)',
           \A t \in Procs : t # s => pc'[t] = pc[t] /\ job'[t] = job[t],
           locks' = locks, linked \subseteq linked'
    PROVE  KeptExist'
<1>1. \A t \in Procs : AtWork(t)' => t # s /\ AtWork(t) /\ Kept(t)' = Kept(t)
  BY DEF AtWork, Holding, Kept
<1>2. \A p \in Pkgs : Quiet(p)' => Quiet(p)
  BY DEF Quiet, Working, AtWork, Holding
<1>3. \A t \in Procs : AtWork(t)' => Own(job[t].pkg)' = Own(job[t].pkg)
  BY <1>1 DEF Own, Owned, Launched
<1> QED
  BY <1>1, <1>2, <1>3 DEF KeptExist

\* A step of the process that holds the mutex changes what belongs to one
\* package p, the one it works on before or after.
LEMMA KeptFrame ==
    ASSUME MutualExclusion, LocksOwned, KeptExist, NEW s \in Procs, Holding(s),
           NEW p \in Pkgs, AtWork(s) => job[s].pkg = p,
           \A t \in Procs : t # s => pc'[t] = pc[t] /\ job'[t] = job[t],
           \A q \in Pkgs : q # p => locks'[q] = locks[q],
           linked \ (Own(p) \cup {DotExe}) \subseteq linked',
           AtWork(s)' => job'[s].pkg = p /\ Kept(s)' \ {DotExe} \subseteq linked' \cap Own(p),
           ~AtWork(s)' => locks'[p].links \ {DotExe} \subseteq linked'
    PROVE  KeptExist'
<1>1. \A t \in Procs : t # s => ~AtWork(t) /\ ~AtWork(t)'
  BY DEF MutualExclusion, AtWork, Holding
<1>2. ASSUME NEW q \in Pkgs, q # p PROVE locks'[q].links \ {DotExe} \subseteq linked'
  <2>1. Quiet(q)
    BY <1>1, <1>2 DEF Quiet, Working, AtWork
  <2>2. /\ locks[q].links \ {DotExe} \subseteq linked
        /\ locks[q].links \ {DotExe} \subseteq Own(q)
    BY <2>1 DEF KeptExist, LocksOwned, Nameless
  <2> QED
    BY <1>2, <2>2, OwnDisjoint
<1>3. ASSUME AtWork(s)' PROVE ~Quiet(p)'
  BY <1>3 DEF Quiet, Working, AtWork
<1>4. ASSUME NEW q \in Pkgs, Quiet(q)' PROVE locks'[q].links \ {DotExe} \subseteq linked'
  <2>1. CASE q # p
    BY <1>2, <2>1
  <2>2. CASE q = p
    BY <1>3, <1>4, <2>2
  <2> QED
    BY <2>1, <2>2
<1>5. ASSUME NEW t \in Procs, AtWork(t)'
      PROVE  Kept(t)' \ {DotExe} \subseteq linked' \cap Own(job[t].pkg)'
  <2>1. t = s
    BY <1>1, <1>5
  <2> QED
    BY <1>5, <2>1 DEF Own, Owned, Launched
<1> QED
  BY <1>4, <1>5 DEF KeptExist

\* A step of a process at work that touches no link and no lock file, and keeps
\* what Kept reads; it may be the last one.
LEMMA KeptStays ==
    ASSUME TypeInv, MutualExclusion, LocksOwned, KeptExist, NEW s \in Procs, AtWork(s),
           \A t \in Procs : t # s => pc'[t] = pc[t] /\ job'[t] = job[t],
           UNCHANGED <<locks, linked>>,
           AtWork(s)' => job'[s].pkg = job[s].pkg /\ Kept(s)' = Kept(s),
           ~AtWork(s)' => Kept(s) = locks[job[s].pkg].links
    PROVE  KeptExist'
<1>1. PICK p \in Pkgs : p = job[s].pkg
  BY DEF TypeInv, TypeOK, Jobs
<1>2. Kept(s) \ {DotExe} \subseteq linked \cap Own(p)
  BY <1>1 DEF KeptExist
<1> QED
  BY <1>1, <1>2, KeptFrame DEF AtWork

\* The steps of Install-Port that touch no link and no lock file.
LEMMA KeptLocal ==
    ASSUME TypeInv, MutualExclusion, LocksOwned, SafeInv, LinksAsked, KeptExist, NEW s \in Procs,
           \/ CheckPort(s) \/ Download(s) \/ Unpack(s) \/ SetAside(s) \/ Apply(s)
           \/ DropBackup(s) \/ OldLinksDropped(s) \/ LinksDone(s) \/ MakeLinkFails(s)
    PROVE  KeptExist'
<1>0. /\ job[s] \in Jobs /\ job \in [Procs -> Jobs] /\ pc \in [Procs -> Labels]
      /\ \A t \in Procs : t # s => pc'[t] = pc[t] /\ job'[t] = job[t]
  BY Others DEF TypeInv, TypeOK, Step, InstallStep
<1>1. UNCHANGED <<locks, linked>>
  BY DEF CheckPort, Download, Unpack, SetAside, Apply, DropBackup, OldLinksDropped,
         LinksDone, MakeLinkFails, OnlyLocal, disk
<1> USE DEF Move, At, Goto
<1>2. ASSUME NEW from \in {"check", "download", "unpack"}, NEW ok, Return(s, from, ok)
      PROVE  KeptExist'
  <2>1. pc[s] = from /\ pc'[s] \in {"next", "fail"}
    BY <1>0, <1>2 DEF Return
  <2>2. AtWork(s) /\ ~AtWork(s)' /\ Kept(s) = locks[job[s].pkg].links
    BY <2>1 DEF AtWork, Holding, Kept, Dropping, Recording, Linking
  <2> QED
    BY <1>0, <1>1, <2>2, KeptStays
\* From a label before the links to another.
<1>3. ASSUME pc[s] \in {"check", "download", "unpack", "rename", "move"},
             pc'[s] \in {"download", "unpack", "rename", "move", "drop"},
             job'[s].pkg = job[s].pkg
      PROVE  KeptExist'
  <2>1. /\ AtWork(s) /\ AtWork(s)' /\ Kept(s) = locks[job[s].pkg].links
        /\ Kept(s)' = locks'[job'[s].pkg].links
    BY <1>3 DEF AtWork, Holding, Kept, Dropping, Recording, Linking
  <2> QED
    BY <1>0, <1>1, <1>3, <2>1, KeptStays
<1>4. CASE CheckPort(s)
  <2>1. CASE \E ok : Return(s, "check", ok)
    BY <1>2, <2>1
  <2>2. CASE /\ Move(s, "check", "download")
             /\ Set(s, [job[s] EXCEPT !.ver = ports[job[s].pkg], !.old = locks[job[s].pkg]])
    BY <1>0, <1>3, <2>2 DEF Set, Jobs
  <2> QED
    BY <1>4, <2>1, <2>2 DEF CheckPort
<1>5. CASE Download(s) \/ Unpack(s)
  <2>1. CASE Return(s, "download", FALSE) \/ Return(s, "unpack", FALSE)
    BY <1>2, <2>1
  <2>2. CASE (Move(s, "download", "unpack") \/ Move(s, "unpack", "rename")) /\ UNCHANGED job
    BY <1>0, <1>3, <2>2
  <2> QED
    BY <1>5, <2>1, <2>2 DEF Download, Unpack
<1>6. CASE SetAside(s) \/ Apply(s)
  BY <1>0, <1>3, <1>6 DEF SetAside, Apply, Set, Jobs
<1>7. CASE DropBackup(s)
  <2>1. /\ pc[s] = "drop" /\ pc'[s] = "oldlinks" /\ job'[s].pkg = job[s].pkg
        /\ job'[s].todo = job[s].old.links
    BY <1>0, <1>7 DEF DropBackup, Set, Jobs
  <2>2. job[s].old = locks[job[s].pkg]
    BY <2>1 DEF SafeInv, OldTableCurrent, AfterCheck
  <2>3. Kept(s)' = Kept(s) /\ AtWork(s) /\ AtWork(s)'
    BY <2>1, <2>2 DEF Kept, Dropping, Recording, Linking, AtWork, Holding
  <2> QED
    BY <1>0, <1>1, <2>1, <2>3, KeptStays
<1>8. CASE OldLinksDropped(s)
  <2>1. /\ pc[s] = "oldlinks" /\ pc'[s] = "clear" /\ job'[s].pkg = job[s].pkg
        /\ job[s].todo = {} /\ job'[s].made = {}
    BY <1>0, <1>8 DEF OldLinksDropped, Set, Jobs, LinksAsked, Linking
  <2>2. Kept(s) = {} /\ Kept(s)' = {} /\ AtWork(s) /\ AtWork(s)'
    BY <2>1 DEF Kept, Dropping, Recording, Linking, AtWork, Holding
  <2> QED
    BY <1>0, <1>1, <2>1, <2>2, KeptStays
<1>9. CASE LinksDone(s) \/ MakeLinkFails(s)
  <2>1. /\ pc[s] \in Linking /\ pc'[s] = "trunc" /\ job'[s].pkg = job[s].pkg
        /\ job'[s].made = job[s].made
    BY <1>0, <1>9 DEF LinksDone, MakeLinkFails, Set, Jobs, Linking
  <2>2. Kept(s)' = Kept(s) /\ AtWork(s) /\ AtWork(s)'
    BY <2>1 DEF Kept, Dropping, Recording, Linking, AtWork, Holding
  <2> QED
    BY <1>0, <1>1, <2>1, <2>2, KeptStays
<1> QED
  BY <1>4, <1>5, <1>6, <1>7, <1>8, <1>9

\* Those that remove or make a link, or write the lock file.
LEMMA KeptInstall ==
    ASSUME TypeInv, MutualExclusion, LocksOwned, LinksAsked, VisitedOnce, KeptExist,
           NEW s \in Procs,
           \/ MakeLink(s) \/ TruncateLock(s) \/ WriteLock(s)
           \/ \E n \in job[s].todo : DropOldLink(s, n) \/ ClearLink(s, n)
    PROVE  KeptExist'
<1> USE DEF Move, At, Goto
<1>1. PICK p \in Pkgs : p = job[s].pkg
  BY DEF TypeInv, TypeOK, Jobs
<1>0. /\ job[s] \in Jobs /\ job \in [Procs -> Jobs] /\ pc \in [Procs -> Labels]
      /\ locks \in [Pkgs -> Locks]
      /\ \A t \in Procs : t # s => pc'[t] = pc[t] /\ job'[t] = job[t]
  BY Others DEF TypeInv, TypeOK, Step, InstallStep
<1>2. /\ AtWork(s) /\ Holding(s)
      /\ \A q \in Pkgs : q # p => locks'[q] = locks[q]
  BY <1>0, <1>1 DEF MakeLink, DropOldLink, ClearLink, TruncateLock, WriteLock, WriteVersion,
                    Return, AtWork, Holding, OnlyLinks
<1>3. Kept(s) \ {DotExe} \subseteq linked \cap Own(p)
  BY <1>1, <1>2 DEF KeptExist
<1>4. CASE TruncateLock(s) \/ WriteLock(s)
  <2>1. /\ pc[s] \in {"trunc", "write"} /\ pc'[s] \in {"write", "next", "fail"}
        /\ linked' = linked
        /\ pc'[s] = "write" => job' = job
        /\ pc'[s] # "write" => locks'[p].links = job[s].made
    BY <1>0, <1>1, <1>4 DEF TruncateLock, WriteLock, WriteVersion, Return
  <2>2. /\ Kept(s) = job[s].made /\ (AtWork(s)' <=> pc'[s] = "write")
        /\ pc'[s] = "write" => Kept(s)' = job[s].made
    BY <2>1 DEF AtWork, Holding, Kept, Dropping, Recording, Linking
  <2> QED
    BY <1>0, <1>1, <1>2, <1>3, <2>1, <2>2, KeptFrame
<1>5. ASSUME NEW n \in job[s].todo, DropOldLink(s, n) PROVE KeptExist'
  <2>1. /\ pc[s] = "oldlinks" /\ pc'[s] = "oldlinks" /\ job'[s].pkg = p
        /\ job'[s].todo = job[s].todo \ {n} /\ linked' = linked \ {n}
    BY <1>0, <1>1, <1>5 DEF DropOldLink, Set, Jobs
  <2>2. /\ Kept(s) = job[s].todo /\ Kept(s)' = job[s].todo \ {n} /\ AtWork(s)'
    BY <2>1 DEF AtWork, Holding, Kept, Dropping
  <2>3. n \in Own(p) \cup {DotExe}
    BY <1>3, <2>2
  <2> QED
    BY <1>0, <1>1, <1>2, <1>3, <2>1, <2>2, <2>3, KeptFrame
<1>6. ASSUME NEW n \in job[s].todo, ClearLink(s, n) PROVE KeptExist'
  <2>1. /\ pc[s] = "clear" /\ pc'[s] = "make" /\ job'[s].pkg = p
        /\ job'[s].made = job[s].made /\ linked' = linked \ {n}
    BY <1>0, <1>1, <1>6 DEF ClearLink, Set, Jobs
  <2>2. /\ Kept(s) = job[s].made /\ Kept(s)' = job[s].made /\ AtWork(s)'
    BY <2>1 DEF AtWork, Holding, Kept, Dropping, Recording, Linking
  <2>3. n \in Own(p) /\ n \notin job[s].made
    BY <1>1, <2>1, AskedOwned DEF LinksAsked, VisitedOnce, Linking, Recording, Own
  <2> QED
    BY <1>0, <1>1, <1>2, <1>3, <2>1, <2>2, <2>3, KeptFrame
<1>7. ASSUME MakeLink(s) PROVE KeptExist'
  <2>1. /\ pc[s] = "make" /\ pc'[s] = "clear" /\ job'[s].pkg = p
        /\ job'[s].made = job[s].made \cup job[s].cur
        /\ linked' = linked \cup job[s].cur
    BY <1>0, <1>1, <1>7 DEF MakeLink, Set, Jobs
  <2>2. /\ Kept(s) = job[s].made /\ Kept(s)' = job[s].made \cup job[s].cur /\ AtWork(s)'
    BY <2>1 DEF AtWork, Holding, Kept, Dropping, Recording, Linking
  <2>3. job[s].cur \subseteq Own(p)
    BY <1>1, <2>1, AskedOwned DEF LinksAsked, Linking, Recording, Own
  <2> QED
    BY <1>0, <1>1, <1>2, <1>3, <2>1, <2>2, <2>3, KeptFrame
<1> QED
  BY <1>4, <1>5, <1>6, <1>7

LEMMA KeptUninstall ==
    ASSUME TypeInv, MutualExclusion, LocksOwned, SafeInv, KeptExist, NEW s \in Procs,
           UninstallStep(s)
    PROVE  KeptExist'
<1> USE DEF Move, At, Goto
<1>1. PICK p \in Pkgs : p = job[s].pkg
  BY DEF TypeInv, TypeOK, Jobs
<1>0. /\ job[s] \in Jobs /\ job \in [Procs -> Jobs] /\ pc \in [Procs -> Labels]
      /\ locks \in [Pkgs -> Locks]
      /\ \A t \in Procs : t # s => pc'[t] = pc[t] /\ job'[t] = job[t]
  BY Others DEF TypeInv, TypeOK, Step
<1>2. AtWork(s) /\ Holding(s)
  BY DEF UninstallStep, ReadLock, RemoveLink, RemoveLock, RemoveDir, Return, AtWork, Holding
<1>3. Kept(s) \ {DotExe} \subseteq linked \cap Own(p)
  BY <1>1, <1>2 DEF KeptExist
<1>4. CASE ReadLock(s)
  <2>1. /\ pc[s] = "ulock" /\ pc'[s] \in {"udir", "ulinks"} /\ job'[s].pkg = job[s].pkg
        /\ job'[s].todo = locks[job[s].pkg].links /\ UNCHANGED <<locks, linked>>
    BY <1>0, <1>4 DEF ReadLock, Set, Jobs, OnlyLocal, disk
  <2>2. Kept(s)' = Kept(s) /\ AtWork(s)'
    BY <2>1 DEF AtWork, Holding, Kept, Dropping, Recording, Linking
  <2> QED
    BY <1>0, <1>2, <2>1, <2>2, KeptStays
<1>5. ASSUME NEW n \in job[s].todo, RemoveLink(s, n) PROVE KeptExist'
  <2>1. /\ pc[s] = "ulinks" /\ pc'[s] = "ulinks" /\ job'[s].pkg = p
        /\ job'[s].todo = job[s].todo \ {n} /\ linked' = linked \ {n} /\ locks' = locks
    BY <1>0, <1>1, <1>5 DEF RemoveLink, Set, Jobs, OnlyLinks
  <2>2. /\ Kept(s) = job[s].todo /\ Kept(s)' = job[s].todo \ {n} /\ AtWork(s)'
    BY <2>1 DEF AtWork, Holding, Kept, Dropping
  <2>3. n \in Own(p) \cup {DotExe}
    BY <1>3, <2>2
  <2> QED
    BY <1>0, <1>1, <1>2, <1>3, <2>1, <2>2, <2>3, KeptFrame
<1>6. CASE RemoveLock(s)
  <2>1. /\ pc'[s] = "unlocked" /\ job'[s].pkg = p /\ linked' = linked
        /\ locks' = [locks EXCEPT ![p] = NoLock]
    BY <1>0, <1>1, <1>6 DEF RemoveLock
  <2>2. Kept(s)' = {} /\ AtWork(s)'
    BY <1>0, <2>1 DEF AtWork, Holding, Kept, Dropping, Recording, Linking, NoLock
  <2> QED
    BY <1>0, <1>1, <1>2, <2>1, <2>2, KeptFrame
<1>7. CASE RemoveDir(s)
  <2>1. /\ pc[s] \in {"udir", "unlocked"} /\ pc'[s] \in {"next", "fail"}
        /\ UNCHANGED <<locks, linked>>
    BY <1>0, <1>1, <1>7 DEF RemoveDir, Return
  <2>2. Kept(s) = locks[p].links /\ ~AtWork(s)'
    BY <1>1, <2>1 DEF Kept, Dropping, Recording, Linking, AtWork
  <2> QED
    BY <1>0, <1>1, <1>2, <2>1, <2>2, KeptStays
<1> QED
  BY <1>4, <1>5, <1>6, <1>7 DEF UninstallStep

\* A session takes the next package up.
LEMMA KeptBegin ==
    ASSUME TypeInv, MutualExclusion, LocksOwned, KeptExist, NEW s \in Procs, NEW p \in job[s].args,
           NextArgument(s, p) \/ NextUpgrade(s, p), pc'[s] # "next"
    PROVE  KeptExist'
<1> USE DEF Move, At, Goto
<1>1. /\ job[s] \in Jobs /\ job \in [Procs -> Jobs] /\ pc \in [Procs -> Labels] /\ p \in Pkgs
      /\ \A t \in Procs : t # s => pc'[t] = pc[t] /\ job'[t] = job[t]
  BY Others DEF TypeInv, TypeOK, Jobs, Step, SessionStep
<1>2. /\ pc[s] = "next" /\ pc'[s] \in {"check", "ulock"} /\ job'[s].pkg = p
      /\ UNCHANGED <<locks, linked>>
  <2>1. CASE NextArgument(s, p)
    BY <1>1, <2>1 DEF NextArgument, Set, Jobs, OnlyLocal, disk
  <2>2. CASE NextUpgrade(s, p)
    <3> DEFINE j == [job[s] EXCEPT !.args = @ \ {p}]
    <3>1. /\ [j EXCEPT !.pkg = p].pkg = p
          /\ [j EXCEPT !.pkg = p, !.table = @ \cup {p}].pkg = p
      BY <1>1 DEF Jobs
    <3>2. /\ pc[s] = "next" /\ pc'[s] \in {"check", "ulock"}
          /\ \/ job'[s] = [j EXCEPT !.pkg = p]
             \/ job'[s] = [j EXCEPT !.pkg = p, !.table = @ \cup {p}]
      BY <1>1, <2>2 DEF NextUpgrade, Set
    <3> QED
      BY <2>2, <3>1, <3>2 DEF NextUpgrade, OnlyLocal, disk
  <2> QED
    BY <2>1, <2>2
<1>3. Holding(s) /\ ~AtWork(s) /\ AtWork(s)' /\ Kept(s)' = locks[p].links
  BY <1>2 DEF AtWork, Holding, Kept, Dropping, Recording, Linking
<1>4. Quiet(p)
  BY <1>3 DEF Quiet, Working, AtWork, MutualExclusion
<1>5. locks[p].links \ {DotExe} \subseteq linked \cap Own(p)
  BY <1>1, <1>4 DEF KeptExist, LocksOwned, Nameless
<1> QED
  BY <1>1, <1>2, <1>3, <1>5, KeptFrame

LEMMA KeptOther ==
    ASSUME TypeInv, MutualExclusion, LocksOwned, KeptExist, NEW s \in Procs,
           \/ SessionStep(s) \/ RepairStep(s)
           \/ \E c \in Commands, a \in SUBSET Pkgs : Start(s, c, a)
    PROVE  KeptExist'
<1> USE DEF Move, At, Goto
<1>1. /\ job[s] \in Jobs /\ job \in [Procs -> Jobs] /\ pc \in [Procs -> Labels]
      /\ \A t \in Procs : t # s => pc'[t] = pc[t] /\ job'[t] = job[t]
  BY Others DEF TypeInv, TypeOK, Step
<1>2. CASE Acquire(s) \/ TimeOut(s) \/ InstallCore(s) \/ Finish(s) \/ Fail(s)
  <2>1. ~AtWork(s) /\ ~AtWork(s)' /\ UNCHANGED <<locks, linked>>
    BY <1>1, <1>2 DEF Acquire, TimeOut, InstallCore, Finish, Fail, Release, AtWork, Holding,
                      OnlyLocal, disk
  <2> QED
    BY <1>1, <2>1, KeptIdle
<1>3. ASSUME NEW p \in job[s].args, NextArgument(s, p) \/ NextUpgrade(s, p) PROVE KeptExist'
  <2>1. CASE pc'[s] = "next"
    <3>1. ~AtWork(s) /\ ~AtWork(s)' /\ UNCHANGED <<locks, linked>>
      BY <1>3, <2>1 DEF NextArgument, NextUpgrade, AtWork, OnlyLocal, disk
    <3> QED
      BY <1>1, <3>1, KeptIdle
  <2> QED
    BY <1>3, <2>1, KeptBegin
<1>4. ASSUME NEW c, NEW a, Start(s, c, a) PROVE KeptExist'
  <2>1. ~AtWork(s) /\ ~AtWork(s)' /\ UNCHANGED <<locks, linked>>
    BY <1>1, <1>4 DEF Start, AtWork, Holding, disk
  <2> QED
    BY <1>1, <2>1, KeptIdle
<1>5. CASE RepairStep(s)
  <2>1. ~AtWork(s) /\ ~AtWork(s)' /\ locks' = locks /\ linked \subseteq linked'
    BY <1>1, <1>5 DEF RepairStep, RemakeLink, RemakeLinkFails, PortRepaired, RepairDone,
                      RepairPort, SkipLink, LinkIsMissing, AtWork, Holding, OnlyLocal,
                      OnlyLinks, disk
  <2> QED
    BY <1>1, <2>1, KeptIdle
<1> QED
  BY <1>2, <1>3, <1>4, <1>5 DEF SessionStep

LEMMA KeptDevi ==
    ASSUME MkTypeInv, MutualExclusion, SafeInv, VisitedOnce, NoCrash, KeptExist, [Next]_vars
    PROVE  KeptExist'
<1>0. TypeInv /\ LinksAsked /\ LocksOwned
  BY DEF MkTypeInv
<1>1. CASE UNCHANGED vars \/ \E p \in Pkgs : Pull(p)
  BY <1>1 DEF vars, Pull, KeptExist, Quiet, Working, AtWork, Holding, Kept, Own, Owned, Launched
<1>2. ASSUME NEW s \in Procs, InstallStep(s) PROVE KeptExist'
  BY <1>0, <1>2, KeptLocal, KeptInstall DEF InstallStep
<1>3. ASSUME NEW s \in Procs, Crash(s) PROVE FALSE
  BY <1>3 DEF Crash, NoCrash
<1> QED
  BY <1>0, <1>1, <1>2, <1>3, KeptUninstall, KeptOther DEF Next, Step

\* mklauncher, while no devi process runs: what it has made is there, and only
\* that is recorded.
LEMMA KeptMaker ==
    ASSUME MkTypeInv, OneAtATime, Serial, Noticed, KeptExist, MadeExist,
           NEW m \in Makers, MkStep(m)
    PROVE  KeptExist' /\ MadeExist'
<1>0. /\ UNCHANGED <<pc, job>> /\ \A s \in Procs : pc[s] = "idle"
      /\ linked \subseteq linked'
      /\ \A k \in Makers : k # m => mpc'[k] = "idle"
      /\ mpc \in [Makers -> MakerLabels] /\ mjob \in [Makers -> MakerJobs] /\ mjob[m] \in MakerJobs
  BY MakerLeaves, MakerAlone DEF MkTypeInv, MakerType
<1>1. \A s \in Procs : ~AtWork(s) /\ ~AtWork(s)'
  BY <1>0 DEF AtWork, Holding
<1>2. \A p \in Pkgs : locks[p].links \ {DotExe} \subseteq linked
  BY <1>1 DEF KeptExist, Quiet, Working, AtWork
<1>3. \A p \in Pkgs : locks'[p].links \ {DotExe} \subseteq linked'
  <2>1. CASE locks' = locks
    BY <1>0, <1>2, <2>1
  <2>2. ASSUME MkTruncate(m) \/ MkWrite(m), NEW p \in Pkgs
        PROVE  locks'[p].links \ {DotExe} \subseteq linked'
    <3>1. mjob[m].made \ {DotExe} \subseteq linked
      BY <2>2 DEF MkTruncate, MkWrite, MkRecord, MkMove, MadeExist
    <3>2. CASE p # mjob[m].pkg
      BY <1>0, <1>2, <2>2, <3>2, MakerLocks
    <3>3. CASE p = mjob[m].pkg
      <4>1. \/ locks'[p] = BrokenLock
            \/ locks'[p] = [version |-> SeenVersion(m), links |-> mjob[m].made]
        BY <2>2, <3>3, MakerLocks
      <4> QED
        BY <1>0, <3>1, <4>1 DEF BrokenLock
    <3> QED
      BY <3>2, <3>3
  <2> QED
    BY <2>1, <2>2, MakerLeaves
<1>4. KeptExist'
  BY <1>1, <1>3 DEF KeptExist
<1>5. mpc'[m] # "idle" => mjob'[m].made \ {DotExe} \subseteq linked'
  <2>1. ASSUME NEW a, MkStart(m, a) PROVE mjob'[m].made \ {DotExe} \subseteq linked'
    BY <1>0, <2>1 DEF MkStart, MkSet, NewMaker
  <2>2. CASE MkDone(m) \/ MkCrash(m)
    BY <1>0, <2>2 DEF MkDone, MkCrash, MkMove
  <2>3. ASSUME NEW n \in mjob[m].todo, MkBuild(m, n) PROVE mjob'[m].made \ {DotExe} \subseteq linked'
    <3>1. mpc[m] # "idle" /\ linked' = linked \cup {n} /\ mjob'[m].made = mjob[m].made \cup {n}
      BY <1>0, <2>3 DEF MkBuild, MkMove, MkSet, MakerJobs
    <3> QED
      BY <3>1 DEF MadeExist
  <2>4. ASSUME NEW p \in mjob[m].args, MkCheck(m, p) PROVE mjob'[m].made \ {DotExe} \subseteq linked'
    <3> DEFINE i == [mjob[m] EXCEPT !.args = @ \ {p}]
               j == [i EXCEPT !.pkg = p, !.todo = Launchers[p][ports[p]], !.made = {}]
    <3>1. i.made = mjob[m].made /\ j.made = {}
      BY <1>0 DEF MakerJobs
    <3>2. mpc[m] # "idle" /\ (mjob'[m] = i \/ mjob'[m] = j)
      BY <1>0, <2>4 DEF MkCheck, MkMove, MkSet
    <3> HIDE DEF i, j
    <3> QED
      BY <1>0, <3>1, <3>2 DEF MadeExist
  <2>5. ASSUME \/ MkReread(m) \/ MkTruncate(m) \/ MkWrite(m)
               \/ \E n \in mjob[m].todo : MkBuildNothing(m, n) \/ MkBuildFails(m, n) \/ MkThrow(m, n)
        PROVE  mjob'[m].made \ {DotExe} \subseteq linked'
    <3>1. mpc[m] # "idle"
      BY <2>5 DEF MkReread, MkTruncate, MkWrite, MkRecord, MkBuildNothing, MkBuildFails,
                  MkThrow, MkMove
    <3>2. CASE \/ MkReread(m) \/ MkTruncate(m) \/ MkWrite(m)
               \/ \E n \in mjob[m].todo : MkBuildFails(m, n) \/ MkThrow(m, n)
      BY <1>0, <3>2 DEF MkReread, MkTruncate, MkWrite, MkRecord, MkBuildFails, MkThrow,
                        MkMove, MkSet, MakerJobs, MadeExist
    <3>3. ASSUME NEW n \in mjob[m].todo, MkBuildNothing(m, n)
          PROVE  mjob'[m].made = mjob[m].made \cup {DotExe}
      BY <1>0, <3>3 DEF MkBuildNothing, MkSet, MakerJobs
    <3> QED
      BY <1>0, <2>5, <3>1, <3>2, <3>3 DEF MadeExist
  <2>6. \A n : ~MkBuildUnnoticed(m, n)
    BY DEF Noticed, MkBuildUnnoticed
  <2> QED
    BY <2>1, <2>2, <2>3, <2>4, <2>5, <2>6 DEF MkStep
<1>6. MadeExist'
  BY <1>0, <1>5 DEF MadeExist
<1> QED
  BY <1>4, <1>6

LEMMA NextKept ==
    /\ MkTypeInv /\ MutualExclusion /\ OneAtATime /\ (Serial => SafeInv) /\ VisitedOnce
    /\ (Serial /\ NoCrash /\ Noticed => KeptExist /\ MadeExist) /\ [MkNext]_allvars
    => (Serial /\ NoCrash /\ Noticed => KeptExist /\ MadeExist)'
<1> SUFFICES ASSUME MkTypeInv, MutualExclusion, OneAtATime, SafeInv, VisitedOnce,
                    Serial, NoCrash, Noticed, KeptExist, MadeExist, [MkNext]_allvars
             PROVE  KeptExist' /\ MadeExist'
  BY DEF NoCrash, Noticed, May, MayBuild
<1>1. CASE DeviStep
  <2>1. KeptExist'
    BY <1>1, DeviNext, KeptDevi
  <2>2. MadeExist'
    <3>1. CASE \E m \in Makers : mpc[m] # "idle"
      <4>1. linked' = linked
        BY <1>1, <3>1, Undisturbed DEF Pull
      <4> QED
        BY <1>1, <4>1 DEF DeviStep, mkvars, MadeExist
    <3>2. CASE \A m \in Makers : mpc[m] = "idle"
      BY <1>1, <3>2 DEF DeviStep, mkvars, MadeExist
    <3> QED
      BY <3>1, <3>2
  <2> QED
    BY <2>1, <2>2
<1>2. CASE UNCHANGED allvars
  BY <1>2, KeptDevi DEF allvars, mkvars, MadeExist, vars
<1> QED
  BY <1>1, <1>2, KeptMaker DEF MkNext

LEMMA NextMkVisited ==
    MkTypeInv /\ MutualExclusion /\ VisitedOnce /\ [MkNext]_allvars => VisitedOnce'
<1> SUFFICES ASSUME MkTypeInv, MutualExclusion, VisitedOnce, [MkNext]_allvars
             PROVE  VisitedOnce'
  OBVIOUS
<1>1. CASE DeviStep \/ UNCHANGED allvars
  BY <1>1, DeviNext, VisitedNext DEF allvars, MkTypeInv
<1>2. ASSUME NEW m \in Makers, MkStep(m) PROVE VisitedOnce'
  BY <1>2, MakerLeaves DEF VisitedOnce, At, Lead, MayHaveFile, HasFile
<1> QED
  BY <1>1, <1>2 DEF MkNext

\* One command at a time, and no crash of devi: the launchers a lock file records
\* exist while nobody works on the package, also after a compiler that failed and
\* a mklauncher that was killed or a program that was missing, for which ".exe" is
\* recorded; not so where the linker fails unnoticed.
THEOREM LaunchersRecorded ==
    MkSpec => [](Serial /\ NoCrash /\ Noticed => RecordedLaunchersExist)
<1>1. MkInit => VisitedOnce /\ (Serial /\ NoCrash /\ Noticed => KeptExist /\ MadeExist)
  <2> SUFFICES ASSUME MkInit PROVE VisitedOnce /\ KeptExist /\ MadeExist
    OBVIOUS
  <2>1. VisitedOnce
    BY InitLink DEF MkInit
  <2>2. KeptExist
    BY DEF MkInit, Init, KeptExist, AtWork, Holding, NoLock
  <2> QED
    BY <2>1, <2>2 DEF MkInit, MadeExist
<1>2. KeptExist => RecordedLaunchersExist
  BY DEF KeptExist, RecordedLaunchersExist
<1> QED
  BY <1>1, <1>2, NextMkVisited, NextKept, MkTypeInvCorrect, MkMutexCorrect, MkSafeCorrect,
     PTL DEF MkSpec

-----------------------------------------------------------------------------
(* The launchers nobody answers for.                                       *)

\* Compilers that work, and a script that is not killed.
AllMade == ~MayBuild("compile") /\ ~MayBuild("throw") /\ ~MayBuild("crash")
\* Ports that keep their launchers, with archives that have all of them or none.
Steady == \A p \in Pkgs, v \in Versions :
              /\ Launchers[p][v] = Launched(p)
              /\ \/ Launched(p) \subseteq Files[p][v]
                 \/ Launched(p) \cap Files[p][v] = {}
\* A directory that was half removed is replaced as a whole, and Expand-Archive
\* finds no other version in .temp.
Unmixed == /\ ~May("remove") \/ ~May("rename")
           /\ Archives = {} \/ ApplyWorks
Careful == Serial /\ NoCrash /\ AllMade /\ Steady /\ Unmixed

Busy(m)   == mpc[m] \in {"build", "trunc", "write"}
Making(p) == \E m \in Makers : Busy(m) /\ mjob[m].pkg = p

\* No launcher of p is there but those a lock file or a process answers for.
FewLinks ==
    /\ \A p \in Pkgs : Quiet(p) /\ ~Making(p) => linked \cap Launched(p) \subseteq locks[p].links
    /\ \A s \in Procs : AtWork(s) => linked \cap Launched(job[s].pkg) \subseteq Kept(s)
FewMade ==
    \A m \in Makers : Busy(m) =>
        LET p == mjob[m].pkg IN
        /\ locks[p] # NoLock
        /\ linked \cap Launched(p) \subseteq
             mjob[m].made \cup (IF mpc[m] = "build" THEN locks[p].links ELSE {})
        /\ \A n \in Launched(p) \ mjob[m].todo : HasFile(p, n) => n \in mjob[m].made
\* A launcher has its program, but while devi replaces the directory.
Programmed ==
    \A p \in Pkgs : \A n \in linked \cap Launched(p) :
        HasFile(p, n) \/ \E s \in Procs : Working(s, p) /\ pc[s] \in Replacing
\* A package with a lock file has a directory of one version.
OneVersion ==
    /\ \A p \in Pkgs : temp[p] # Mixed
    /\ \A p \in Pkgs : pkgdir[p] = Mixed => locks[p] = NoLock /\ May("remove")
    /\ \A s \in Procs : pc[s] \in Applied \cup {"move"} => pkgdir[job[s].pkg] # Mixed
\* Repair makes links of its package alone.
RepairAsked ==
    \A s \in Procs : pc[s] \in {"rcheck", "rmake"} =>
        /\ job[s].todo \subseteq Owned(job[s].pkg)
        /\ At(s, "rmake") => job[s].cur \subseteq Owned(job[s].pkg)
Few == FewLinks /\ FewMade /\ Programmed /\ OneVersion

LEMMA NextRepairAsked == TypeInv /\ RepairAsked /\ [Next]_vars => RepairAsked'
<1> SUFFICES ASSUME TypeInv, RepairAsked, [Next]_vars PROVE RepairAsked'
  OBVIOUS
<1>1. CASE UNCHANGED vars \/ \E p \in Pkgs : Pull(p)
  BY <1>1 DEF vars, Pull, RepairAsked, At, Owned
<1>2. ASSUME NEW s \in Procs,
             \/ Step(s) \/ Crash(s)
             \/ \E c \in Commands, a \in SUBSET Pkgs : Start(s, c, a)
      PROVE  RepairAsked'
  <2>0. /\ job \in [Procs -> Jobs] /\ job[s] \in Jobs /\ pc \in [Procs -> Labels]
        /\ ports \in [Pkgs -> 0 .. MaxVersion]
        /\ \A t \in Procs : t # s => pc'[t] = pc[t] /\ job'[t] = job[t]
    BY <1>2, Others DEF TypeInv, TypeOK
  <2>a. ASSUME pc'[s] \in {"rcheck", "rmake"} => /\ job'[s].todo \subseteq Owned(job'[s].pkg)
                                                 /\ pc'[s] = "rmake" =>
                                                      job'[s].cur \subseteq Owned(job'[s].pkg)
        PROVE  RepairAsked'
    BY <2>0, <2>a DEF RepairAsked, At, Owned
  <2> USE DEF Move, Goto, At
  <2>1. CASE \/ SessionStep(s) \/ Crash(s) \/ UninstallStep(s) \/ InstallStep(s)
             \/ \E c \in Commands, a \in SUBSET Pkgs : Start(s, c, a)
    <3>1. CASE SessionStep(s) \/ Crash(s) \/ \E c \in Commands, a \in SUBSET Pkgs : Start(s, c, a)
      BY <2>0, <2>a, <3>1 DEF SessionStep, Crash, Start, Acquire, TimeOut, InstallCore, Finish,
                              Fail, Release, NextArgument, NextUpgrade
    <3>2. CASE UninstallStep(s)
      BY <2>0, <2>a, <3>2 DEF UninstallStep, ReadLock, RemoveLink, RemoveLock, RemoveDir, Return
    <3>3. CASE InstallStep(s)
      BY <2>0, <2>a, <3>3 DEF InstallStep, CheckPort, Download, Unpack, SetAside, Apply,
           DropBackup, OldLinksDropped, LinksDone, MakeLink, MakeLinkFails, TruncateLock,
           WriteLock, WriteVersion, DropOldLink, ClearLink, Return
    <3> QED
      BY <2>1, <3>1, <3>2, <3>3
  <2>2. ASSUME NEW p \in job[s].args, RepairPort(s, p) PROVE RepairAsked'
    <3> DEFINE i == [job[s] EXCEPT !.args = @ \ {p}]
               j == [i EXCEPT !.pkg = p, !.ver = ports[p], !.todo = Provides[p][ports[p]]]
    <3>1. j.pkg = p /\ j.todo = Provides[p][ports[p]]
      BY <2>0 DEF Jobs
    <3>2. CASE pc'[s] = "rcheck"
      <4>1. ports[p] # None /\ job'[s] = j
        BY <2>0, <2>2, <3>2 DEF RepairPort, Set
      <4>2. ports[p] \in Versions
        BY <2>0, <4>1, ConstantsOK DEF Versions, None, Jobs
      <4>3. job'[s].todo \subseteq Owned(job'[s].pkg)
        BY <3>1, <4>1, <4>2 DEF Owned
      <4> QED
        BY <2>a, <3>2, <4>3
    <3>3. CASE pc'[s] # "rcheck"
      BY <2>0, <2>2, <2>a, <3>3 DEF RepairPort
    <3> QED
      BY <3>2, <3>3
  <2>3. ASSUME NEW n \in job[s].todo, SkipLink(s, n) \/ LinkIsMissing(s, n) PROVE RepairAsked'
    <3>1. /\ pc[s] = "rcheck" /\ job'[s].todo = job[s].todo \ {n}
          /\ job'[s].pkg = job[s].pkg /\ (pc'[s] = "rmake" => job'[s].cur = {n})
      <4>1. CASE SkipLink(s, n)
        BY <2>0, <4>1 DEF SkipLink, Set, Jobs
      <4>2. CASE LinkIsMissing(s, n)
        BY <2>0, <4>2 DEF LinkIsMissing, Set, Jobs
      <4> QED
        BY <2>3, <4>1, <4>2
    <3>2. job[s].todo \subseteq Owned(job[s].pkg)
      BY <3>1 DEF RepairAsked
    <3> QED
      BY <2>a, <3>1, <3>2
  <2>4. CASE RemakeLink(s)
    <3>1. /\ pc[s] = "rmake" /\ pc'[s] = "rcheck" /\ job'[s].todo = job[s].todo
          /\ job'[s].pkg = job[s].pkg
      BY <2>0, <2>4 DEF RemakeLink, Set, Jobs
    <3>2. job[s].todo \subseteq Owned(job[s].pkg)
      BY <3>1 DEF RepairAsked
    <3> QED
      BY <2>a, <3>1, <3>2
  <2>5. CASE RemakeLinkFails(s) \/ PortRepaired(s) \/ RepairDone(s)
    BY <2>0, <2>a, <2>5 DEF RemakeLinkFails, PortRepaired, RepairDone
  <2> QED
    BY <1>2, <2>1, <2>2, <2>3, <2>4, <2>5 DEF Step, RepairStep
<1> QED
  BY <1>1, <1>2 DEF Next

\* What a step of a process at work leaves of the links that Kept names, and that
\* it keeps the directory, or has none left, unless it replaces it.
HandedOn(s) ==
    LET p == job[s].pkg IN
    /\ AtWork(s)
    /\ \A q \in Pkgs : q # p => locks'[q] = locks[q] /\ pkgdir'[q] = pkgdir[q]
    /\ linked' \subseteq linked \cup Owned(p)
    /\ IF AtWork(s)'
       THEN job'[s].pkg = p /\ \A n \in linked' : (n \in linked => n \in Kept(s)) => n \in Kept(s)'
       ELSE \A n \in linked' : (n \in linked => n \in Kept(s)) => n \in locks'[p].links
    /\ \/ pc'[s] \in Replacing
       \/ pc[s] \notin Replacing /\ pkgdir' = pkgdir
       \/ Kept(s) = {}

LEMMA InstallHandsOn ==
    ASSUME TypeInv, SafeInv, LinksAsked, NEW s \in Procs, InstallStep(s)
    PROVE  HandedOn(s)
<1> USE DEF Move, At, Goto
<1>1. PICK p \in Pkgs : p = job[s].pkg
  BY DEF TypeInv, TypeOK, Jobs
<1>0. /\ job[s] \in Jobs /\ job \in [Procs -> Jobs] /\ pc \in [Procs -> Labels]
      /\ locks \in [Pkgs -> Locks] /\ pkgdir \in [Pkgs -> Contents]
  BY DEF TypeInv, TypeOK
\* Before the links.
<1>2. ASSUME pc[s] \in {"check", "download", "unpack", "rename", "move"},
             UNCHANGED <<locks, linked>>,
             \A q \in Pkgs : q # p => pkgdir'[q] = pkgdir[q],
             \/ pc'[s] \in {"next", "fail"} /\ pkgdir' = pkgdir /\ pc[s] # "move"
             \/ /\ pc'[s] \in {"download", "unpack", "rename", "move", "drop"}
                /\ job'[s].pkg = p
                /\ pc'[s] \in Replacing \/ (pkgdir' = pkgdir /\ pc[s] # "move")
      PROVE  HandedOn(s)
  BY <1>1, <1>2 DEF HandedOn, AtWork, Holding, Kept, Dropping, Recording, Linking, Replacing
<1>3. CASE CheckPort(s)
  <2>1. CASE \E ok : Return(s, "check", ok)
    BY <1>0, <1>1, <1>2, <1>3, <2>1 DEF CheckPort, Return, OnlyLocal, disk
  <2>2. CASE /\ Move(s, "check", "download")
             /\ Set(s, [job[s] EXCEPT !.ver = ports[job[s].pkg], !.old = locks[job[s].pkg]])
    BY <1>0, <1>1, <1>2, <1>3, <2>2 DEF CheckPort, Set, Jobs, OnlyLocal, disk
  <2> QED
    BY <1>3, <2>1, <2>2 DEF CheckPort
<1>4. CASE Download(s) \/ Unpack(s)
  <2>1. UNCHANGED <<locks, linked, pkgdir>>
    BY <1>4 DEF Download, Unpack, OnlyLocal, disk
  <2>2. CASE Return(s, "download", FALSE) \/ Return(s, "unpack", FALSE)
    BY <1>0, <1>1, <1>2, <2>1, <2>2 DEF Return
  <2>3. CASE (Move(s, "download", "unpack") \/ Move(s, "unpack", "rename")) /\ UNCHANGED job
    BY <1>0, <1>1, <1>2, <2>1, <2>3
  <2> QED
    BY <1>4, <2>2, <2>3 DEF Download, Unpack
<1>5. CASE SetAside(s) \/ Apply(s)
  <2>1. /\ pc[s] \in {"rename", "move"} /\ pc'[s] \in {"move", "drop"} /\ job'[s].pkg = p
        /\ UNCHANGED <<locks, linked>> /\ \A q \in Pkgs : q # p => pkgdir'[q] = pkgdir[q]
    BY <1>0, <1>1, <1>5 DEF SetAside, Apply, Set, Jobs
  <2> QED
    BY <1>2, <2>1 DEF Replacing
\* The links of the old version.
<1>6. CASE DropBackup(s)
  <2>1. /\ pc[s] = "drop" /\ pc'[s] = "oldlinks" /\ job'[s].pkg = p
        /\ job'[s].todo = job[s].old.links /\ UNCHANGED <<locks, linked, pkgdir>>
    BY <1>0, <1>1, <1>6 DEF DropBackup, Set, Jobs
  <2>2. job[s].old = locks[p]
    BY <1>1, <2>1 DEF SafeInv, OldTableCurrent, AfterCheck
  <2> QED
    BY <1>1, <2>1, <2>2 DEF HandedOn, AtWork, Holding, Kept, Dropping, Recording, Linking,
                            Replacing
<1>7. ASSUME NEW n \in job[s].todo, DropOldLink(s, n) PROVE HandedOn(s)
  <2>1. /\ pc[s] = "oldlinks" /\ pc'[s] = "oldlinks" /\ job'[s].pkg = p
        /\ job'[s].todo = job[s].todo \ {n} /\ linked' = linked \ {n}
        /\ UNCHANGED <<locks, pkgdir>>
    BY <1>0, <1>1, <1>7 DEF DropOldLink, Set, Jobs, OnlyLinks
  <2> QED
    BY <1>1, <2>1 DEF HandedOn, AtWork, Holding, Kept, Dropping, Replacing
<1>8. CASE OldLinksDropped(s)
  <2>1. /\ pc[s] = "oldlinks" /\ pc'[s] = "clear" /\ job'[s].pkg = p /\ job[s].todo = {}
        /\ UNCHANGED <<locks, linked, pkgdir>>
    BY <1>0, <1>1, <1>8 DEF OldLinksDropped, Set, Jobs, OnlyLocal, disk
  <2> QED
    BY <1>1, <2>1 DEF HandedOn, AtWork, Holding, Kept, Dropping, Recording, Linking
\* The links of the new one.
<1>9. ASSUME pc[s] \in Linking \cup {"trunc"}, pc'[s] \in Linking \cup {"trunc", "write"},
             job'[s].pkg = p, job[s].made \subseteq job'[s].made,
             linked' \subseteq linked \cup (job'[s].made \cap Owned(p)), pkgdir' = pkgdir,
             \A q \in Pkgs : q # p => locks'[q] = locks[q]
      PROVE  HandedOn(s)
  <2>1. /\ Kept(s) = job[s].made /\ Kept(s)' = job'[s].made /\ AtWork(s) /\ AtWork(s)'
        /\ pc[s] \notin Replacing
    BY <1>9 DEF AtWork, Holding, Kept, Dropping, Recording, Linking, Replacing
  <2> QED
    BY <1>1, <1>9, <2>1 DEF HandedOn
<1>10. ASSUME NEW n \in job[s].todo, ClearLink(s, n) PROVE HandedOn(s)
  <2>1. /\ pc[s] = "clear" /\ pc'[s] = "make" /\ job'[s].pkg = p
        /\ job'[s].made = job[s].made /\ linked' = linked \ {n} /\ UNCHANGED <<locks, pkgdir>>
    BY <1>0, <1>1, <1>10 DEF ClearLink, Set, Jobs, OnlyLinks
  <2> QED
    BY <1>9, <2>1 DEF Linking
<1>11. CASE MakeLink(s)
  <2>1. /\ pc[s] = "make" /\ pc'[s] = "clear" /\ job'[s].pkg = p
        /\ job'[s].made = job[s].made \cup job[s].cur
        /\ linked' = linked \cup job[s].cur /\ UNCHANGED <<locks, pkgdir>>
    BY <1>0, <1>1, <1>11 DEF MakeLink, Set, Jobs, OnlyLinks
  <2>2. job[s].cur \subseteq Owned(p)
    BY <1>1, <2>1, AskedOwned DEF LinksAsked, Linking, Recording
  <2> QED
    BY <1>9, <2>1, <2>2 DEF Linking
<1>12. CASE LinksDone(s) \/ MakeLinkFails(s) \/ TruncateLock(s)
  <2>1. /\ pc[s] \in Linking \cup {"trunc"} /\ pc'[s] \in {"trunc", "write"}
        /\ job'[s].pkg = p /\ job'[s].made = job[s].made
        /\ linked' = linked /\ pkgdir' = pkgdir
        /\ \A q \in Pkgs : q # p => locks'[q] = locks[q]
    BY <1>0, <1>1, <1>12 DEF LinksDone, MakeLinkFails, TruncateLock, Set, Jobs, OnlyLocal, disk,
                             Linking
  <2> QED
    BY <1>9, <2>1
<1>13. CASE WriteLock(s)
  <2>1. /\ pc[s] = "write" /\ pc'[s] \in {"next", "fail"} /\ linked' = linked
        /\ pkgdir' = pkgdir /\ locks'[p].links = job[s].made
        /\ \A q \in Pkgs : q # p => locks'[q] = locks[q]
    BY <1>0, <1>1, <1>13 DEF WriteLock, WriteVersion, Return
  <2> QED
    BY <1>1, <2>1 DEF HandedOn, AtWork, Holding, Kept, Dropping, Recording, Linking, Replacing
<1> QED
  BY <1>3, <1>4, <1>5, <1>6, <1>7, <1>8, <1>10, <1>11, <1>12, <1>13 DEF InstallStep

LEMMA UninstallHandsOn ==
    ASSUME TypeInv, SafeInv, NEW s \in Procs, UninstallStep(s)
    PROVE  HandedOn(s)
<1> USE DEF Move, At, Goto
<1>1. PICK p \in Pkgs : p = job[s].pkg
  BY DEF TypeInv, TypeOK, Jobs
<1>0. /\ job[s] \in Jobs /\ job \in [Procs -> Jobs] /\ pc \in [Procs -> Labels]
      /\ locks \in [Pkgs -> Locks] /\ pkgdir \in [Pkgs -> Contents]
  BY DEF TypeInv, TypeOK
<1>2. CASE ReadLock(s)
  <2>1. /\ pc[s] = "ulock" /\ pc'[s] \in {"udir", "ulinks"} /\ job'[s].pkg = p
        /\ job'[s].todo = locks[p].links /\ UNCHANGED <<locks, linked, pkgdir>>
    BY <1>0, <1>1, <1>2 DEF ReadLock, Set, Jobs, OnlyLocal, disk
  <2> QED
    BY <1>1, <2>1 DEF HandedOn, AtWork, Holding, Kept, Dropping, Recording, Linking, Replacing
<1>3. ASSUME NEW n \in job[s].todo, RemoveLink(s, n) PROVE HandedOn(s)
  <2>1. /\ pc[s] = "ulinks" /\ pc'[s] = "ulinks" /\ job'[s].pkg = p
        /\ job'[s].todo = job[s].todo \ {n} /\ linked' = linked \ {n}
        /\ UNCHANGED <<locks, pkgdir>>
    BY <1>0, <1>1, <1>3 DEF RemoveLink, Set, Jobs, OnlyLinks
  <2> QED
    BY <1>1, <2>1 DEF HandedOn, AtWork, Holding, Kept, Dropping, Replacing
<1>4. CASE RemoveLock(s)
  <2>1. /\ pc[s] = "ulinks" /\ pc'[s] = "unlocked" /\ job'[s].pkg = p /\ job[s].todo = {}
        /\ UNCHANGED <<linked, pkgdir>> /\ \A q \in Pkgs : q # p => locks'[q] = locks[q]
    BY <1>0, <1>1, <1>4 DEF RemoveLock
  <2> QED
    BY <1>1, <2>1 DEF HandedOn, AtWork, Holding, Kept, Dropping
<1>5. CASE RemoveDir(s)
  <2>1. /\ pc[s] \in {"udir", "unlocked"} /\ pc'[s] \in {"next", "fail"}
        /\ UNCHANGED <<locks, linked>> /\ \A q \in Pkgs : q # p => pkgdir'[q] = pkgdir[q]
    BY <1>0, <1>1, <1>5 DEF RemoveDir, Return
  <2>2. locks[p] = NoLock
    BY <1>1, <2>1 DEF SafeInv, LockGone
  <2> QED
    BY <1>1, <2>1, <2>2 DEF HandedOn, AtWork, Holding, Kept, Dropping, Recording, Linking, NoLock
<1> QED
  BY <1>2, <1>3, <1>4, <1>5 DEF UninstallStep

\* Who works on a package is the only one at work.
LEMMA OneAtWork ==
    ASSUME MutualExclusion, NEW s \in Procs, Holding(s)
    PROVE  \A t \in Procs : t # s => ~AtWork(t)
BY DEF MutualExclusion, AtWork

\* A step of devi on the package p, while no mklauncher runs.
LEMMA FewAtWork ==
    ASSUME MkTypeInv, MutualExclusion, SafeInv, FewLinks, Programmed,
           \A m \in Makers : ~Busy(m) /\ ~Busy(m)',
           NEW s \in Procs, InstallStep(s) \/ UninstallStep(s)
    PROVE  FewLinks' /\ Programmed'
<1>1. PICK p \in Pkgs : p = job[s].pkg
  BY DEF MkTypeInv, TypeInv, TypeOK, Jobs
<1>2. HandedOn(s)
  BY InstallHandsOn, UninstallHandsOn DEF MkTypeInv
<1>3. \A t \in Procs : t # s => pc'[t] = pc[t] /\ job'[t] = job[t] /\ ~AtWork(t) /\ ~AtWork(t)'
  BY <1>2, Others, OneAtWork DEF MkTypeInv, Step, HandedOn, AtWork, Holding
<1>4. \A q \in Pkgs : linked' \cap Launched(q) \subseteq linked
  <2>1. linked' \subseteq linked \cup Owned(p)
    BY <1>1, <1>2 DEF HandedOn
  <2>2. \A q \in Pkgs : Owned(p) \cap Launched(q) = {}
    BY LaunchersDisjoint
  <2> QED
    BY <2>1, <2>2
<1>5. linked \cap Launched(p) \subseteq Kept(s)
  BY <1>1, <1>2 DEF FewLinks, HandedOn
<1>6. IF AtWork(s)' THEN job'[s].pkg = p /\ linked' \cap Launched(p) \subseteq Kept(s)'
      ELSE linked' \cap Launched(p) \subseteq locks'[p].links
  BY <1>1, <1>2, <1>4, <1>5 DEF HandedOn
<1>7. \A q \in Pkgs : q # p => /\ locks'[q] = locks[q] /\ pkgdir'[q] = pkgdir[q]
                               /\ \A t \in Procs : ~Working(t, q)
  BY <1>1, <1>2, <1>3 DEF HandedOn, Working, AtWork
<1>8. \A q \in Pkgs : Launched(q)' = Launched(q)
  BY DEF Launched
<1>9. FewLinks'
  <2>1. ASSUME NEW q \in Pkgs, Quiet(q)' PROVE linked' \cap Launched(q) \subseteq locks'[q].links
    <3>1. CASE q # p
      <4>1. linked \cap Launched(q) \subseteq locks[q].links
        BY <1>7, <3>1 DEF FewLinks, Quiet, Making
      <4> QED
        BY <1>4, <1>7, <3>1, <4>1
    <3>2. CASE q = p
      <4>1. ~AtWork(s)'
        BY <1>6, <2>1, <3>2 DEF Quiet, Working, AtWork
      <4> QED
        BY <1>6, <3>2, <4>1
    <3> QED
      BY <3>1, <3>2
  <2>2. ASSUME NEW t \in Procs, AtWork(t)'
        PROVE  linked' \cap Launched(job'[t].pkg) \subseteq Kept(t)'
    <3>1. t = s
      BY <1>3, <2>2
    <3> QED
      BY <1>6, <2>2, <3>1
  <2> QED
    BY <1>8, <2>1, <2>2 DEF FewLinks
<1>10. Programmed'
  <2>1. ASSUME NEW q \in Pkgs, NEW n \in linked' \cap Launched(q)
        PROVE  HasFile(q, n)' \/ \E t \in Procs : Working(t, q)' /\ pc'[t] \in Replacing
    <3>1. n \in linked \cap Launched(q)
      BY <1>4, <2>1
    <3>2. HasFile(q, n) \/ \E t \in Procs : Working(t, q) /\ pc[t] \in Replacing
      BY <3>1 DEF Programmed
    <3>3. CASE q # p
      BY <1>7, <3>2, <3>3 DEF HasFile
    <3>4. CASE q = p
      <4>1. n \in Kept(s)
        BY <1>5, <3>1, <3>4
      <4>2. CASE pc'[s] \in Replacing
        <5>1. AtWork(s)'
          BY <4>2 DEF AtWork, Holding, Replacing, Dropping
        <5> QED
          BY <1>6, <3>4, <4>2, <5>1 DEF Working, AtWork
      <4>3. CASE pc[s] \notin Replacing /\ pkgdir' = pkgdir
        <5>1. HasFile(q, n)
          BY <1>3, <3>2, <4>3 DEF Working, AtWork
        <5> QED
          BY <4>3, <5>1 DEF HasFile
      <4> QED
        BY <1>2, <4>1, <4>2, <4>3 DEF HandedOn
    <3> QED
      BY <3>3, <3>4
  <2> QED
    BY <1>8, <2>1 DEF Programmed
<1> QED
  BY <1>9, <1>10

\* Any other step of devi, while no mklauncher runs: links of a repair are of no
\* launcher, and who takes a package up finds it as it was left.
LEMMA FewNotAtWork ==
    ASSUME MkTypeInv, MutualExclusion, RepairAsked, FewLinks, Programmed,
           \A m \in Makers : ~Busy(m) /\ ~Busy(m)',
           NEW s \in Procs,
           \/ SessionStep(s) \/ RepairStep(s)
           \/ \E c \in Commands, a \in SUBSET Pkgs : Start(s, c, a)
    PROVE  FewLinks' /\ Programmed'
<1> USE DEF Move, At, Goto
<1>0. /\ job[s] \in Jobs /\ job \in [Procs -> Jobs] /\ pc \in [Procs -> Labels]
      /\ \A t \in Procs : t # s => pc'[t] = pc[t] /\ job'[t] = job[t]
  BY Others DEF MkTypeInv, TypeInv, TypeOK, Step
<1>1. \A q \in Pkgs : Launched(q)' = Launched(q)
  BY DEF Launched
<1>2. /\ ~AtWork(s) /\ UNCHANGED <<locks, pkgdir>>
      /\ linked' = linked \/ (RemakeLink(s) /\ linked' = linked \cup job[s].cur)
  <2>1. CASE SessionStep(s) \/ \E c \in Commands, a \in SUBSET Pkgs : Start(s, c, a)
    BY <2>1 DEF SessionStep, Start, Acquire, TimeOut, InstallCore, Finish, Fail, Release,
                NextArgument, NextUpgrade, OnlyLocal, disk, AtWork, Holding
  <2>2. CASE RepairStep(s)
    BY <2>2 DEF RepairStep, RemakeLink, RemakeLinkFails, PortRepaired, RepairDone,
                RepairPort, SkipLink, LinkIsMissing, AtWork, Holding, OnlyLocal, OnlyLinks, disk
  <2> QED
    BY <2>1, <2>2
<1>3. \A q \in Pkgs : linked' \cap Launched(q) = linked \cap Launched(q)
  <2>1. CASE linked' = linked
    BY <2>1
  <2>2. CASE RemakeLink(s) /\ linked' = linked \cup job[s].cur
    <3>1. job[s].cur \subseteq Owned(job[s].pkg) /\ job[s].pkg \in Pkgs
      BY <1>0, <2>2 DEF RemakeLink, RepairAsked, Jobs
    <3>2. \A q \in Pkgs : Owned(job[s].pkg) \cap Launched(q) = {}
      BY <3>1, LaunchersDisjoint
    <3> QED
      BY <2>2, <3>1, <3>2
  <2> QED
    BY <1>2, <2>1, <2>2
\* s takes a package up, or does not.
<1>4. \/ ~AtWork(s)'
      \/ /\ Holding(s) /\ job'[s].pkg \in Pkgs /\ pc'[s] \notin Replacing
         /\ Kept(s)' = locks[job'[s].pkg].links
  <2>1. ASSUME NEW p \in job[s].args, NextArgument(s, p) \/ NextUpgrade(s, p), AtWork(s)'
        PROVE  /\ Holding(s) /\ job'[s].pkg = p /\ pc'[s] \notin Replacing
               /\ Kept(s)' = locks[job'[s].pkg].links
    <3> DEFINE j == [job[s] EXCEPT !.args = @ \ {p}]
    <3>1. /\ [j EXCEPT !.pkg = p].pkg = p
          /\ [j EXCEPT !.pkg = p, !.table = @ \cup {p}].pkg = p
      BY <1>0 DEF Jobs
    <3>2. /\ pc[s] = "next" /\ pc'[s] \in {"check", "ulock"}
          /\ \/ job'[s] = [j EXCEPT !.pkg = p]
             \/ job'[s] = [j EXCEPT !.pkg = p, !.table = @ \cup {p}]
      BY <1>0, <2>1 DEF NextArgument, NextUpgrade, Set, AtWork, Holding
    <3>3. job'[s].pkg = p
      BY <3>1, <3>2
    <3> QED
      BY <1>2, <3>2, <3>3 DEF Kept, Dropping, Recording, Linking, Replacing, Holding
  <2>2. CASE \/ Acquire(s) \/ TimeOut(s) \/ InstallCore(s) \/ Finish(s) \/ Fail(s) \/ RepairStep(s)
             \/ \E c \in Commands, a \in SUBSET Pkgs : Start(s, c, a)
    BY <1>0, <2>2 DEF Start, Acquire, TimeOut, InstallCore, Finish, Fail, Release, RepairStep,
         RemakeLink, RemakeLinkFails, PortRepaired, RepairDone, RepairPort, SkipLink,
         LinkIsMissing, AtWork, Holding
  <2>3. ASSUME NEW p \in job[s].args PROVE p \in Pkgs
    BY <1>0, <2>3 DEF Jobs
  <2> QED
    BY <2>1, <2>2, <2>3 DEF SessionStep
<1>5. \A t \in Procs, q \in Pkgs : /\ Working(t, q) => Working(t, q)'
                                   /\ pc[t] \in Replacing => pc'[t] = pc[t]
  BY <1>0, <1>2 DEF Working, AtWork, Holding, Replacing, Dropping
<1>6. Programmed'
  <2>1. ASSUME NEW q \in Pkgs, NEW n \in linked' \cap Launched(q)
        PROVE  HasFile(q, n)' \/ \E t \in Procs : Working(t, q)' /\ pc'[t] \in Replacing
    BY <1>2, <1>3, <1>5, <2>1 DEF Programmed, HasFile
  <2> QED
    BY <1>1, <2>1 DEF Programmed
<1>7. ASSUME NEW q \in Pkgs, Quiet(q)' PROVE linked' \cap Launched(q) \subseteq locks'[q].links
  <2>1. Quiet(q)
    BY <1>5, <1>7 DEF Quiet
  <2>2. linked \cap Launched(q) \subseteq locks[q].links
    BY <2>1 DEF FewLinks, Making
  <2> QED
    BY <1>2, <1>3, <2>2
<1>8. ASSUME NEW t \in Procs, AtWork(t)'
      PROVE  linked' \cap Launched(job'[t].pkg) \subseteq Kept(t)'
  <2>1. CASE t # s
    <3>1. AtWork(t) /\ Kept(t)' = Kept(t) /\ job'[t].pkg = job[t].pkg /\ job[t].pkg \in Pkgs
      BY <1>0, <1>2, <1>8, <2>1 DEF AtWork, Holding, Kept, Jobs
    <3> QED
      BY <1>3, <3>1 DEF FewLinks
  <2>2. CASE t = s
    <3>1. /\ Holding(s) /\ job'[s].pkg \in Pkgs /\ Kept(s)' = locks[job'[s].pkg].links
      BY <1>4, <1>8, <2>2
    <3>2. Quiet(job'[s].pkg)
      BY <1>2, <3>1, OneAtWork DEF Quiet, Working, AtWork
    <3>3. linked \cap Launched(job'[s].pkg) \subseteq locks[job'[s].pkg].links
      BY <3>1, <3>2 DEF FewLinks, Making
    <3> QED
      BY <1>3, <2>2, <3>1, <3>3
  <2> QED
    BY <2>1, <2>2
<1>9. FewLinks'
  BY <1>1, <1>7, <1>8 DEF FewLinks
<1> QED
  BY <1>6, <1>9

\* Only the one at work changes directories and lock files.
LEMMA OneVersionFrame ==
    ASSUME MutualExclusion, OneVersion, NEW s \in Procs,
           \A t \in Procs : t # s => pc'[t] = pc[t] /\ job'[t] = job[t],
           pkgdir' = pkgdir \/ Holding(s),
           \A q \in Pkgs : temp'[q] # Mixed,
           \A q \in Pkgs : pkgdir'[q] = Mixed => locks'[q] = NoLock /\ May("remove"),
           pc'[s] \in Applied \cup {"move"} => pkgdir'[job'[s].pkg] # Mixed
    PROVE  OneVersion'
<1>1. ASSUME NEW t \in Procs, t # s, pc'[t] \in Applied \cup {"move"}
      PROVE  pkgdir'[job'[t].pkg] # Mixed
  <2>1. Holding(t)
    BY <1>1 DEF Holding, Applied
  <2>2. pkgdir' = pkgdir
    BY <1>1, <2>1 DEF MutualExclusion
  <2> QED
    BY <1>1, <2>2 DEF OneVersion
<1> QED
  BY <1>1 DEF OneVersion, Mixed, May

LEMMA OneVersionDevi ==
    ASSUME MkTypeInv, MutualExclusion, SafeInv, NoCrash, Unmixed, OneVersion, [Next]_vars
    PROVE  OneVersion'
<1>1. CASE UNCHANGED vars \/ \E p \in Pkgs : Pull(p)
  BY <1>1 DEF vars, Pull, OneVersion, Mixed, May
<1>2. ASSUME NEW s \in Procs,
             Step(s) \/ \E c \in Commands, a \in SUBSET Pkgs : Start(s, c, a)
      PROVE  OneVersion'
  <2>0. /\ job \in [Procs -> Jobs] /\ job[s] \in Jobs /\ pc \in [Procs -> Labels]
        /\ locks \in [Pkgs -> Locks] /\ pkgdir \in [Pkgs -> Contents] /\ temp \in [Pkgs -> Contents]
        /\ \A t \in Procs : t # s => pc'[t] = pc[t] /\ job'[t] = job[t]
        /\ MaxVersion \in Nat
    BY <1>2, Others, ConstantsOK DEF MkTypeInv, TypeInv, TypeOK
  <2>p. PICK p \in Pkgs : p = job[s].pkg
    BY <2>0 DEF Jobs
  <2> USE DEF Move, Goto, At
  <2>a. ASSUME UNCHANGED <<pkgdir, temp, locks>>,
               pc'[s] \in Applied \cup {"move"} => pc[s] \in Applied /\ job'[s].pkg = p
        PROVE  OneVersion'
    BY <2>0, <2>a, <2>p, OneVersionFrame DEF OneVersion
  <2>1. CASE \/ SessionStep(s) \/ RepairStep(s)
             \/ \E c \in Commands, a \in SUBSET Pkgs : Start(s, c, a)
    <3>1. CASE SessionStep(s) \/ \E c \in Commands, a \in SUBSET Pkgs : Start(s, c, a)
      BY <2>0, <2>a, <3>1 DEF SessionStep, Start, Acquire, TimeOut, InstallCore, Finish, Fail,
                              Release, NextArgument, NextUpgrade, OnlyLocal, disk, Applied
    <3>2. CASE RepairStep(s)
      BY <2>0, <2>a, <3>2 DEF RepairStep, RemakeLink, RemakeLinkFails, PortRepaired, RepairDone,
                              RepairPort, SkipLink, LinkIsMissing, OnlyLocal, OnlyLinks, disk,
                              Applied
    <3> QED
      BY <2>1, <3>1, <3>2
  <2>2. CASE CheckPort(s) \/ Download(s)
    BY <2>0, <2>a, <2>2 DEF CheckPort, Download, Return, OnlyLocal, disk, Applied
  <2>3. CASE Unpack(s)
    <3>1. /\ pc[s] = "unpack" /\ pc'[s] \notin Applied \cup {"move"}
          /\ UNCHANGED <<pkgdir, locks>>
          /\ \/ \E c \in Unpacked(p, temp[p], job[s].ver) : temp' = [temp EXCEPT ![p] = c]
             \/ temp' = [temp EXCEPT ![p] = None]
      BY <2>0, <2>p, <2>3 DEF Unpack, Return, Applied
    <3>2. job[s].ver \in Versions /\ Mixed \notin Versions /\ None # Mixed
      BY <2>0, <3>1 DEF MkTypeInv, TypeInv, VersionRead, AfterCheck, Versions, Mixed, None
    <3>3. p \in Archives => temp[p] = None
      <4> SUFFICES ASSUME p \in Archives PROVE temp[p] = None
        OBVIOUS
      <4>1. temp[p] = None \/ \E t \in Procs : pc[t] \in Fresh /\ job[t].pkg = p
        BY DEF Unmixed, NoCrash, SafeInv, TempClean
      <4>2. \A t \in Procs : pc[t] \notin Fresh
        BY <3>1 DEF MutualExclusion, Holding, Fresh
      <4> QED
        BY <4>1, <4>2
    <3>4. Mixed \notin Unpacked(p, temp[p], job[s].ver)
      BY <3>2, <3>3 DEF Unpacked
    <3>5. \A q \in Pkgs : temp'[q] # Mixed
      BY <2>0, <3>1, <3>2, <3>4 DEF OneVersion
    <3> QED
      BY <2>0, <3>1, <3>5, OneVersionFrame DEF OneVersion
  <2>4. CASE SetAside(s)
    <3>1. /\ pc[s] = "rename" /\ pc'[s] = "move" /\ job'[s].pkg = p /\ UNCHANGED <<temp, locks>>
          /\ \/ pkgdir' = [pkgdir EXCEPT ![p] = None]
             \/ May("rename") /\ pkgdir' = pkgdir
      BY <2>0, <2>p, <2>4 DEF SetAside, Set, Jobs
    <3>2. None # Mixed /\ Holding(s)
      BY <2>0, <3>1 DEF Mixed, None, Holding
    <3>3. pkgdir'[p] # Mixed
      BY <2>0, <3>1, <3>2 DEF OneVersion, Unmixed
    <3>4. \A q \in Pkgs : pkgdir'[q] = Mixed => locks'[q] = NoLock /\ May("remove")
      BY <2>0, <3>1, <3>3 DEF OneVersion
    <3> QED
      BY <2>0, <3>1, <3>2, <3>3, <3>4, OneVersionFrame DEF OneVersion
  <2>5. CASE Apply(s)
    <3>1. /\ pc[s] = "move" /\ pc'[s] = "drop" /\ job'[s].pkg = p /\ locks' = locks
          /\ \/ /\ pkgdir' = [pkgdir EXCEPT ![p] = IF pkgdir[p] = None THEN temp[p] ELSE pkgdir[p]]
                /\ temp' = [temp EXCEPT ![p] = None]
             \/ UNCHANGED <<pkgdir, temp>>
      BY <2>0, <2>p, <2>5 DEF Apply
    <3>2. None # Mixed /\ Holding(s)
      BY <2>0, <3>1 DEF Mixed, None, Holding
    <3>3. pkgdir'[p] # Mixed
      BY <2>0, <2>p, <3>1 DEF OneVersion
    <3>4. /\ \A q \in Pkgs : pkgdir'[q] = Mixed => locks'[q] = NoLock /\ May("remove")
          /\ \A q \in Pkgs : temp'[q] # Mixed
      BY <2>0, <3>1, <3>2, <3>3 DEF OneVersion
    <3> QED
      BY <2>0, <3>1, <3>2, <3>3, <3>4, OneVersionFrame
  <2>6. CASE \/ DropBackup(s) \/ OldLinksDropped(s) \/ LinksDone(s) \/ MakeLink(s)
             \/ MakeLinkFails(s) \/ \E n \in job[s].todo : DropOldLink(s, n) \/ ClearLink(s, n)
    <3>1. pc[s] \in Applied /\ job'[s].pkg = p /\ UNCHANGED <<pkgdir, temp, locks>>
      <4>1. CASE DropBackup(s)
        BY <2>0, <2>p, <4>1 DEF DropBackup, Set, Jobs, Applied
      <4>2. CASE OldLinksDropped(s) \/ LinksDone(s)
        BY <2>0, <2>p, <4>2 DEF OldLinksDropped, LinksDone, Set, Jobs, OnlyLocal, disk, Applied
      <4>3. CASE MakeLink(s)
        BY <2>0, <2>p, <4>3 DEF MakeLink, Set, Jobs, OnlyLinks, Applied
      <4>4. CASE MakeLinkFails(s)
        BY <2>0, <2>p, <4>4 DEF MakeLinkFails, Set, Jobs, OnlyLocal, disk, Applied
      <4>5. ASSUME NEW n \in job[s].todo, DropOldLink(s, n)
            PROVE  pc[s] \in Applied /\ job'[s].pkg = p /\ UNCHANGED <<pkgdir, temp, locks>>
        BY <2>0, <2>p, <4>5 DEF DropOldLink, Set, Jobs, OnlyLinks, Applied
      <4>6. ASSUME NEW n \in job[s].todo, ClearLink(s, n)
            PROVE  pc[s] \in Applied /\ job'[s].pkg = p /\ UNCHANGED <<pkgdir, temp, locks>>
        BY <2>0, <2>p, <4>6 DEF ClearLink, Set, Jobs, OnlyLinks, Applied
      <4> QED
        BY <2>6, <4>1, <4>2, <4>3, <4>4, <4>5, <4>6
    <3> QED
      BY <2>a, <3>1
  <2>7. CASE TruncateLock(s) \/ WriteLock(s)
    <3>1. /\ pc[s] \in {"trunc", "write"} /\ UNCHANGED <<pkgdir, temp>>
          /\ \A q \in Pkgs : q # p => locks'[q] = locks[q]
          /\ pc'[s] \in Applied \cup {"move"} => job'[s].pkg = p
      BY <2>0, <2>p, <2>7 DEF TruncateLock, WriteLock, WriteVersion, Return, Applied
    <3>2. pkgdir[p] # Mixed
      BY <2>p, <3>1 DEF OneVersion, Applied
    <3> QED
      BY <2>0, <3>1, <3>2, OneVersionFrame DEF OneVersion
  <2>8. CASE ReadLock(s) \/ \E n \in job[s].todo : RemoveLink(s, n)
    BY <2>0, <2>a, <2>8 DEF ReadLock, RemoveLink, OnlyLocal, OnlyLinks, disk, Applied
  <2>9. CASE RemoveLock(s)
    <3>1. /\ pc'[s] = "unlocked" /\ UNCHANGED <<pkgdir, temp>>
          /\ locks' = [locks EXCEPT ![p] = NoLock]
      BY <2>0, <2>p, <2>9 DEF RemoveLock
    <3>2. \A q \in Pkgs : pkgdir'[q] = Mixed => locks'[q] = NoLock /\ May("remove")
      BY <2>0, <3>1 DEF OneVersion
    <3> QED
      BY <2>0, <3>1, <3>2, OneVersionFrame DEF OneVersion, Applied
  <2>10. CASE RemoveDir(s)
    <3>1. /\ pc[s] \in {"udir", "unlocked"} /\ pc'[s] \in {"next", "fail"}
          /\ UNCHANGED <<temp, locks>>
          /\ \/ pkgdir' = [pkgdir EXCEPT ![p] = None]
             \/ May("remove") /\ pkgdir' = [pkgdir EXCEPT ![p] = Mixed]
      BY <2>0, <2>p, <2>10 DEF RemoveDir, Return
    <3>2. locks[p] = NoLock /\ Holding(s) /\ None # Mixed
      BY <2>0, <2>p, <3>1 DEF SafeInv, LockGone, Holding, Mixed, None
    <3>3. \A q \in Pkgs : pkgdir'[q] = Mixed => locks'[q] = NoLock /\ May("remove")
      BY <2>0, <3>1, <3>2 DEF OneVersion
    <3> QED
      BY <2>0, <3>1, <3>2, <3>3, OneVersionFrame DEF OneVersion, Applied
  <2> QED
    BY <1>2, <2>1, <2>2, <2>3, <2>4, <2>5, <2>6, <2>7, <2>8, <2>9, <2>10
    DEF Step, InstallStep, UninstallStep
<1>3. ASSUME NEW s \in Procs, Crash(s) PROVE FALSE
  BY <1>3 DEF Crash, NoCrash
<1> QED
  BY <1>1, <1>2, <1>3 DEF Next

\* What mklauncher does to the package it is at.
LEMMA FewMaker ==
    ASSUME MkTypeInv, OneAtATime, Careful, Few, NEW m \in Makers, MkStep(m)
    PROVE  Few'
<1>0. /\ UNCHANGED <<ports, pkgdir, temp, stray, mutex, pc, job, runs>>
      /\ \A s \in Procs : pc[s] = "idle"
      /\ \A k \in Makers : k # m => mpc[k] = "idle" /\ mpc'[k] = "idle"
      /\ mpc \in [Makers -> MakerLabels] /\ mjob \in [Makers -> MakerJobs] /\ mjob[m] \in MakerJobs
      /\ locks \in [Pkgs -> Locks] /\ pkgdir \in [Pkgs -> Contents]
      /\ ports \in [Pkgs -> 0 .. MaxVersion] /\ MaxVersion \in Nat
  BY MakerLeaves, MakerAlone, ConstantsOK DEF MkTypeInv, MakerType, TypeInv, TypeOK, Careful
<1>1. /\ \A s \in Procs : ~AtWork(s) /\ ~AtWork(s)'
      /\ \A s \in Procs, q \in Pkgs : ~Working(s, q) /\ ~Working(s, q)'
  BY <1>0 DEF AtWork, Holding, Working
<1>p. PICK p \in Pkgs : p = mjob[m].pkg
  BY <1>0 DEF MakerJobs
<1>f. \A q \in Pkgs : /\ Launched(q)' = Launched(q)
                      /\ \A n : HasFile(q, n)' = HasFile(q, n)
  BY <1>0 DEF Launched, HasFile
<1>t. mjob[m].todo \subseteq Launched(p)
  <2>1. MakerAsked
    BY DEF MkTypeInv
  <2> QED
    BY <1>p, <2>1 DEF MakerAsked, Asks
<1>h. \A q \in Pkgs : \A n \in linked \cap Launched(q) : HasFile(q, n)
  BY <1>1 DEF Few, Programmed
<1>l. linked \subseteq linked' /\ linked' \subseteq linked \cup Launched(p)
  BY <1>t, MakerLeaves
<1>d. \A q \in Pkgs : q # p => linked' \cap Launched(q) = linked \cap Launched(q)
  BY <1>l, LaunchersDisjoint
<1>o. locks' = locks \/ (Busy(m) /\ \A q \in Pkgs : q # p => locks'[q] = locks[q])
  BY <1>p, MakerLeaves, MakerLocks DEF MkTruncate, MkWrite, MkRecord, MkMove, Busy
<1>q. \A q \in Pkgs : ~(Busy(m) /\ q = p) => linked \cap Launched(q) \subseteq locks[q].links
  <2> SUFFICES ASSUME NEW q \in Pkgs, ~(Busy(m) /\ q = p)
               PROVE  linked \cap Launched(q) \subseteq locks[q].links
    OBVIOUS
  <2>1. Quiet(q) /\ ~Making(q)
    BY <1>0, <1>1, <1>p DEF Quiet, Making, Busy
  <2> QED
    BY <2>1 DEF Few, FewLinks
<1>b. Busy(m) =>
        /\ locks[p] # NoLock /\ pkgdir[p] # Mixed
        /\ linked \cap Launched(p) \subseteq
             mjob[m].made \cup (IF mpc[m] = "build" THEN locks[p].links ELSE {})
        /\ \A n \in Launched(p) \ mjob[m].todo : HasFile(p, n) => n \in mjob[m].made
  BY <1>p DEF Few, FewMade, OneVersion
\* What is left to show: directories of one version, and launchers with programs.
<1>2. OneVersion'
  <2>1. \A q \in Pkgs : pkgdir[q] = Mixed => locks'[q] = locks[q]
    BY <1>b, <1>o
  <2> QED
    BY <1>0, <2>1 DEF Few, OneVersion, Mixed, May, Applied
<1>3. ASSUME \A n \in (linked' \cap Launched(p)) \ linked : HasFile(p, n) PROVE Programmed'
  BY <1>d, <1>f, <1>h, <1>3 DEF Programmed
\* m is busy with p before and after, or with none after.
<1>4. ASSUME Busy(m)', mjob'[m].pkg = p, Busy(m) \/ UNCHANGED <<linked, locks>>,
             locks'[p] # NoLock,
             linked' \cap Launched(p) \subseteq
               mjob'[m].made \cup (IF mpc'[m] = "build" THEN locks'[p].links ELSE {}),
             \A n \in Launched(p) \ mjob'[m].todo : HasFile(p, n) => n \in mjob'[m].made
      PROVE  FewLinks' /\ FewMade'
  <2>1. ASSUME NEW q \in Pkgs, ~Making(q)'
        PROVE  linked' \cap Launched(q) \subseteq locks'[q].links
    <3>1. q # p
      BY <1>4, <2>1 DEF Making
    <3> QED
      BY <1>d, <1>o, <1>q, <3>1
  <2>2. FewLinks'
    BY <1>1, <1>f, <2>1 DEF FewLinks
  <2>3. ASSUME NEW k \in Makers, Busy(k)' PROVE k = m
    BY <1>0, <2>3 DEF Busy
  <2>4. FewMade'
    BY <1>4, <1>f, <2>3 DEF FewMade
  <2> QED
    BY <2>2, <2>4
<1>5. ASSUME ~Busy(m)', linked' \cap Launched(p) \subseteq locks'[p].links
      PROVE  FewLinks' /\ FewMade'
  <2>1. ASSUME NEW q \in Pkgs PROVE linked' \cap Launched(q) \subseteq locks'[q].links
    <3>1. CASE q # p
      BY <1>d, <1>o, <1>q, <3>1
    <3>2. CASE q = p
      BY <1>5, <3>2
    <3> QED
      BY <3>1, <3>2
  <2>2. \A k \in Makers : ~Busy(k)'
    BY <1>0, <1>5 DEF Busy
  <2> QED
    BY <1>1, <1>f, <2>1, <2>2 DEF FewLinks, FewMade
<1> USE DEF MkMove
<1>6. CASE MkDone(m) \/ \E a \in SUBSET Pkgs : MkStart(m, a)
  <2>1. ~Busy(m) /\ ~Busy(m)' /\ UNCHANGED <<linked, locks>>
    BY <1>0, <1>6 DEF MkDone, MkStart, Busy, vars
  <2> QED
    BY <1>2, <1>3, <1>5, <1>q, <2>1 DEF Few
<1>7. ASSUME NEW r \in mjob[m].args, MkCheck(m, r) PROVE Few'
  <2> DEFINE i == [mjob[m] EXCEPT !.args = @ \ {r}]
             j == [i EXCEPT !.pkg = r, !.todo = Launchers[r][ports[r]], !.made = {}]
  <2>1. j.pkg = r /\ j.todo = Launchers[r][ports[r]] /\ j.made = {} /\ r \in Pkgs
    BY <1>0 DEF MakerJobs
  <2>2. mpc[m] = "args" /\ ~Busy(m) /\ UNCHANGED <<linked, locks>>
    BY <1>7 DEF MkCheck, Busy, vars
  <2>3. Programmed'
    BY <1>3, <2>2
  <2>4. CASE mpc'[m] = "args"
    BY <1>2, <1>5, <1>q, <2>2, <2>3, <2>4 DEF Busy, Few
  <2>5. CASE mpc'[m] = "build"
    <3>1. locks[r] # NoLock /\ ports[r] # None /\ mjob'[m] = j
      BY <1>0, <1>7, <2>5 DEF MkCheck, MkSet
    <3>2. ports[r] \in Versions
      BY <1>0, <2>1, <3>1 DEF Versions, None
    <3>3. j.todo = Launched(r)
      BY <2>1, <3>2 DEF Careful, Steady
    <3>4. \A q \in Pkgs : linked' \cap Launched(q) \subseteq locks'[q].links
      BY <1>q, <2>2
    <3>5. \A k \in Makers : Busy(k)' => k = m
      BY <1>0 DEF Busy
    <3>6. mjob'[m].pkg = r /\ Launched(r) \ mjob'[m].todo = {}
      BY <2>1, <3>1, <3>3
    <3>7. FewLinks'
      BY <1>1, <1>f, <3>4 DEF FewLinks
    <3>8. FewMade'
      BY <1>f, <2>1, <2>2, <2>5, <3>1, <3>4, <3>5, <3>6 DEF FewMade
    <3> QED
      BY <1>2, <2>3, <3>7, <3>8 DEF Few
  <2>6. mpc'[m] \in {"args", "build"}
    BY <1>0, <1>7 DEF MkCheck
  <2> QED
    BY <2>4, <2>5, <2>6
<1>8. ASSUME NEW n \in mjob[m].todo, MkBuild(m, n) \/ MkBuildUnnoticed(m, n) PROVE Few'
  <2>1. /\ mpc[m] = "build" /\ mpc'[m] = "build" /\ locks' = locks
        /\ mjob'[m].pkg = p /\ mjob'[m].todo = mjob[m].todo \ {n}
        /\ mjob'[m].made = mjob[m].made \cup {n} /\ linked' \subseteq linked \cup {n}
        /\ MayHaveFile(p, n)
    BY <1>0, <1>8, <1>p DEF MkBuild, MkBuildUnnoticed, MkSet, MakerJobs, OnlyLinks, vars
  <2>2. Busy(m) /\ Busy(m)'
    BY <2>1 DEF Busy
  <2>3. HasFile(p, n)
    BY <1>b, <2>1, <2>2 DEF MayHaveFile
  <2>4. Programmed'
    BY <1>3, <2>1, <2>3
  <2> QED
    BY <1>2, <1>4, <1>b, <2>1, <2>2, <2>4 DEF Few
<1>9. ASSUME NEW n \in mjob[m].todo, MkBuildNothing(m, n) PROVE Few'
  <2>1. /\ mpc[m] = "build" /\ mpc'[m] = "build" /\ UNCHANGED <<linked, locks>>
        /\ mjob'[m].pkg = p /\ mjob'[m].todo = mjob[m].todo \ {n}
        /\ mjob'[m].made = mjob[m].made \cup {DotExe} /\ ~HasFile(p, n)
    BY <1>0, <1>9, <1>p DEF MkBuildNothing, MkSet, MakerJobs, vars, MayLackFile
  <2>2. Busy(m) /\ Busy(m)'
    BY <2>1 DEF Busy
  <2>3. \A k \in Launched(p) \ mjob'[m].todo : HasFile(p, k) => k \in mjob'[m].made
    BY <1>b, <2>1, <2>2
  <2> QED
    BY <1>2, <1>3, <1>4, <1>b, <2>1, <2>2, <2>3 DEF Few
\* Nothing was built, since a launcher has no program.
<1>10. ASSUME NEW n \in mjob[m].todo, MkBuildFails(m, n) \/ MkThrow(m, n) PROVE Few'
  <2>1. mpc'[m] = "args" /\ UNCHANGED <<linked, locks>> /\ ~HasFile(p, n) /\ Busy(m)
    BY <1>0, <1>10, <1>p DEF MkBuildFails, MkThrow, vars, MayLackFile, Careful, AllMade, Busy
  <2>2. \A k \in Launched(p) : ~HasFile(p, k)
    BY <1>t, <2>1 DEF HasFile, Careful, Steady
  <2>3. linked \cap Launched(p) = {}
    BY <1>h, <2>2
  <2> QED
    BY <1>2, <1>3, <1>5, <2>1, <2>3 DEF Few, Busy
<1>11. CASE MkReread(m)
  <2>1. /\ mpc[m] = "build" /\ mpc'[m] = "trunc" /\ UNCHANGED <<linked, locks>>
        /\ mjob'[m].pkg = p /\ mjob[m].todo = {} /\ mjob'[m].todo = {}
        /\ mjob'[m].made = mjob[m].made
    BY <1>0, <1>11, <1>p DEF MkReread, MkSet, MakerJobs, vars
  <2>2. Busy(m) /\ Busy(m)'
    BY <2>1 DEF Busy
  <2>3. linked \cap Launched(p) \subseteq mjob[m].made
    BY <1>b, <1>h, <2>1, <2>2
  <2> QED
    BY <1>2, <1>3, <1>4, <1>b, <2>1, <2>2, <2>3 DEF Few
<1>12. CASE MkTruncate(m)
  <2>1. /\ mpc[m] = "trunc" /\ mpc'[m] = "write" /\ UNCHANGED <<linked, mjob>>
        /\ locks'[p] = BrokenLock
    BY <1>0, <1>12, <1>p DEF MkTruncate
  <2>2. Busy(m) /\ Busy(m)' /\ BrokenLock # NoLock
    BY <2>1 DEF Busy, BrokenLock, NoLock
  <2> QED
    BY <1>2, <1>3, <1>4, <1>b, <1>p, <2>1, <2>2 DEF Few
<1>13. CASE MkWrite(m)
  <2>1. /\ mpc[m] = "write" /\ mpc'[m] = "args" /\ UNCHANGED linked
        /\ locks'[p].links = mjob[m].made
    BY <1>0, <1>13, <1>p DEF MkWrite, MkRecord
  <2>2. Busy(m) /\ ~Busy(m)'
    BY <2>1 DEF Busy
  <2> QED
    BY <1>2, <1>3, <1>5, <1>b, <2>1, <2>2 DEF Few
<1>14. ~MkCrash(m)
  BY DEF MkCrash, Careful, AllMade
<1> QED
  BY <1>6, <1>7, <1>8, <1>9, <1>10, <1>11, <1>12, <1>13, <1>14 DEF MkStep

LEMMA NextFew ==
    /\ MkTypeInv /\ MutualExclusion /\ OneAtATime /\ (Serial => SafeInv) /\ RepairAsked
    /\ (Careful => Few) /\ [MkNext]_allvars
    => (Careful => Few)'
<1> SUFFICES ASSUME MkTypeInv, MutualExclusion, OneAtATime, SafeInv, RepairAsked,
                    Careful, Few, [MkNext]_allvars
             PROVE  Few'
  BY DEF Careful, NoCrash, AllMade, Steady, Unmixed, ApplyWorks, May, MayBuild, Launched
<1>1. ASSUME UNCHANGED <<locks, pkgdir, temp, linked, pc, job, mkvars>> PROVE Few'
  BY <1>1 DEF Few, FewLinks, FewMade, Programmed, OneVersion, mkvars, Quiet, Working, AtWork,
              Holding, Kept, Making, Busy, Launched, HasFile, Mixed, May
<1>2. CASE DeviStep
  <2>1. CASE \E p \in Pkgs : Pull(p)
    BY <1>1, <1>2, <2>1 DEF DeviStep, Pull
  <2>2. CASE ~\E p \in Pkgs : Pull(p)
    <3>1. \A m \in Makers : ~Busy(m) /\ ~Busy(m)'
      BY <1>2, <2>2, Undisturbed DEF Careful, DeviStep, mkvars, Busy
    <3>2. PICK s \in Procs : \/ Step(s) \/ Crash(s)
                             \/ \E c \in Commands, a \in SUBSET Pkgs : Start(s, c, a)
      BY <1>2, <2>2 DEF DeviStep
    <3>3. ~Crash(s)
      BY DEF Crash, Careful, NoCrash
    <3>4. FewLinks' /\ Programmed'
      BY <3>1, <3>2, <3>3, FewAtWork, FewNotAtWork DEF Few, Step
    <3>5. FewMade'
      BY <3>1 DEF FewMade
    <3>6. OneVersion'
      BY <1>2, DeviNext, OneVersionDevi DEF Few, Careful
    <3> QED
      BY <3>4, <3>5, <3>6 DEF Few
  <2> QED
    BY <2>1, <2>2
<1>3. CASE UNCHANGED allvars
  BY <1>1, <1>3 DEF allvars, vars
<1> QED
  BY <1>2, <1>3, FewMaker DEF MkNext

\* One command at a time, and compilers that work: every launcher in .linked is
\* recorded by a lock file, or is being made by a mklauncher that will record it,
\* so none outlives the upgrade or the removal of its package; whatever download,
\* unpacking, rename, move, link or removal of devi fails.
THEOREM NoneOrphaned == MkSpec => [](Careful => NoOrphanLaunchers)
<1>1. MkInit => RepairAsked /\ (Careful => Few)
  <2> SUFFICES ASSUME MkInit PROVE RepairAsked /\ Few
    OBVIOUS
  <2>1. FewLinks /\ FewMade /\ Programmed /\ RepairAsked
    BY DEF MkInit, Init, FewLinks, FewMade, Programmed, RepairAsked, AtWork, Holding, Busy
  <2>2. OneVersion
    BY ConstantsOK DEF MkInit, Init, OneVersion, Mixed, None, Applied
  <2> QED
    BY <2>1, <2>2 DEF Few
<1>2. MkTypeInv /\ RepairAsked /\ [MkNext]_allvars => RepairAsked'
  <2> SUFFICES ASSUME MkTypeInv, RepairAsked, [MkNext]_allvars PROVE RepairAsked'
    OBVIOUS
  <2>1. CASE DeviStep \/ UNCHANGED allvars
    BY <2>1, DeviNext, NextRepairAsked DEF allvars, MkTypeInv
  <2>2. ASSUME NEW m \in Makers, MkStep(m) PROVE RepairAsked'
    BY <2>2, MakerLeaves DEF RepairAsked, At, Owned
  <2> QED
    BY <2>1, <2>2 DEF MkNext
<1>3. Few => NoOrphanLaunchers
  <2> SUFFICES ASSUME Few, NEW p \in Pkgs, Quiet(p), NEW n \in linked \cap Launched(p),
                      n \notin locks[p].links
               PROVE  \E m \in Makers : mjob[m].pkg = p /\ Made(m, n)
    BY DEF NoOrphanLaunchers
  <2>1. Making(p)
    BY DEF Few, FewLinks
  <2>2. PICK m \in Makers : Busy(m) /\ mjob[m].pkg = p
    BY <2>1 DEF Making
  <2>3. n \in mjob[m].made
    BY <2>2 DEF Few, FewMade
  <2> QED
    BY <2>2, <2>3 DEF Made, Busy
<1> QED
  BY <1>1, <1>2, <1>3, NextFew, MkTypeInvCorrect, MkMutexCorrect, MkSafeCorrect, PTL DEF MkSpec
=============================================================================
