---------------------------- MODULE StoreProofs -----------------------------
(***************************************************************************)
(* devi implements the register of packages (PackageStore), for any        *)
(* processes, packages, versions and links: every step of devi, crashes    *)
(* and git pulls included, is one step of the register or leaves it alone. *)
(***************************************************************************)
EXTENDS DeviProofs

-----------------------------------------------------------------------------
(* What is written down as made was asked for.                             *)

Linking == {"clear", "make"}
Asked(j) == Provides[j.pkg][j.ver]
LinksAsked ==
    \A s \in Procs :
        /\ pc[s] \in Linking => job[s].todo \subseteq Asked(job[s])
        /\ At(s, "make") => job[s].cur \subseteq Asked(job[s])
        /\ IF pc[s] \in Linking \cup {"trunc", "write"}
           THEN job[s].made \subseteq Asked(job[s]) ELSE job[s].made = {}

LEMMA InitAsked == Init => LinksAsked
BY DEF Init, LinksAsked, Linking, At, NewJob

\* Only the record of one process changes.
LEMMA AskedFrame ==
    ASSUME TypeInv, LinksAsked, NEW s \in Procs, NEW j, NEW l, Goto(s, l),
           Set(s, j) \/ (job' = job /\ j = job[s]),
           l \in Linking => j.todo \subseteq Asked(j),
           l = "make" => j.cur \subseteq Asked(j),
           IF l \in Linking \cup {"trunc", "write"}
           THEN j.made \subseteq Asked(j) ELSE j.made = {}
    PROVE  LinksAsked'
<1>1. /\ pc'[s] = l /\ job'[s] = j
      /\ \A t \in Procs : t # s => pc'[t] = pc[t] /\ job'[t] = job[t]
  BY DEF TypeInv, TypeOK, Goto, Set
<1> QED
  BY <1>1 DEF LinksAsked, At, Asked

\* A step from one label before the links to another, and no link is made.
LEMMA AskedEarly ==
    ASSUME TypeInv, LinksAsked, NEW s \in Procs, NEW j, NEW from, NEW l, Move(s, from, l),
           Set(s, j) \/ (job' = job /\ j = job[s]),
           from \notin Linking \cup {"trunc", "write"}, l \notin Linking \cup {"trunc", "write"},
           j.made = job[s].made
    PROVE  LinksAsked'
<1>1. job[s].made = {}
  BY DEF LinksAsked, Move, At
<1> QED
  BY <1>1, AskedFrame DEF Linking, Move

\* A step after which nothing is made.
LEMMA AskedNothing ==
    ASSUME TypeInv, LinksAsked, NEW s \in Procs, NEW j, NEW l, Goto(s, l), Set(s, j),
           l \notin Linking \cup {"trunc", "write"}, j.made = {}
    PROVE  LinksAsked'
BY AskedFrame DEF Linking

LEMMA AskedReturn ==
    ASSUME TypeInv, LinksAsked, NEW s \in Procs, NEW from, NEW ok, Return(s, from, ok)
    PROVE  LinksAsked'
<1>1. job[s] \in Jobs
  BY DEF TypeInv, TypeOK
<1>2. PICK l \in {"next", "fail"} : Goto(s, l)
  BY DEF Return, Move
<1> DEFINE j == [Left(job[s]) EXCEPT
                   !.done   = IF ok THEN @ \cup {job[s].pkg} ELSE @,
                   !.failed = IF ok \/ job[s].cmd = "core" THEN @ ELSE @ \cup {job[s].pkg}]
<1>3. Set(s, j)
  BY DEF Return
<1>4. j.made = {}
  BY <1>1 DEF Left, Jobs
<1> HIDE DEF j
<1> QED
  BY <1>2, <1>3, <1>4, AskedNothing DEF Linking

LEMMA AskedExit ==
    ASSUME TypeInv, LinksAsked, NEW s \in Procs, NEW code, Goto(s, "idle"),
           Set(s, Exited(job[s], code))
    PROVE  LinksAsked'
<1>1. Exited(job[s], code).made = {}
  BY DEF Exited, NewJob
<1> QED
  BY <1>1, AskedNothing DEF Linking

LEMMA AskedSession ==
    ASSUME TypeInv, LinksAsked, NEW s \in Procs,
           \/ SessionStep(s) \/ Crash(s)
           \/ \E c \in Commands, a \in SUBSET Pkgs : Start(s, c, a)
    PROVE  LinksAsked'
<1>0. job[s] \in Jobs
  BY DEF TypeInv, TypeOK
<1>1. CASE Acquire(s)
  BY <1>0, <1>1, AskedEarly DEF Acquire, Linking, Jobs
<1>2. CASE TimeOut(s) \/ Finish(s) \/ Fail(s)
  BY <1>2, AskedExit DEF TimeOut, Finish, Fail, Release, Move
<1>3. CASE Crash(s)
  BY <1>3, AskedExit DEF Crash
<1>4. CASE InstallCore(s)
  <2> DEFINE j == [job[s] EXCEPT !.cmd = "core", !.args = Core \ job[s].table]
  <2>1. Move(s, "next", "next") /\ Set(s, j)
    BY <1>4 DEF InstallCore
  <2>2. j.made = job[s].made
    BY <1>0 DEF Jobs
  <2> HIDE DEF j
  <2> QED
    BY <2>1, <2>2, AskedEarly DEF Linking
<1>5. ASSUME NEW p, NextArgument(s, p) PROVE LinksAsked'
  <2>1. PICK l \in {"ulock", "check"} : Move(s, "next", l)
    BY <1>5 DEF NextArgument
  <2> DEFINE j == [job[s] EXCEPT !.args = @ \ {p}, !.pkg = p]
  <2>2. Set(s, j)
    BY <1>5 DEF NextArgument
  <2>3. j.made = job[s].made
    BY <1>0 DEF Jobs
  <2> HIDE DEF j
  <2> QED
    BY <2>1, <2>2, <2>3, AskedEarly DEF Linking
<1>6. ASSUME NEW p, NextUpgrade(s, p) PROVE LinksAsked'
  <2>1. PICK l \in {"next", "ulock", "check"} : Move(s, "next", l)
    BY <1>6 DEF NextUpgrade
  <2> DEFINE i == [job[s] EXCEPT !.args = @ \ {p}]
             failed == [i EXCEPT !.failed = @ \cup {p}]
             removed == [i EXCEPT !.pkg = p]
             table == [i EXCEPT !.pkg = p, !.table = @ \cup {p}]
  <2>2. /\ failed.made = job[s].made /\ removed.made = job[s].made
        /\ table.made = job[s].made
    BY <1>0 DEF Jobs
  <2>3. Set(s, failed) \/ Set(s, removed) \/ Set(s, table)
    BY <1>6 DEF NextUpgrade
  <2> HIDE DEF failed, removed, table
  <2> QED
    BY <2>1, <2>2, <2>3, AskedEarly DEF Linking
<1>7. ASSUME NEW c, NEW a, Start(s, c, a) PROVE LinksAsked'
  <2>1. PICK j : Set(s, j) /\ j.made = {}
    BY <1>7 DEF Start, NewJob
  <2>2. PICK l \in {"repair", "wait"} : Goto(s, l)
    BY <1>7 DEF Start, Move
  <2> QED
    BY <2>1, <2>2, AskedNothing DEF Linking
<1> QED
  BY <1>1, <1>2, <1>3, <1>4, <1>5, <1>6, <1>7 DEF SessionStep

LEMMA AskedInstall ==
    ASSUME TypeInv, LinksAsked, NEW s \in Procs, InstallStep(s)
    PROVE  LinksAsked'
<1>0. job[s] \in Jobs
  BY DEF TypeInv, TypeOK
<1>1. ASSUME NEW from, NEW ok, Return(s, from, ok) PROVE LinksAsked'
  BY <1>1, AskedReturn
<1>2. CASE CheckPort(s)
  <2> DEFINE j == [job[s] EXCEPT !.ver = ports[job[s].pkg], !.old = locks[job[s].pkg]]
  <2>1. CASE Move(s, "check", "download") /\ Set(s, j)
    <3>1. j.made = job[s].made
      BY <1>0 DEF Jobs
    <3> HIDE DEF j
    <3> QED
      BY <2>1, <3>1, AskedEarly DEF Linking
  <2> QED
    BY <1>1, <1>2, <2>1 DEF CheckPort
<1>3. CASE Download(s)
  BY <1>1, <1>3, AskedEarly DEF Download, Linking
<1>4. CASE Unpack(s)
  BY <1>1, <1>4, AskedEarly DEF Unpack, Linking
<1>5. CASE SetAside(s)
  <2>1. PICK j : j.made = job[s].made /\ (Set(s, j) \/ (job' = job /\ j = job[s]))
    BY <1>0, <1>5 DEF SetAside, Jobs
  <2> QED
    BY <1>5, <2>1, AskedEarly DEF SetAside, Linking
<1>6. CASE Apply(s)
  BY <1>6, AskedEarly DEF Apply, Linking
<1>7. CASE DropBackup(s)
  <2> DEFINE j == [job[s] EXCEPT !.backup = None, !.todo = job[s].old.links]
  <2>1. Move(s, "drop", "oldlinks") /\ Set(s, j)
    BY <1>7 DEF DropBackup
  <2>2. j.made = job[s].made
    BY <1>0 DEF Jobs
  <2> HIDE DEF j
  <2> QED
    BY <2>1, <2>2, AskedEarly DEF Linking
<1>8. ASSUME NEW n, DropOldLink(s, n) PROVE LinksAsked'
  BY <1>0, <1>8, AskedEarly DEF DropOldLink, Linking, Jobs
<1>9. CASE OldLinksDropped(s)
  <2> DEFINE j == [job[s] EXCEPT !.todo = Provides[job[s].pkg][job[s].ver]]
  <2>1. Goto(s, "clear") /\ Set(s, j) /\ At(s, "oldlinks")
    BY <1>9 DEF OldLinksDropped, Move
  <2>2. j.todo = Asked(j) /\ j.made = {}
    BY <1>0, <2>1 DEF Asked, Jobs, LinksAsked, At, Linking
  <2> QED
    BY <2>1, <2>2, AskedFrame
<1>10. ASSUME NEW n, ClearLink(s, n) PROVE LinksAsked'
  <2> DEFINE j == [job[s] EXCEPT !.todo = @ \ {n}, !.cur = {n}]
  <2>1. Goto(s, "make") /\ Set(s, j) /\ At(s, "clear") /\ n \in job[s].todo
    BY <1>10 DEF ClearLink, Move
  <2>2. job[s].todo \subseteq Asked(job[s]) /\ job[s].made \subseteq Asked(job[s])
    BY <2>1 DEF LinksAsked, At, Linking
  <2>3. /\ j.todo = job[s].todo \ {n} /\ j.cur = {n} /\ j.made = job[s].made
        /\ Asked(j) = Asked(job[s])
    BY <1>0 DEF Jobs, Asked
  <2> HIDE DEF j
  <2> QED
    BY <2>1, <2>2, <2>3, AskedFrame DEF Linking
<1>11. CASE MakeLink(s)
  <2> DEFINE j == [job[s] EXCEPT !.made = @ \cup job[s].cur, !.cur = {}]
  <2>1. Goto(s, "clear") /\ Set(s, j) /\ At(s, "make")
    BY <1>11 DEF MakeLink, Move
  <2>2. /\ job[s].todo \subseteq Asked(job[s]) /\ job[s].made \subseteq Asked(job[s])
        /\ job[s].cur \subseteq Asked(job[s])
    BY <2>1 DEF LinksAsked, At, Linking
  <2>3. /\ j.todo = job[s].todo /\ j.made = job[s].made \cup job[s].cur
        /\ Asked(j) = Asked(job[s])
    BY <1>0 DEF Jobs, Asked
  <2> HIDE DEF j
  <2> QED
    BY <2>1, <2>2, <2>3, AskedFrame DEF Linking
<1>12. ASSUME NEW j, NEW from \in Linking \cup {"trunc"}, NEW l \in {"trunc", "write"},
              Move(s, from, l), Set(s, j) \/ (job' = job /\ j = job[s]),
              j.made = job[s].made, Asked(j) = Asked(job[s])
       PROVE  LinksAsked'
  <2>1. job[s].made \subseteq Asked(job[s])
    BY <1>12 DEF LinksAsked, Move, At
  <2> QED
    BY <1>12, <2>1, AskedFrame DEF Move, Linking
<1>13. CASE LinksDone(s)
  BY <1>12, <1>13 DEF LinksDone, Linking
<1>14. CASE MakeLinkFails(s)
  <2>1. PICK j : Set(s, j) /\ j.made = job[s].made /\ Asked(j) = Asked(job[s])
    BY <1>0, <1>14 DEF MakeLinkFails, Jobs, Asked
  <2> QED
    BY <1>12, <1>14, <2>1 DEF MakeLinkFails, Linking
<1>15. CASE TruncateLock(s)
  BY <1>12, <1>15 DEF TruncateLock
<1>16. CASE WriteLock(s)
  BY <1>1, <1>16 DEF WriteLock, WriteVersion
<1> QED
  BY <1>2, <1>3, <1>4, <1>5, <1>6, <1>7, <1>8, <1>9, <1>10, <1>11, <1>13, <1>14, <1>15, <1>16
  DEF InstallStep

LEMMA AskedOther ==
    ASSUME TypeInv, LinksAsked, NEW s \in Procs, UninstallStep(s) \/ RepairStep(s)
    PROVE  LinksAsked'
<1>0. job[s] \in Jobs
  BY DEF TypeInv, TypeOK
<1>1. ASSUME NEW j, Set(s, j) \/ (job' = job /\ j = job[s]), j.made = job[s].made,
             NEW from \in Labels \ (Linking \cup {"trunc", "write"}),
             NEW l \in Labels \ (Linking \cup {"trunc", "write"}), Move(s, from, l)
      PROVE  LinksAsked'
  BY <1>1, AskedEarly
<1>2. CASE ReadLock(s)
  <2>1. PICK l \in {"udir", "ulinks"} : Move(s, "ulock", l)
    BY <1>2 DEF ReadLock
  <2> QED
    BY <1>0, <1>1, <1>2, <2>1 DEF ReadLock, Jobs, Labels, Linking
<1>3. CASE RemoveLock(s)
  BY <1>1, <1>3 DEF RemoveLock, Labels, Linking
<1>4. CASE RemoveDir(s)
  BY <1>4, AskedReturn DEF RemoveDir
<1>5. ASSUME NEW n, RemoveLink(s, n) PROVE LinksAsked'
  BY <1>0, <1>1, <1>5 DEF RemoveLink, Jobs, Labels, Linking
<1>6. CASE RemakeLink(s)
  BY <1>0, <1>1, <1>6 DEF RemakeLink, Jobs, Labels, Linking
<1>7. CASE RemakeLinkFails(s) \/ RepairDone(s)
  BY <1>7, AskedExit DEF RemakeLinkFails, RepairDone, Move
<1>8. CASE PortRepaired(s)
  <2>1. Left(job[s]).made = {}
    BY <1>0 DEF Left, Jobs
  <2> QED
    BY <1>8, <2>1, AskedNothing DEF PortRepaired, Move, Linking
<1>9. ASSUME NEW p, RepairPort(s, p) PROVE LinksAsked'
  <2>1. PICK l \in {"repair", "rcheck"} : Move(s, "repair", l)
    BY <1>9 DEF RepairPort
  <2> DEFINE i == [job[s] EXCEPT !.args = @ \ {p}]
             j == [i EXCEPT !.pkg = p, !.ver = ports[p], !.todo = Provides[p][ports[p]]]
  <2>2. i.made = job[s].made /\ j.made = job[s].made
    BY <1>0 DEF Jobs
  <2>3. Set(s, i) \/ Set(s, j)
    BY <1>9 DEF RepairPort
  <2> HIDE DEF i, j
  <2> QED
    BY <1>1, <2>1, <2>2, <2>3 DEF Labels, Linking
<1>10. ASSUME NEW n, SkipLink(s, n) PROVE LinksAsked'
  BY <1>0, <1>1, <1>10 DEF SkipLink, Jobs, Labels, Linking
<1>11. ASSUME NEW n, LinkIsMissing(s, n) PROVE LinksAsked'
  <2> DEFINE j == [job[s] EXCEPT !.todo = @ \ {n}, !.cur = {n}]
  <2>1. Move(s, "rcheck", "rmake") /\ Set(s, j)
    BY <1>11 DEF LinkIsMissing
  <2>2. j.made = job[s].made
    BY <1>0 DEF Jobs
  <2> HIDE DEF j
  <2> QED
    BY <1>1, <2>1, <2>2 DEF Labels, Linking
<1> QED
  BY <1>2, <1>3, <1>4, <1>5, <1>6, <1>7, <1>8, <1>9, <1>10, <1>11 DEF UninstallStep, RepairStep

LEMMA NextAsked == TypeInv /\ LinksAsked /\ [Next]_vars => LinksAsked'
<1> SUFFICES ASSUME TypeInv, LinksAsked, [Next]_vars PROVE LinksAsked'
  OBVIOUS
<1>1. CASE UNCHANGED vars \/ \E p \in Pkgs : Pull(p)
  BY <1>1 DEF vars, Pull, LinksAsked, At, Asked
<1>2. CASE Next
  BY <1>1, <1>2, AskedSession, AskedInstall, AskedOther DEF Next, Step
<1> QED
  BY <1>1, <1>2

-----------------------------------------------------------------------------
(* What the lock files say.                                                *)

\* The old lock counts until the new one is written.
SaidIs ==
    /\ \A s \in Procs : At(s, "write") =>
          \A p \in Pkgs : Said(p) = IF p = job[s].pkg THEN job[s].old ELSE locks[p]
    /\ (\A s \in Procs : ~At(s, "write")) => \A p \in Pkgs : Said(p) = locks[p]

LEMMA SaidFacts == MutualExclusion => SaidIs
<1> SUFFICES ASSUME MutualExclusion PROVE SaidIs
  OBVIOUS
<1>1. ASSUME NEW s \in Procs, At(s, "write"), NEW p \in Pkgs
      PROVE  Said(p) = IF p = job[s].pkg THEN job[s].old ELSE locks[p]
  <2>1. ASSUME NEW t \in Procs, At(t, "write") PROVE t = s
    BY <1>1, <2>1 DEF MutualExclusion, Holding, At
  <2> QED
    BY <1>1, <2>1 DEF Said
<1>2. (\A s \in Procs : ~At(s, "write")) => \A p \in Pkgs : Said(p) = locks[p]
  BY DEF Said
<1> QED
  BY <1>1, <1>2 DEF SaidIs

LEMMA SaidFactsNext == MutualExclusion' => SaidIs'
BY SaidFacts, PTL

\* No record changes unless a lock file does, or a writer comes or goes.
LEMMA SameRecords ==
    ASSUME MutualExclusion, MutualExclusion', locks' = locks,
           \A s \in Procs : /\ At(s, "write")' <=> At(s, "write")
                            /\ At(s, "write") => /\ job'[s].pkg = job[s].pkg
                                                 /\ job'[s].old = job[s].old
    PROVE  \A p \in Pkgs : Recorded(p)' = Recorded(p)
<1>1. SaidIs /\ SaidIs'
  BY SaidFacts, SaidFactsNext
<1>2. \A p \in Pkgs : Said(p)' = Said(p)
  BY <1>1 DEF SaidIs
<1> QED
  BY <1>2 DEF Recorded, Parsed

\* Only process s changes, and it does not write a lock file.
Elsewhere(s) ==
    /\ pc[s] # "write" /\ pc'[s] # "write" /\ locks' = locks
    /\ \A t \in Procs : t # s => pc'[t] = pc[t] /\ job'[t] = job[t]

LEMMA ElsewhereSame ==
    ASSUME MutualExclusion, MutualExclusion', NEW s \in Procs, Elsewhere(s)
    PROVE  \A p \in Pkgs : Recorded(p)' = Recorded(p)
BY SameRecords DEF At, Elsewhere

\* Nor one that leaves the processes alone.
LEMMA WorldSame ==
    ASSUME MutualExclusion, MutualExclusion', UNCHANGED <<pc, job, locks>>
    PROVE  \A p \in Pkgs : Recorded(p)' = Recorded(p)
BY SameRecords DEF At

-----------------------------------------------------------------------------
(* Every step is one of the register.                                      *)

Writer == IF mutex \in Procs THEN mutex ELSE Free
Record == [p \in Pkgs |-> Recorded(p)]

LEMMA InitStore == Init => Store!StoreInit
<1> SUFFICES ASSUME Init PROVE Store!StoreInit
  OBVIOUS
<1>1. \A s \in Procs : ~At(s, "write")
  BY DEF Init, At
<1>2. ASSUME NEW p \in Pkgs PROVE Recorded(p) = Store!Empty
  BY <1>1 DEF Init, Recorded, Said, Parsed, NoLock, Store!Empty
<1>3. mutex = Free /\ Free \notin Procs
  BY ConstantsOK DEF Init
<1> QED
  BY <1>2, <1>3 DEF Store!StoreInit

LEMMA Stutters ==
    ASSUME mutex' = mutex, \A p \in Pkgs : Recorded(p)' = Recorded(p)
    PROVE  UNCHANGED Store!svars
BY DEF Store!svars

\* The mutex changes hands, and nothing is recorded.
LEMMA HandsOver ==
    ASSUME NEW s \in Procs, \A p \in Pkgs : Recorded(p)' = Recorded(p),
           \/ mutex \notin Procs /\ mutex' = s
           \/ mutex = s /\ mutex' \notin Procs
    PROVE  Store!StoreNext
<1>1. UNCHANGED Record /\ Free \notin Procs
  BY ConstantsOK DEF Record
<1>2. CASE mutex \notin Procs /\ mutex' = s
  <2>1. Store!Enter(s)
    BY <1>1, <1>2 DEF Store!Enter, Record
  <2> QED
    BY <2>1 DEF Store!StoreNext
<1>3. CASE mutex = s /\ mutex' \notin Procs
  <2>1. Store!Leave(s)
    BY <1>1, <1>3 DEF Store!Leave, Record
  <2> QED
    BY <2>1 DEF Store!StoreNext
<1> QED
  BY <1>2, <1>3

\* The record of one package changes, at the hands of who holds the mutex.
LEMMA RecordsOne ==
    ASSUME NEW s \in Procs, mutex = s, NEW p \in Pkgs,
           \A q \in Pkgs : q # p => Recorded(q)' = Recorded(q),
           \/ mutex' = s /\ Recorded(p)' = NoLock
           \/ mutex' \notin Procs /\ Recorded(p)' = NoLock
           \/ /\ mutex' = s
              /\ \E v \in Versions : \E l \in SUBSET Provides[p][v] :
                    Recorded(p)' = [version |-> v, links |-> l] /\ v > Recorded(p).version
    PROVE  Store!StoreNext
<1>1. Free \notin Procs /\ NoLock = Store!Empty
  BY ConstantsOK DEF NoLock, Store!Empty
<1>2. ASSUME NEW r, Recorded(p)' = r PROVE Record' = [Record EXCEPT ![p] = r]
  BY <1>2 DEF Record
<1>3. CASE mutex' = s /\ Recorded(p)' = NoLock
  <2>1. Store!Remove(s, p)
    BY <1>1, <1>2, <1>3 DEF Store!Remove, Record
  <2> QED
    BY <2>1 DEF Store!StoreNext
<1>4. CASE mutex' \notin Procs /\ Recorded(p)' = NoLock
  <2>1. Store!Lose(s, p)
    BY <1>1, <1>2, <1>4 DEF Store!Lose, Record
  <2> QED
    BY <2>1 DEF Store!StoreNext
<1>5. ASSUME mutex' = s, NEW v \in Versions, NEW l \in SUBSET Provides[p][v],
             Recorded(p)' = [version |-> v, links |-> l], v > Recorded(p).version
      PROVE  Store!StoreNext
  <2>1. Record[p] = Recorded(p)
    BY DEF Record
  <2>2. Store!Put(s, p, v, l)
    BY <1>1, <1>2, <1>5, <2>1 DEF Store!Put, Record
  <2> QED
    BY <1>5, <2>2 DEF Store!StoreNext
<1> QED
  BY <1>3, <1>4, <1>5

\* Most steps record nothing.
LEMMA SilentSteps ==
    ASSUME TypeInv, NEW s \in Procs,
           \/ TimeOut(s) \/ InstallCore(s) \/ RepairStep(s)
           \/ \E p \in job[s].args : NextArgument(s, p) \/ NextUpgrade(s, p)
           \/ CheckPort(s) \/ Download(s) \/ Unpack(s) \/ SetAside(s) \/ Apply(s)
           \/ DropBackup(s) \/ OldLinksDropped(s) \/ LinksDone(s)
           \/ MakeLink(s) \/ MakeLinkFails(s)
           \/ \E n \in job[s].todo : DropOldLink(s, n) \/ ClearLink(s, n) \/ RemoveLink(s, n)
           \/ ReadLock(s) \/ RemoveDir(s)
           \/ \E c \in Commands, a \in SUBSET Pkgs : Start(s, c, a)
    PROVE  Elsewhere(s) /\ mutex' = mutex
<1>1. pc \in [Procs -> Labels] /\ job \in [Procs -> Jobs]
  BY DEF TypeInv, TypeOK
<1>2. ASSUME NEW from, NEW to, Move(s, from, to), from # "write", to # "write",
             NEW j, Set(s, j) \/ job' = job, UNCHANGED <<locks, mutex>>
      PROVE  Elsewhere(s) /\ mutex' = mutex
  BY <1>1, <1>2 DEF Elsewhere, Move, At, Goto, Set
<1>3. ASSUME NEW from, NEW ok, Return(s, from, ok), from # "write", UNCHANGED <<locks, mutex>>
      PROVE  Elsewhere(s) /\ mutex' = mutex
  <2>1. PICK to \in {"next", "fail"} : Move(s, from, to)
    BY <1>3 DEF Return
  <2> QED
    BY <1>2, <1>3, <2>1 DEF Return
<1>4. CASE TimeOut(s) \/ InstallCore(s) \/ \E p \in job[s].args : NextArgument(s, p)
  BY <1>2, <1>4 DEF TimeOut, InstallCore, NextArgument, OnlyLocal, disk
<1>5. ASSUME NEW p, NextUpgrade(s, p) PROVE Elsewhere(s) /\ mutex' = mutex
  BY <1>2, <1>5 DEF NextUpgrade, OnlyLocal, disk
<1>6. CASE CheckPort(s) \/ Download(s)
  BY <1>2, <1>3, <1>6 DEF CheckPort, Download, OnlyLocal, disk
<1>7. CASE Unpack(s) \/ RemoveDir(s)
  BY <1>2, <1>3, <1>7 DEF Unpack, RemoveDir
<1>8. CASE SetAside(s) \/ Apply(s) \/ DropBackup(s) \/ OldLinksDropped(s)
  BY <1>2, <1>8 DEF SetAside, Apply, DropBackup, OldLinksDropped, OnlyLocal, disk
<1>9. CASE LinksDone(s) \/ MakeLink(s) \/ MakeLinkFails(s) \/ ReadLock(s)
  BY <1>2, <1>9 DEF LinksDone, MakeLink, MakeLinkFails, ReadLock, OnlyLocal, OnlyLinks, disk
<1>10. ASSUME NEW n, DropOldLink(s, n) \/ ClearLink(s, n) \/ RemoveLink(s, n)
                     \/ SkipLink(s, n) \/ LinkIsMissing(s, n)
       PROVE  Elsewhere(s) /\ mutex' = mutex
  BY <1>2, <1>10 DEF DropOldLink, ClearLink, RemoveLink, SkipLink, LinkIsMissing, OnlyLocal,
                     OnlyLinks, disk
<1>11. CASE RemakeLink(s) \/ RemakeLinkFails(s) \/ PortRepaired(s) \/ RepairDone(s)
  BY <1>2, <1>11 DEF RemakeLink, RemakeLinkFails, PortRepaired, RepairDone, OnlyLocal,
                     OnlyLinks, disk
<1>12. ASSUME NEW p, RepairPort(s, p) PROVE Elsewhere(s) /\ mutex' = mutex
  BY <1>2, <1>12 DEF RepairPort, OnlyLocal, disk
<1>13. ASSUME NEW c, NEW a, Start(s, c, a) PROVE Elsewhere(s) /\ mutex' = mutex
  BY <1>2, <1>13 DEF Start, disk
<1> QED
  BY <1>4, <1>5, <1>6, <1>7, <1>8, <1>9, <1>10, <1>11, <1>12, <1>13 DEF RepairStep

\* WaitOne and ReleaseMutex.
LEMMA MutexSteps ==
    ASSUME TypeInv, MutualExclusion, MutualExclusion', NEW s \in Procs,
           Acquire(s) \/ Finish(s) \/ Fail(s)
    PROVE  Store!StoreNext
<1>1. pc \in [Procs -> Labels] /\ job \in [Procs -> Jobs] /\ Procs \cap {Free, Abandoned} = {}
  BY ConstantsOK DEF TypeInv, TypeOK
<1>2. Elsewhere(s)
  BY <1>1 DEF Elsewhere, Acquire, Finish, Fail, Release, Move, At, Goto, Set, disk
<1>3. CASE Acquire(s)
  BY <1>1, <1>2, <1>3, ElsewhereSame, HandsOver DEF Acquire
<1>4. CASE Finish(s) \/ Fail(s)
  <2>1. mutex = s
    BY <1>4 DEF Finish, Fail, Release, Move, At, MutualExclusion, Holding
  <2>2. mutex' = Free
    BY <1>4 DEF Finish, Fail, Release
  <2> QED
    BY <1>1, <1>2, <2>1, <2>2, ElsewhereSame, HandsOver
<1> QED
  BY <1>3, <1>4

\* The lock file that is emptied is the one Install-Port has read.
LEMMA TruncateStep ==
    ASSUME TypeInv, MutualExclusion, MutualExclusion', OldTableCurrent, NEW s \in Procs,
           TruncateLock(s)
    PROVE  UNCHANGED Store!svars
<1> DEFINE p == job[s].pkg
<1>1. /\ pc[s] = "trunc" /\ pc'[s] = "write" /\ job' = job /\ mutex' = mutex
      /\ locks' = [locks EXCEPT ![p] = BrokenLock] /\ p \in Pkgs
      /\ locks \in [Pkgs -> Locks]
  BY DEF TruncateLock, Move, At, Goto, TypeInv, TypeOK, Jobs
<1>2. \A t \in Procs : ~At(t, "write")
  BY <1>1, Alone DEF Holding, Inside, AfterCheck, At
<1>3. job[s].old = locks[p]
  BY <1>1 DEF OldTableCurrent, AfterCheck
<1>4. SaidIs /\ SaidIs'
  BY SaidFacts, SaidFactsNext
<1>5. ASSUME NEW q \in Pkgs PROVE Said(q)' = Said(q)
  BY <1>1, <1>2, <1>3, <1>4, <1>5 DEF SaidIs, At
<1>6. \A q \in Pkgs : Recorded(q)' = Recorded(q)
  BY <1>5 DEF Recorded, Parsed
<1> QED
  BY <1>1, <1>6, Stutters

\* The lock file that is written has a later version, and links it asks for.
LEMMA WriteStep ==
    ASSUME TypeInv, MutualExclusion, MutualExclusion', GoesUp, LinksAsked, NEW s \in Procs,
           WriteLock(s)
    PROVE  Store!StoreNext
<1> PICK p, v, l : p = job[s].pkg /\ v = job[s].ver /\ l = job[s].made
  OBVIOUS
<1>1. /\ pc[s] = "write" /\ pc'[s] \in {"next", "fail"} /\ mutex' = mutex
      /\ locks' = [locks EXCEPT ![p] = [version |-> v, links |-> l]]
      /\ \A t \in Procs : t # s => pc'[t] = pc[t]
  BY DEF WriteLock, WriteVersion, Return, Move, At, Goto, TypeInv, TypeOK
<1>2. p \in Pkgs /\ locks \in [Pkgs -> Locks] /\ job[s].old \in Locks
  BY DEF TypeInv, TypeOK, Jobs
<1>3. v \in Versions /\ v > 0
  BY <1>1, ConstantsOK DEF TypeInv, VersionRead, Versions
<1>4. l \in SUBSET Provides[p][v]
  BY <1>1 DEF LinksAsked, Asked, Linking
<1>5. mutex = s
  BY <1>1 DEF MutualExclusion, Holding
<1>6. \A t \in Procs : ~At(t, "write")'
  BY <1>1, <1>5 DEF MutualExclusion, Holding, At
<1>7. SaidIs /\ SaidIs'
  BY SaidFacts, SaidFactsNext
<1>8. Said(p) = job[s].old /\ \A q \in Pkgs : q # p => Said(q) = locks[q]
  BY <1>1, <1>2, <1>7 DEF SaidIs, At
<1>9. \A q \in Pkgs : Said(q)' = locks'[q]
  BY <1>6, <1>7 DEF SaidIs
<1>10. \A q \in Pkgs : q # p => Recorded(q)' = Recorded(q)
  BY <1>1, <1>2, <1>8, <1>9 DEF Recorded, Parsed
<1>11. Recorded(p)' = [version |-> v, links |-> l]
  BY <1>1, <1>2, <1>3, <1>9 DEF Recorded, Parsed
<1>12. v > Recorded(p).version
  <2>1. job[s].old.version < v
    BY <1>1 DEF GoesUp, Inside
  <2> QED
    BY <1>3, <1>8, <2>1 DEF Recorded, Parsed, NoLock
<1> QED
  BY <1>1, <1>2, <1>3, <1>4, <1>5, <1>10, <1>11, <1>12, RecordsOne

\* uninstall.
LEMMA RemoveStep ==
    ASSUME TypeInv, MutualExclusion, MutualExclusion', NEW s \in Procs, RemoveLock(s)
    PROVE  Store!StoreNext
<1> PICK p : p = job[s].pkg
  OBVIOUS
<1>1. /\ pc[s] = "ulinks" /\ pc'[s] = "unlocked" /\ mutex' = mutex
      /\ locks' = [locks EXCEPT ![p] = NoLock] /\ p \in Pkgs /\ locks \in [Pkgs -> Locks]
      /\ \A t \in Procs : t # s => pc'[t] = pc[t]
  BY DEF RemoveLock, Move, At, Goto, TypeInv, TypeOK, Jobs
<1>2. mutex = s
  BY <1>1 DEF MutualExclusion, Holding
<1>3. \A t \in Procs : ~At(t, "write") /\ ~At(t, "write")'
  BY <1>1, <1>2 DEF MutualExclusion, Holding, At
<1>4. SaidIs /\ SaidIs'
  BY SaidFacts, SaidFactsNext
<1>5. \A q \in Pkgs : Said(q) = locks[q] /\ Said(q)' = locks'[q]
  BY <1>3, <1>4 DEF SaidIs
<1>6. Recorded(p)' = NoLock /\ \A q \in Pkgs : q # p => Recorded(q)' = Recorded(q)
  BY <1>1, <1>5 DEF Recorded, Parsed, NoLock
<1> QED
  BY <1>1, <1>2, <1>6, RecordsOne

\* A process that dies takes along the record it was writing, or nothing.
LEMMA CrashStep ==
    ASSUME TypeInv, MutualExclusion, MutualExclusion', WritesLast, NEW s \in Procs, Crash(s)
    PROVE  Store!StoreNext \/ UNCHANGED Store!svars
<1> PICK p : p = job[s].pkg
  OBVIOUS
<1>1. /\ pc'[s] = "idle" /\ locks' = locks /\ p \in Pkgs
      /\ mutex' = (IF mutex = s THEN Abandoned ELSE mutex)
      /\ \A t \in Procs : t # s => pc'[t] = pc[t] /\ job'[t] = job[t]
  BY DEF Crash, Goto, Set, TypeInv, TypeOK, Jobs
<1>2. Abandoned \notin Procs
  BY ConstantsOK
<1>3. CASE At(s, "write")
  <2>1. mutex = s
    BY <1>3 DEF MutualExclusion, Holding, At
  <2>2. \A t \in Procs : ~At(t, "write")'
    BY <1>1, <2>1 DEF MutualExclusion, Holding, At
  <2>3. SaidIs /\ SaidIs'
    BY SaidFacts, SaidFactsNext
  <2>4. /\ \A q \in Pkgs : Said(q)' = locks'[q]
        /\ \A q \in Pkgs : q # p => Said(q) = locks[q]
    BY <1>3, <2>2, <2>3 DEF SaidIs
  <2>5. locks[p] = BrokenLock
    BY <1>3 DEF WritesLast
  <2>6. Recorded(p)' = NoLock /\ \A q \in Pkgs : q # p => Recorded(q)' = Recorded(q)
    BY <1>1, <2>4, <2>5 DEF Recorded, Parsed, BrokenLock
  <2> QED
    BY <1>1, <1>2, <2>1, <2>6, RecordsOne
<1>4. CASE ~At(s, "write")
  <2>1. Elsewhere(s)
    BY <1>1, <1>4 DEF Elsewhere, At
  <2>2. CASE mutex = s
    BY <1>1, <1>2, <2>1, <2>2, ElsewhereSame, HandsOver
  <2>3. CASE mutex # s
    BY <1>1, <2>1, <2>3, ElsewhereSame, Stutters
  <2> QED
    BY <2>2, <2>3
<1> QED
  BY <1>3, <1>4

LEMMA NextStore ==
    /\ TypeInv /\ MutualExclusion /\ SafeInv /\ LinksAsked /\ MutualExclusion'
    /\ [Next]_vars
    => [Store!StoreNext]_(Store!svars)
<1> SUFFICES ASSUME TypeInv, MutualExclusion, SafeInv, LinksAsked, MutualExclusion', [Next]_vars
             PROVE  Store!StoreNext \/ UNCHANGED Store!svars
  OBVIOUS
<1>1. CASE UNCHANGED vars \/ \E p \in Pkgs : Pull(p)
  <2>1. UNCHANGED <<pc, job, locks, mutex>>
    BY <1>1 DEF vars, Pull
  <2> QED
    BY <2>1, WorldSame, Stutters
<1>2. ASSUME NEW s \in Procs, Crash(s) PROVE Store!StoreNext \/ UNCHANGED Store!svars
  BY <1>2, CrashStep DEF SafeInv
<1>3. ASSUME NEW s \in Procs, Elsewhere(s), mutex' = mutex PROVE UNCHANGED Store!svars
  BY <1>3, ElsewhereSame, Stutters
<1>4. ASSUME NEW s \in Procs, \E c \in Commands, a \in SUBSET Pkgs : Start(s, c, a)
      PROVE  UNCHANGED Store!svars
  BY <1>3, <1>4, SilentSteps
<1>5. ASSUME NEW s \in Procs, Step(s) PROVE Store!StoreNext \/ UNCHANGED Store!svars
  <2>1. CASE Acquire(s) \/ Finish(s) \/ Fail(s)
    BY <2>1, MutexSteps
  <2>2. CASE TruncateLock(s)
    BY <2>2, TruncateStep DEF SafeInv
  <2>3. CASE WriteLock(s)
    BY <2>3, WriteStep DEF SafeInv
  <2>4. CASE RemoveLock(s)
    BY <2>4, RemoveStep
  <2>5. CASE Elsewhere(s) /\ mutex' = mutex
    BY <1>3, <2>5
  <2> QED
    BY <1>5, <2>1, <2>2, <2>3, <2>4, <2>5, SilentSteps
    DEF Step, SessionStep, InstallStep, UninstallStep
<1> QED
  BY <1>1, <1>2, <1>4, <1>5 DEF Next

\* Through concurrent commands, failing links, crashes at every step and mutexes
\* left behind, the lock files are a register of packages with one writer: they go
\* from whole record to whole record, to later versions only, and a process that
\* dies loses at most the record it was writing (devi.ps1:423).
THEOREM DeviImplementsStore == Spec => ImplementsStore
<1>1. Spec => []LinksAsked
  BY InitAsked, NextAsked, TypeInvCorrect, PTL DEF Spec
<1> QED
  BY <1>1, InitStore, NextStore, TypeInvCorrect, Exclusive, SafeInvCorrect, PTL
  DEF Spec, ImplementsStore, Store!StoreSpec

-----------------------------------------------------------------------------
(***************************************************************************)
(* The links in pkgs/.linked and the lock files agree, for any processes,  *)
(* packages, versions and links, whatever fails short of a crash.          *)
(*                                                                         *)
(* While a process works on a package, the links its lock file records are *)
(* not the ones that exist: Kept names those, step by step.                *)
(***************************************************************************)

NoCrash  == ~May("crash")
NoRepair == "repair" \notin Commands

Dropping  == {"oldlinks", "ulinks"}
Recording == Linking \cup {"trunc", "write"}
\* Where the directory of the package may hold no file for a recorded link.
Replacing == {"move", "drop"} \cup Dropping
AtWork(s) == Holding(s) /\ pc[s] \notin {"next", "fail"}

\* The links of its package that exist while s works on it: those it has not
\* dropped yet, those it has made so far, or those of the lock file.
Kept(s) == IF pc[s] \in Dropping THEN job[s].todo
           ELSE IF pc[s] \in Recording THEN job[s].made
           ELSE locks[job[s].pkg].links

\* The links L of p exist; without repair processes, no others of p do.
Exist(L, p) == /\ L \subseteq linked /\ L \subseteq Owned(p)
               /\ NoRepair => linked \cap Owned(p) \subseteq L
Lead(L, p) == \A n \in L : MayHaveFile(p, n)

LinkInv ==
    /\ \A p \in Pkgs : Quiet(p) => /\ Exist(locks[p].links, p)
                                   /\ Lead(locks[p].links, p)
    /\ \A s \in Procs : AtWork(s) =>
          /\ Exist(Kept(s), job[s].pkg)
          /\ pc[s] \notin Replacing => Lead(Kept(s), job[s].pkg)
\* A link is visited once, made or not.
VisitedOnce ==
    \A s \in Procs :
        /\ pc[s] \in Linking => job[s].made \cap job[s].todo = {}
        /\ At(s, "make") => /\ job[s].cur \cap (job[s].made \cup job[s].todo) = {}
                            /\ Lead(job[s].cur, job[s].pkg)
RepairAbsent ==
    NoRepair => \A s \in Procs : pc[s] \notin {"repair", "rcheck", "rmake"}

-----------------------------------------------------------------------------
(* What a step leaves alone.                                               *)

\* What a port asks for is its own.
LEMMA AskedOwned ==
    ASSUME TypeInv, NEW s \in Procs, pc[s] \in Recording
    PROVE  Asked(job[s]) \subseteq Owned(job[s].pkg)
<1>1. job[s].ver \in Versions
  BY DEF TypeInv, VersionRead, Recording, Linking, AfterCheck
<1> QED
  BY <1>1 DEF Asked, Owned

\* A step of a process that is not at work on a package: lock files and
\* directories stay as they are, links may only be added by a repair.
LEMMA LinkIdle ==
    ASSUME LinkInv, NEW s \in Procs, ~AtWork(s), ~AtWork(s)',
           \A t \in Procs : t # s => pc'[t] = pc[t] /\ job'[t] = job[t],
           UNCHANGED <<locks, pkgdir>>,
           linked \subseteq linked', linked' = linked \/ ~NoRepair
    PROVE  LinkInv'
<1>1. \A t \in Procs : AtWork(t)' => t # s /\ AtWork(t) /\ Kept(t)' = Kept(t)
  BY DEF AtWork, Holding, Kept
<1>2. \A p \in Pkgs : Quiet(p)' => Quiet(p)
  BY DEF Quiet, Working, AtWork, Holding
<1>3. \A L, p : (Exist(L, p) => Exist(L, p)') /\ (Lead(L, p) => Lead(L, p)')
  BY DEF Exist, Lead, MayHaveFile, HasFile, NoRepair
<1> QED
  BY <1>1, <1>2, <1>3 DEF LinkInv

\* A step of the process that holds the mutex changes the links, the lock file
\* and the directory of one package p, the one it works on before or after.
LEMMA LinkFrame ==
    ASSUME MutualExclusion, LinkInv, NEW s \in Procs, Holding(s),
           NEW p \in Pkgs, AtWork(s) => job[s].pkg = p,
           \A t \in Procs : t # s => pc'[t] = pc[t] /\ job'[t] = job[t],
           \A q \in Pkgs : q # p => /\ locks'[q] = locks[q]
                                    /\ pkgdir'[q] = pkgdir[q],
           linked' \ Owned(p) = linked \ Owned(p),
           AtWork(s)' => /\ job'[s].pkg = p
                         /\ Exist(Kept(s), p)'
                         /\ pc'[s] \notin Replacing => Lead(Kept(s), p)',
           ~AtWork(s)' => Exist(locks[p].links, p)' /\ Lead(locks[p].links, p)'
    PROVE  LinkInv'
<1>1. \A t \in Procs : t # s => ~AtWork(t) /\ ~AtWork(t)'
  BY DEF MutualExclusion, AtWork, Holding
<1>2. ASSUME NEW q \in Pkgs, q # p
      PROVE  Exist(locks[q].links, q)' /\ Lead(locks[q].links, q)'
  <2>1. Quiet(q)
    BY <1>1, <1>2 DEF Quiet, Working, AtWork
  <2>2. Exist(locks[q].links, q) /\ Lead(locks[q].links, q)
    BY <2>1 DEF LinkInv
  <2>3. linked' \cap Owned(q) = linked \cap Owned(q)
    BY <1>2, LinksDisjoint
  <2>4. locks'[q] = locks[q] /\ pkgdir'[q] = pkgdir[q]
    BY <1>2
  <2>5. Exist(locks[q].links, q)'
    BY <2>2, <2>3, <2>4 DEF Exist, NoRepair
  <2>6. Lead(locks[q].links, q)'
    BY <2>2, <2>4 DEF Lead, MayHaveFile, HasFile
  <2> QED
    BY <2>5, <2>6
<1>3. ASSUME AtWork(s)' PROVE ~Quiet(p)'
  BY <1>3 DEF Quiet, Working, AtWork
<1>4. ASSUME NEW q \in Pkgs, Quiet(q)'
      PROVE  Exist(locks[q].links, q)' /\ Lead(locks[q].links, q)'
  <2>1. CASE q # p
    BY <1>2, <2>1
  <2>2. CASE q = p
    BY <1>3, <1>4, <2>2
  <2> QED
    BY <2>1, <2>2
<1>5. ASSUME NEW t \in Procs, AtWork(t)'
      PROVE  /\ Exist(Kept(t), job[t].pkg)'
             /\ pc'[t] \notin Replacing => Lead(Kept(t), job[t].pkg)'
  <2>1. t = s
    BY <1>1, <1>5
  <2> QED
    BY <1>5, <2>1
<1> QED
  BY <1>4, <1>5 DEF LinkInv

\* A step of a process at work that touches no link, no lock file and no
\* directory, and keeps what Kept reads; it may be the last one.
LEMMA LinkStays ==
    ASSUME TypeInv, MutualExclusion, LinkInv, NEW s \in Procs, AtWork(s),
           \A t \in Procs : t # s => pc'[t] = pc[t] /\ job'[t] = job[t],
           UNCHANGED <<locks, pkgdir, linked>>,
           AtWork(s)' => /\ job'[s].pkg = job[s].pkg /\ Kept(s)' = Kept(s)
                         /\ pc[s] \in Replacing => pc'[s] \in Replacing \/ Kept(s) = {},
           ~AtWork(s)' => /\ Kept(s) = locks[job[s].pkg].links
                          /\ pc[s] \in Replacing => Kept(s) = {}
    PROVE  LinkInv'
<1>1. PICK p \in Pkgs : p = job[s].pkg
  BY DEF TypeInv, TypeOK, Jobs
<1>2. Exist(Kept(s), p) /\ (pc[s] \notin Replacing => Lead(Kept(s), p))
  BY <1>1 DEF LinkInv
<1>3. \A L : (Exist(L, p) => Exist(L, p)') /\ (Lead(L, p) => Lead(L, p)')
  BY DEF Exist, Lead, MayHaveFile, HasFile, NoRepair
<1>4. Lead({}, p)
  BY DEF Lead
<1>5. ASSUME AtWork(s)'
      PROVE  /\ job'[s].pkg = p /\ Exist(Kept(s), p)'
             /\ pc'[s] \notin Replacing => Lead(Kept(s), p)'
  BY <1>1, <1>2, <1>3, <1>4, <1>5
<1>6. ASSUME ~AtWork(s)'
      PROVE  Exist(locks[p].links, p)' /\ Lead(locks[p].links, p)'
  BY <1>1, <1>2, <1>3, <1>4, <1>6
<1> QED
  BY <1>1, <1>5, <1>6, LinkFrame DEF AtWork

-----------------------------------------------------------------------------
(* Every link is visited once.                                             *)

LEMMA VisitedFrame ==
    ASSUME MutualExclusion, VisitedOnce, NEW s \in Procs,
           \A t \in Procs : t # s => pc'[t] = pc[t] /\ job'[t] = job[t],
           pkgdir' = pkgdir \/ Holding(s),
           pc'[s] \in Linking => job'[s].made \cap job'[s].todo = {},
           pc'[s] = "make" => /\ job'[s].cur \cap (job'[s].made \cup job'[s].todo) = {}
                              /\ Lead(job[s].cur, job[s].pkg)'
    PROVE  VisitedOnce'
<1>1. ASSUME NEW t \in Procs, t # s, pc'[t] \in Linking PROVE pkgdir' = pkgdir
  BY <1>1 DEF MutualExclusion, Holding, Linking
<1>2. ASSUME NEW t \in Procs, t # s, pc'[t] = "make"
      PROVE  Lead(job[t].cur, job[t].pkg)'
  <2>1. Lead(job[t].cur, job[t].pkg)
    BY <1>2 DEF VisitedOnce, At
  <2>2. pkgdir' = pkgdir /\ job'[t] = job[t]
    BY <1>1, <1>2 DEF Linking
  <2> QED
    BY <2>1, <2>2 DEF Lead, MayHaveFile, HasFile
<1> QED
  BY <1>2 DEF VisitedOnce, At, Linking

\* The three steps into the loop that makes the links.
LEMMA VisitedLoop ==
    ASSUME TypeInv, MutualExclusion, LinksAsked, VisitedOnce, NEW s \in Procs,
           OldLinksDropped(s) \/ MakeLink(s) \/ \E n \in job[s].todo : ClearLink(s, n)
    PROVE  VisitedOnce'
<1>0. /\ job[s] \in Jobs /\ job \in [Procs -> Jobs] /\ pc \in [Procs -> Labels]
      /\ \A t \in Procs : t # s => pc'[t] = pc[t] /\ job'[t] = job[t]
  BY Others DEF TypeInv, TypeOK, Step, InstallStep
<1>1. CASE OldLinksDropped(s)
  <2>1. pc'[s] = "clear" /\ job'[s].made = {} /\ pkgdir' = pkgdir
    BY <1>0, <1>1 DEF OldLinksDropped, Move, At, Goto, Set, OnlyLocal, disk, Jobs,
                      LinksAsked, Linking
  <2> QED
    BY <1>0, <2>1, VisitedFrame
<1>2. CASE MakeLink(s)
  <2>1. /\ pc[s] = "make" /\ pc'[s] = "clear" /\ pkgdir' = pkgdir
        /\ job'[s].made = job[s].made \cup job[s].cur /\ job'[s].todo = job[s].todo
    BY <1>0, <1>2 DEF MakeLink, Move, At, Goto, Set, OnlyLinks, Jobs
  <2>2. /\ job[s].made \cap job[s].todo = {}
        /\ job[s].cur \cap (job[s].made \cup job[s].todo) = {}
    BY <2>1 DEF VisitedOnce, At, Linking
  <2>3. job'[s].made \cap job'[s].todo = {}
    BY <2>1, <2>2
  <2> QED
    BY <1>0, <2>1, <2>3, VisitedFrame
<1>3. ASSUME NEW n \in job[s].todo, ClearLink(s, n) PROVE VisitedOnce'
  <2>1. /\ pc[s] = "clear" /\ pc'[s] = "make" /\ pkgdir' = pkgdir
        /\ job'[s].todo = job[s].todo \ {n} /\ job'[s].cur = {n}
        /\ job'[s].made = job[s].made /\ job'[s].pkg = job[s].pkg
        /\ MayHaveFile(job[s].pkg, n)
    BY <1>0, <1>3 DEF ClearLink, Move, At, Goto, Set, OnlyLinks, Jobs
  <2>2. job[s].made \cap job[s].todo = {}
    BY <2>1 DEF VisitedOnce, Linking
  <2>3. Lead(job[s].cur, job[s].pkg)'
    BY <2>1 DEF Lead, MayHaveFile, HasFile
  <2> QED
    BY <1>0, <1>3, <2>1, <2>2, <2>3, VisitedFrame
<1> QED
  BY <1>1, <1>2, <1>3

LEMMA VisitedNext ==
    TypeInv /\ MutualExclusion /\ LinksAsked /\ VisitedOnce /\ [Next]_vars => VisitedOnce'
<1> SUFFICES ASSUME TypeInv, MutualExclusion, LinksAsked, VisitedOnce, [Next]_vars
             PROVE  VisitedOnce'
  OBVIOUS
<1>1. CASE UNCHANGED vars \/ \E p \in Pkgs : Pull(p)
  BY <1>1 DEF vars, Pull, VisitedOnce, At, Lead, MayHaveFile, HasFile
<1>2. ASSUME NEW s \in Procs,
             \/ Step(s) \/ Crash(s)
             \/ \E c \in Commands, a \in SUBSET Pkgs : Start(s, c, a)
      PROVE  VisitedOnce'
  <2>0. /\ job \in [Procs -> Jobs] /\ pc \in [Procs -> Labels]
        /\ \A t \in Procs : t # s => pc'[t] = pc[t] /\ job'[t] = job[t]
    BY <1>2, Others DEF TypeInv, TypeOK
  <2>a. ASSUME pc'[s] \notin Linking, pkgdir' = pkgdir \/ Holding(s) PROVE VisitedOnce'
    BY <2>0, <2>a, VisitedFrame DEF Linking
  <2> USE DEF Move, Goto, At
  <2>1. CASE SessionStep(s) \/ \E c \in Commands, a \in SUBSET Pkgs : Start(s, c, a)
    <3>1. pc'[s] \notin Linking /\ pkgdir' = pkgdir
      BY <2>0, <2>1 DEF SessionStep, Start, Acquire, TimeOut, InstallCore, Finish, Fail,
                        Release, NextArgument, NextUpgrade, OnlyLocal, disk, Linking
    <3> QED
      BY <2>a, <3>1
  <2>2. CASE Crash(s)
    <3>1. pc'[s] \notin Linking /\ (pkgdir' = pkgdir \/ Holding(s))
      BY <2>0, <2>2 DEF Crash, Linking, Holding
    <3> QED
      BY <2>a, <3>1
  <2>3. CASE RepairStep(s)
    <3>1. pc'[s] \notin Linking /\ pkgdir' = pkgdir
      BY <2>0, <2>3 DEF RepairStep, RemakeLink, RemakeLinkFails, PortRepaired, RepairDone,
                        RepairPort, SkipLink, LinkIsMissing, OnlyLocal, OnlyLinks, disk, Linking
    <3> QED
      BY <2>a, <3>1
  <2>4. CASE UninstallStep(s)
    <3>1. pc'[s] \notin Linking /\ Holding(s)
      BY <2>0, <2>4 DEF UninstallStep, ReadLock, RemoveLink, RemoveLock, RemoveDir, Return,
                        Linking, Holding
    <3> QED
      BY <2>a, <3>1
  <2>5. CASE InstallStep(s)
    <3>1. CASE OldLinksDropped(s) \/ MakeLink(s) \/ \E n \in job[s].todo : ClearLink(s, n)
      BY <3>1, VisitedLoop
    <3>2. CASE \/ CheckPort(s) \/ Download(s) \/ Unpack(s) \/ SetAside(s) \/ Apply(s)
               \/ DropBackup(s) \/ \E n \in job[s].todo : DropOldLink(s, n)
      <4>1. pc'[s] \notin Linking /\ Holding(s)
        BY <2>0, <3>2 DEF CheckPort, Download, Unpack, SetAside, Apply, DropBackup,
                          DropOldLink, Return, Linking, Holding
      <4> QED
        BY <2>a, <4>1
    <3>3. CASE LinksDone(s) \/ MakeLinkFails(s) \/ TruncateLock(s) \/ WriteLock(s)
      <4>1. pc'[s] \notin Linking /\ Holding(s)
        BY <2>0, <3>3 DEF LinksDone, MakeLinkFails, TruncateLock, WriteLock, WriteVersion,
                          Return, Linking, Holding
      <4> QED
        BY <2>a, <4>1
    <3> QED
      BY <2>5, <3>1, <3>2, <3>3 DEF InstallStep
  <2> QED
    BY <1>2, <2>1, <2>2, <2>3, <2>4, <2>5 DEF Step
<1> QED
  BY <1>1, <1>2 DEF Next

-----------------------------------------------------------------------------
(* The steps of Install-Port.                                              *)

\* Those that touch no link, no lock file and no package directory.
LEMMA LinkInstallLocal ==
    ASSUME TypeInv, MutualExclusion, SafeInv, LinksAsked, LinkInv, NEW s \in Procs,
           \/ CheckPort(s) \/ Download(s) \/ Unpack(s) \/ DropBackup(s)
           \/ OldLinksDropped(s) \/ LinksDone(s) \/ MakeLinkFails(s)
    PROVE  LinkInv'
<1>0. /\ job[s] \in Jobs /\ job \in [Procs -> Jobs] /\ pc \in [Procs -> Labels]
      /\ \A t \in Procs : t # s => pc'[t] = pc[t] /\ job'[t] = job[t]
  BY Others DEF TypeInv, TypeOK, Step, InstallStep
<1>1. UNCHANGED <<locks, pkgdir, linked>>
  BY DEF CheckPort, Download, Unpack, DropBackup, OldLinksDropped, LinksDone,
         MakeLinkFails, OnlyLocal, disk
<1> USE DEF Move, At, Goto
<1>2. ASSUME NEW from \in {"check", "download", "unpack"}, NEW ok, Return(s, from, ok)
      PROVE  LinkInv'
  <2>1. pc[s] = from /\ pc'[s] \in {"next", "fail"}
    BY <1>0, <1>2 DEF Return
  <2>2. /\ AtWork(s) /\ ~AtWork(s)' /\ pc[s] \notin Replacing
        /\ Kept(s) = locks[job[s].pkg].links
    BY <2>1 DEF AtWork, Holding, Kept, Dropping, Recording, Linking, Replacing
  <2> QED
    BY <1>0, <1>1, <2>2, LinkStays
\* From a label before the links to another.
<1>3. ASSUME pc[s] \in {"check", "download", "unpack"},
             pc'[s] \in {"download", "unpack", "rename"}, job'[s].pkg = job[s].pkg
      PROVE  LinkInv'
  <2>1. /\ AtWork(s) /\ pc[s] \notin Replacing /\ AtWork(s)'
        /\ Kept(s) = locks[job[s].pkg].links /\ Kept(s)' = locks'[job'[s].pkg].links
    BY <1>3 DEF AtWork, Holding, Kept, Dropping, Recording, Linking, Replacing
  <2> QED
    BY <1>0, <1>1, <1>3, <2>1, LinkStays
<1>4. CASE CheckPort(s)
  <2>1. CASE \E ok : Return(s, "check", ok)
    BY <1>2, <2>1
  <2>2. CASE /\ Move(s, "check", "download")
             /\ Set(s, [job[s] EXCEPT !.ver = ports[job[s].pkg], !.old = locks[job[s].pkg]])
    BY <1>0, <1>3, <2>2 DEF Set, Jobs
  <2> QED
    BY <1>4, <2>1, <2>2 DEF CheckPort
<1>5. CASE Download(s) \/ Unpack(s)
  <2>1. CASE Return(s, "download", FALSE) \/ Return(s, "unpack", FALSE)
    BY <1>2, <2>1
  <2>2. CASE (Move(s, "download", "unpack") \/ Move(s, "unpack", "rename")) /\ UNCHANGED job
    BY <1>0, <1>3, <2>2
  <2> QED
    BY <1>5, <2>1, <2>2 DEF Download, Unpack
<1>6. CASE DropBackup(s)
  <2>1. /\ pc[s] = "drop" /\ pc'[s] = "oldlinks" /\ job'[s].pkg = job[s].pkg
        /\ job'[s].todo = job[s].old.links
    BY <1>0, <1>6 DEF DropBackup, Set, Jobs
  <2>2. job[s].old = locks[job[s].pkg]
    BY <2>1 DEF SafeInv, OldTableCurrent, AfterCheck
  <2>3. Kept(s)' = Kept(s)
    BY <2>1, <2>2 DEF Kept, Dropping, Recording, Linking
  <2> QED
    BY <1>0, <1>1, <2>1, <2>3, LinkStays DEF AtWork, Holding, Replacing, Dropping
<1>7. CASE OldLinksDropped(s)
  <2>1. /\ pc[s] = "oldlinks" /\ pc'[s] = "clear" /\ job'[s].pkg = job[s].pkg
        /\ job[s].todo = {} /\ job'[s].made = {}
    BY <1>0, <1>7 DEF OldLinksDropped, Set, Jobs, LinksAsked, Linking
  <2>2. Kept(s) = {} /\ Kept(s)' = {}
    BY <2>1 DEF Kept, Dropping, Recording, Linking
  <2> QED
    BY <1>0, <1>1, <2>1, <2>2, LinkStays DEF AtWork, Holding
<1>8. CASE LinksDone(s) \/ MakeLinkFails(s)
  <2>1. /\ pc[s] \in Linking /\ pc'[s] = "trunc" /\ job'[s].pkg = job[s].pkg
        /\ job'[s].made = job[s].made
    BY <1>0, <1>8 DEF LinksDone, MakeLinkFails, Set, Jobs, Linking
  <2>2. Kept(s)' = Kept(s) /\ pc[s] \notin Replacing
    BY <2>1 DEF Kept, Dropping, Recording, Linking, Replacing
  <2> QED
    BY <1>0, <1>1, <2>1, <2>2, LinkStays DEF AtWork, Holding, Linking
<1> QED
  BY <1>4, <1>5, <1>6, <1>7, <1>8

\* Those that replace the package directory, or the lock file.
LEMMA LinkInstallDisk ==
    ASSUME TypeInv, MutualExclusion, SafeInv, LinkInv, NEW s \in Procs,
           SetAside(s) \/ Apply(s) \/ TruncateLock(s) \/ WriteLock(s)
    PROVE  LinkInv'
<1> USE DEF Move, At, Goto
<1>1. PICK p \in Pkgs : p = job[s].pkg
  BY DEF TypeInv, TypeOK, Jobs
<1>0. /\ job[s] \in Jobs /\ job \in [Procs -> Jobs] /\ pc \in [Procs -> Labels]
      /\ locks \in [Pkgs -> Locks] /\ pkgdir \in [Pkgs -> Contents] /\ linked' = linked
      /\ \A t \in Procs : t # s => pc'[t] = pc[t] /\ job'[t] = job[t]
  BY Others DEF TypeInv, TypeOK, Step, InstallStep, SetAside, Apply, TruncateLock,
                WriteLock, WriteVersion
<1>2. /\ AtWork(s) /\ Holding(s)
      /\ \A q \in Pkgs : q # p => locks'[q] = locks[q] /\ pkgdir'[q] = pkgdir[q]
  BY <1>0, <1>1 DEF SetAside, Apply, TruncateLock, WriteLock, WriteVersion, Return,
                    AtWork, Holding
<1>3. Exist(Kept(s), p) /\ (pc[s] \notin Replacing => Lead(Kept(s), p))
  BY <1>1, <1>2 DEF LinkInv
<1>4. \A L : Exist(L, p) => Exist(L, p)'
  BY <1>0 DEF Exist, NoRepair
<1>5. CASE SetAside(s) \/ Apply(s)
  <2>1. /\ pc[s] \in {"rename", "move"} /\ pc'[s] \in {"move", "drop"}
        /\ job'[s].pkg = p /\ locks' = locks
    BY <1>0, <1>1, <1>5 DEF SetAside, Apply, Set, Jobs
  <2>2. AtWork(s)' /\ Kept(s)' = Kept(s) /\ pc'[s] \in Replacing
    BY <1>1, <2>1 DEF AtWork, Holding, Kept, Dropping, Recording, Linking, Replacing
  <2> QED
    BY <1>0, <1>1, <1>2, <1>3, <1>4, <2>1, <2>2, LinkFrame
<1>6. CASE TruncateLock(s)
  <2>1. /\ pc[s] = "trunc" /\ pc'[s] = "write" /\ job' = job /\ pkgdir' = pkgdir
    BY <1>0, <1>6 DEF TruncateLock
  <2>2. /\ AtWork(s)' /\ Kept(s)' = Kept(s) /\ pc[s] \notin Replacing
    BY <2>1 DEF AtWork, Holding, Kept, Dropping, Recording, Linking, Replacing
  <2>3. Lead(Kept(s), p)'
    BY <1>3, <2>1, <2>2 DEF Lead, MayHaveFile, HasFile
  <2> QED
    BY <1>0, <1>1, <1>2, <1>3, <1>4, <2>1, <2>2, <2>3, LinkFrame
<1>7. CASE WriteLock(s)
  <2>1. /\ pc[s] = "write" /\ pc'[s] \in {"next", "fail"} /\ pkgdir' = pkgdir
        /\ locks'[p].links = job[s].made
    BY <1>0, <1>1, <1>7 DEF WriteLock, WriteVersion, Return
  <2>2. ~AtWork(s)' /\ Kept(s) = locks'[p].links /\ pc[s] \notin Replacing
    BY <2>1 DEF AtWork, Kept, Dropping, Recording, Linking, Replacing
  <2>3. Lead(Kept(s), p) => Lead(locks[p].links, p)'
    BY <2>1, <2>2 DEF Lead, MayHaveFile, HasFile
  <2> QED
    BY <1>0, <1>1, <1>2, <1>3, <1>4, <2>2, <2>3, LinkFrame
<1> QED
  BY <1>5, <1>6, <1>7

\* Those that remove or make a link.
LEMMA LinkInstallLinks ==
    ASSUME TypeInv, MutualExclusion, LinksAsked, VisitedOnce, LinkInv, NEW s \in Procs,
           MakeLink(s) \/ \E n \in job[s].todo : DropOldLink(s, n) \/ ClearLink(s, n)
    PROVE  LinkInv'
<1> USE DEF Move, At, Goto
<1>1. PICK p \in Pkgs : p = job[s].pkg
  BY DEF TypeInv, TypeOK, Jobs
<1>0. /\ job[s] \in Jobs /\ job \in [Procs -> Jobs] /\ pc \in [Procs -> Labels]
      /\ \A t \in Procs : t # s => pc'[t] = pc[t] /\ job'[t] = job[t]
  BY Others DEF TypeInv, TypeOK, Step, InstallStep
<1>2. AtWork(s) /\ Holding(s) /\ UNCHANGED <<locks, pkgdir>>
  BY DEF MakeLink, DropOldLink, ClearLink, AtWork, Holding, OnlyLinks
<1>3. Exist(Kept(s), p) /\ (pc[s] \notin Replacing => Lead(Kept(s), p))
  BY <1>1, <1>2 DEF LinkInv
<1>4. \A L : Lead(L, p) => Lead(L, p)'
  BY <1>2 DEF Lead, MayHaveFile, HasFile
<1>5. ASSUME NEW n \in job[s].todo, DropOldLink(s, n) PROVE LinkInv'
  <2>1. /\ pc[s] = "oldlinks" /\ pc'[s] = "oldlinks" /\ job'[s].pkg = p
        /\ job'[s].todo = job[s].todo \ {n} /\ linked' = linked \ {n}
    BY <1>0, <1>1, <1>5 DEF DropOldLink, Set, Jobs
  <2>2. /\ Kept(s) = job[s].todo /\ Kept(s)' = job[s].todo \ {n}
        /\ AtWork(s)' /\ pc'[s] \in Replacing
    BY <2>1 DEF AtWork, Holding, Kept, Replacing, Dropping
  <2>3. n \in Owned(p) /\ Exist(Kept(s), p)'
    BY <1>3, <2>1, <2>2 DEF Exist, NoRepair
  <2> QED
    BY <1>0, <1>1, <1>2, <2>1, <2>2, <2>3, LinkFrame
<1>6. ASSUME NEW n \in job[s].todo, ClearLink(s, n) PROVE LinkInv'
  <2>1. /\ pc[s] = "clear" /\ pc'[s] = "make" /\ job'[s].pkg = p
        /\ job'[s].made = job[s].made /\ linked' = linked \ {n}
    BY <1>0, <1>1, <1>6 DEF ClearLink, Set, Jobs
  <2>2. /\ Kept(s) = job[s].made /\ Kept(s)' = job[s].made
        /\ AtWork(s)' /\ pc[s] \notin Replacing
    BY <2>1 DEF AtWork, Holding, Kept, Replacing, Dropping, Recording, Linking
  <2>3. n \in Owned(p) /\ n \notin job[s].made
    BY <1>1, <2>1, AskedOwned DEF LinksAsked, VisitedOnce, Linking, Recording
  <2>4. Exist(Kept(s), p)'
    BY <1>3, <2>1, <2>2, <2>3 DEF Exist, NoRepair
  <2> QED
    BY <1>0, <1>1, <1>2, <1>3, <1>4, <2>1, <2>2, <2>3, <2>4, LinkFrame
<1>7. ASSUME MakeLink(s) PROVE LinkInv'
  <2>1. /\ pc[s] = "make" /\ pc'[s] = "clear" /\ job'[s].pkg = p
        /\ job'[s].made = job[s].made \cup job[s].cur
        /\ linked' = linked \cup job[s].cur
    BY <1>0, <1>1, <1>7 DEF MakeLink, Set, Jobs
  <2>2. /\ Kept(s) = job[s].made /\ Kept(s)' = job[s].made \cup job[s].cur
        /\ AtWork(s)' /\ pc[s] \notin Replacing
    BY <2>1 DEF AtWork, Holding, Kept, Replacing, Dropping, Recording, Linking
  <2>3. job[s].cur \subseteq Owned(p) /\ Lead(job[s].cur, p)
    BY <1>1, <2>1, AskedOwned DEF LinksAsked, VisitedOnce, Linking, Recording
  <2>4. Exist(Kept(s), p)'
    BY <1>3, <2>1, <2>2, <2>3 DEF Exist, NoRepair
  <2>5. Lead(job[s].made \cup job[s].cur, p)
    BY <1>3, <2>2, <2>3 DEF Lead
  <2>6. Lead(Kept(s), p)'
    BY <1>4, <2>2, <2>5
  <2> QED
    BY <1>0, <1>1, <1>2, <2>1, <2>2, <2>3, <2>4, <2>6, LinkFrame
<1> QED
  BY <1>5, <1>6, <1>7

-----------------------------------------------------------------------------
(* The steps of Uninstall-Port, of sessions and of repair.                 *)

LEMMA LinkUninstall ==
    ASSUME TypeInv, MutualExclusion, SafeInv, LinkInv, NEW s \in Procs, UninstallStep(s)
    PROVE  LinkInv'
<1> USE DEF Move, At, Goto
<1>1. PICK p \in Pkgs : p = job[s].pkg
  BY DEF TypeInv, TypeOK, Jobs
<1>0. /\ job[s] \in Jobs /\ job \in [Procs -> Jobs] /\ pc \in [Procs -> Labels]
      /\ locks \in [Pkgs -> Locks] /\ pkgdir \in [Pkgs -> Contents]
      /\ \A t \in Procs : t # s => pc'[t] = pc[t] /\ job'[t] = job[t]
  BY Others DEF TypeInv, TypeOK, Step
<1>2. AtWork(s) /\ Holding(s)
  BY DEF UninstallStep, ReadLock, RemoveLink, RemoveLock, RemoveDir, Return, AtWork, Holding
<1>3. Exist(Kept(s), p) /\ (pc[s] \notin Replacing => Lead(Kept(s), p))
  BY <1>1, <1>2 DEF LinkInv
<1>4. Lead({}, p)'
  BY DEF Lead
<1>5. CASE ReadLock(s)
  <2>1. /\ pc[s] = "ulock" /\ pc'[s] \in {"udir", "ulinks"} /\ job'[s].pkg = job[s].pkg
        /\ job'[s].todo = locks[job[s].pkg].links /\ UNCHANGED <<locks, pkgdir, linked>>
    BY <1>0, <1>5 DEF ReadLock, Set, Jobs, OnlyLocal, disk
  <2>2. Kept(s)' = Kept(s) /\ AtWork(s)' /\ pc[s] \notin Replacing
    BY <2>1 DEF AtWork, Holding, Kept, Dropping, Recording, Linking, Replacing
  <2> QED
    BY <1>0, <1>2, <2>1, <2>2, LinkStays
<1>6. ASSUME NEW n \in job[s].todo, RemoveLink(s, n) PROVE LinkInv'
  <2>1. /\ pc[s] = "ulinks" /\ pc'[s] = "ulinks" /\ job'[s].pkg = p
        /\ job'[s].todo = job[s].todo \ {n} /\ linked' = linked \ {n}
        /\ UNCHANGED <<locks, pkgdir>>
    BY <1>0, <1>1, <1>6 DEF RemoveLink, Set, Jobs, OnlyLinks
  <2>2. /\ Kept(s) = job[s].todo /\ Kept(s)' = job[s].todo \ {n}
        /\ AtWork(s)' /\ pc'[s] \in Replacing
    BY <2>1 DEF AtWork, Holding, Kept, Replacing, Dropping
  <2>3. n \in Owned(p) /\ Exist(Kept(s), p)'
    BY <1>3, <2>1, <2>2 DEF Exist, NoRepair
  <2>4. /\ linked' \ Owned(p) = linked \ Owned(p)
        /\ \A q \in Pkgs : q # p => locks'[q] = locks[q] /\ pkgdir'[q] = pkgdir[q]
    BY <2>1, <2>3
  <2> QED
    BY <1>0, <1>1, <1>2, <2>1, <2>2, <2>3, <2>4, LinkFrame
<1>7. CASE RemoveLock(s)
  <2>1. /\ pc[s] = "ulinks" /\ pc'[s] = "unlocked" /\ job'[s].pkg = p
        /\ job[s].todo = {} /\ UNCHANGED <<pkgdir, linked>>
        /\ locks' = [locks EXCEPT ![p] = NoLock]
    BY <1>0, <1>1, <1>7 DEF RemoveLock
  <2>2. Kept(s) = {} /\ Kept(s)' = {} /\ AtWork(s)'
    BY <1>0, <2>1 DEF AtWork, Holding, Kept, Dropping, Recording, Linking, NoLock
  <2>3. Exist(Kept(s), p)' /\ Lead(Kept(s), p)'
    BY <1>3, <1>4, <2>1, <2>2 DEF Exist, NoRepair
  <2> QED
    BY <1>0, <1>1, <1>2, <2>1, <2>2, <2>3, LinkFrame
<1>8. CASE RemoveDir(s)
  <2>1. /\ pc[s] \in {"udir", "unlocked"} /\ pc'[s] \in {"next", "fail"}
        /\ UNCHANGED <<locks, linked>>
        /\ \A q \in Pkgs : q # p => pkgdir'[q] = pkgdir[q]
    BY <1>0, <1>1, <1>8 DEF RemoveDir, Return
  <2>2. locks[p].links = {} /\ Kept(s) = {} /\ ~AtWork(s)'
    BY <1>1, <2>1 DEF SafeInv, LockGone, NoLock, Kept, Dropping, Recording, Linking, AtWork
  <2>3. locks'[p].links = {}
    BY <2>1, <2>2
  <2>4. Exist(locks[p].links, p)' /\ Lead(locks[p].links, p)'
    BY <1>3, <1>4, <2>1, <2>2, <2>3 DEF Exist, NoRepair
  <2> QED
    BY <1>0, <1>1, <1>2, <2>1, <2>2, <2>4, LinkFrame
<1> QED
  BY <1>5, <1>6, <1>7, <1>8 DEF UninstallStep

\* A session takes the next package up.
LEMMA LinkBegin ==
    ASSUME TypeInv, MutualExclusion, LinkInv, NEW s \in Procs, NEW p \in job[s].args,
           NextArgument(s, p) \/ NextUpgrade(s, p), pc'[s] # "next"
    PROVE  LinkInv'
<1> USE DEF Move, At, Goto
<1>1. /\ job[s] \in Jobs /\ job \in [Procs -> Jobs] /\ pc \in [Procs -> Labels] /\ p \in Pkgs
      /\ \A t \in Procs : t # s => pc'[t] = pc[t] /\ job'[t] = job[t]
  BY Others DEF TypeInv, TypeOK, Jobs, Step, SessionStep
<1>2. /\ pc[s] = "next" /\ pc'[s] \in {"check", "ulock"} /\ job'[s].pkg = p
      /\ UNCHANGED <<locks, pkgdir, linked>>
  <2>1. CASE NextArgument(s, p)
    BY <1>1, <2>1 DEF NextArgument, Set, Jobs, OnlyLocal, disk
  <2>2. CASE NextUpgrade(s, p)
    <3> DEFINE j == [job[s] EXCEPT !.args = @ \ {p}]
    <3>1. /\ [j EXCEPT !.pkg = p].pkg = p
          /\ [j EXCEPT !.pkg = p, !.table = @ \cup {p}].pkg = p
      BY <1>1 DEF Jobs
    <3>2. /\ pc[s] = "next" /\ pc'[s] \in {"check", "ulock"}
          /\ \/ job'[s] = [j EXCEPT !.pkg = p]
             \/ job'[s] = [j EXCEPT !.pkg = p, !.table = @ \cup {p}]
      BY <1>1, <2>2 DEF NextUpgrade, Set
    <3> QED
      BY <2>2, <3>1, <3>2 DEF NextUpgrade, OnlyLocal, disk
  <2> QED
    BY <2>1, <2>2
<1>3. Holding(s) /\ ~AtWork(s) /\ AtWork(s)' /\ Kept(s)' = locks[p].links
  BY <1>2 DEF AtWork, Holding, Kept, Dropping, Recording, Linking
<1>4. Quiet(p)
  BY <1>3 DEF Quiet, Working, AtWork, MutualExclusion
<1>5. Exist(locks[p].links, p) /\ Lead(locks[p].links, p)
  BY <1>1, <1>4 DEF LinkInv
<1>6. Exist(Kept(s), p)' /\ Lead(Kept(s), p)'
  BY <1>2, <1>3, <1>5 DEF Exist, Lead, MayHaveFile, HasFile, NoRepair
<1> QED
  BY <1>1, <1>2, <1>3, <1>6, LinkFrame

LEMMA LinkOther ==
    ASSUME TypeInv, MutualExclusion, RepairAbsent, LinkInv, NEW s \in Procs,
           \/ SessionStep(s) \/ RepairStep(s)
           \/ \E c \in Commands, a \in SUBSET Pkgs : Start(s, c, a)
    PROVE  LinkInv'
<1> USE DEF Move, At, Goto
<1>1. /\ job[s] \in Jobs /\ job \in [Procs -> Jobs] /\ pc \in [Procs -> Labels]
      /\ \A t \in Procs : t # s => pc'[t] = pc[t] /\ job'[t] = job[t]
  BY Others DEF TypeInv, TypeOK, Step
<1>2. CASE Acquire(s) \/ TimeOut(s) \/ InstallCore(s) \/ Finish(s) \/ Fail(s)
  <2>1. ~AtWork(s) /\ ~AtWork(s)' /\ UNCHANGED <<locks, pkgdir, linked>>
    BY <1>1, <1>2 DEF Acquire, TimeOut, InstallCore, Finish, Fail, Release, AtWork, Holding,
                      OnlyLocal, disk
  <2> QED
    BY <1>1, <2>1, LinkIdle
<1>3. ASSUME NEW p \in job[s].args, NextArgument(s, p) \/ NextUpgrade(s, p) PROVE LinkInv'
  <2>1. CASE pc'[s] = "next"
    <3>1. ~AtWork(s) /\ ~AtWork(s)' /\ UNCHANGED <<locks, pkgdir, linked>>
      BY <1>3, <2>1 DEF NextArgument, NextUpgrade, AtWork, OnlyLocal, disk
    <3> QED
      BY <1>1, <3>1, LinkIdle
  <2> QED
    BY <1>3, <2>1, LinkBegin
<1>4. ASSUME NEW c, NEW a, Start(s, c, a) PROVE LinkInv'
  <2>1. ~AtWork(s) /\ ~AtWork(s)' /\ UNCHANGED <<locks, pkgdir, linked>>
    BY <1>1, <1>4 DEF Start, AtWork, Holding, disk
  <2> QED
    BY <1>1, <2>1, LinkIdle
<1>5. CASE RepairStep(s)
  <2>1. ~AtWork(s) /\ ~AtWork(s)' /\ UNCHANGED <<locks, pkgdir>>
    BY <1>1, <1>5 DEF RepairStep, RemakeLink, RemakeLinkFails, PortRepaired, RepairDone,
                      RepairPort, SkipLink, LinkIsMissing, AtWork, Holding, OnlyLocal,
                      OnlyLinks, disk
  <2>2. linked \subseteq linked' /\ (linked' = linked \/ ~NoRepair)
    BY <1>5 DEF RepairStep, RemakeLink, RemakeLinkFails, PortRepaired, RepairDone,
                RepairPort, SkipLink, LinkIsMissing, RepairAbsent, OnlyLocal, disk
  <2> QED
    BY <1>1, <2>1, <2>2, LinkIdle
<1> QED
  BY <1>2, <1>3, <1>4, <1>5 DEF SessionStep

LEMMA AbsentNext == TypeInv /\ RepairAbsent /\ [Next]_vars => RepairAbsent'
<1> SUFFICES ASSUME TypeInv, RepairAbsent, [Next]_vars, NoRepair
             PROVE  \A s \in Procs : pc'[s] \notin {"repair", "rcheck", "rmake"}
  BY DEF RepairAbsent, NoRepair
<1>0. pc \in [Procs -> Labels] /\ \A s \in Procs : pc[s] \notin {"repair", "rcheck", "rmake"}
  BY DEF TypeInv, TypeOK, RepairAbsent
<1>1. CASE UNCHANGED vars \/ \E p \in Pkgs : Pull(p)
  BY <1>0, <1>1 DEF vars, Pull
<1>2. ASSUME NEW s \in Procs, NEW l, Goto(s, l), l \notin {"repair", "rcheck", "rmake"}
      PROVE  \A t \in Procs : pc'[t] \notin {"repair", "rcheck", "rmake"}
  BY <1>0, <1>2 DEF Goto
<1> USE DEF Move, At
<1>3. ASSUME NEW s \in Procs, Crash(s) \/ \E c \in Commands, a \in SUBSET Pkgs : Start(s, c, a)
      PROVE  \A t \in Procs : pc'[t] \notin {"repair", "rcheck", "rmake"}
  BY <1>2, <1>3 DEF Crash, Start, NoRepair
<1>4. ASSUME NEW s \in Procs, Step(s)
      PROVE  \A t \in Procs : pc'[t] \notin {"repair", "rcheck", "rmake"}
  <2>1. CASE SessionStep(s)
    BY <1>2, <2>1 DEF SessionStep, Acquire, TimeOut, InstallCore, Finish, Fail, Release,
                      NextArgument, NextUpgrade
  <2>2. CASE RepairStep(s)
    BY <1>0, <2>2 DEF RepairStep, RemakeLink, RemakeLinkFails, PortRepaired, RepairDone,
                      RepairPort, SkipLink, LinkIsMissing
  <2>3. CASE UninstallStep(s)
    BY <1>2, <2>3 DEF UninstallStep, ReadLock, RemoveLink, RemoveLock, RemoveDir, Return
  <2>4. CASE \/ CheckPort(s) \/ Download(s) \/ Unpack(s) \/ SetAside(s) \/ Apply(s)
             \/ DropBackup(s) \/ OldLinksDropped(s)
    BY <1>2, <2>4 DEF CheckPort, Download, Unpack, SetAside, Apply, DropBackup,
                      OldLinksDropped, Return
  <2>5. CASE \/ LinksDone(s) \/ MakeLink(s) \/ MakeLinkFails(s) \/ TruncateLock(s)
             \/ WriteLock(s) \/ \E n \in job[s].todo : DropOldLink(s, n) \/ ClearLink(s, n)
    BY <1>2, <2>5 DEF LinksDone, MakeLink, MakeLinkFails, TruncateLock, WriteLock,
                      WriteVersion, Return, DropOldLink, ClearLink
  <2> QED
    BY <1>4, <2>1, <2>2, <2>3, <2>4, <2>5 DEF Step, InstallStep
<1> QED
  BY <1>1, <1>3, <1>4 DEF Next

-----------------------------------------------------------------------------
(* The theorems.                                                           *)

LEMMA InitLink == Init => LinkInv /\ VisitedOnce /\ RepairAbsent
<1> SUFFICES ASSUME Init PROVE LinkInv /\ VisitedOnce /\ RepairAbsent
  OBVIOUS
<1>1. \A s \in Procs : ~AtWork(s) /\ pc[s] = "idle"
  BY DEF Init, AtWork, Holding
<1>2. \A p \in Pkgs : locks[p].links = {} /\ linked = {}
  BY DEF Init, NoLock
<1>3. LinkInv
  BY <1>1, <1>2 DEF LinkInv, Exist, Lead
<1> QED
  BY <1>1, <1>3 DEF VisitedOnce, RepairAbsent, Linking, At

LEMMA NextLink ==
    /\ TypeInv /\ MutualExclusion /\ SafeInv /\ LinksAsked /\ VisitedOnce /\ RepairAbsent
    /\ (NoCrash => LinkInv) /\ [Next]_vars
    => (NoCrash => LinkInv)'
<1> SUFFICES ASSUME TypeInv, MutualExclusion, SafeInv, LinksAsked, VisitedOnce,
                    RepairAbsent, NoCrash, LinkInv, [Next]_vars
             PROVE  LinkInv'
  BY DEF NoCrash, May
<1>1. CASE UNCHANGED vars \/ \E p \in Pkgs : Pull(p)
  BY <1>1 DEF vars, Pull, LinkInv, Quiet, Working, AtWork, Holding, Kept, Exist, Lead,
              MayHaveFile, HasFile, NoRepair
<1>2. ASSUME NEW s \in Procs, InstallStep(s) PROVE LinkInv'
  BY <1>2, LinkInstallLocal, LinkInstallDisk, LinkInstallLinks DEF InstallStep
<1>3. ASSUME NEW s \in Procs, Crash(s) PROVE FALSE
  BY <1>3 DEF Crash, NoCrash
<1> QED
  BY <1>1, <1>2, <1>3, LinkUninstall, LinkOther DEF Next, Step

LEMMA LinkInvCorrect == Spec => [](NoCrash => LinkInv)
<1>1. Init => LinksAsked /\ VisitedOnce /\ RepairAbsent /\ (NoCrash => LinkInv)
  BY InitAsked, InitLink
<1> QED
  BY <1>1, TypeInvCorrect, Exclusive, SafeInvCorrect, NextAsked, VisitedNext, AbsentNext,
     NextLink, PTL DEF Spec

\* Short of a crash, every link a lock file records exists while nobody works
\* on the package: repair, which takes no mutex, never costs one.
THEOREM LinksRecorded == Spec => [](NoCrash => RecordedLinksExist)
<1>1. LinkInv => RecordedLinksExist
  BY DEF LinkInv, RecordedLinksExist, Exist
<1> QED
  BY <1>1, LinkInvCorrect, PTL

\* Short of a crash, and of repair, .linked holds the recorded links and no
\* other, whichever download, link, rename, move or removal fails.
THEOREM LinksMatch == Spec => [](NoCrash /\ NoRepair => LinksMatchLocks)
<1>1. LinkInv /\ NoRepair => LinksMatchLocks
  BY DEF LinkInv, LinksMatchLocks, Exist
<1> QED
  BY <1>1, LinkInvCorrect, PTL

\* And every link leads to a file, also when the new directory could not be
\* moved into place.
THEOREM LinksLead == Spec => [](NoCrash /\ NoRepair => LinksResolve)
<1>1. LinkInv /\ NoRepair => LinksResolve
  BY DEF LinkInv, LinksResolve, Exist, Lead
<1> QED
  BY <1>1, LinkInvCorrect, PTL
=============================================================================
