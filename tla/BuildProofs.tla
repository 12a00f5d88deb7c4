---------------------------- MODULE BuildProofs -----------------------------
(***************************************************************************)
(* Theorems about Build, for any consoles, machine, commands and bounds:   *)
(* its type invariant, one toolchain in an environment, the trees a build  *)
(* that is left alone works from, and what a build that is done has        *)
(* promised.  Each is part of an invariant that is inductive with the ones *)
(* before it.                                                              *)
(***************************************************************************)
EXTENDS Build, FiniteSetTheorems, TLAPS

-----------------------------------------------------------------------------
(* The environment of a console.                                           *)

\* Before it is initialised it has no tools of Visual Studio; then it has those of
\* one pair.
EnvOK(e) ==
    /\ e \in Envs
    /\ ~e.init => OfInstance(e.tools \cup e.libs) = {}
    /\ \E x \in Pairs : OfInstance(e.tools \cup e.libs) \subseteq {x}

\* A console that was just opened.
LEMMA CleanOK == EnvOK(Clean)
<1>1. <<EWDK, "x64">> \in Pairs
  BY DEF Pairs, Archs
<1> QED
  BY <1>1 DEF EnvOK, Clean, Envs, OfInstance

\* -ClearEnv takes tools away.
LEMMA ReinitializeOK ==
    ASSUME NEW e, EnvOK(e)
    PROVE  EnvOK(ReinitializePath(e))
<1> DEFINE new == ReinitializePath(e)
<1>1. new \in Envs /\ new.init = e.init /\ new.tools = {} /\ new.libs = e.libs
  BY DEF EnvOK, ReinitializePath, Envs
<1>2. OfInstance(new.tools \cup new.libs) \subseteq OfInstance(e.tools \cup e.libs)
  BY <1>1 DEF OfInstance
<1> QED
  BY <1>1, <1>2 DEF EnvOK

\* The Enterprise WDK, in a console that is not initialised.
LEMMA EnterpriseOK ==
    ASSUME NEW e, EnvOK(e), ~e.init, NEW arch \in Archs
    PROVE  EnvOK(InitializeEnterpriseWDK(Machine, e, arch).env)
<1> DEFINE x == <<EWDK, arch>>
           new == [e EXCEPT !.init = TRUE, !.tools = @ \cup {x}, !.libs = {x}]
<1>1. x \in Pairs
  BY DEF Pairs
<1>2. e \in Envs /\ OfInstance(e.tools) = {}
  BY DEF EnvOK, OfInstance
<1>3. new \in Envs /\ new.init /\ new.tools = e.tools \cup {x} /\ new.libs = {x}
  BY <1>1, <1>2 DEF Envs
<1>4. EnvOK(new)
  <2> HIDE DEF new, x
  <2>1. OfInstance(new.tools \cup new.libs) \subseteq {x}
    BY <1>2, <1>3 DEF OfInstance
  <2> QED
    BY <1>1, <1>3, <2>1 DEF EnvOK
<1> QED
  BY <1>4 DEF InitializeEnterpriseWDK, Answer

\* An instance, in a console that is not initialised.
LEMMA InstanceOK ==
    ASSUME NEW e, EnvOK(e), ~e.init, NEW id, NEW arch \in Archs
    PROVE  EnvOK(InitializeInstance(Machine, e, id, arch).env)
<1> DEFINE found == {i \in 1 .. Len(Machine.list) :
                       /\ Machine.list[i].id = id
                       /\ Machine.list[i].vc \/ Machine.list[i].legacy}
           vs    == Machine.list[CHOOSE i \in found : TRUE]
           x     == <<id, arch>>
           named == [e EXCEPT !.version = TRUE]
           ready == [named EXCEPT !.init = TRUE]
           full  == Vcvars(ready, id, arch)
<1>1. e \in Envs /\ OfInstance(e.tools \cup e.libs) = {}
  BY DEF EnvOK
<1>2. named \in Envs /\ ~named.init /\ named.tools = e.tools /\ named.libs = e.libs
  BY <1>1 DEF Envs, EnvOK
<1>3. ready \in Envs /\ ready.init /\ ready.tools = e.tools /\ ready.libs = e.libs
  <2> HIDE DEF named
  <2> QED
    BY <1>2 DEF Envs
<1>4. EnvOK(named) /\ EnvOK(ready)
  <2>1. <<EWDK, arch>> \in Pairs
    BY DEF Pairs
  <2> HIDE DEF named, ready
  <2> QED
    BY <1>1, <1>2, <1>3, <2>1 DEF EnvOK
<1>5. ASSUME found # {} PROVE x \in Pairs
  BY <1>5 DEF Pairs
<1>6. ASSUME found # {} PROVE EnvOK(full)
  <2> HIDE DEF ready, x
  <2>1. full \in Envs /\ full.init /\ full.tools = e.tools \cup {x} /\ full.libs = e.libs \cup {x}
    BY <1>3, <1>5, <1>6 DEF Envs, Vcvars, x
  <2> HIDE DEF full
  <2>2. OfInstance(full.tools \cup full.libs) \subseteq {x}
    BY <1>1, <2>1 DEF OfInstance
  <2> QED
    BY <1>5, <1>6, <2>1, <2>2 DEF EnvOK
<1>7. InitializeInstance(Machine, e, id, arch) =
        IF found = {} THEN Answer(FALSE, e)
        ELSE IF ~vs.vcvars THEN Answer(FALSE, named)
        ELSE IF arch \in vs.archs THEN Answer(TRUE, full)
        ELSE Answer(TRUE, ready)
  BY DEF InitializeInstance
<1>8. \A ok, new : Answer(ok, new).env = new
  BY DEF Answer
<1> HIDE DEF found, vs, named, ready, full
<1> QED
  BY <1>4, <1>6, <1>7, <1>8

\* Whatever is asked of a console, initialised or not.
LEMMA VisualStudioOK ==
    ASSUME NEW e, EnvOK(e), NEW id, NEW arch \in Archs
    PROVE  EnvOK(InitializeVisualStudio(Machine, e, id, arch).env)
<1>1. CASE e.init \/ id = NoId
  BY <1>1 DEF InitializeVisualStudio, Answer
<1>2. CASE ~e.init /\ id # NoId /\ id = EWDK
  BY <1>2, EnterpriseOK DEF InitializeVisualStudio
<1>3. CASE ~e.init /\ id # NoId /\ id # EWDK
  BY <1>3, InstanceOK DEF InitializeVisualStudio
<1> QED
  BY <1>1, <1>2, <1>3

LEMMA DefaultOK ==
    ASSUME NEW e, EnvOK(e), NEW arch \in Archs
    PROVE  EnvOK(DefaultVisualStudio(Machine, e, arch).env)
BY VisualStudioOK DEF DefaultVisualStudio, Answer

\* What bin/external adds is of no instance.
LEMMA ExternalOK ==
    ASSUME NEW e, EnvOK(e), NEW arch \in Archs
    PROVE  EnvOK(InitializeExtranl(Machine, e, arch))
<1> DEFINE new == InitializeExtranl(Machine, e, arch)
<1>1. <<External, arch>> \in Pairs
  BY DEF Pairs
<1>2. /\ new \in Envs /\ new.init = e.init
      /\ new.tools \subseteq e.tools \cup {<<External, arch>>}
      /\ new.libs \subseteq e.libs \cup {<<External, arch>>}
  BY <1>1 DEF EnvOK, Envs, InitializeExtranl
<1>3. OfInstance(new.tools \cup new.libs) \subseteq OfInstance(e.tools \cup e.libs)
  BY <1>2 DEF OfInstance
<1>4. EnvOK(new)
  <2> HIDE DEF new
  <2> QED
    BY <1>2, <1>3 DEF EnvOK
<1> QED
  BY <1>4

\* The script up to the point where it goes on to the sources.
LEMMA PrepareOK ==
    ASSUME NEW e, EnvOK(e), NEW cmd, cmd.arch \in Archs
    PROVE  EnvOK(Prepare(Machine, e, cmd).env)
<1> DEFINE start == IF cmd.clear THEN ReinitializePath(e) ELSE e
           done  == IF cmd.id = NoId THEN DefaultVisualStudio(Machine, start, cmd.arch)
                    ELSE InitializeVisualStudio(Machine, start, cmd.id, cmd.arch)
<1>1. EnvOK(start)
  BY ReinitializeOK
<1>2. EnvOK(done.env)
  <2> HIDE DEF start
  <2> QED
    BY <1>1, DefaultOK, VisualStudioOK
<1>3. Prepare(Machine, e, cmd).env \in {done.env, InitializeExtranl(Machine, done.env, cmd.arch)}
  BY DEF Prepare, Answer
<1> HIDE DEF done
<1> QED
  BY <1>2, <1>3, ExternalOK

-----------------------------------------------------------------------------
(* The invariants.                                                         *)

\* A script that is at work has the number of a build.
Numbered == \A c \in Consoles : ~At(c, "idle") => job[c].run # 0
TypeInv == BuildTypeOK /\ Numbered

EnvInv == \A c \in Consoles : EnvOK(env[c])

\* A git at work holds the locks of its tree; what waits to be pulled was checked
\* out, and not torn since by another build; only a release is downloaded; and
\* who builds from a tree that nobody moved under it has a whole one.
Holds(c) == pc[c] \in {"cloning", "pulling"}
Safe(c) ==
    LET st == tree[Branch(c)].st
    IN /\ Holds(c) => st = "stuck"
       /\ At(c, "pull") /\ ~job[c].spoiled => st # "torn"
       /\ At(c, "download") => Branch(c) \notin Git
       /\ pc[c] \in {"stage", "wipe", "configure", "compile"} /\ Branch(c) \in Git
             /\ ~job[c].spoiled => st = "whole"
\* No two of them have the same tree.
Alone == \A c, k \in Consoles : Holds(c) /\ Holds(k) /\ Branch(c) = Branch(k) => c = k
TreeInv == Alone /\ \A c \in Consoles : Safe(c)

-----------------------------------------------------------------------------
(* What the invariants say of one console.                                 *)

\* The parameters of a build are among those the script accepts.
LEMMA JobFacts ==
    ASSUME BuildTypeOK, NEW c \in Consoles
    PROVE  /\ job[c] \in Jobs(runs)
           /\ Branch(c) \in Branches /\ Engine(c) \in Engines
           /\ job[c].cmd.arch \in Archs /\ Dir(c) \in Dirs
<1>1. job[c] \in Jobs(runs)
  BY DEF BuildTypeOK
<1>2. job[c].cmd \in Commands \/ job[c].cmd = NoCommand
  BY <1>1 DEF Jobs
<1>3. /\ job[c].cmd.branch \in Branches /\ job[c].cmd.engine \in Engines
      /\ job[c].cmd.arch \in Archs
  BY <1>2, BuildAssumption DEF NoCommand, Accepted, Archs, Engines, Branches
<1>4. Dir(c) \in Dirs
  BY DEF Dir, Dirs
<1> QED
  BY <1>1, <1>3, <1>4 DEF Branch, Engine

\* What a build that loses something keeps.
LEMMA SpoiledFacts ==
    ASSUME NEW n \in Nat, job \in [Consoles -> Jobs(n)], NEW K
    PROVE  /\ Spoiled(K) \in [Consoles -> Jobs(n)]
           /\ \A k \in Consoles : /\ Spoiled(K)[k].cmd = job[k].cmd
                                  /\ Spoiled(K)[k].run = job[k].run
                                  /\ Spoiled(K)[k].spoiled = (job[k].spoiled \/ k \in K)
<1> SUFFICES ASSUME NEW k \in Consoles
             PROVE  /\ [job[k] EXCEPT !.spoiled = @ \/ k \in K] \in Jobs(n)
                    /\ Spoiled(K)[k].cmd = job[k].cmd
                    /\ Spoiled(K)[k].run = job[k].run
                    /\ Spoiled(K)[k].spoiled = (job[k].spoiled \/ k \in K)
  BY DEF Spoiled
<1>1. job[k] \in Jobs(n)
  OBVIOUS
<1>2. Spoiled(K)[k] = [job[k] EXCEPT !.spoiled = @ \/ k \in K]
  BY DEF Spoiled
<1>3. [job[k] EXCEPT !.spoiled = @ \/ k \in K] \in Jobs(n)
  BY <1>1 DEF Jobs
<1> QED
  BY <1>1, <1>2, <1>3 DEF Jobs

\* What is left of a build.
LEMMA NoRunType ==
    ASSUME NEW n \in Nat
    PROVE  NoRun \in Jobs(n)
BY DEF NoRun, NewRun, Jobs, Compilers

\* What can be said of few builds can be said of more, and of later revisions.
LEMMA Grows ==
    ASSUME NEW r \in Nat, NEW n \in Nat
    PROVE  /\ Trees(r) \subseteq Trees(r + 1)
           /\ Outs(r, n) \subseteq Outs(r + 1, n) /\ Outs(r, n) \subseteq Outs(r, n + 1)
           /\ Jobs(n) \subseteq Jobs(n + 1)
BY DEF Trees, Outs, Jobs

-----------------------------------------------------------------------------
(* Type correctness.                                                       *)

LEMMA InitType == BuildInit => TypeInv
<1> SUFFICES ASSUME BuildInit PROVE TypeInv
  OBVIOUS
<1>1. tree \in [Branches -> Trees(remote)]
  BY DEF BuildInit, Trees, Whole, Missing
<1>2. out \in [Dirs -> Outs(remote, runs)]
  BY DEF BuildInit, Outs, Nothing
<1>3. env \in [Consoles -> Envs]
  BY DEF BuildInit, Envs, Clean
<1>4. job \in [Consoles -> Jobs(runs)]
  BY NoRunType DEF BuildInit
<1> QED
  BY <1>1, <1>2, <1>3, <1>4, BuildAssumption
  DEF BuildInit, TypeInv, BuildTypeOK, Numbered, At, Labels, Nothing

\* What a Goto does to pc.
LEMMA Moved ==
    ASSUME BuildTypeOK, NEW c \in Consoles, NEW from, NEW to \in Labels, Goto(c, from, to)
    PROVE  /\ pc' \in [Consoles -> Labels] /\ pc[c] = from /\ pc'[c] = to
           /\ \A k \in Consoles : k # c => pc'[k] = pc[k]
BY DEF BuildTypeOK, Goto, At

\* A script that goes on keeps its number.
LEMMA StillNumbered ==
    ASSUME TypeInv, NEW c \in Consoles, NEW from, NEW to \in Labels, Goto(c, from, to),
           from # "idle", \A k \in Consoles : job'[k].run = job[k].run
    PROVE  Numbered'
BY Moved DEF TypeInv, Numbered, At

\* A step that changes nothing but where the script is.
LEMMA OnlyPcType ==
    ASSUME TypeInv, NEW c \in Consoles, NEW from, NEW to \in Labels, Goto(c, from, to),
           from # "idle", OnlyPc
    PROVE  TypeInv'
<1>1. pc' \in [Consoles -> Labels]
  BY Moved DEF TypeInv
<1>2. Numbered'
  BY StillNumbered DEF OnlyPc
<1> QED
  BY <1>1, <1>2 DEF TypeInv, BuildTypeOK, OnlyPc

LEMMA StartType ==
    ASSUME TypeInv, NEW c \in Consoles, NEW cmd \in Commands, Start(c, cmd)
    PROVE  TypeInv'
<1>1. runs \in Nat /\ runs' = runs + 1 /\ runs' \in 0 .. MaxRuns /\ remote \in Nat
  BY BuildAssumption DEF Start, TypeInv, BuildTypeOK
<1>2. pc' \in [Consoles -> Labels] /\ \A k \in Consoles : k # c => pc'[k] = pc[k]
  BY Moved DEF Start, TypeInv, Labels
<1>3. NewRun(runs + 1, cmd, env[c] = Clean) \in Jobs(runs')
  BY <1>1 DEF NewRun, Jobs, Compilers
<1>4. job' \in [Consoles -> Jobs(runs')]
  BY <1>1, <1>3, Grows DEF Start, TypeInv, BuildTypeOK
<1>5. out \in [Dirs -> Outs(remote, runs')]
  BY <1>1, Grows DEF TypeInv, BuildTypeOK
<1>6. Numbered'
  <2>1. job'[c].run = runs + 1 /\ \A k \in Consoles : k # c => job'[k] = job[k]
    BY DEF Start, NewRun, TypeInv, BuildTypeOK
  <2> QED
    BY <1>1, <1>2, <2>1 DEF Numbered, At, TypeInv
<1> QED
  BY <1>1, <1>2, <1>4, <1>5, <1>6 DEF Start, TypeInv, BuildTypeOK

LEMMA PushType ==
    ASSUME TypeInv, Push
    PROVE  TypeInv'
<1>1. remote \in Nat /\ runs \in Nat /\ remote' = remote + 1 /\ remote' \in 1 .. MaxRev
  BY BuildAssumption DEF Push, TypeInv, BuildTypeOK
<1>2. tree' \in [Branches -> Trees(remote')] /\ out' \in [Dirs -> Outs(remote', runs)]
  BY <1>1, Grows DEF Push, TypeInv, BuildTypeOK
<1>3. Numbered'
  BY DEF Push, TypeInv, Numbered, At
<1> QED
  BY <1>1, <1>2, <1>3 DEF Push, TypeInv, BuildTypeOK

LEMMA SetupType ==
    ASSUME TypeInv, EnvInv, NEW c \in Consoles, Setup(c) \/ SetupFails(c)
    PROVE  TypeInv'
<1>1. job[c].cmd.arch \in Archs /\ EnvOK(env[c])
  BY JobFacts DEF TypeInv, EnvInv
<1>2. Prepare(Machine, env[c], job[c].cmd).env \in Envs /\ ReinitializePath(env[c]) \in Envs
  BY <1>1, PrepareOK, ReinitializeOK DEF EnvOK
<1>3. env' \in [Consoles -> Envs]
  BY <1>2 DEF Setup, SetupFails, TypeInv, BuildTypeOK
<1>4. PICK to \in Labels : Goto(c, "setup", to)
  BY DEF Setup, SetupFails, Labels
<1>5. pc' \in [Consoles -> Labels]
  BY <1>4, Moved DEF TypeInv
<1>6. Numbered'
  BY <1>4, StillNumbered DEF Setup, SetupFails
<1> QED
  BY <1>3, <1>5, <1>6 DEF Setup, SetupFails, TypeInv, BuildTypeOK

LEMMA ExitType ==
    ASSUME TypeInv, NEW c \in Consoles, Exit(c)
    PROVE  TypeInv'
<1>1. PICK from : Goto(c, from, "idle")
  BY DEF Exit
<1>2. /\ pc' \in [Consoles -> Labels] /\ pc'[c] = "idle"
      /\ \A k \in Consoles : k # c => pc'[k] = pc[k]
  BY <1>1, Moved DEF TypeInv, Labels
<1>3. job' \in [Consoles -> Jobs(runs)] /\ \A k \in Consoles : k # c => job'[k] = job[k]
  BY NoRunType DEF Exit, TypeInv, BuildTypeOK
<1>4. Numbered'
  BY <1>2, <1>3 DEF TypeInv, Numbered, At
<1> QED
  BY <1>2, <1>3, <1>4 DEF Exit, TypeInv, BuildTypeOK

\* A tree that is set.
LEMMA SetTreeType ==
    ASSUME BuildTypeOK, NEW b \in Branches, NEW st \in {"none", "stuck", "torn", "whole"},
           NEW rev \in 0 .. remote, SetTree(b, st, rev)
    PROVE  tree' \in [Branches -> Trees(remote)]
BY DEF BuildTypeOK, SetTree, Trees

LEMMA KillType ==
    ASSUME TypeInv, NEW c \in Consoles, Kill(c)
    PROVE  TypeInv'
<1>1. /\ pc' \in [Consoles -> Labels] /\ pc'[c] = "idle"
      /\ \A k \in Consoles : k # c => pc'[k] = pc[k]
  BY DEF Kill, TypeInv, BuildTypeOK, Labels
<1>2. env' \in [Consoles -> Envs]
  BY CleanOK DEF EnvOK, Kill, TypeInv, BuildTypeOK
<1>3. tree' \in [Branches -> Trees(remote)]
  <2>1. Branch(c) \in Branches
    BY JobFacts DEF TypeInv
  <2>2. tree[Branch(c)].rev \in 0 .. remote
    BY <2>1 DEF TypeInv, BuildTypeOK, Trees
  <2> QED
    BY <2>1, <2>2, SetTreeType DEF Kill, TypeInv, BuildTypeOK
<1>4. /\ job' \in [Consoles -> Jobs(runs)]
      /\ \A k \in Consoles : k # c => job'[k].run = job[k].run
  <2> DEFINE K == {k \in Consoles : At(k, "pull") /\ Branch(k) = Branch(c)}
  <2>1. runs \in Nat /\ job \in [Consoles -> Jobs(runs)]
    BY DEF TypeInv, BuildTypeOK
  <2>2. /\ Spoiled(K) \in [Consoles -> Jobs(runs)]
        /\ \A k \in Consoles : Spoiled(K)[k].run = job[k].run
    BY <2>1, SpoiledFacts
  <2>3. job' = [Spoiled(K) EXCEPT ![c] = NoRun] \/ job' = [job EXCEPT ![c] = NoRun]
    BY DEF Kill
  <2> HIDE DEF K
  <2> QED
    BY <2>1, <2>2, <2>3, NoRunType
<1>5. Numbered'
  BY <1>1, <1>4 DEF TypeInv, Numbered, At
<1> QED
  BY <1>1, <1>2, <1>3, <1>4, <1>5 DEF Kill, TypeInv, BuildTypeOK

\* A step of git that changes a tree, and the job of nobody but what it spoils.
LEMMA TreeStepType ==
    ASSUME TypeInv, NEW c \in Consoles, NEW from, NEW to \in Labels, Goto(c, from, to),
           from # "idle", UNCHANGED <<remote, out, env, runs>>,
           tree' \in [Branches -> Trees(remote)], job' \in [Consoles -> Jobs(runs)],
           \A k \in Consoles : job'[k].run = job[k].run
    PROVE  TypeInv'
<1>1. pc' \in [Consoles -> Labels]
  BY Moved DEF TypeInv
<1>2. Numbered'
  BY StillNumbered
<1> QED
  BY <1>1, <1>2 DEF TypeInv, BuildTypeOK

LEMMA FetchType ==
    ASSUME TypeInv, NEW c \in Consoles, Fetch(c)
    PROVE  TypeInv'
<1> DEFINE b == Branch(c)
<1>1. b \in Branches /\ tree[b].rev \in 0 .. remote /\ remote \in 0 .. remote
      /\ remote \in Nat /\ runs \in Nat /\ job \in [Consoles -> Jobs(runs)]
  BY JobFacts, BuildAssumption DEF TypeInv, BuildTypeOK, Trees
<1> HIDE DEF b
<1>2. CASE \E from, to \in Labels : from # "idle" /\ Goto(c, from, to) /\ OnlyPc
  BY <1>2, OnlyPcType
<1>3. CASE Look(c) \/ CloneRefused(c) \/ CheckoutFails(c) \/ Download(c) \/ PullNothing(c)
           \/ PullRefused(c)
  BY <1>2, <1>3
  DEF Look, CloneRefused, CheckoutFails, Download, PullNothing, PullRefused, Labels
<1>4. ASSUME NEW from, NEW to \in Labels, Goto(c, from, to), from # "idle",
             UNCHANGED <<remote, out, env, job, runs>>,
             NEW st \in {"none", "stuck", "torn", "whole"}, NEW rev \in 0 .. remote,
             SetTree(b, st, rev)
      PROVE  TypeInv'
  <2>1. tree' \in [Branches -> Trees(remote)]
    BY <1>1, <1>4, SetTreeType DEF TypeInv
  <2> QED
    BY <1>1, <1>4, <2>1, TreeStepType
<1>5. CASE Clone(c) \/ Cloned(c) \/ Checkout(c) \/ Pulled(c)
  BY <1>1, <1>4, <1>5 DEF Clone, Cloned, Checkout, Pulled, Labels, b
<1>6. CASE CloneFails(c)
  <2>1. SetTree(b, "none", 0) /\ Goto(c, "cloning", "failed")
        /\ UNCHANGED <<remote, out, env, job, runs>>
    BY <1>6 DEF CloneFails, SetTree, Missing, b
  <2>2. 0 \in 0 .. remote
    BY <1>1
  <2> QED
    BY <1>4, <2>1, <2>2 DEF Labels
<1>7. CASE Pull(c)
  <2> DEFINE K == Readers(b)
  <2>1. /\ Spoiled(K) \in [Consoles -> Jobs(runs)]
        /\ \A k \in Consoles : Spoiled(K)[k].run = job[k].run
    BY <1>1, SpoiledFacts
  <2>2. job' = Spoiled(K)
    BY <1>7 DEF Pull, Spoil, b
  <2> HIDE DEF K
  <2>3. tree' \in [Branches -> Trees(remote)]
    BY <1>1, <1>7, SetTreeType DEF Pull, TypeInv, b
  <2>4. Goto(c, "pull", "pulling") /\ UNCHANGED <<remote, out, env, runs>>
    BY <1>7 DEF Pull
  <2> QED
    BY <2>1, <2>2, <2>3, <2>4, TreeStepType DEF Labels
<1> QED
  BY <1>3, <1>5, <1>6, <1>7 DEF Fetch

\* A step of a stage that changes a directory.
LEMMA OutStepType ==
    ASSUME TypeInv, NEW c \in Consoles, NEW from, NEW to \in Labels, Goto(c, from, to),
           from # "idle", UNCHANGED <<remote, tree, env, runs>>,
           NEW d \in Dirs, NEW o \in Outs(remote, runs), out' = [out EXCEPT ![d] = o],
           o.files = {} => o = Nothing,
           job' \in [Consoles -> Jobs(runs)], \A k \in Consoles : job'[k].run = job[k].run
    PROVE  TypeInv'
<1>1. pc' \in [Consoles -> Labels]
  BY Moved DEF TypeInv
<1>2. Numbered'
  BY StillNumbered
<1>3. out' \in [Dirs -> Outs(remote, runs)] /\ \A e \in Dirs : out'[e].files = {} => out'[e] = Nothing
  BY DEF TypeInv, BuildTypeOK
<1> QED
  BY <1>1, <1>2, <1>3 DEF TypeInv, BuildTypeOK

LEMMA MakeType ==
    ASSUME TypeInv, EnvInv, NEW c \in Consoles, Make(c)
    PROVE  TypeInv'
<1> DEFINE d == Dir(c)
           o == out[d]
           b == Branch(c)
<1>1. /\ d \in Dirs /\ o \in Outs(remote, runs) /\ remote \in Nat /\ runs \in Nat
      /\ job \in [Consoles -> Jobs(runs)] /\ job[c] \in Jobs(runs)
      /\ tree[b].rev \in 0 .. remote /\ env[c] \in Envs
      /\ o.files = {} => o = Nothing
  BY JobFacts, BuildAssumption DEF TypeInv, BuildTypeOK, Trees
<1> HIDE DEF d, b
<1>2. ASSUME NEW from \in Labels, NEW to \in Labels, Goto(c, from, to), from # "idle", OnlyPc
      PROVE  TypeInv'
  BY <1>2, OnlyPcType
<1>3. CASE NoPrebuilt(c) \/ ConfigureFails(c) \/ NothingThere(c)
  BY <1>2, <1>3 DEF NoPrebuilt, ConfigureFails, NothingThere, Labels
<1>4. CASE Arguments(c)
  <2>1. PICK root \in Prebuilt : job' = [job EXCEPT ![c].with = Compiler(c, root)]
    BY <1>4 DEF Arguments
  <2>2. Compiler(c, root) \in Compilers
    BY DEF Compiler, Compilers
  <2>3. [job[c] EXCEPT !.with = Compiler(c, root)] \in Jobs(runs)
    BY <1>1, <2>2 DEF Jobs
  <2>4. job' \in [Consoles -> Jobs(runs)] /\ \A k \in Consoles : job'[k].run = job[k].run
    BY <1>1, <2>1, <2>3 DEF Jobs
  <2>5. Goto(c, "stage", "wipe") /\ UNCHANGED <<remote, out, env, runs>> /\ UNCHANGED tree
    BY <1>4 DEF Arguments
  <2> QED
    BY <2>4, <2>5, TreeStepType DEF Labels, TypeInv, BuildTypeOK
<1>5. ASSUME NEW from, NEW to \in Labels, Goto(c, from, to), from # "idle",
             UNCHANGED <<remote, tree, env, runs>>, NEW new \in Outs(remote, runs),
             out' = [out EXCEPT ![d] = new], new.files = {} => new = Nothing, NEW K, Spoil(K)
      PROVE  TypeInv'
  <2>1. /\ job' \in [Consoles -> Jobs(runs)]
        /\ \A k \in Consoles : job'[k].run = job[k].run
    BY <1>1, <1>5, SpoiledFacts DEF Spoil
  <2> QED
    BY <1>1, <1>5, <2>1, OutStepType
<1>6. CASE Wipe(c)
  <2>1. Nothing \in Outs(remote, runs)
    BY <1>1 DEF Nothing, Outs
  <2> QED
    BY <1>5, <1>6, <2>1 DEF Wipe, Labels, d
<1>7. CASE WipeFails(c)
  <2>1. PICK K : Spoil(K)
    BY <1>7 DEF WipeFails
  <2>2. [o EXCEPT !.step = "none"] \in Outs(remote, runs) /\ [o EXCEPT !.step = "none"].files # {}
    BY <1>1, <1>7 DEF WipeFails, Outs, d
  <2>3. out' = [out EXCEPT ![d] = [o EXCEPT !.step = "none"]]
    BY <1>7 DEF WipeFails, d
  <2>4. Goto(c, "wipe", "configure") /\ UNCHANGED <<remote, tree, env, runs>>
    BY <1>7 DEF WipeFails
  <2> QED
    BY <1>5, <2>1, <2>2, <2>3, <2>4 DEF Labels
<1>8. CASE Configure(c)
  <2> DEFINE new == [files |-> o.files \cup {job[c].run}, rev |-> tree[b].rev,
                     tools |-> env[c].tools, with |-> job[c].with, step |-> "configured"]
  <2>1. Goto(c, "configure", "compile") /\ UNCHANGED <<remote, tree, env, runs>>
        /\ out' = [out EXCEPT ![d] = new]
    BY <1>8 DEF Configure, d, b
  <2>2. job[c].run \in 1 .. runs
    BY <1>1, <2>1 DEF TypeInv, Numbered, Jobs, Goto, At
  <2>3. new \in Outs(remote, runs) /\ new.files # {}
    BY <1>1, <2>2 DEF Outs, Envs, Jobs
  <2>4. PICK K : Spoil(K)
    BY <1>8 DEF Configure
  <2> HIDE DEF new
  <2> QED
    BY <1>5, <2>1, <2>3, <2>4 DEF Labels
<1>9. CASE Compile(c)
  <2> DEFINE rev == IF tree[b] = Whole(o.rev) THEN o.rev ELSE 0
             new == [o EXCEPT !.step = "built", !.rev = rev]
  <2>1. out' = [out EXCEPT ![d] = new]
    BY <1>1, <1>9 DEF Compile, d, b, TypeInv, BuildTypeOK
  <2>2. o.files # {}
    BY <1>9 DEF Compile, Compilable, d
  <2>3. rev \in 0 .. remote
    BY <1>1 DEF Outs
  <2>4. new \in Outs(remote, runs) /\ new.files # {}
    <3> HIDE DEF rev
    <3> QED
      BY <1>1, <2>2, <2>3 DEF Outs
  <2> HIDE DEF new
  <2>5. AfterCompile(c) \in Labels /\ Goto(c, "compile", AfterCompile(c))
        /\ UNCHANGED <<remote, tree, env, runs>>
    BY <1>9 DEF Compile, AfterCompile, Labels
  <2>6. job' \in [Consoles -> Jobs(runs)] /\ \A k \in Consoles : job'[k].run = job[k].run
    BY <1>1, <1>9 DEF Compile, Jobs
  <2> QED
    BY <1>1, <2>1, <2>4, <2>5, <2>6, OutStepType
<1>10. CASE Pack(c)
  <2> DEFINE new == [o EXCEPT !.step = "packed"]
  <2>1. out' = [out EXCEPT ![d] = new]
    BY <1>10 DEF Pack, d
  <2>2. o.files # {}
    BY <1>10 DEF Pack, Compilable, d
  <2>3. new \in Outs(remote, runs) /\ new.files # {}
    BY <1>1, <2>2 DEF Outs
  <2> HIDE DEF new
  <2>4. Goto(c, "pack", "done") /\ UNCHANGED <<remote, tree, env, runs>> /\ UNCHANGED job
    BY <1>10 DEF Pack
  <2> QED
    BY <1>1, <2>1, <2>3, <2>4, OutStepType DEF Labels
<1> QED
  BY <1>3, <1>4, <1>6, <1>7, <1>8, <1>9, <1>10 DEF Make

LEMMA TypeStep ==
    ASSUME TypeInv, EnvInv, [BuildNext]_bvars
    PROVE  TypeInv'
<1>1. CASE UNCHANGED bvars
  BY <1>1 DEF bvars, TypeInv, BuildTypeOK, Numbered, At
<1>2. CASE Push
  BY <1>2, PushType
<1>3. ASSUME NEW c \in Consoles, Kill(c) \/ \E cmd \in Commands : Start(c, cmd) PROVE TypeInv'
  BY <1>3, KillType, StartType
<1>4. ASSUME NEW c \in Consoles, Step(c) PROVE TypeInv'
  <2>1. CASE ChildFails(c)
    <3>1. PICK from \in {"checkout", "pull", "download", "configure", "compile", "pack"} :
             Goto(c, from, "failed")
      BY <2>1 DEF ChildFails
    <3>2. OnlyPc /\ from # "idle" /\ "failed" \in Labels
      BY <2>1 DEF ChildFails, Labels
    <3> QED
      BY <3>1, <3>2, OnlyPcType
  <2> QED
    BY <1>4, <2>1, SetupType, FetchType, MakeType, ExitType DEF Step
<1> QED
  BY <1>1, <1>2, <1>3, <1>4 DEF BuildNext

-----------------------------------------------------------------------------
(* The environments.                                                       *)

LEMMA InitEnv == BuildInit => EnvInv
BY CleanOK DEF BuildInit, EnvInv

\* Only the two ends of the script's first part and a closed console touch them.
LEMMA EnvStep ==
    ASSUME TypeInv, EnvInv, [BuildNext]_bvars
    PROVE  EnvInv'
<1>1. CASE UNCHANGED env
  BY <1>1 DEF EnvInv, EnvOK
<1>2. ASSUME NEW c \in Consoles, NEW e, EnvOK(e), env' = [env EXCEPT ![c] = e]
      PROVE  EnvInv'
  <2>1. \A k \in Consoles : env'[k] = e \/ env'[k] = env[k]
    BY <1>2 DEF TypeInv, BuildTypeOK
  <2> QED
    BY <1>2, <2>1 DEF EnvInv
<1>3. ASSUME NEW c \in Consoles, Kill(c) PROVE EnvInv'
  BY <1>2, <1>3, CleanOK DEF Kill
<1>4. ASSUME NEW c \in Consoles, Setup(c) \/ SetupFails(c) PROVE EnvInv'
  <2>1. job[c].cmd.arch \in Archs /\ EnvOK(env[c])
    BY JobFacts DEF TypeInv, EnvInv
  <2>2. EnvOK(Prepare(Machine, env[c], job[c].cmd).env) /\ EnvOK(ReinitializePath(env[c]))
    BY <2>1, PrepareOK, ReinitializeOK
  <2>3. CASE Setup(c)
    BY <1>2, <2>2, <2>3 DEF Setup
  <2>4. CASE SetupFails(c)
    BY <1>2, <2>1, <2>2, <2>4 DEF SetupFails
  <2> QED
    BY <1>4, <2>3, <2>4
<1>5. ASSUME NEW c \in Consoles, Fetch(c) \/ Make(c) \/ ChildFails(c) \/ Exit(c)
      PROVE  UNCHANGED env
  BY <1>5
  DEF Fetch, Look, Clone, CloneRefused, Cloned, CloneFails, Checkout, CheckoutFails, Download,
      Pull, PullNothing, PullRefused, Pulled, Make, Arguments, NoPrebuilt, Wipe, WipeFails,
      Configure, ConfigureFails, Compile, NothingThere, Pack, ChildFails, Exit, OnlyPc
<1>6. CASE Push \/ UNCHANGED bvars \/ \E c \in Consoles, cmd \in Commands : Start(c, cmd)
  BY <1>1, <1>6 DEF Push, bvars, Start
<1> QED
  BY <1>1, <1>3, <1>4, <1>5, <1>6 DEF BuildNext, Step

\* Of an environment with one pair, at most one pair can be counted.
LEMMA OnePair ==
    ASSUME NEW e, EnvOK(e)
    PROVE  Cardinality(OfInstance(e.tools \cup e.libs)) <= 1
<1>1. PICK x \in Pairs : OfInstance(e.tools \cup e.libs) \subseteq {x}
  BY DEF EnvOK
<1>2. OfInstance(e.tools \cup e.libs) = {} \/ OfInstance(e.tools \cup e.libs) = {x}
  BY <1>1
<1>3. Cardinality({}) = 0 /\ Cardinality({x}) = 1
  BY FS_EmptySet, FS_Singleton
<1> QED
  BY <1>2, <1>3

\* Every variable of the builds keeps its type in every behaviour, and with any
\* consoles, machine, commands, faults and bounds.
THEOREM BuildTypeCorrect == BuildSpec => []BuildTypeOK
<1>1. BuildInit => TypeInv /\ EnvInv
  BY InitType, InitEnv
<1>2. TypeInv /\ EnvInv /\ [BuildNext]_bvars => (TypeInv /\ EnvInv)'
  BY TypeStep, EnvStep
<1>3. TypeInv => BuildTypeOK
  BY DEF TypeInv
<1> QED
  BY <1>1, <1>2, <1>3, PTL DEF BuildSpec

\* However often a console is used, with whatever -ClearEnv, architectures and
\* instances, its PATH and LIB hold one toolchain of Visual Studio
\* (VisualStudio.psm1:166), and perhaps what bin/external has for the architectures
\* that were asked for (Initialize.psm1:65).
THEOREM EnvironmentUnmixed == BuildSpec => []EnvUnmixed
<1>1. BuildInit => TypeInv /\ EnvInv
  BY InitType, InitEnv
<1>2. TypeInv /\ EnvInv /\ [BuildNext]_bvars => (TypeInv /\ EnvInv)'
  BY TypeStep, EnvStep
<1>3. EnvInv => EnvUnmixed
  BY OnePair DEF EnvInv, EnvUnmixed
<1> QED
  BY <1>1, <1>2, <1>3, PTL DEF BuildSpec

-----------------------------------------------------------------------------
(* The trees.                                                              *)

Making == {"stage", "wipe", "configure", "compile"}

\* A build that is spoiled, or where it was, is as safe as before.
LEMMA SafeStays ==
    ASSUME NEW k \in Consoles, Safe(k), pc'[k] = pc[k], job'[k].cmd = job[k].cmd,
           job[k].spoiled => job'[k].spoiled, tree'[Branch(k)] = tree[Branch(k)]
    PROVE  Safe(k)'
BY DEF Safe, Holds, At, Branch

\* A step of a script that leaves the trees as they are, and holds none after it.
LEMMA TreeKept ==
    ASSUME TypeInv, TreeInv, NEW c \in Consoles, tree' = tree, ~Holds(c)', Safe(c)',
           \A k \in Consoles : k # c => /\ pc'[k] = pc[k] /\ job'[k].cmd = job[k].cmd
                                        /\ job[k].spoiled => job'[k].spoiled
    PROVE  TreeInv'
<1>1. ASSUME NEW k \in Consoles PROVE Safe(k)'
  BY <1>1, SafeStays DEF TreeInv
<1>2. Alone'
  BY DEF TreeInv, Alone, Holds, Branch
<1> QED
  BY <1>1, <1>2 DEF TreeInv

\* A step that leaves the trees and the jobs, to a label that is safe anyway, or
\* as safe as the one before.
LEMMA TreeGoto ==
    ASSUME TypeInv, TreeInv, NEW c \in Consoles, NEW from, NEW to \in Labels, Goto(c, from, to),
           tree' = tree,
           \A k \in Consoles : /\ k # c => job'[k].cmd = job[k].cmd
                               /\ k # c /\ job[k].spoiled => job'[k].spoiled,
           \/ to \in {"idle", "setup", "source", "clone", "checkout", "pack", "done", "failed"}
           \/ /\ from \in Making /\ to \in Making /\ job'[c].cmd = job[c].cmd
              /\ job[c].spoiled => job'[c].spoiled
    PROVE  TreeInv'
<1>1. pc[c] = from /\ pc'[c] = to /\ \A k \in Consoles : k # c => pc'[k] = pc[k]
  BY Moved DEF TypeInv
<1>2. Safe(c)
  BY DEF TreeInv
<1>3. ~Holds(c)'
  BY <1>1 DEF Holds, Making
<1>4. Safe(c)'
  <2>1. CASE to \in {"idle", "setup", "source", "clone", "checkout", "pack", "done", "failed"}
    BY <1>1, <2>1 DEF Safe, Holds, At
  <2>2. CASE /\ from \in Making /\ to \in Making /\ job'[c].cmd = job[c].cmd
             /\ job[c].spoiled => job'[c].spoiled
    BY <1>1, <1>2, <2>2 DEF Safe, Holds, At, Branch, Making
  <2> QED
    BY <2>1, <2>2
<1> QED
  BY <1>1, <1>3, <1>4, TreeKept

LEMMA InitTree == BuildInit => TreeInv
BY DEF BuildInit, TreeInv, Alone, Safe, Holds, At

\* A tree that nobody had the use of before, or that becomes whole.
LEMMA TreeChanged ==
    ASSUME TypeInv, TreeInv, NEW c \in Consoles, NEW b, b = Branch(c), b \in Branches,
           \A k \in Branches : k # b => tree'[k] = tree[k],
           \A k \in Consoles : k # c => /\ pc'[k] = pc[k] /\ job'[k].cmd = job[k].cmd
                                        /\ job[k].spoiled => job'[k].spoiled,
           Safe(c)', Holds(c)' => job'[c].cmd = job[c].cmd,
           \A k \in Consoles : k # c /\ Branch(k) = b => ~Holds(k) /\ Safe(k)'
    PROVE  TreeInv'
<1>1. ASSUME NEW k \in Consoles PROVE Safe(k)'
  <2>1. CASE k = c \/ Branch(k) = b
    BY <2>1
  <2>2. CASE k # c /\ Branch(k) # b
    <3>1. Branch(k) \in Branches
      BY JobFacts DEF TypeInv
    <3> QED
      BY <2>2, <3>1, SafeStays DEF TreeInv
  <2> QED
    BY <2>1, <2>2
<1>2. Alone'
  BY DEF TreeInv, Alone, Holds, Branch
<1> QED
  BY <1>1, <1>2 DEF TreeInv

LEMMA FetchTree ==
    ASSUME TypeInv, TreeInv, NEW c \in Consoles, Fetch(c)
    PROVE  TreeInv'
<1> DEFINE b == Branch(c)
<1>1. b \in Branches /\ Safe(c) /\ \A k \in Consoles : Safe(k)
  BY JobFacts DEF TypeInv, TreeInv
<1>2. tree \in [Branches -> Trees(remote)] /\ job \in [Consoles -> Jobs(runs)] /\ runs \in Nat
  BY DEF TypeInv, BuildTypeOK
<1> HIDE DEF b
<1>3. CASE CloneRefused(c) \/ CheckoutFails(c) \/ PullRefused(c)
  BY <1>3, TreeGoto DEF CloneRefused, CheckoutFails, PullRefused, OnlyPc, Labels
<1>4. ASSUME OnlyPc, NEW from, NEW to \in Labels, Goto(c, from, to), ~Holds(c)', Safe(c)'
      PROVE  TreeInv'
  BY <1>4, Moved, TreeKept DEF OnlyPc, TypeInv
<1>5. CASE Look(c)
  <2>1. PICK to \in {"download", "clone", "checkout"} :
           Goto(c, "source", to) /\ (to = "download" => b = "Release")
    BY <1>5 DEF Look, b
  <2>2. OnlyPc /\ to \in Labels
    BY <1>5 DEF Look, Labels
  <2>3. pc'[c] = to
    BY <2>1, <2>2, Moved DEF TypeInv
  <2>4. ~Holds(c)' /\ Safe(c)'
    BY <2>1, <2>2, <2>3 DEF Safe, Holds, At, OnlyPc, Branch, Git, b
  <2> QED
    BY <1>4, <2>1, <2>2, <2>4
<1>6. CASE Download(c) \/ PullNothing(c)
  <2>1. PICK from \in {"download", "pull"} : Goto(c, from, "stage")
    BY <1>6 DEF Download, PullNothing
  <2>2. OnlyPc /\ "stage" \in Labels
    BY <1>6 DEF Download, PullNothing, Labels
  <2>3. pc[c] = from /\ pc'[c] = "stage"
    BY <2>1, <2>2, Moved DEF TypeInv
  <2>4. from = "pull" => tree[b].st \in {"torn", "whole"}
    BY <1>6, <2>3 DEF Download, PullNothing, Goto, At, b
  <2>5. ~Holds(c)' /\ Safe(c)'
    BY <1>1, <2>1, <2>2, <2>3, <2>4 DEF Safe, Holds, At, OnlyPc, Branch, b
  <2> QED
    BY <1>4, <2>1, <2>2, <2>5
<1>7. ASSUME NEW from, NEW to \in Labels, Goto(c, from, to), NEW st, NEW rev, SetTree(b, st, rev)
      PROVE  /\ pc[c] = from /\ pc'[c] = to
             /\ \A k \in Consoles : k # c => pc'[k] = pc[k]
             /\ tree'[b].st = st /\ \A k \in Branches : k # b => tree'[k] = tree[k]
  BY <1>1, <1>2, <1>7, Moved DEF TypeInv, SetTree
<1>8. CASE Clone(c)
  <2>1. Goto(c, "clone", "cloning") /\ SetTree(b, "stuck", remote) /\ tree[b].st = "none"
        /\ job' = job
    BY <1>8 DEF Clone, b
  <2>2. /\ pc'[c] = "cloning" /\ \A k \in Consoles : k # c => pc'[k] = pc[k]
        /\ tree'[b].st = "stuck" /\ \A k \in Branches : k # b => tree'[k] = tree[k]
    BY <1>7, <2>1 DEF Labels
  <2>3. Safe(c)'
    BY <2>1, <2>2 DEF Safe, Holds, At, Branch, b
  <2>4. ASSUME NEW k \in Consoles, k # c, Branch(k) = b PROVE ~Holds(k) /\ Safe(k)'
    BY <1>1, <2>1, <2>2, <2>4 DEF Safe, Holds, At, Branch
  <2> QED
    BY <1>1, <2>1, <2>2, <2>3, <2>4, TreeChanged DEF b
<1>9. CASE Cloned(c) \/ Pulled(c)
  <2>1. PICK from \in {"cloning", "pulling"} : Goto(c, from, "stage")
    BY <1>9 DEF Cloned, Pulled
  <2>2. SetTree(b, "whole", tree[b].rev) /\ job' = job
    BY <1>9 DEF Cloned, Pulled, b
  <2>3. /\ pc[c] = from /\ pc'[c] = "stage" /\ \A k \in Consoles : k # c => pc'[k] = pc[k]
        /\ tree'[b].st = "whole" /\ \A k \in Branches : k # b => tree'[k] = tree[k]
    BY <1>7, <2>1, <2>2 DEF Labels
  <2>4. Safe(c)'
    BY <2>2, <2>3 DEF Safe, Holds, At, Branch, b
  <2>5. ASSUME NEW k \in Consoles, k # c, Branch(k) = b PROVE ~Holds(k) /\ Safe(k)'
    BY <1>1, <2>1, <2>2, <2>3, <2>5 DEF Safe, Holds, At, Branch, TreeInv, Alone, b
  <2>6. ~Holds(c)'
    BY <2>3 DEF Holds
  <2> QED
    BY <1>1, <2>2, <2>3, <2>4, <2>5, <2>6, TreeChanged DEF b
<1>10. CASE CloneFails(c)
  <2>1. Goto(c, "cloning", "failed") /\ SetTree(b, "none", 0) /\ job' = job
    BY <1>10 DEF CloneFails, SetTree, Missing, b
  <2>2. /\ pc[c] = "cloning" /\ pc'[c] = "failed" /\ \A k \in Consoles : k # c => pc'[k] = pc[k]
        /\ tree'[b].st = "none" /\ \A k \in Branches : k # b => tree'[k] = tree[k]
    BY <1>7, <2>1 DEF Labels
  <2>3. Safe(c)' /\ ~Holds(c)'
    BY <2>2 DEF Safe, Holds, At
  <2>4. tree[b].st = "stuck"
    BY <1>1, <2>2 DEF Safe, Holds, b
  <2>5. ASSUME NEW k \in Consoles, k # c, Branch(k) = b PROVE ~Holds(k) /\ Safe(k)'
    BY <1>1, <2>1, <2>2, <2>4, <2>5 DEF Safe, Holds, At, Branch, TreeInv, Alone, b
  <2> QED
    BY <1>1, <2>1, <2>2, <2>3, <2>5, TreeChanged DEF b
<1>11. CASE Checkout(c)
  <2>1. /\ Goto(c, "checkout", "pull") /\ SetTree(b, "whole", tree[b].rev) /\ job' = job
        /\ tree[b].st \in {"torn", "whole"}
    BY <1>11 DEF Checkout, b
  <2>2. /\ pc'[c] = "pull" /\ \A k \in Consoles : k # c => pc'[k] = pc[k]
        /\ tree'[b].st = "whole" /\ \A k \in Branches : k # b => tree'[k] = tree[k]
    BY <1>7, <2>1 DEF Labels
  <2>3. Safe(c)' /\ ~Holds(c)'
    BY <2>1, <2>2 DEF Safe, Holds, At, Branch, b
  <2>4. ASSUME NEW k \in Consoles, k # c, Branch(k) = b PROVE ~Holds(k) /\ Safe(k)'
    BY <1>1, <2>1, <2>2, <2>4 DEF Safe, Holds, At, Branch
  <2> QED
    BY <1>1, <2>1, <2>2, <2>3, <2>4, TreeChanged DEF b
<1>12. CASE Pull(c)
  <2> DEFINE K == Readers(b)
  <2>1. /\ Goto(c, "pull", "pulling") /\ SetTree(b, "stuck", remote) /\ job' = Spoiled(K)
        /\ tree[b].st = "whole"
    BY <1>12 DEF Pull, Spoil, b
  <2>2. /\ pc'[c] = "pulling" /\ \A k \in Consoles : k # c => pc'[k] = pc[k]
        /\ tree'[b].st = "stuck" /\ \A k \in Branches : k # b => tree'[k] = tree[k]
    BY <1>7, <2>1 DEF Labels
  <2>3. \A k \in Consoles : /\ job'[k].cmd = job[k].cmd
                            /\ job'[k].spoiled = (job[k].spoiled \/ k \in K)
    BY <1>2, <2>1, SpoiledFacts
  <2>4. Safe(c)'
    BY <2>2, <2>3 DEF Safe, Holds, At, Branch, b
  <2>5. ASSUME NEW k \in Consoles, k # c, Branch(k) = b PROVE ~Holds(k) /\ Safe(k)'
    BY <1>1, <2>1, <2>2, <2>3, <2>5 DEF Safe, Holds, At, Branch, Readers
  <2> HIDE DEF K
  <2> QED
    BY <1>1, <2>2, <2>3, <2>4, <2>5, TreeChanged DEF b
<1> QED
  BY <1>3, <1>5, <1>6, <1>8, <1>9, <1>10, <1>11, <1>12 DEF Fetch

\* A console that is closed while git is at work: who had the same tree checked
\* out and waits to pull it is spoiled.
LEMMA KillTree ==
    ASSUME TypeInv, TreeInv, NEW c \in Consoles, Kill(c)
    PROVE  TreeInv'
<1> DEFINE b == Branch(c)
           K == {k \in Consoles : At(k, "pull") /\ Branch(k) = b}
<1>1. /\ b \in Branches /\ tree \in [Branches -> Trees(remote)] /\ \A k \in Consoles : Safe(k)
      /\ job \in [Consoles -> Jobs(runs)] /\ runs \in Nat
  BY JobFacts DEF TypeInv, BuildTypeOK, TreeInv
<1> HIDE DEF b
<1>2. pc'[c] = "idle" /\ \A k \in Consoles : k # c => pc'[k] = pc[k]
  BY DEF Kill, TypeInv, BuildTypeOK
<1>3. Safe(c)' /\ ~Holds(c)'
  BY <1>2 DEF Safe, Holds, At
<1>4. CASE ~Holds(c)
  <2>1. tree' = tree /\ job' = [job EXCEPT ![c] = NoRun]
    BY <1>4 DEF Kill, Holds
  <2> QED
    BY <1>1, <1>2, <1>3, <2>1, TreeKept
<1>5. CASE Holds(c)
  <2>1. /\ job' = [Spoiled(K) EXCEPT ![c] = NoRun]
        /\ \E st \in {"stuck", "torn"} : SetTree(b, st, tree[b].rev)
    BY <1>5 DEF Kill, Holds, b
  <2>2. \A k \in Consoles : k # c => /\ job'[k].cmd = job[k].cmd
                                     /\ job'[k].spoiled = (job[k].spoiled \/ k \in K)
    BY <1>1, <2>1, SpoiledFacts
  <2>3. /\ tree'[b].st \in {"stuck", "torn"}
        /\ \A k \in Branches : k # b => tree'[k] = tree[k]
    BY <1>1, <2>1 DEF SetTree
  <2>4. tree[b].st = "stuck"
    BY <1>1, <1>5 DEF Safe, b
  <2>5. ASSUME NEW k \in Consoles, k # c, Branch(k) = b PROVE ~Holds(k) /\ Safe(k)'
    <3>1. ~Holds(k)
      BY <1>5, <2>5 DEF TreeInv, Alone, b
    <3>2. Safe(k) /\ pc'[k] = pc[k] /\ job'[k].cmd = job[k].cmd
          /\ job'[k].spoiled = (job[k].spoiled \/ k \in K)
      BY <1>1, <1>2, <2>2, <2>5
    <3> QED
      BY <2>3, <2>4, <2>5, <3>1, <3>2 DEF Safe, Holds, At, Branch
  <2> HIDE DEF K
  <2> QED
    BY <1>1, <1>2, <1>3, <2>2, <2>3, <2>5, TreeChanged DEF b
<1> QED
  BY <1>4, <1>5

LEMMA MakeTree ==
    ASSUME TypeInv, TreeInv, NEW c \in Consoles, Make(c)
    PROVE  TreeInv'
<1>1. job \in [Consoles -> Jobs(runs)] /\ runs \in Nat
  BY DEF TypeInv, BuildTypeOK
<1>2. CASE NoPrebuilt(c) \/ ConfigureFails(c) \/ NothingThere(c)
  BY <1>2, TreeGoto DEF NoPrebuilt, ConfigureFails, NothingThere, OnlyPc, Labels
<1>3. CASE Arguments(c)
  <2>1. \A k \in Consoles : job'[k].cmd = job[k].cmd /\ job'[k].spoiled = job[k].spoiled
    BY <1>1, <1>3 DEF Arguments, Jobs
  <2>2. Goto(c, "stage", "wipe") /\ tree' = tree
    BY <1>3 DEF Arguments
  <2> QED
    BY <2>1, <2>2, TreeGoto DEF Labels, Making
<1>4. CASE Wipe(c) \/ WipeFails(c) \/ Configure(c)
  <2>1. PICK K : Spoil(K)
    BY <1>4 DEF Wipe, WipeFails, Configure
  <2>2. \A k \in Consoles : /\ job'[k].cmd = job[k].cmd
                            /\ job[k].spoiled => job'[k].spoiled
    BY <1>1, <2>1, SpoiledFacts DEF Spoil
  <2>3. tree' = tree
    BY <1>4 DEF Wipe, WipeFails, Configure
  <2>4. Goto(c, "wipe", "configure") \/ Goto(c, "configure", "compile")
    BY <1>4 DEF Wipe, WipeFails, Configure
  <2> QED
    BY <2>2, <2>3, <2>4, TreeGoto DEF Labels, Making
<1>5. CASE Compile(c)
  <2>1. \A k \in Consoles : job'[k].cmd = job[k].cmd /\ job'[k].spoiled = job[k].spoiled
    BY <1>1, <1>5 DEF Compile, Jobs
  <2>2. PICK to \in {"stage", "pack", "done"} : Goto(c, "compile", to)
    BY <1>5 DEF Compile, AfterCompile
  <2>3. tree' = tree /\ to \in Labels
    BY <1>5 DEF Compile, Labels
  <2> QED
    BY <2>1, <2>2, <2>3, TreeGoto DEF Making
<1>6. CASE Pack(c)
  BY <1>6, TreeGoto DEF Pack, Labels
<1> QED
  BY <1>2, <1>3, <1>4, <1>5, <1>6 DEF Make

LEMMA TreeStep ==
    ASSUME TypeInv, TreeInv, [BuildNext]_bvars
    PROVE  TreeInv'
<1>1. CASE UNCHANGED bvars \/ Push
  BY <1>1 DEF bvars, Push, TreeInv, Alone, Safe, Holds, At, Branch
<1>2. ASSUME NEW c \in Consoles, NEW cmd \in Commands, Start(c, cmd) PROVE TreeInv'
  <2>1. Goto(c, "idle", "setup") /\ tree' = tree /\ \A k \in Consoles : k # c => job'[k] = job[k]
    BY <1>2 DEF Start, TypeInv, BuildTypeOK
  <2> QED
    BY <2>1, TreeGoto DEF Labels
<1>3. ASSUME NEW c \in Consoles, Setup(c) \/ SetupFails(c) PROVE TreeInv'
  <2>1. PICK to \in {"failed", "done", "source"} : Goto(c, "setup", to)
    BY <1>3 DEF Setup, SetupFails
  <2>2. tree' = tree /\ job' = job /\ to \in Labels
    BY <1>3 DEF Setup, SetupFails, Labels
  <2> QED
    BY <2>1, <2>2, TreeGoto
<1>4. ASSUME NEW c \in Consoles, Exit(c) PROVE TreeInv'
  <2>1. PICK from : Goto(c, from, "idle")
    BY <1>4 DEF Exit
  <2>2. tree' = tree /\ \A k \in Consoles : k # c => job'[k] = job[k]
    BY <1>4 DEF Exit, TypeInv, BuildTypeOK
  <2> QED
    BY <2>1, <2>2, TreeGoto DEF Labels
<1>5. ASSUME NEW c \in Consoles, ChildFails(c) PROVE TreeInv'
  <2>1. PICK from : Goto(c, from, "failed")
    BY <1>5 DEF ChildFails
  <2>2. tree' = tree /\ job' = job
    BY <1>5 DEF ChildFails, OnlyPc
  <2> QED
    BY <2>1, <2>2, TreeGoto DEF Labels
<1> QED
  BY <1>1, <1>2, <1>3, <1>4, <1>5, FetchTree, MakeTree, KillTree DEF BuildNext, Step

\* With any number of consoles that clone, check out, pull, fail and are killed at
\* any time, a build that no other console's git disturbed configures and compiles from
\* a whole tree: a torn one is checked out first, and a killed git keeps its locks
\* (ClangbuilderTarget.ps1:239).
THEOREM NothingFromHalfATree == BuildSpec => []NeverFromHalfATree
<1>1. BuildInit => TypeInv /\ EnvInv /\ TreeInv
  BY InitType, InitEnv, InitTree
<1>2. TypeInv /\ EnvInv /\ TreeInv /\ [BuildNext]_bvars => (TypeInv /\ EnvInv /\ TreeInv)'
  BY TypeStep, EnvStep, TreeStep
<1>3. TreeInv => NeverFromHalfATree
  BY DEF TreeInv, Safe, NeverFromHalfATree, Readers
<1> QED
  BY <1>1, <1>2, <1>3, PTL DEF BuildSpec


-----------------------------------------------------------------------------
(* What "compile llvm done, you can use it" promises.  The invariant says  *)
(* at each label what the build has in its directory so far, and that      *)
(* whoever takes it away spoils the build.                                 *)

\* Two scripts at work have different numbers.
Unique ==
    \A c, k \in Consoles :
        ~At(c, "idle") /\ ~At(k, "idle") /\ job[c].run = job[k].run => c = k

\* Only the git branches have trees, and a tree has a revision.
Cloning == {"clone", "cloning", "checkout", "pull", "pulling"}
TreesMade ==
    /\ \A b \in Branches : tree[b].st # "none" => b \in Git /\ tree[b].rev # 0
    /\ \A c \in Consoles : pc[c] \in Cloning => Branch(c) \in Git

\* The stage of a build, and the compiler it gives to cmake.
Early == Cloning \cup {"setup", "source", "download"}
Staged(c) ==
    /\ pc[c] \in Early => job[c].stage = 1
    /\ job[c].stage = 2 => Engine(c) = "NinjaBootstrap"
    /\ pc[c] \in {"pack", "done"} /\ Engine(c) = "NinjaBootstrap" /\ ~job[c].cmd.env =>
         job[c].stage = 2
    /\ At(c, "pack") => job[c].cmd.pack
    /\ pc[c] \in {"wipe", "configure", "compile"} /\ ~job[c].spoiled /\ "missing" \notin Prebuilt =>
         \/ Engine(c) = "NinjaBootstrap" /\ job[c].stage = 1
         \/ job[c].with = Promised(c)

\* The first build of a console has the tools it asked for.
Fits(c, tools) ==
    \A t \in tools : /\ job[c].cmd.id = NoId \/ t[1] \in {job[c].cmd.id, External}
                     /\ t[2] = job[c].cmd.arch
Equipped(c) ==
    job[c].fresh =>
        /\ At(c, "setup") => env[c] = Clean
        /\ pc[c] \notin {"idle", "setup", "failed"} => Fits(c, env[c].tools)

\* What a build that was not spoiled has in its directory.
Made(c) ==
    LET o == out[Dir(c)]
    IN o.files = {job[c].run} /\ o.rev # 0 /\ (job[c].fresh => Fits(c, o.tools))
AsPromised(c) == "missing" \notin Prebuilt => out[Dir(c)].with = Promised(c)
Own(c) ==
    LET o == out[Dir(c)] IN
    ~job[c].spoiled =>
        /\ At(c, "stage") /\ job[c].stage = 2 => out["msvcninja"].files = {job[c].run}
        /\ At(c, "configure") => o.files = {}
        /\ At(c, "compile") => /\ Made(c) /\ o.step = "configured" /\ o.with = job[c].with
                               /\ tree[Branch(c)] = Whole(o.rev)
        /\ At(c, "pack") => Made(c) /\ o.step = "built" /\ AsPromised(c)
        /\ At(c, "done") /\ ~job[c].cmd.env =>
              Made(c) /\ o.step = (IF job[c].cmd.pack THEN "packed" ELSE "built") /\ AsPromised(c)

DoneInv == Unique /\ TreesMade /\ \A c \in Consoles : Staged(c) /\ Equipped(c) /\ Own(c)

-----------------------------------------------------------------------------
(* The others.                                                             *)

\* A build is as it was, or spoiled.
Alike(k) ==
    /\ job'[k].run = job[k].run /\ job'[k].cmd = job[k].cmd /\ job'[k].fresh = job[k].fresh
    /\ job'[k].stage = job[k].stage /\ job'[k].with = job[k].with
    /\ job[k].spoiled => job'[k].spoiled

\* Spoiling changes nothing else.
LEMMA SpoiledAlike ==
    ASSUME BuildTypeOK, NEW K, job' = Spoiled(K), NEW k \in Consoles
    PROVE  Alike(k) /\ job'[k].spoiled = (job[k].spoiled \/ k \in K)
<1>1. job[k] \in Jobs(runs)
  BY JobFacts
<1>2. job'[k] = [job[k] EXCEPT !.spoiled = @ \/ k \in K]
  BY DEF Spoiled
<1> QED
  BY <1>1, <1>2 DEF Jobs, Alike

\* The directory d is one that build k relies on.
Relies(k, d) ==
    \/ pc[k] \in {"configure", "compile", "pack"} /\ d = Dir(k)
    \/ At(k, "done") /\ ~job[k].cmd.env /\ d = Dir(k)
    \/ At(k, "stage") /\ job[k].stage = 2 /\ d = "msvcninja"

\* Who relies on a directory has files there, or will have, and is alone.
LEMMA Relying ==
    ASSUME NEW k \in Consoles, Own(k), ~job[k].spoiled, NEW d, Relies(k, d)
    PROVE  k \in Owners(d) /\ out[d].files \subseteq {job[k].run}
BY DEF Own, Relies, Owners, Made, At

\* A step of another console keeps what is said of a build that it does not spoil,
\* if it leaves alone what the build relies on.
LEMMA OthersKept ==
    ASSUME NEW k \in Consoles, Staged(k), Equipped(k), Own(k),
           pc'[k] = pc[k], env'[k] = env[k], Alike(k),
           \A d \in Dirs : ~job[k].spoiled /\ ~job'[k].spoiled /\ Relies(k, d) => out'[d] = out[d],
           ~job[k].spoiled /\ ~job'[k].spoiled /\ At(k, "compile") =>
              tree'[Branch(k)] = tree[Branch(k)]
    PROVE  Staged(k)' /\ Equipped(k)' /\ Own(k)'
<1>1. Branch(k)' = Branch(k) /\ Engine(k)' = Engine(k) /\ Dir(k)' = Dir(k)
      /\ Promised(k)' = Promised(k)
  BY DEF Alike, Branch, Engine, Dir, Promised
<1>2. Staged(k)'
  BY <1>1 DEF Staged, Alike, At
<1>3. Equipped(k)'
  BY DEF Equipped, Alike, Fits, At
<1>4. ASSUME ~job'[k].spoiled PROVE Own(k)'
  <2>1. ~job[k].spoiled
    BY <1>4 DEF Alike
  <2>2. Dir(k) \in Dirs /\ "msvcninja" \in Dirs
    BY DEF Dir, Dirs
  <2>3. At(k, "stage") /\ job[k].stage = 2 => out'["msvcninja"].files = {job[k].run}
    BY <1>4, <2>1, <2>2 DEF Relies, Own
  <2>4. pc[k] \in {"configure", "compile", "pack"} \/ (At(k, "done") /\ ~job[k].cmd.env)
           => out'[Dir(k)] = out[Dir(k)]
    BY <1>4, <2>1, <2>2 DEF Relies
  <2>5. CASE At(k, "configure")
    BY <2>1, <2>4, <2>5, <1>1 DEF Own, At
  <2> DEFINE o == out[Dir(k)]
  <2>9. out'[Dir(k)] = o /\ Made(k) => Made(k)'
    BY <1>1 DEF Made, Fits, Alike
  <2>10. out'[Dir(k)] = o /\ AsPromised(k) => AsPromised(k)'
    BY <1>1 DEF AsPromised
  <2>6. CASE At(k, "compile")
    <3>1. out'[Dir(k)] = o /\ tree'[Branch(k)] = tree[Branch(k)]
      BY <1>4, <2>1, <2>4, <2>6 DEF At
    <3>2. Made(k)' /\ o.step = "configured" /\ o.with = job[k].with /\ tree[Branch(k)] = Whole(o.rev)
      BY <2>1, <2>6, <2>9, <3>1 DEF Own
    <3> QED
      BY <2>6, <3>1, <3>2, <1>1 DEF Own, Alike, At
  <2>7. CASE At(k, "pack")
    <3>1. out'[Dir(k)] = o
      BY <2>4, <2>7 DEF At
    <3>2. Made(k)' /\ o.step = "built" /\ AsPromised(k)'
      BY <2>1, <2>7, <2>9, <2>10, <3>1 DEF Own
    <3> QED
      BY <2>7, <3>1, <3>2, <1>1 DEF Own, At
  <2>8. CASE At(k, "done")
    <3>1. CASE job[k].cmd.env
      BY <2>8, <3>1 DEF Own, At, Alike
    <3>2. CASE ~job[k].cmd.env
      <4>1. out'[Dir(k)] = o
        BY <2>4, <2>8, <3>2 DEF At
      <4>2. /\ Made(k)' /\ AsPromised(k)'
            /\ o.step = (IF job[k].cmd.pack THEN "packed" ELSE "built")
        BY <2>1, <2>8, <2>9, <2>10, <3>2, <4>1 DEF Own
      <4> QED
        BY <2>8, <4>1, <4>2, <1>1 DEF Own, At, Alike
    <3> QED
      BY <3>1, <3>2
  <2> QED
    BY <2>3, <2>5, <2>6, <2>7, <2>8 DEF Own, At, Alike
<1>5. job'[k].spoiled => Own(k)'
  BY DEF Own
<1> QED
  BY <1>2, <1>3, <1>4, <1>5

\* Numbers are not given away.
LEMMA UniqueKept ==
    ASSUME Unique,
           \A k \in Consoles : ~At(k, "idle")' => ~At(k, "idle") /\ job'[k].run = job[k].run
    PROVE  Unique'
BY DEF Unique

LEMMA TreesKept ==
    ASSUME TreesMade, NEW c \in Consoles, tree' = tree,
           \A k \in Consoles : k # c => pc'[k] = pc[k] /\ job'[k].cmd = job[k].cmd,
           pc'[c] \in Cloning => Branch(c)' \in Git
    PROVE  TreesMade'
BY DEF TreesMade, Branch

\* A step of console c leaves the others what they rely on.
Harmless(c) ==
    \A k \in Consoles : k # c =>
        /\ pc'[k] = pc[k] /\ env'[k] = env[k] /\ Alike(k)
        /\ \A d \in Dirs : ~job[k].spoiled /\ ~job'[k].spoiled /\ Relies(k, d) => out'[d] = out[d]
        /\ ~job[k].spoiled /\ ~job'[k].spoiled /\ At(k, "compile") =>
              tree'[Branch(k)] = tree[Branch(k)]

LEMMA Stepped ==
    ASSUME DoneInv, NEW c \in Consoles, Harmless(c), Unique', TreesMade',
           Staged(c)', Equipped(c)', Own(c)'
    PROVE  DoneInv'
<1>1. ASSUME NEW k \in Consoles PROVE Staged(k)' /\ Equipped(k)' /\ Own(k)'
  <2>1. CASE k = c
    BY <2>1
  <2>2. CASE k # c
    <3>1. Staged(k) /\ Equipped(k) /\ Own(k)
      BY DEF DoneInv
    <3> QED
      BY <2>2, <3>1, OthersKept DEF Harmless
  <2> QED
    BY <2>1, <2>2
<1> QED
  BY <1>1 DEF DoneInv

\* A step that changes neither trees nor directories.
LEMMA QuietStep ==
    ASSUME DoneInv, NEW c \in Consoles, out' = out, tree' = tree,
           \A k \in Consoles : k # c => pc'[k] = pc[k] /\ env'[k] = env[k] /\ job'[k] = job[k],
           ~At(c, "idle")' => ~At(c, "idle") /\ job'[c].run = job[c].run,
           pc'[c] \in Cloning => Branch(c)' \in Git,
           Staged(c)', Equipped(c)', Own(c)'
    PROVE  DoneInv'
<1>1. Harmless(c)
  BY DEF Harmless, Alike
<1>2. Unique'
  BY UniqueKept DEF DoneInv, At
<1>3. TreesMade'
  BY TreesKept DEF DoneInv
<1> QED
  BY <1>1, <1>2, <1>3, Stepped

\* A build that fails promises nothing.
LEMMA Failed ==
    ASSUME DoneInv, NEW c \in Consoles, pc'[c] = "failed", job'[c] = job[c]
    PROVE  Staged(c)' /\ Equipped(c)' /\ Own(c)'
<1>1. Staged(c)
  BY DEF DoneInv
<1>2. Staged(c)'
  BY <1>1 DEF Staged, At, Early, Cloning, Engine
<1> QED
  BY <1>2 DEF Equipped, Own, At

\* Before its first stage a build has nothing yet.
LEMMA EarlyStep ==
    ASSUME DoneInv, NEW c \in Consoles, pc[c] \in Early \ {"setup"},
           pc'[c] \in (Early \ {"setup"}) \cup {"stage"}, Alike(c), env'[c] = env[c]
    PROVE  Staged(c)' /\ Equipped(c)' /\ Own(c)'
<1>1. Staged(c) /\ Equipped(c)
  BY DEF DoneInv
<1>2. job[c].stage = 1 /\ job'[c].stage = 1
  BY <1>1 DEF Staged, Alike
<1>3. Staged(c)'
  BY <1>2 DEF Staged, At, Early, Cloning
<1>4. Equipped(c)'
  BY <1>1 DEF Equipped, At, Early, Cloning, Alike, Fits
<1>5. Own(c)'
  BY <1>2 DEF Own, At, Early, Cloning
<1> QED
  BY <1>3, <1>4, <1>5

-----------------------------------------------------------------------------
(* The console.                                                            *)

\* A console without tools gets those that were asked for.
LEMMA CleanFits ==
    ASSUME NEW id, NEW arch
    PROVE  InitializeVisualStudio(Machine, Clean, id, arch).env.tools \subseteq {<<id, arch>>}
<1>1. ~Clean.init /\ Clean.tools = {}
  BY DEF Clean
<1>2. CASE id = NoId
  BY <1>1, <1>2 DEF InitializeVisualStudio, Answer
<1>3. CASE id # NoId /\ id = EWDK
  <2>1. InitializeVisualStudio(Machine, Clean, id, arch) = InitializeEnterpriseWDK(Machine, Clean, arch)
    BY <1>1, <1>3 DEF InitializeVisualStudio
  <2> DEFINE e == [Clean EXCEPT !.init = TRUE, !.tools = @ \cup {<<EWDK, arch>>},
                                !.libs = {<<EWDK, arch>>}]
  <2>2. e.tools = {<<id, arch>>}
    BY <1>3 DEF Clean
  <2>3. InitializeEnterpriseWDK(Machine, Clean, arch) \in {Answer(TRUE, e), Answer(FALSE, Clean)}
    BY DEF InitializeEnterpriseWDK
  <2> HIDE DEF e
  <2> QED
    BY <1>1, <2>1, <2>2, <2>3 DEF Answer
<1>4. CASE id # NoId /\ id # EWDK
  <2>1. InitializeVisualStudio(Machine, Clean, id, arch) = InitializeInstance(Machine, Clean, id, arch)
    BY <1>1, <1>4 DEF InitializeVisualStudio
  <2> DEFINE named == [Clean EXCEPT !.version = TRUE]
             ready == [named EXCEPT !.init = TRUE]
             f == Vcvars(ready, id, arch)
  <2>2. named.tools = {} /\ ready.tools = {} /\ f.tools \subseteq {<<id, arch>>}
    BY DEF Clean, Vcvars
  <2>3. InitializeInstance(Machine, Clean, id, arch) \in
           {Answer(FALSE, Clean), Answer(FALSE, named), Answer(TRUE, f), Answer(TRUE, ready)}
    BY DEF InitializeInstance
  <2> HIDE DEF named, ready, f
  <2>4. InitializeInstance(Machine, Clean, id, arch).env \in {Clean, named, f, ready}
    BY <2>3 DEF Answer
  <2> QED
    BY <1>1, <2>1, <2>2, <2>4
<1> QED
  BY <1>2, <1>3, <1>4

LEMMA PrepareFits ==
    ASSUME NEW cmd, NEW t \in Prepare(Machine, Clean, cmd).env.tools
    PROVE  (cmd.id = NoId \/ t[1] \in {cmd.id, External}) /\ t[2] = cmd.arch
<1> DEFINE start == IF cmd.clear THEN ReinitializePath(Clean) ELSE Clean
           done  == IF cmd.id = NoId THEN DefaultVisualStudio(Machine, start, cmd.arch)
                    ELSE InitializeVisualStudio(Machine, start, cmd.id, cmd.arch)
<1>1. start = Clean
  BY DEF ReinitializePath, Clean
<1>2. t \in done.env.tools \/ t = <<External, cmd.arch>>
  <2>1. Prepare(Machine, Clean, cmd).env \in
           {done.env, InitializeExtranl(Machine, done.env, cmd.arch)}
    BY DEF Prepare, Answer
  <2> HIDE DEF done
  <2>2. t \in InitializeExtranl(Machine, done.env, cmd.arch).tools
           => t \in done.env.tools \/ t = <<External, cmd.arch>>
    BY DEF InitializeExtranl
  <2> QED
    BY <2>1, <2>2
<1> HIDE DEF start
<1>a. CASE t = <<External, cmd.arch>>
  BY <1>a
<1>3. CASE t \in done.env.tools /\ cmd.id # NoId
  <2>1. done = InitializeVisualStudio(Machine, Clean, cmd.id, cmd.arch)
    BY <1>1, <1>3
  <2>2. t = <<cmd.id, cmd.arch>>
    BY <1>3, <2>1, CleanFits
  <2> QED
    BY <2>2
<1>4. CASE t \in done.env.tools /\ cmd.id = NoId
  <2>1. done = DefaultVisualStudio(Machine, Clean, cmd.arch)
    BY <1>1, <1>4
  <2>2. \/ DefaultVisualStudio(Machine, Clean, cmd.arch) = Answer(FALSE, Clean)
        \/ \E id : DefaultVisualStudio(Machine, Clean, cmd.arch)
                     = InitializeVisualStudio(Machine, Clean, id, cmd.arch)
    BY DEF DefaultVisualStudio
  <2>3. Answer(FALSE, Clean).env.tools = {}
    BY DEF Answer, Clean
  <2>4. \E id : t = <<id, cmd.arch>>
    BY <1>4, <2>1, <2>2, <2>3, CleanFits
  <2> QED
    BY <1>4, <2>4
<1> QED
  BY <1>2, <1>a, <1>3, <1>4

LEMMA StartDone ==
    ASSUME TypeInv, DoneInv, NEW c \in Consoles, NEW cmd \in Commands, Start(c, cmd)
    PROVE  DoneInv'
<1>1. /\ pc'[c] = "setup" /\ \A k \in Consoles : k # c => pc'[k] = pc[k]
      /\ job'[c] = NewRun(runs + 1, cmd, env[c] = Clean)
      /\ \A k \in Consoles : k # c => job'[k] = job[k]
      /\ out' = out /\ tree' = tree /\ env' = env
  BY Moved DEF Start, TypeInv, BuildTypeOK, Labels
<1>2. /\ job'[c].run = runs + 1 /\ job'[c].stage = 1
      /\ job'[c].fresh = (env[c] = Clean)
  BY <1>1 DEF NewRun
<1>3. Unique'
  <2>1. runs \in Nat /\ \A k \in Consoles : job[k].run \in 0 .. runs
    <3>1. runs \in Nat
      BY DEF TypeInv, BuildTypeOK
    <3> QED
      BY <3>1, JobFacts DEF TypeInv, Jobs
  <2>2. \A k \in Consoles : job[k].run # runs + 1
    BY <2>1
  <2> QED
    BY <1>1, <1>2, <2>2 DEF Unique, DoneInv, At
<1>4. Staged(c)' /\ Equipped(c)' /\ Own(c)'
  <2>1. Staged(c)'
    BY <1>1, <1>2 DEF Staged, At, Early, Cloning
  <2>2. Equipped(c)'
    BY <1>1, <1>2 DEF Equipped, At
  <2>3. Own(c)'
    BY <1>1 DEF Own, At
  <2> QED
    BY <2>1, <2>2, <2>3
<1>5. Harmless(c)
  BY <1>1 DEF Harmless, Alike
<1>6. TreesMade'
  BY <1>1, TreesKept DEF DoneInv, Cloning
<1> QED
  BY <1>3, <1>4, <1>5, <1>6, Stepped

\* The end of a script, one way or another.
LEMMA EndDone ==
    ASSUME DoneInv, NEW c \in Consoles, pc'[c] = "idle", job'[c] = NoRun, Harmless(c),
           \A k \in Consoles : k # c => job'[k].run = job[k].run, TreesMade'
    PROVE  DoneInv'
<1>1. job'[c].stage = 1
  BY DEF NoRun, NewRun
<1>2. Staged(c)'
  BY <1>1 DEF Staged, At, Early, Cloning
<1>3. Equipped(c)' /\ Own(c)'
  BY DEF Equipped, Own, At
<1>4. Unique'
  BY UniqueKept DEF DoneInv, Harmless, At
<1> QED
  BY <1>2, <1>3, <1>4, Stepped

LEMMA SetupDone ==
    ASSUME TypeInv, DoneInv, NEW c \in Consoles, Setup(c) \/ SetupFails(c)
    PROVE  DoneInv'
<1>1. /\ out' = out /\ tree' = tree /\ job' = job /\ pc[c] = "setup"
      /\ pc'[c] \in {"failed", "done", "source"}
      /\ \A k \in Consoles : k # c => pc'[k] = pc[k] /\ env'[k] = env[k]
  <2>1. PICK to \in {"failed", "done", "source"} : Goto(c, "setup", to)
    BY DEF Setup, SetupFails
  <2>2. /\ pc[c] = "setup" /\ pc'[c] = to
        /\ \A k \in Consoles : k # c => pc'[k] = pc[k]
    BY <2>1, Moved DEF TypeInv, Labels
  <2>3. \A k \in Consoles : k # c => env'[k] = env[k]
    BY DEF Setup, SetupFails, TypeInv, BuildTypeOK
  <2> QED
    BY <2>2, <2>3 DEF Setup, SetupFails
<1>2. CASE pc'[c] = "failed"
  BY <1>1, <1>2, Failed, QuietStep DEF At, Cloning
<1>3. CASE pc'[c] \in {"done", "source"}
  <2>1. /\ pc'[c] = (IF job[c].cmd.env THEN "done" ELSE "source")
        /\ env'[c] = Prepare(Machine, env[c], job[c].cmd).env
    BY <1>3 DEF Setup, SetupFails, Goto, TypeInv, BuildTypeOK
  <2>2. Staged(c) /\ Equipped(c)
    BY DEF DoneInv
  <2>3. job[c].stage = 1
    BY <1>1, <2>2 DEF Staged, Early
  <2>4. Staged(c)'
    BY <1>1, <2>1, <2>3 DEF Staged, At, Early, Cloning
  <2>5. Equipped(c)'
    BY <1>1, <2>1, <2>2, PrepareFits DEF Equipped, Fits, At
  <2>6. Own(c)'
    BY <1>1, <2>1 DEF Own, At
  <2> QED
    BY <1>1, <1>3, <2>4, <2>5, <2>6, QuietStep DEF At, Cloning
<1> QED
  BY <1>1, <1>2, <1>3

-----------------------------------------------------------------------------
(* The source tree.                                                        *)

\* Git at work on the tree of branch b: who compiles from it is spoiled, or finds
\* it as it was.
LEMMA TreeDone ==
    ASSUME TypeInv, DoneInv, NEW c \in Consoles, NEW b \in Git, b = Branch(c), NEW t,
           tree' = [tree EXCEPT ![b] = t], t.st # "none" => t.rev # 0,
           out' = out, env' = env, ~At(c, "idle"), Alike(c),
           \A k \in Consoles : k # c => pc'[k] = pc[k] /\ Alike(k),
           \A k \in Consoles : k # c /\ At(k, "compile") /\ Branch(k) = b
                                /\ ~job[k].spoiled /\ ~job'[k].spoiled => t = tree[b],
           Staged(c)', Equipped(c)', Own(c)'
    PROVE  DoneInv'
<1>1. tree \in [Branches -> Trees(remote)] /\ b \in Branches
  BY DEF TypeInv, BuildTypeOK, Git, Branches
<1>2. tree'[b] = t /\ \A d \in Branches : d # b => tree'[d] = tree[d]
  BY <1>1
<1>3. Harmless(c)
  <2>1. \A k \in Consoles : Branch(k) \in Branches
    BY JobFacts DEF TypeInv
  <2> QED
    BY <1>2, <2>1 DEF Harmless
<1>4. Unique'
  BY UniqueKept DEF DoneInv, At, Alike
<1>5. TreesMade'
  <2>1. \A d \in Branches : tree'[d].st # "none" => d \in Git /\ tree'[d].rev # 0
    BY <1>2 DEF DoneInv, TreesMade
  <2>2. \A k \in Consoles : Branch(k)' = Branch(k)
    BY DEF Branch, Alike
  <2> QED
    BY <2>1, <2>2 DEF DoneInv, TreesMade
<1> QED
  BY <1>3, <1>4, <1>5, Stepped

\* Who compiles, and was not spoiled, has the tree whole.
LEMMA CompilersTree ==
    ASSUME TypeInv, DoneInv, NEW k \in Consoles, At(k, "compile"), ~job[k].spoiled
    PROVE  tree[Branch(k)].st = "whole"
<1>1. Own(k)
  BY DEF DoneInv
<1>2. PICK rev : tree[Branch(k)] = Whole(rev)
  BY <1>1 DEF Own
<1> QED
  BY <1>2 DEF Whole

LEMMA FetchDone ==
    ASSUME TypeInv, TreeInv, DoneInv, NEW c \in Consoles, Fetch(c)
    PROVE  DoneInv'
<1> DEFINE b == Branch(c)
<1>1. /\ b \in Branches /\ tree[b] \in Trees(remote) /\ remote # 0
      /\ tree[b].st # "none" => tree[b].rev # 0
      /\ pc[c] \in Cloning => b \in Git
  BY JobFacts DEF TypeInv, BuildTypeOK, DoneInv, TreesMade
<1> HIDE DEF b
<1>2. ASSUME OnlyPc, NEW from \in Early \ {"setup"}, NEW to, Goto(c, from, to),
             to \in (Early \ {"setup"}) \cup {"stage", "failed"}, to \in Cloning => b \in Git
      PROVE  DoneInv'
  <2>1. /\ pc[c] = from /\ pc'[c] = to
        /\ \A k \in Consoles : k # c => pc'[k] = pc[k]
    BY <1>2, Moved DEF TypeInv, Labels, Early, Cloning
  <2>2. out' = out /\ tree' = tree /\ env' = env /\ job' = job
    BY <1>2 DEF OnlyPc
  <2>3. Staged(c)' /\ Equipped(c)' /\ Own(c)'
    BY <1>2, <2>1, <2>2, Failed, EarlyStep DEF Alike
  <2>4. ~At(c, "idle") /\ Branch(c)' = b
    BY <1>2, <2>1, <2>2 DEF At, Early, Cloning, Branch, b
  <2> QED
    BY <1>2, <2>1, <2>2, <2>3, <2>4, QuietStep
<1>3. CASE Look(c)
  <2>1. OnlyPc /\ \E to \in {"download", "clone", "checkout"} :
                     Goto(c, "source", to) /\ (to # "download" => b # "Release")
    BY <1>3 DEF Look, b
  <2>2. b # "Release" => b \in Git
    BY <1>1 DEF Branches, Git
  <2> QED
    BY <1>2, <2>1, <2>2 DEF Early, Cloning
<1>4. CASE CloneRefused(c) \/ CheckoutFails(c) \/ Download(c) \/ PullNothing(c) \/ PullRefused(c)
  <2>1. OnlyPc /\ \E from \in Early \ {"setup"}, to \in {"failed", "stage"} : Goto(c, from, to)
    BY <1>4 DEF CloneRefused, CheckoutFails, Download, PullNothing, PullRefused, Early, Cloning
  <2> QED
    BY <1>2, <2>1 DEF Cloning
<1>5. ASSUME NEW from \in Cloning, NEW to \in Cloning \cup {"stage", "failed"}, Goto(c, from, to),
             NEW t, tree' = [tree EXCEPT ![b] = t], t.st # "none" => t.rev # 0,
             out' = out, env' = env, job' = job,
             t = tree[b] \/ tree[b].st # "whole"
      PROVE  DoneInv'
  <2>1. /\ pc[c] = from /\ pc'[c] = to
        /\ \A k \in Consoles : k # c => pc'[k] = pc[k]
    BY <1>5, Moved DEF TypeInv, Labels, Cloning
  <2>2. \A k \in Consoles : Alike(k)
    BY <1>5 DEF Alike
  <2>3. Staged(c)' /\ Equipped(c)' /\ Own(c)'
    BY <1>5, <2>1, <2>2, Failed, EarlyStep DEF Early, Cloning
  <2>4. b \in Git /\ ~At(c, "idle")
    BY <1>1, <1>5, <2>1 DEF At, Cloning
  <2>5. \A k \in Consoles : k # c /\ At(k, "compile") /\ Branch(k) = b /\ ~job[k].spoiled
                            => t = tree[b]
    BY <1>5, CompilersTree
  <2> QED
    BY <1>5, <2>1, <2>2, <2>3, <2>4, <2>5, TreeDone DEF b
<1>6. CASE Clone(c)
  <2> DEFINE t == [st |-> "stuck", rev |-> remote]
  <2>1. /\ Goto(c, "clone", "cloning") /\ tree' = [tree EXCEPT ![b] = t]
        /\ tree[b].st # "whole" /\ out' = out /\ env' = env /\ job' = job
    BY <1>6 DEF Clone, SetTree, b
  <2>2. t.rev # 0
    BY <1>1
  <2> HIDE DEF t
  <2> QED
    BY <1>5, <2>1, <2>2 DEF Cloning
<1>7. CASE Cloned(c) \/ Pulled(c)
  <2> DEFINE t == [st |-> "whole", rev |-> tree[b].rev]
  <2>1. PICK from \in {"cloning", "pulling"} : Goto(c, from, "stage")
    BY <1>7 DEF Cloned, Pulled
  <2>2. tree' = [tree EXCEPT ![b] = t] /\ out' = out /\ env' = env /\ job' = job
    BY <1>7 DEF Cloned, Pulled, SetTree, b
  <2>3. tree[b].st = "stuck"
    BY <2>1 DEF TreeInv, Safe, Holds, Goto, At, b
  <2>4. t.rev # 0
    BY <1>1, <2>3
  <2> HIDE DEF t
  <2> QED
    BY <1>5, <2>1, <2>2, <2>3, <2>4 DEF Cloning
<1>8. CASE CloneFails(c)
  <2>1. /\ Goto(c, "cloning", "failed") /\ tree' = [tree EXCEPT ![b] = Missing]
        /\ out' = out /\ env' = env /\ job' = job
    BY <1>8 DEF CloneFails, b
  <2>2. tree[b].st = "stuck" /\ Missing.st = "none"
    BY <2>1 DEF TreeInv, Safe, Holds, Goto, At, b, Missing
  <2> QED
    BY <1>5, <2>1, <2>2 DEF Cloning
<1>9. CASE Checkout(c)
  <2> DEFINE t == [st |-> "whole", rev |-> tree[b].rev]
  <2>1. /\ Goto(c, "checkout", "pull") /\ tree' = [tree EXCEPT ![b] = t]
        /\ tree[b].st \in {"torn", "whole"} /\ out' = out /\ env' = env /\ job' = job
    BY <1>9 DEF Checkout, SetTree, b
  <2>2. t.rev # 0 /\ (t = tree[b] \/ tree[b].st # "whole")
    BY <1>1, <2>1 DEF Trees
  <2> HIDE DEF t
  <2> QED
    BY <1>5, <2>1, <2>2 DEF Cloning
<1>10. CASE Pull(c)
  <2> DEFINE t == [st |-> "stuck", rev |-> remote]
  <2>1. /\ Goto(c, "pull", "pulling") /\ tree' = [tree EXCEPT ![b] = t]
        /\ job' = Spoiled(Readers(b)) /\ out' = out /\ env' = env
    BY <1>10 DEF Pull, SetTree, Spoil, b
  <2>2. t.rev # 0
    BY <1>1
  <2> HIDE DEF t
  <2>3. /\ pc[c] = "pull" /\ pc'[c] = "pulling"
        /\ \A k \in Consoles : k # c => pc'[k] = pc[k]
    BY <2>1, Moved DEF TypeInv, Labels
  <2>4. \A k \in Consoles : Alike(k) /\ job'[k].spoiled = (job[k].spoiled \/ k \in Readers(b))
    BY <2>1, SpoiledAlike DEF TypeInv
  <2>5. \A k \in Consoles : At(k, "compile") /\ Branch(k) = b => k \in Readers(b)
    BY DEF Readers, At
  <2>6. Staged(c)' /\ Equipped(c)' /\ Own(c)'
    BY <2>1, <2>3, <2>4, EarlyStep DEF Early, Cloning
  <2>7. b \in Git /\ ~At(c, "idle")
    BY <1>1, <2>3 DEF At, Cloning
  <2> QED
    BY <2>1, <2>2, <2>3, <2>4, <2>5, <2>6, <2>7, TreeDone DEF b
<1> QED
  BY <1>3, <1>4, <1>6, <1>7, <1>8, <1>9, <1>10 DEF Fetch

LEMMA KillDone ==
    ASSUME TypeInv, TreeInv, DoneInv, NEW c \in Consoles, Kill(c)
    PROVE  DoneInv'
<1> DEFINE b == Branch(c)
           K == {k \in Consoles : At(k, "pull") /\ Branch(k) = b}
<1>1. /\ pc'[c] = "idle" /\ \A k \in Consoles : k # c => pc'[k] = pc[k] /\ env'[k] = env[k]
      /\ out' = out
  BY DEF Kill, TypeInv, BuildTypeOK
<1>2. CASE ~Holds(c)
  <2>1. tree' = tree /\ job' = [job EXCEPT ![c] = NoRun]
    BY <1>2 DEF Kill, Holds
  <2>2. job'[c] = NoRun /\ \A k \in Consoles : k # c => job'[k] = job[k]
    BY <2>1 DEF TypeInv, BuildTypeOK
  <2>3. Harmless(c)
    BY <1>1, <2>1, <2>2 DEF Harmless, Alike
  <2>4. TreesMade'
    BY <1>1, <2>1, <2>2, TreesKept DEF DoneInv, Cloning
  <2> QED
    BY <1>1, <2>2, <2>3, <2>4, EndDone
<1>3. CASE Holds(c)
  <2>1. b \in Branches /\ tree \in [Branches -> Trees(remote)]
    BY JobFacts DEF TypeInv, BuildTypeOK
  <2>2. tree[b].st = "stuck"
    BY <1>3 DEF TreeInv, Safe
  <2>3. b \in Git /\ tree[b].rev # 0
    BY <1>3, <2>1, <2>2 DEF DoneInv, TreesMade, Holds, Cloning
  <2>4. /\ job' = [Spoiled(K) EXCEPT ![c] = NoRun]
        /\ \E st \in {"stuck", "torn"} : tree' = [tree EXCEPT ![b] = [st |-> st, rev |-> tree[b].rev]]
    BY <1>3 DEF Kill, Holds, SetTree
  <2> HIDE DEF b, K
  <2>5. /\ \A d \in Branches : d # b => tree'[d] = tree[d]
        /\ tree'[b].rev # 0
    BY <2>1, <2>3, <2>4
  <2>6. /\ job'[c] = NoRun
        /\ \A k \in Consoles : k # c => Alike(k)
    <3>1. Spoiled(K) \in [Consoles -> Jobs(runs)]
      BY SpoiledFacts DEF TypeInv, BuildTypeOK
    <3>2. job'[c] = NoRun /\ \A k \in Consoles : k # c => job'[k] = Spoiled(K)[k]
      BY <2>4, <3>1
    <3>3. ASSUME NEW k \in Consoles, k # c PROVE Alike(k)
      <4>1. job'[k] = [job[k] EXCEPT !.spoiled = @ \/ k \in K] /\ job[k] \in Jobs(runs)
        BY <3>2, <3>3, JobFacts DEF Spoiled, TypeInv
      <4> QED
        BY <4>1 DEF Jobs, Alike
    <3> QED
      BY <3>2, <3>3
  <2>7. ASSUME NEW k \in Consoles, At(k, "compile"), ~job[k].spoiled
        PROVE  tree'[Branch(k)] = tree[Branch(k)]
    <3>1. Branch(k) # b /\ Branch(k) \in Branches
      BY <2>2, <2>7, CompilersTree, JobFacts DEF TypeInv
    <3> QED
      BY <2>5, <3>1
  <2>8. Harmless(c)
    BY <1>1, <2>6, <2>7 DEF Harmless
  <2>9. TreesMade'
    <3>1. \A d \in Branches : tree'[d].st # "none" => d \in Git /\ tree'[d].rev # 0
      BY <2>3, <2>5 DEF DoneInv, TreesMade
    <3>2. \A k \in Consoles : k # c => Branch(k)' = Branch(k)
      BY <2>6 DEF Branch, Alike
    <3> QED
      BY <3>1, <3>2, <1>1 DEF DoneInv, TreesMade, Cloning
  <2> QED
    BY <1>1, <2>6, <2>8, <2>9, EndDone DEF Alike
<1> QED
  BY <1>2, <1>3

LEMMA ExitDone ==
    ASSUME TypeInv, DoneInv, NEW c \in Consoles, Exit(c)
    PROVE  DoneInv'
<1>1. /\ pc'[c] = "idle" /\ \A k \in Consoles : k # c => pc'[k] = pc[k]
      /\ job'[c] = NoRun /\ \A k \in Consoles : k # c => job'[k] = job[k]
      /\ UNCHANGED <<tree, out, env>>
  BY DEF Exit, Goto, TypeInv, BuildTypeOK
<1>2. Harmless(c)
  BY <1>1 DEF Harmless, Alike
<1>3. TreesMade'
  BY <1>1, TreesKept DEF DoneInv, Cloning
<1> QED
  BY <1>1, <1>2, <1>3, EndDone

LEMMA FailDone ==
    ASSUME TypeInv, DoneInv, NEW c \in Consoles, NEW from, from # "idle", Goto(c, from, "failed"), OnlyPc
    PROVE  DoneInv'
<1>1. /\ pc[c] = from /\ pc'[c] = "failed"
      /\ \A k \in Consoles : k # c => pc'[k] = pc[k]
  BY Moved DEF TypeInv, Labels
<1>2. Staged(c)' /\ Equipped(c)' /\ Own(c)'
  BY <1>1, Failed DEF OnlyPc
<1> QED
  BY <1>1, <1>2, QuietStep DEF OnlyPc, At, Cloning

-----------------------------------------------------------------------------
(* The stages.                                                             *)

\* The compiler that is chosen is the one the engine stands for, but for the first
\* stage of NinjaBootstrap.
LEMMA ArgumentsDone ==
    ASSUME TypeInv, DoneInv, NEW c \in Consoles, Arguments(c)
    PROVE  DoneInv'
<1>1. PICK root \in Prebuilt :
         /\ Engine(c) = "NinjaIterate" => root # "unset"
         /\ job' = [job EXCEPT ![c].with = Compiler(c, root)]
  BY DEF Arguments
<1>2. /\ pc[c] = "stage" /\ pc'[c] = "wipe" /\ \A k \in Consoles : k # c => pc'[k] = pc[k]
      /\ UNCHANGED <<tree, out, env>>
  BY Moved DEF Arguments, TypeInv, Labels
<1>3. /\ job[c] \in Jobs(runs) /\ job \in [Consoles -> Jobs(runs)]
      /\ Staged(c) /\ Equipped(c) /\ Own(c)
  BY JobFacts DEF TypeInv, BuildTypeOK, DoneInv
<1>4. /\ job'[c].run = job[c].run /\ job'[c].cmd = job[c].cmd /\ job'[c].fresh = job[c].fresh
      /\ job'[c].stage = job[c].stage /\ job'[c].with = Compiler(c, root)
      /\ job'[c].spoiled = job[c].spoiled
      /\ \A k \in Consoles : k # c => job'[k] = job[k]
  BY <1>1, <1>3 DEF Jobs
<1>5. Engine(c)' = Engine(c) /\ Promised(c)' = Promised(c)
  BY <1>4 DEF Engine, Promised
<1>6. ASSUME ~job[c].spoiled, "missing" \notin Prebuilt,
             ~(Engine(c) = "NinjaBootstrap" /\ job[c].stage = 1)
      PROVE  Compiler(c, root) = Promised(c)
  <2>1. root # "missing" /\ root \in {"unset", "missing", "there"}
    BY <1>6, BuildAssumption
  <2>2. job[c].stage \in {1, 2}
    BY <1>3 DEF Jobs
  <2>3. CASE Engine(c) = "NinjaIterate"
    BY <1>1, <2>1, <2>3 DEF Compiler, Promised
  <2>4. CASE Engine(c) = "NinjaBootstrap"
    <3>1. out["msvcninja"].files # {}
      BY <1>2, <1>3, <1>6, <2>2, <2>4 DEF Own, At
    <3> QED
      BY <1>6, <2>2, <2>4, <3>1 DEF Compiler, Promised
  <2>5. CASE Engine(c) \notin {"NinjaIterate", "NinjaBootstrap"}
    BY <1>3, <2>5 DEF Compiler, Promised, Staged
  <2> QED
    BY <2>3, <2>4, <2>5
<1>7. Staged(c)'
  BY <1>2, <1>3, <1>4, <1>5, <1>6 DEF Staged, At, Early, Cloning
<1>8. Equipped(c)'
  BY <1>2, <1>3, <1>4 DEF Equipped, At, Fits
<1>9. Own(c)'
  BY <1>2 DEF Own, At
<1> QED
  BY <1>2, <1>4, <1>7, <1>8, <1>9, QuietStep DEF At, Cloning

\* A step that takes directory d from its owners.
LEMMA TakenDone ==
    ASSUME TypeInv, DoneInv, NEW c \in Consoles, NEW d, NEW K,
           \A k \in Owners(d) : k # c => k \in K, job' = Spoiled(K),
           \A e \in Dirs : e # d => out'[e] = out[e], tree' = tree, env' = env,
           ~At(c, "idle"), pc'[c] \notin Cloning,
           \A k \in Consoles : k # c => pc'[k] = pc[k],
           Staged(c)', Equipped(c)', Own(c)'
    PROVE  DoneInv'
<1>1. \A k \in Consoles : Alike(k) /\ job'[k].spoiled = (job[k].spoiled \/ k \in K)
  BY SpoiledAlike DEF TypeInv
<1>2. ASSUME NEW k \in Consoles, k # c, NEW e \in Dirs, ~job[k].spoiled, ~job'[k].spoiled, Relies(k, e)
      PROVE  out'[e] = out[e]
  <2>1. k \in Owners(e)
    BY <1>2, Relying DEF DoneInv
  <2>2. e # d
    BY <1>1, <1>2, <2>1
  <2> QED
    BY <2>2
<1>3. Harmless(c)
  BY <1>1, <1>2 DEF Harmless
<1>4. Unique'
  BY <1>1, UniqueKept DEF DoneInv, At, Alike
<1>5. TreesMade'
  BY <1>1, TreesKept DEF DoneInv, Alike
<1> QED
  BY <1>3, <1>4, <1>5, Stepped

LEMMA WipeDone ==
    ASSUME TypeInv, DoneInv, NEW c \in Consoles, Wipe(c) \/ WipeFails(c)
    PROVE  DoneInv'
<1> DEFINE d == Dir(c)
<1>1. /\ pc[c] = "wipe" /\ pc'[c] = "configure" /\ \A k \in Consoles : k # c => pc'[k] = pc[k]
      /\ tree' = tree /\ env' = env
  BY Moved DEF Wipe, WipeFails, TypeInv, Labels
<1>2. /\ Staged(c) /\ Equipped(c) /\ d \in Dirs /\ out \in [Dirs -> Outs(remote, runs)]
  BY JobFacts DEF DoneInv, TypeInv, BuildTypeOK
<1>3. \A e \in Dirs : e # d => out'[e] = out[e]
  BY <1>2 DEF Wipe, WipeFails
<1>4. PICK K : /\ job' = Spoiled(K) /\ \A k \in Owners(d) : k # c => k \in K
               /\ WipeFails(c) => c \in K
  <2>1. CASE Wipe(c)
    <3>1. job' = Spoiled(Owners(d) \ {c})
      BY <2>1 DEF Wipe, Spoil
    <3>2. CASE WipeFails(c)
      <4>1. job' = Spoiled(Owners(d) \cup {c})
        BY <3>2 DEF WipeFails, Spoil
      <4> QED
        BY <4>1
    <3> QED
      BY <3>1, <3>2
  <2>2. CASE WipeFails(c)
    <3>1. job' = Spoiled(Owners(d) \cup {c})
      BY <2>2 DEF WipeFails, Spoil
    <3> QED
      BY <3>1
  <2> QED
    BY <2>1, <2>2
<1>5. Alike(c) /\ job'[c].spoiled = (job[c].spoiled \/ c \in K)
  BY <1>4, SpoiledAlike DEF TypeInv
<1>6. Engine(c)' = Engine(c) /\ Promised(c)' = Promised(c) /\ Dir(c)' = d
  BY <1>5 DEF Alike, Engine, Promised, Dir
<1>7. Staged(c)'
  BY <1>1, <1>2, <1>5, <1>6 DEF Staged, At, Early, Cloning, Alike
<1>8. Equipped(c)'
  BY <1>1, <1>2, <1>5 DEF Equipped, At, Fits, Alike
<1>9. Own(c)'
  <2>1. CASE job'[c].spoiled
    BY <2>1 DEF Own
  <2>2. CASE ~job'[c].spoiled
    <3>1. out' = [out EXCEPT ![d] = Nothing]
      BY <1>4, <1>5, <2>2 DEF Wipe
    <3>2. out'[d].files = {}
      BY <1>2, <3>1 DEF Nothing
    <3> QED
      BY <1>1, <1>6, <3>2 DEF Own, At
  <2> QED
    BY <2>1, <2>2
<1> HIDE DEF d
<1> QED
  BY <1>1, <1>3, <1>4, <1>7, <1>8, <1>9, TakenDone DEF At, Cloning

\* The directory is this build's alone, or it is spoiled; and the tree it is made
\* from is whole.
LEMMA ConfigureDone ==
    ASSUME TypeInv, TreeInv, DoneInv, NEW c \in Consoles, Configure(c)
    PROVE  DoneInv'
<1> DEFINE d == Dir(c)
           b == Branch(c)
           others == Owners(d) \ {c}
           K == IF others = {} THEN {} ELSE {c} \cup others
           new == [files |-> out[d].files \cup {job[c].run}, rev |-> tree[b].rev,
                   tools |-> env[c].tools, with |-> job[c].with, step |-> "configured"]
<1>1. /\ pc[c] = "configure" /\ pc'[c] = "compile" /\ \A k \in Consoles : k # c => pc'[k] = pc[k]
      /\ tree' = tree /\ env' = env
  BY Moved DEF Configure, TypeInv, Labels
<1>2. /\ Staged(c) /\ Equipped(c) /\ Own(c) /\ d \in Dirs /\ out \in [Dirs -> Outs(remote, runs)]
      /\ b \in Branches /\ tree[b] \in Trees(remote)
  BY JobFacts DEF DoneInv, TypeInv, BuildTypeOK
<1>3. out' = [out EXCEPT ![d] = new] /\ job' = Spoiled(K) /\ tree[b].st # "none"
  BY DEF Configure, Spoil, Configurable
<1>4. b \in Git /\ tree[b].rev # 0
  BY <1>2, <1>3 DEF DoneInv, TreesMade
<1>5. ~job[c].spoiled => tree[b] = Whole(tree[b].rev)
  <2>1. ~job[c].spoiled => tree[b].st = "whole"
    BY <1>1, <1>4 DEF TreeInv, Safe
  <2> QED
    BY <1>2, <2>1 DEF Trees, Whole
<1>6. new.files = out[d].files \cup {job[c].run} /\ new.rev = tree[b].rev
      /\ new.tools = env[c].tools /\ new.with = job[c].with /\ new.step = "configured"
  OBVIOUS
<1> HIDE DEF d, b, new
<1>7. out'[d] = new /\ \A e \in Dirs : e # d => out'[e] = out[e]
  BY <1>2, <1>3
<1>8. Alike(c) /\ job'[c].spoiled = (job[c].spoiled \/ c \in K)
  BY <1>3, SpoiledAlike DEF TypeInv
<1>9. /\ Engine(c)' = Engine(c) /\ Promised(c)' = Promised(c) /\ Dir(c)' = d /\ Branch(c)' = b
  BY <1>8 DEF Alike, Engine, Promised, Dir, Branch, d, b
<1>10. Staged(c)'
  BY <1>1, <1>2, <1>8, <1>9 DEF Staged, At, Early, Cloning, Alike
<1>11. Equipped(c)'
  BY <1>1, <1>2, <1>8 DEF Equipped, At, Fits, Alike
<1>12. Own(c)'
  <2>1. CASE job'[c].spoiled
    BY <2>1 DEF Own
  <2>2. CASE ~job'[c].spoiled
    <3>1. ~job[c].spoiled
      BY <1>8, <2>2
    <3>2. out[d].files = {}
      BY <1>1, <1>2, <3>1 DEF Own, At, d
    <3>3. new.files = {job'[c].run} /\ new.rev # 0
      BY <1>4, <1>6, <1>8, <3>2 DEF Alike
    <3>4. job'[c].fresh =>
             \A t \in out'[d].tools :
                 /\ job'[c].cmd.id = NoId \/ t[1] \in {job'[c].cmd.id, External}
                 /\ t[2] = job'[c].cmd.arch
      BY <1>1, <1>2, <1>6, <1>7, <1>8 DEF Equipped, Fits, Alike, At
    <3>5. Made(c)'
      BY <1>7, <1>9, <3>3, <3>4 DEF Made, Fits
    <3>6. tree'[b] = Whole(new.rev) /\ new.with = job'[c].with
      BY <1>1, <1>5, <1>6, <1>8, <3>1 DEF Alike
    <3> QED
      BY <1>1, <1>6, <1>7, <1>9, <3>5, <3>6 DEF Own, At
  <2> QED
    BY <2>1, <2>2
<1>13. \A k \in Owners(d) : k # c => k \in K
  OBVIOUS
<1> HIDE DEF K
<1> QED
  BY <1>1, <1>3, <1>7, <1>10, <1>11, <1>12, <1>13, TakenDone DEF At, Cloning

\* A step in a directory that has files of this build: nobody else relies on it.
LEMMA OwnedDone ==
    ASSUME TypeInv, DoneInv, NEW c \in Consoles, Compilable(c), ~At(c, "idle"),
           \A e \in Dirs : e # Dir(c) => out'[e] = out[e], tree' = tree, env' = env,
           \A k \in Consoles : k # c => pc'[k] = pc[k] /\ job'[k] = job[k],
           job'[c].run = job[c].run, pc'[c] \notin Cloning,
           Staged(c)', Equipped(c)', Own(c)'
    PROVE  DoneInv'
<1>1. ASSUME NEW k \in Consoles, k # c, NEW e \in Dirs, ~job[k].spoiled, Relies(k, e)
      PROVE  out'[e] = out[e]
  <2>1. out[e].files \subseteq {job[k].run} /\ ~At(k, "idle")
    BY <1>1, Relying DEF DoneInv, Relies, At
  <2>2. e # Dir(c)
    BY <1>1, <2>1 DEF DoneInv, Unique, Compilable
  <2> QED
    BY <2>2
<1>2. Harmless(c)
  BY <1>1 DEF Harmless, Alike
<1>3. Unique'
  BY UniqueKept DEF DoneInv, At
<1>4. TreesMade'
  BY TreesKept DEF DoneInv
<1> QED
  BY <1>2, <1>3, <1>4, Stepped

LEMMA PackDone ==
    ASSUME TypeInv, DoneInv, NEW c \in Consoles, Pack(c)
    PROVE  DoneInv'
<1> DEFINE d == Dir(c)
<1>1. /\ pc[c] = "pack" /\ pc'[c] = "done" /\ \A k \in Consoles : k # c => pc'[k] = pc[k]
      /\ tree' = tree /\ env' = env /\ job' = job /\ Compilable(c)
  BY Moved DEF Pack, TypeInv, Labels
<1>2. /\ Staged(c) /\ Equipped(c) /\ Own(c) /\ d \in Dirs /\ out[d] \in Outs(remote, runs)
      /\ out \in [Dirs -> Outs(remote, runs)]
  BY JobFacts DEF DoneInv, TypeInv, BuildTypeOK
<1>3. out' = [out EXCEPT ![d] = [out[d] EXCEPT !.step = "packed"]]
  BY DEF Pack
<1> HIDE DEF d
<1>4. /\ out'[d].files = out[d].files /\ out'[d].rev = out[d].rev /\ out'[d].tools = out[d].tools
      /\ out'[d].with = out[d].with /\ out'[d].step = "packed"
      /\ \A e \in Dirs : e # d => out'[e] = out[e]
  BY <1>2, <1>3 DEF Outs
<1>5. /\ Engine(c)' = Engine(c) /\ Promised(c)' = Promised(c) /\ Dir(c)' = d /\ d = Dir(c)
  BY <1>1 DEF Engine, Promised, Dir, d
<1>6. Staged(c)' /\ Equipped(c)'
  BY <1>1, <1>2, <1>5 DEF Staged, Equipped, Fits, At, Early, Cloning
<1>7. Made(c) => Made(c)'
  BY <1>1, <1>4, <1>5 DEF Made, Fits
<1>8. AsPromised(c) => AsPromised(c)'
  BY <1>4, <1>5 DEF AsPromised
<1>9. Own(c)'
  <2>1. job[c].cmd.pack
    BY <1>1, <1>2 DEF Staged, At
  <2>2. ~job[c].spoiled => Made(c)' /\ AsPromised(c)'
    BY <1>1, <1>2, <1>7, <1>8 DEF Own, At
  <2> QED
    BY <1>1, <1>4, <1>5, <2>1, <2>2 DEF Own, At
<1> QED
  BY <1>1, <1>4, <1>5, <1>6, <1>9, OwnedDone DEF At, Cloning

LEMMA CompileDone ==
    ASSUME TypeInv, DoneInv, NEW c \in Consoles, Compile(c)
    PROVE  DoneInv'
<1> DEFINE d == Dir(c)
           t == tree[Branch(c)]
           to == AfterCompile(c)
           rev == IF t = Whole(out[d].rev) THEN out[d].rev ELSE 0
<1>1. /\ pc[c] = "compile" /\ pc'[c] = to /\ \A k \in Consoles : k # c => pc'[k] = pc[k]
      /\ tree' = tree /\ env' = env /\ Compilable(c) /\ to \in {"stage", "pack", "done"}
  BY Moved DEF Compile, AfterCompile, TypeInv, Labels
<1>2. /\ Staged(c) /\ Equipped(c) /\ Own(c) /\ d \in Dirs /\ out[d] \in Outs(remote, runs)
      /\ out \in [Dirs -> Outs(remote, runs)] /\ job[c] \in Jobs(runs)
      /\ job \in [Consoles -> Jobs(runs)]
  BY JobFacts DEF DoneInv, TypeInv, BuildTypeOK
<1>3. /\ out' = [out EXCEPT ![d].step = "built", ![d].rev = IF t = Whole(@) THEN @ ELSE 0]
      /\ job' = [job EXCEPT ![c].stage = IF to = "stage" THEN 2 ELSE @]
  BY DEF Compile
<1>4. /\ to = "stage" <=> Engine(c) = "NinjaBootstrap" /\ job[c].stage = 1
      /\ to = "pack" => job[c].cmd.pack
      /\ to = "done" => ~job[c].cmd.pack
  BY DEF AfterCompile
<1> HIDE DEF d, t, to
<1>5. /\ out'[d].files = out[d].files /\ out'[d].rev = rev /\ out'[d].tools = out[d].tools
      /\ out'[d].with = out[d].with /\ out'[d].step = "built"
      /\ \A e \in Dirs : e # d => out'[e] = out[e]
  BY <1>2, <1>3 DEF Outs
<1>6. /\ job'[c].run = job[c].run /\ job'[c].cmd = job[c].cmd /\ job'[c].fresh = job[c].fresh
      /\ job'[c].with = job[c].with /\ job'[c].spoiled = job[c].spoiled
      /\ job'[c].stage = (IF to = "stage" THEN 2 ELSE job[c].stage)
      /\ \A k \in Consoles : k # c => job'[k] = job[k]
  BY <1>2, <1>3 DEF Jobs
<1>7. Engine(c)' = Engine(c) /\ Promised(c)' = Promised(c) /\ d = Dir(c)
  BY <1>6 DEF Engine, Promised, d
<1>8. job[c].stage \in {1, 2}
  BY <1>2 DEF Jobs
<1>9. Staged(c)'
  <2>1. job'[c].stage = 2 => Engine(c) = "NinjaBootstrap"
    BY <1>2, <1>4, <1>6 DEF Staged
  <2>2. to \in {"pack", "done"} /\ Engine(c) = "NinjaBootstrap" => job'[c].stage = 2
    BY <1>4, <1>6, <1>8
  <2> QED
    BY <1>1, <1>4, <1>6, <1>7, <2>1, <2>2 DEF Staged, At, Early, Cloning
<1>10. Equipped(c)'
  BY <1>1, <1>2, <1>6 DEF Equipped, Fits, At
<1>11. ASSUME ~job[c].spoiled
       PROVE  /\ out[d].files = {job[c].run} /\ rev # 0
              /\ job[c].fresh => Fits(c, out[d].tools)
              /\ out[d].with = job[c].with
  <2>1. Made(c) /\ out[d].with = job[c].with /\ t = Whole(out[d].rev)
    BY <1>1, <1>2, <1>11 DEF Own, At, d, t
  <2> QED
    BY <2>1 DEF Made, d
<1> HIDE DEF rev
<1>12. Own(c)'
  <2>1. CASE to = "stage"
    <3>1. d = "msvcninja" /\ d \in Dirs
      BY <1>2, <1>4, <2>1 DEF d, Dir
    <3>2. ~job[c].spoiled => out'["msvcninja"].files = {job'[c].run}
      BY <1>5, <1>6, <1>11, <3>1
    <3> QED
      BY <1>1, <1>6, <2>1, <3>2 DEF Own, At
  <2>2. CASE to \in {"pack", "done"}
    <3>1. job'[c].stage = job[c].stage /\ Dir(c)' = d
      BY <1>6, <2>2 DEF Dir, Engine, d
    <3>2. ASSUME ~job[c].spoiled PROVE Made(c)' /\ AsPromised(c)'
      <4>1. Made(c)'
        BY <1>5, <1>6, <1>11, <3>1, <3>2 DEF Made, Fits
      <4>2. "missing" \notin Prebuilt => job[c].with = Promised(c)
        BY <1>1, <1>2, <1>4, <2>2, <3>2 DEF Staged
      <4>3. AsPromised(c)'
        BY <1>5, <1>7, <1>11, <3>1, <3>2, <4>2 DEF AsPromised
      <4> QED
        BY <4>1, <4>3
    <3>3. out'[Dir(c)'].step = "built"
      BY <1>5, <3>1
    <3> QED
      BY <1>1, <1>4, <1>6, <2>2, <3>2, <3>3 DEF Own, At
  <2> QED
    BY <1>1, <2>1, <2>2
<1> QED
  BY <1>1, <1>5, <1>6, <1>7, <1>9, <1>10, <1>12, OwnedDone DEF At, Cloning

LEMMA MakeDone ==
    ASSUME TypeInv, TreeInv, DoneInv, NEW c \in Consoles, Make(c)
    PROVE  DoneInv'
<1>1. CASE NoPrebuilt(c) \/ ConfigureFails(c) \/ NothingThere(c)
  BY <1>1, FailDone DEF NoPrebuilt, ConfigureFails, NothingThere
<1> QED
  BY <1>1, ArgumentsDone, WipeDone, ConfigureDone, CompileDone, PackDone DEF Make

-----------------------------------------------------------------------------
(* The theorem.                                                            *)

LEMMA InitDone == BuildInit => DoneInv
<1> SUFFICES ASSUME BuildInit PROVE DoneInv
  OBVIOUS
<1>1. NoRun.stage = 1
  BY DEF NoRun, NewRun
<1>2. \A c \in Consoles : pc[c] = "idle" /\ job[c].stage = 1
  BY <1>1 DEF BuildInit
<1>3. TreesMade
  <2>1. Whole(1).rev = 1 /\ Missing.st = "none"
    BY DEF Whole, Missing
  <2> QED
    BY <1>2, <2>1, BuildAssumption DEF BuildInit, TreesMade, Cloning
<1>4. ASSUME NEW c \in Consoles PROVE Staged(c) /\ Equipped(c) /\ Own(c)
  <2>1. Staged(c)
    BY <1>2 DEF Staged, At
  <2> QED
    BY <1>2, <2>1 DEF Equipped, Own, At
<1> QED
  BY <1>2, <1>3, <1>4 DEF DoneInv, Unique, At

LEMMA DoneStep ==
    ASSUME TypeInv, TreeInv, DoneInv, [BuildNext]_bvars
    PROVE  DoneInv'
<1>1. CASE UNCHANGED <<tree, out, env, pc, job>>
  <2>1. Unique' /\ TreesMade'
    BY <1>1 DEF DoneInv, Unique, TreesMade, At, Branch
  <2>2. ASSUME NEW k \in Consoles PROVE Staged(k)' /\ Equipped(k)' /\ Own(k)'
    BY <1>1, <2>2, OthersKept DEF DoneInv, Alike
  <2> QED
    BY <2>1, <2>2 DEF DoneInv
<1>2. ASSUME NEW c \in Consoles, ChildFails(c) PROVE DoneInv'
  BY <1>2, FailDone DEF ChildFails
<1>3. CASE Push \/ UNCHANGED bvars
  BY <1>1, <1>3 DEF Push, bvars
<1> QED
  BY <1>2, <1>3, StartDone, SetupDone, FetchDone, MakeDone, ExitDone, KillDone DEF BuildNext, Step

\* When the script says "compile llvm done, you can use it"
\* (ClangbuilderTarget.ps1:409), the directory holds this build and no other, made
\* from one whole revision by the compiler its engine stands for and, in a console
\* that was just opened, with the tools it asked for: with any number of consoles,
\* builds and faults, unless another build spoiled it.
THEOREM BuildsAreDone == BuildSpec => []DoneIsBuilt
<1>1. BuildInit => TypeInv /\ EnvInv /\ TreeInv /\ DoneInv
  BY InitType, InitEnv, InitTree, InitDone
<1>2. TypeInv /\ EnvInv /\ TreeInv /\ DoneInv /\ [BuildNext]_bvars
        => (TypeInv /\ EnvInv /\ TreeInv /\ DoneInv)'
  BY TypeStep, EnvStep, TreeStep, DoneStep
<1>3. DoneInv => DoneIsBuilt
  BY DEF DoneInv, Own, Made, AsPromised, Fits, DoneIsBuilt
<1> QED
  BY <1>1, <1>2, <1>3, PTL DEF BuildSpec
=============================================================================
