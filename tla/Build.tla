------------------------------- MODULE Build --------------------------------
(***************************************************************************)
(* bin/ClangbuilderTarget.ps1: consoles that build LLVM.  A build          *)
(* initialises its console, fetches a source tree, and configures,         *)
(* compiles and packs in a directory under out.  The trees and the         *)
(* directories are shared by all consoles, without a lock.  The file to    *)
(* read is this one; VSEnvironment says what an initialisation does.       *)
(***************************************************************************)
EXTENDS VSEnvironment, FiniteSets

CONSTANTS
    Consoles,
    Machine,        \* see VSEnvironment
    Commands,       \* the command lines typed into consoles
    Prebuilt,       \* what LLVMRoot of settings.json may be: "unset", "missing", "there"
    Fetched,        \* branches whose tree may be there from earlier days
    Faults,         \* of "devi", "child", "inuse", "kill"
    MaxRuns,        \* how many builds are started
    MaxRev          \* how many revisions the remote branches get to

Git  == {"Mainline", "Stable"}
Dirs == {"msbuild", "msvcninja", "clangninja"}

ASSUME BuildAssumption ==
    /\ Commands \subseteq Accepted
    /\ Prebuilt \subseteq {"unset", "missing", "there"} /\ Fetched \subseteq Git
    /\ MaxRuns \in Nat /\ MaxRev \in Nat \ {0}

VARIABLES
    remote,     \* the revision of the remote branches
    tree,       \* tree[b]: the source tree: st and the revision of HEAD
    out,        \* out[d]: the runs whose files are there, and what they made
    env,        \* env[c]: the environment variables of the console
    pc, job,    \* where its script is, and the script's variables
    runs

bvars == <<remote, tree, out, env, pc, job, runs>>

Missing == [st |-> "none", rev |-> 0]
Whole(rev) == [st |-> "whole", rev |-> rev]
Nothing == [files |-> {}, rev |-> 0, tools |-> {}, with |-> "none", step |-> "none"]
NewRun(r, c, fresh) ==
    [run |-> r, cmd |-> c, fresh |-> fresh, stage |-> 1, with |-> "msvc", spoiled |-> FALSE]
NoCommand == [id |-> NoId, ver |-> FALSE, arch |-> "x64", engine |-> "MSBuild",
              branch |-> "Mainline", env |-> FALSE, pack |-> FALSE, clear |-> FALSE]
NoRun == NewRun(0, NoCommand, TRUE)

BuildInit ==
    /\ remote = 1 /\ runs = 0
    /\ \E there \in SUBSET Fetched :
         tree = [b \in Branches |-> IF b \in there THEN Whole(1) ELSE Missing]
    /\ out = [d \in Dirs |-> Nothing]
    /\ env = [c \in Consoles |-> Clean] /\ pc = [c \in Consoles |-> "idle"]
    /\ job = [c \in Consoles |-> NoRun]

May(f) == f \in Faults
At(c, l) == pc[c] = l
Goto(c, from, to) == At(c, from) /\ pc' = [pc EXCEPT ![c] = to]
Branch(c) == job[c].cmd.branch
Engine(c) == job[c].cmd.engine
SetTree(b, st, rev) == tree' = [tree EXCEPT ![b] = [st |-> st, rev |-> rev]]
OnlyPc == UNCHANGED <<remote, tree, out, env, job, runs>>

\* The directory of the stage the script is in.
Dir(c) == IF Engine(c) = "MSBuild" THEN "msbuild"
          ELSE IF Engine(c) = "NinjaIterate" \/ job[c].stage = 2 THEN "clangninja"
          ELSE "msvcninja"

\* History: the builds in K lose what they rely on to another one.
Spoiled(K) == [c \in Consoles |-> [job[c] EXCEPT !.spoiled = @ \/ c \in K]]
Spoil(K) == job' = Spoiled(K)
\* They read the tree of branch b; they have files, or soon will, in directory d.
Readers(b) == {c \in Consoles : Branch(c) = b /\ pc[c] \in {"stage", "wipe", "configure", "compile"}}
Owners(d) ==
    {c \in Consoles : \/ ~At(c, "idle") /\ job[c].run \in out[d].files
                      \/ At(c, "configure") /\ Dir(c) = d}

-----------------------------------------------------------------------------
(* The console.                                                            *)

Start(c, cmd) ==
    /\ runs < MaxRuns /\ runs' = runs + 1 /\ Goto(c, "idle", "setup")
    /\ job' = [job EXCEPT ![c] = NewRun(runs + 1, cmd, env[c] = Clean)]
    /\ UNCHANGED <<remote, tree, out, env>>

\* -Environment ends here, with an initialised console.
Setup(c) ==
    LET cmd  == job[c].cmd
        done == Prepare(Machine, env[c], cmd)
    IN /\ Goto(c, "setup", IF ~done.ok THEN "failed" ELSE IF cmd.env THEN "done" ELSE "source")
       /\ env' = [env EXCEPT ![c] = done.env]
       /\ UNCHANGED <<remote, tree, out, job, runs>>

\* DevinitializeEnv fails, after PATH was reset.
SetupFails(c) ==
    /\ May("devi") /\ Goto(c, "setup", "failed")
    /\ env' = [env EXCEPT ![c] = IF job[c].cmd.clear THEN ReinitializePath(@) ELSE @]
    /\ UNCHANGED <<remote, tree, out, job, runs>>

\* The prompt is back (-NoExit) and takes the next command.
Exit(c) ==
    /\ Goto(c, "done", "idle") \/ Goto(c, "failed", "idle")
    /\ job' = [job EXCEPT ![c] = NoRun] /\ UNCHANGED <<remote, tree, out, env, runs>>

\* What a child does not do ends the script: git, curl, cmake, ninja and cpack
\* fail.
ChildFails(c) ==
    /\ May("child") /\ OnlyPc
    /\ \E l \in {"checkout", "pull", "download", "configure", "compile", "pack"} : Goto(c, l, "failed")

\* The console is closed.  A git that is killed leaves its lock, or less of a
\* tree than it should.
Kill(c) ==
    /\ May("kill") /\ ~At(c, "idle") /\ pc' = [pc EXCEPT ![c] = "idle"]
    /\ env' = [env EXCEPT ![c] = Clean]
    /\ IF pc[c] \in {"cloning", "pulling"}
       THEN /\ \E st \in {"stuck", "torn"} : SetTree(Branch(c), st, tree[Branch(c)].rev)
            /\ LET others == {k \in Consoles : At(k, "pull") /\ Branch(k) = Branch(c)}
               IN job' = [Spoiled(others) EXCEPT ![c] = NoRun]
       ELSE job' = [job EXCEPT ![c] = NoRun] /\ UNCHANGED tree
    /\ UNCHANGED <<remote, out, runs>>

Push == remote < MaxRev /\ remote' = remote + 1 /\ UNCHANGED <<tree, out, env, pc, job, runs>>

-----------------------------------------------------------------------------
(* The source tree.                                                        *)

\* A directory that exists is taken for a checkout.
Look(c) ==
    /\ OnlyPc
    /\ Goto(c, "source", IF Branch(c) = "Release" THEN "download"
                         ELSE IF tree[Branch(c)].st = "none" THEN "clone" ELSE "checkout")

\* A clone at work, or one that was killed, holds the locks of its tree.
Clone(c) ==
    /\ tree[Branch(c)].st = "none" /\ Goto(c, "clone", "cloning")
    /\ SetTree(Branch(c), "stuck", remote) /\ UNCHANGED <<remote, out, env, job, runs>>
CloneRefused(c) == tree[Branch(c)].st # "none" /\ Goto(c, "clone", "failed") /\ OnlyPc
Cloned(c) ==
    /\ Goto(c, "cloning", "stage") /\ SetTree(Branch(c), "whole", tree[Branch(c)].rev)
    /\ UNCHANGED <<remote, out, env, job, runs>>
CloneFails(c) ==
    /\ May("child") /\ Goto(c, "cloning", "failed")
    /\ tree' = [tree EXCEPT ![Branch(c)] = Missing] /\ UNCHANGED <<remote, out, env, job, runs>>

\* Mutant: the tree is pulled as it is.
CheckoutSkipped(c) == Goto(c, "checkout", "pull") /\ OnlyPc

\* "git checkout ." brings back what is missing, if it gets the lock.
Checkout(c) ==
    LET t == tree[Branch(c)] IN
    /\ t.st \in {"torn", "whole"} /\ Goto(c, "checkout", "pull")
    /\ SetTree(Branch(c), "whole", t.rev) /\ UNCHANGED <<remote, out, env, job, runs>>
CheckoutFails(c) ==
    tree[Branch(c)].st \in {"none", "stuck"} /\ Goto(c, "checkout", "failed") /\ OnlyPc

\* "git pull" moves the tree under whoever builds from it.
Pull(c) ==
    LET t == tree[Branch(c)] IN
    /\ t.st = "whole" /\ t.rev < remote /\ Goto(c, "pull", "pulling")
    /\ SetTree(Branch(c), "stuck", remote) /\ Spoil(Readers(Branch(c)))
    /\ UNCHANGED <<remote, out, env, runs>>
PullNothing(c) ==
    /\ tree[Branch(c)].st \in {"torn", "whole"} /\ tree[Branch(c)].rev = remote
    /\ Goto(c, "pull", "stage") /\ OnlyPc
PullRefused(c) ==
    tree[Branch(c)].st # "whole" /\ Goto(c, "pull", "failed") /\ OnlyPc
Pulled(c) ==
    /\ Goto(c, "pulling", "stage") /\ SetTree(Branch(c), "whole", tree[Branch(c)].rev)
    /\ UNCHANGED <<remote, out, env, job, runs>>

\* The archive of a release goes to out, tar looks for it in the directory the
\* console is in, and nobody asks whether it was unpacked: no tree appears.
Download(c) == Goto(c, "download", "stage") /\ OnlyPc

Fetch(c) == \/ Look(c) \/ Clone(c) \/ CloneRefused(c) \/ Cloned(c) \/ CloneFails(c)
            \/ Checkout(c) \/ CheckoutFails(c) \/ Download(c)
            \/ Pull(c) \/ PullNothing(c) \/ PullRefused(c) \/ Pulled(c)

-----------------------------------------------------------------------------
(* The stages.                                                             *)

\* Which compiler: a clang directory that is not there is passed over.
Compiler(c, root) ==
    IF Engine(c) = "NinjaIterate" THEN IF root = "there" THEN "prebuilt" ELSE "msvc"
    ELSE IF job[c].stage = 2 THEN IF out["msvcninja"].files # {} THEN "stage1" ELSE "msvc"
    ELSE "msvc"

Arguments(c) ==
    /\ \E root \in Prebuilt :
         /\ Engine(c) = "NinjaIterate" => root # "unset"
         /\ job' = [job EXCEPT ![c].with = Compiler(c, root)]
    /\ Goto(c, "stage", "wipe") /\ UNCHANGED <<remote, tree, out, env, runs>>
NoPrebuilt(c) ==
    /\ Engine(c) = "NinjaIterate" /\ "unset" \in Prebuilt
    /\ Goto(c, "stage", "failed") /\ OnlyPc

\* Mutant: the directory of the last build is used again.
WipeForgotten(c) == Goto(c, "wipe", "configure") /\ OnlyPc

\* Remove-Item and New-Item.
Wipe(c) ==
    /\ Goto(c, "wipe", "configure") /\ out' = [out EXCEPT ![Dir(c)] = Nothing]
    /\ Spoil(Owners(Dir(c)) \ {c}) /\ UNCHANGED <<remote, tree, env, runs>>

\* Files in use stay, without a word.
WipeFails(c) ==
    /\ May("inuse") \/ Owners(Dir(c)) \ {c} # {}
    /\ out[Dir(c)].files # {} /\ Goto(c, "wipe", "configure")
    /\ out' = [out EXCEPT ![Dir(c)].step = "none"]
    /\ Spoil(Owners(Dir(c)) \cup {c}) /\ UNCHANGED <<remote, tree, env, runs>>

\* What is of a Visual Studio instance, and not of bin/external.
OfInstance(S) == {t \in S : t[1] # External}

\* cmake needs a source tree and a compiler.  The name of the generator for
\* MSBuild is put together before the version that belongs in it is known.
Configurable(c) ==
    Engine(c) # "MSBuild" /\ OfInstance(env[c].tools) # {} /\ tree[Branch(c)].st # "none"

Configure(c) ==
    LET d == Dir(c)
        others == Owners(d) \ {c}
    IN /\ Configurable(c) /\ Goto(c, "configure", "compile")
       /\ out' = [out EXCEPT ![d] =
                    [files |-> out[d].files \cup {job[c].run}, rev |-> tree[Branch(c)].rev,
                     tools |-> env[c].tools, with |-> job[c].with, step |-> "configured"]]
       /\ Spoil(IF others = {} THEN {} ELSE {c} \cup others)
       /\ UNCHANGED <<remote, tree, env, runs>>
ConfigureFails(c) == ~Configurable(c) /\ Goto(c, "configure", "failed") /\ OnlyPc

Compilable(c) == job[c].run \in out[Dir(c)].files /\ out[Dir(c)].step # "none"

\* After its first stage NinjaBootstrap goes on to a second, built by the first.
AfterCompile(c) == IF Engine(c) = "NinjaBootstrap" /\ job[c].stage = 1 THEN "stage"
                   ELSE IF job[c].cmd.pack THEN "pack"
                   ELSE "done"

\* Mutant: the first stage is followed by the first stage.
CompileAgain(c) ==
    /\ Compilable(c) /\ Goto(c, "compile", AfterCompile(c))
    /\ out' = [out EXCEPT ![Dir(c)].step = "built"] /\ UNCHANGED <<remote, tree, env, job, runs>>

Compile(c) ==
    LET t == tree[Branch(c)] IN
    /\ Compilable(c) /\ Goto(c, "compile", AfterCompile(c))
    /\ out' = [out EXCEPT ![Dir(c)].step = "built",
                          ![Dir(c)].rev = IF t = Whole(@) THEN @ ELSE 0]
    /\ job' = [job EXCEPT ![c].stage = IF AfterCompile(c) = "stage" THEN 2 ELSE @]
    /\ UNCHANGED <<remote, tree, env, runs>>

\* The directory was wiped by another build.
NothingThere(c) ==
    /\ ~Compilable(c) /\ OnlyPc
    /\ Goto(c, "compile", "failed") \/ Goto(c, "pack", "failed")

\* Mutant: cpack is not asked whether there is something to pack.
PackAnyway(c) ==
    /\ Goto(c, "pack", "done") /\ out' = [out EXCEPT ![Dir(c)].step = "packed"]
    /\ UNCHANGED <<remote, tree, env, job, runs>>

Pack(c) ==
    /\ Compilable(c) /\ Goto(c, "pack", "done") /\ out' = [out EXCEPT ![Dir(c)].step = "packed"]
    /\ UNCHANGED <<remote, tree, env, job, runs>>

Make(c) == \/ Arguments(c) \/ NoPrebuilt(c) \/ Wipe(c) \/ WipeFails(c)
           \/ Configure(c) \/ ConfigureFails(c) \/ Compile(c) \/ NothingThere(c) \/ Pack(c)

Step(c) == Setup(c) \/ SetupFails(c) \/ Fetch(c) \/ Make(c) \/ ChildFails(c) \/ Exit(c)

BuildNext ==
    \/ Push
    \/ \E c \in Consoles : Step(c) \/ Kill(c) \/ \E cmd \in Commands : Start(c, cmd)

BuildSpec == BuildInit /\ [][BuildNext]_bvars

\* A script runs on, and waits for its children without a timeout; that they
\* end is assumed.
FairBuild == BuildSpec /\ \A c \in Consoles : WF_bvars(Step(c))

-----------------------------------------------------------------------------
(* Properties.                                                             *)

Labels == {"idle", "setup", "source", "clone", "cloning", "checkout", "pull", "pulling",
           "download", "stage", "wipe", "configure", "compile", "pack", "done", "failed"}
Compilers == {"msvc", "prebuilt", "stage1"}
Pairs == ({m.id : m \in {Machine.list[i] : i \in 1 .. Len(Machine.list)}} \cup {EWDK, External})
         \X Archs

Trees(r) == [st : {"none", "stuck", "torn", "whole"}, rev : 0 .. r]
Outs(r, n) == [files : SUBSET (1 .. n), rev : 0 .. r, tools : SUBSET Pairs,
               with : Compilers \cup {"none"}, step : {"none", "configured", "built", "packed"}]
Envs == [init : BOOLEAN, version : BOOLEAN, tools : SUBSET Pairs, libs : SUBSET Pairs]
Jobs(n) == [run : 0 .. n, cmd : Commands \cup {NoCommand}, fresh : BOOLEAN, stage : {1, 2},
            with : Compilers, spoiled : BOOLEAN]

\* Every variable keeps its type; no tree is ahead of the remote branch, and a
\* directory says what was made in it only of runs that have their files there.
BuildTypeOK ==
    /\ remote \in 1 .. MaxRev /\ runs \in 0 .. MaxRuns
    /\ tree \in [Branches -> Trees(remote)] /\ out \in [Dirs -> Outs(remote, runs)]
    /\ env \in [Consoles -> Envs] /\ pc \in [Consoles -> Labels]
    /\ job \in [Consoles -> Jobs(runs)]
    /\ \A d \in Dirs : out[d].files = {} => out[d] = Nothing

\* The compiler an engine stands for (ReadMe.md:94-97).
Promised(c) == CASE Engine(c) = "NinjaIterate"   -> "prebuilt"
                 [] Engine(c) = "NinjaBootstrap" -> "stage1"
                 [] OTHER                        -> "msvc"

\* "compile llvm done, you can use it" (ClangbuilderTarget.ps1:409): then the
\* directory holds files of this build alone, however earlier ones ended, made
\* from one whole revision, by the compiler its engine stands for, and packed if
\* that was asked; and the first build of a console used the tools it asked for.
\* The builds it speaks of found their directory wiped, and no other build pulled
\* the tree or took the directory while they were at work.
DoneIsBuilt ==
    \A c \in Consoles :
        LET cmd == job[c].cmd
            o   == out[Dir(c)]
        IN At(c, "done") /\ ~cmd.env /\ ~job[c].spoiled =>
               /\ o.files = {job[c].run} /\ o.rev # 0
               /\ o.step = (IF cmd.pack THEN "packed" ELSE "built")
               /\ "missing" \notin Prebuilt => o.with = Promised(c)
               /\ job[c].fresh => \A t \in o.tools : /\ cmd.id = NoId \/ t[1] \in {cmd.id, External}
                                                     /\ t[2] = cmd.arch

\* A clone or a pull that was killed leaves a directory GetLLVM takes for a
\* checkout.  However the ones before it ended, a build during which no other
\* console's git is at work on its tree configures and compiles from a whole one
\* only.  Another's pull, at work or killed, does get in between, and the build goes on.
NeverFromHalfATree ==
    \A c \in Consoles :
        Branch(c) \in Git /\ c \in Readers(Branch(c)) /\ ~job[c].spoiled
            => tree[Branch(c)].st = "whole"

\* Whatever a console is asked for, one build after the other, the tools and
\* libraries of Visual Studio in its PATH and LIB are of one instance for one
\* architecture.
EnvUnmixed == \A c \in Consoles : Cardinality(OfInstance(env[c].tools \cup env[c].libs)) <= 1

\* Every build comes to its end, done, failed or killed.
BuildEnds == \A c \in Consoles : ~At(c, "idle") ~> At(c, "idle")
=============================================================================
