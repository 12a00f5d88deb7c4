------------------------------- MODULE Window -------------------------------
(***************************************************************************)
(* ClangbuilderUI (sources/ui): it lists the Visual Studio instances of    *)
(* the machine, offers what ClangbuilderTarget.ps1 can build, and starts   *)
(* that script in a new console.                                           *)
(*                                                                         *)
(* A machine, besides list and ewdk of VSEnvironment: is the script found  *)
(* beside the program (root), does the API of the Visual Studio installer  *)
(* answer (setup is "none", "broken" or "ok"), is Version.txt of the EWDK  *)
(* readable (named), was the program started in the EWDK's own console     *)
(* (inEWDK) or in an initialised one (env), is it the 64-bit build (x64)?  *)
(* pwsh is found; LTO and LLDB are flags that go as cpack does.            *)
(***************************************************************************)
EXTENDS VSEnvironment, FiniteSets

CONSTANTS Machines,
          Positions     \* Positions[box]: the entries that are selected

\* What vswhere and the installer say of an instance of Visual Studio; the id of
\* the EWDK is no id of theirs, nor is the empty one.  Those of the days before the
\* installer it does not list.
Listed == [id : STRING \ {NoId, EWDK}, main : Nat \ {0}, ver : Nat, pre : BOOLEAN, vc : BOOLEAN,
           vcvars : BOOLEAN, legacy : {FALSE}, archs : SUBSET Archs]

ASSUME MachinesAssumption ==
    /\ Machines # {}
    /\ \A m \in Machines :
         /\ m.setup \in {"none", "broken", "ok"} /\ m.list \in Seq(Listed)
         /\ m.env \in [init : BOOLEAN, version : BOOLEAN, tools : SUBSET (STRING \X Archs),
                       libs : SUBSET (STRING \X Archs)]
         /\ m.env.init \/ m.env = Clean
         /\ m.extlib \subseteq Archs /\ m.extbin \subseteq Archs

VARIABLES
    machine,
    phase,      \* "start", "open", "closed", or "stuck" without a window
    instances,  \* search.instances
    box,        \* box[b]: what is selected; -1: nothing
    check,      \* the boxes that are checked
    libcxx,     \* can "Build Libcxx" be checked?
    issued      \* the command line of the console that was just started

wvars == <<machine, phase, instances, box, check, libcxx, issued>>

Boxes  == {"vs", "arch", "flavor", "engine", "branch"}
Checks == {"libcxx", "cpack", "cleanenv"}

\* The entries of the boxes, from 0.
Targets        == <<"x86", "x64", "ARM", "ARM64">>
Configurations == <<"Release", "MinSizeRel", "RelWithDebInfo", "Debug">>
EngineValues   == <<"Ninja", "NinjaIterate", "MSBuild", "NinjaBootstrap">>
BranchNames    == <<"Mainline", "Stable", "Release">>
Entries(b) == CASE b = "arch"   -> Targets
                [] b = "flavor" -> Configurations
                [] b = "engine" -> EngineValues
                [] b = "branch" -> BranchNames
                [] b = "vs"     -> instances
Selected(b) == Entries(b)[box[b] + 1]

Silent == [id |-> NoId, issued |-> FALSE]

Closed(m) ==
    /\ machine = m /\ phase = "start" /\ instances = <<>>
    /\ box = [b \in Boxes |-> -1] /\ check = {} /\ libcxx = FALSE /\ issued = Silent

-----------------------------------------------------------------------------
(* The instances.                                                          *)

Instance(id, main, ver, pre) == [id |-> id, main |-> main, ver |-> ver, pre |-> pre]
FromSetup(m) == {Instance(i.id, i.main, i.ver, i.pre) : i \in {m.list[k] : k \in DOMAIN m.list}}

\* In the EWDK's console: an instance without an id.
FromEnvironment(m) == IF m.inEWDK THEN {Instance(NoId, 0, 16, FALSE)} ELSE {}
FromSettings == Instance(EWDK, 0, 0, FALSE)

SortedLists(S) == {s \in Arrangements(S, Cardinality(S)) : Sorted(s)}

\* GetVSInstanceAll: false if the API does not answer.
GetVSInstanceAll(m) ==
    CASE m.setup = "none"   -> {[ok |-> FALSE, list |-> <<>>]}
      [] m.setup = "broken" -> {[ok |-> FALSE, list |-> s] : s \in SortedLists(FromEnvironment(m))}
      [] m.setup = "ok"     -> {[ok |-> TRUE, list |-> s] :
                                    s \in SortedLists(FromEnvironment(m) \cup FromSetup(m))}

\* VisualStudioSeacher::Execute adds the EWDK of settings.json, after the API
\* has answered.
Search(m) ==
    UNION {IF r.ok /\ ~m.inEWDK /\ m.ewdk THEN SortedLists(FromSetup(m) \cup {FromSettings})
           ELSE {r.list} : r \in GetVSInstanceAll(m)}

-----------------------------------------------------------------------------
(* The window.                                                             *)

\* InitializeWindow and OnCreate.  main() waits for messages even when there is
\* no window, and none will come.
Open ==
    /\ phase = "start" /\ machine.root /\ phase' = "open"
    /\ \E list \in Search(machine) :
         /\ instances' = list
         /\ box' = [vs |-> IF list = <<>> THEN -1 ELSE Index(list),
                    arch |-> IF machine.x64 THEN 1 ELSE 0,
                    flavor |-> 0, engine |-> 0, branch |-> 0]
    /\ UNCHANGED <<machine, check, libcxx, issued>>

OpenFails ==
    /\ phase = "start" /\ ~machine.root /\ phase' = "stuck"
    /\ UNCHANGED <<machine, instances, box, check, libcxx, issued>>

\* Mutant: the entries are counted as they are named.
LibcxxEngineOther(n) == n \in {2, 3}

LibcxxEngine(n) == n \in {1, 3}

\* A user selects an entry; OnChangeEngine follows the box of engines.
Select(b) ==
    /\ phase = "open" /\ issued' = Silent
    /\ \E n \in Positions[b] \cap 0 .. Len(Entries(b)) - 1 :
         /\ n # box[b] /\ box' = [box EXCEPT ![b] = n]
         /\ libcxx' = IF b = "engine" THEN LibcxxEngine(n) ELSE libcxx
    /\ UNCHANGED <<machine, phase, instances, check>>

Toggle(x) ==
    /\ phase = "open" /\ (x = "libcxx" => libcxx) /\ issued' = Silent
    /\ check' = IF x \in check THEN check \ {x} ELSE check \cup {x}
    /\ UNCHANGED <<machine, phase, instances, box, libcxx>>

\* Mutant: the instance above is taken.
InstanceIdAbove(n) == instances[IF n = 0 THEN 1 ELSE n].id

InstanceId(n) == IF n + 1 \in DOMAIN instances THEN instances[n + 1].id ELSE "-"

\* Is the version of an instance known?
InstallVersion(n) == InstanceId(n) = EWDK => machine.named

\* Mutant: nothing need be selected.
AllSelectedAny(boxes) == TRUE

AllSelected(boxes) == \A b \in boxes : box[b] \in 0 .. Len(Entries(b)) - 1

\* What both buttons ask for; the other parameters keep their defaults.
Prompt ==
    [id |-> InstanceId(box["vs"]), issued |-> TRUE, ver |-> InstallVersion(box["vs"]),
     arch |-> Selected("arch"), clear |-> "cleanenv" \in check,
     env |-> TRUE, flavor |-> "Release", engine |-> "MSBuild", branch |-> "Mainline",
     pack |-> FALSE, libcxx |-> FALSE]

\* The button "Building".
OnBuildNow ==
    /\ phase = "open" /\ AllSelected(Boxes)
    /\ issued' = [Prompt EXCEPT !.env = FALSE, !.flavor = Selected("flavor"),
                  !.engine = Selected("engine"), !.branch = Selected("branch"),
                  !.pack = "cpack" \in check,
                  !.libcxx = box["engine"] \in {1, 3} /\ "libcxx" \in check]
    /\ UNCHANGED <<machine, phase, instances, box, check, libcxx>>

\* The button "Windows Terminal".
OnStartupEnv ==
    /\ phase = "open" /\ AllSelected({"vs", "arch"}) /\ issued' = Prompt
    /\ UNCHANGED <<machine, phase, instances, box, check, libcxx>>

OnClose ==
    /\ phase = "open" /\ phase' = "closed" /\ issued' = Silent
    /\ UNCHANGED <<machine, instances, box, check, libcxx>>

WindowInit == \E m \in Machines : Closed(m)
WindowNext == \/ Open \/ OpenFails \/ OnBuildNow \/ OnStartupEnv \/ OnClose
              \/ \E b \in Boxes : Select(b)
              \/ \E x \in Checks : Toggle(x)

-----------------------------------------------------------------------------
(* Properties.                                                             *)

\* The variables keep their types; an instance is selected whenever there is one,
\* and a command line asks for an instance of the list, in words that
\* ClangbuilderTarget.ps1 takes, all but the configuration RelWithDebInfo.
WindowTypeOK ==
    /\ machine \in Machines /\ phase \in {"start", "open", "closed", "stuck"}
    /\ box["vs"] \in -1 .. Len(instances) - 1 /\ libcxx \in BOOLEAN /\ check \subseteq Checks
    /\ phase = "open" => \A b \in Boxes : box[b] = -1 <=> b = "vs" /\ instances = <<>>
    /\ issued # Silent =>
         /\ issued.id \in {instances[i].id : i \in DOMAIN instances}
         /\ issued.arch \in Archs /\ issued.engine \in Engines /\ issued.branch \in Branches
         /\ issued.flavor \in Flavors \cup {"RelWithDebInfo"}

\* "Only NinjaBootstrap and NinjaIterate will compile libc++" (ReadMe.md:107): the
\* box can be checked just then, whichever engines were selected before, and what
\* is left checked under another engine is not asked for.
LibcxxAgrees ==
    /\ phase = "open" => (libcxx <=> Selected("engine") \in {"NinjaBootstrap", "NinjaIterate"})
    /\ issued # Silent /\ ~issued.env =>
         (issued.libcxx <=> libcxx /\ "libcxx" \in check)

\* The instance the window proposes: none has a higher main version, and it is a
\* preview only if all of that main version are; the EWDK of settings.json is
\* proposed only when there is nothing else.
DefaultIsNewest ==
    [][phase = "start" /\ instances' # <<>> =>
         LET it   == instances'[box'["vs"] + 1]
             list == {instances'[i] : i \in DOMAIN instances'}
         IN /\ \A i \in list : i.main <= it.main
            /\ it.pre => \A i \in list : i.main = it.main => i.pre
            /\ it.id = EWDK => list = {it}]_wvars

\* The console that is started initialises itself with the tools of the selected
\* instance for the selected architecture, and what bin/external has for it, or
\* fails to; never with those of another instance.  The program was not started in a console that already has
\* tools: that one's are used, whatever is selected.
SameInstance ==
    issued # Silent /\ issued.id # NoId =>
        LET done == Prepare(machine, machine.env, issued)
        IN done.env.tools \subseteq
               {<<External, Selected("arch")>>} \cup
               (IF machine.env.init THEN machine.env.tools
                ELSE {<<Selected("vs").id, Selected("arch")>>})
=============================================================================
