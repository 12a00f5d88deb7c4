--------------------------- MODULE VSEnvironment ----------------------------
(***************************************************************************)
(* How a console gets the tools of a Visual Studio instance:               *)
(* modules/VisualStudio/VisualStudio.psm1, and the part of                 *)
(* bin/ClangbuilderTarget.ps1 that calls it.                               *)
(*                                                                         *)
(* A machine is what vswhere and config/settings.json say: the list of     *)
(* instances (has it the C++ tools, is vcvarsall.bat there, for which      *)
(* architectures does it work, is it of the days before vswhere?), the     *)
(* Enterprise WDK, and for which architectures bin/external has libraries  *)
(* (extlib) and programs (extbin).                                         *)
(***************************************************************************)
EXTENDS VSInstance

\* The parameters ClangbuilderTarget.ps1 takes; of the others an id, a version
\* (is there one?) and flags are told apart.
Archs    == {"x86", "x64", "ARM", "ARM64"}
Flavors  == {"Release", "Debug", "MinSizeRel", "RelWithDebug"}
Engines  == {"MSBuild", "Ninja", "NinjaBootstrap", "NinjaIterate"}
Branches == {"Mainline", "Stable", "Release"}
Accepted == [id : STRING, ver : BOOLEAN, arch : Archs, engine : Engines,
             branch : Branches, env : BOOLEAN, pack : BOOLEAN, clear : BOOLEAN]

EWDK == "VisualStudio.EWDK"
External == "bin/external"
NoId == ""

\* The environment variables of a console: is VSENV_INITIALIZED set, is
\* VSENV_VERSION, whose tools are in PATH, whose libraries in LIB?
Clean == [init |-> FALSE, version |-> FALSE, tools |-> {}, libs |-> {}]

\* What a function leaves: does it return 0, and the environment.
Answer(ok, env) == [ok |-> ok, env |-> env]

\* vcvarsall.bat puts its tools before PATH and its libraries before LIB.
Vcvars(env, id, arch) ==
    [env EXCEPT !.tools = @ \cup {<<id, arch>>}, !.libs = @ \cup {<<id, arch>>}]

\* InitializeEnterpriseWDK writes PATH, INCLUDE and LIB itself, and no version.
InitializeEnterpriseWDK(m, env, arch) ==
    IF m.ewdk
    THEN Answer(TRUE, [env EXCEPT !.init = TRUE, !.tools = @ \cup {<<EWDK, arch>>},
                                  !.libs = {<<EWDK, arch>>}])
    ELSE Answer(FALSE, env)

\* The instance with that id and the C++ tools; one of the days before vswhere,
\* with an id of the form VisualStudio.*, is not asked for them.  VSENV_VERSION is set before
\* vcvarsall.bat is looked for, and VSENV_INITIALIZED even if it failed.
InitializeInstance(m, env, id, arch) ==
    LET found == {i \in 1 .. Len(m.list) : m.list[i].id = id /\ (m.list[i].vc \/ m.list[i].legacy)}
        vs    == m.list[CHOOSE i \in found : TRUE]
        named == [env EXCEPT !.version = TRUE]
        ready == [named EXCEPT !.init = TRUE]
    IN IF found = {} THEN Answer(FALSE, env)
       ELSE IF ~vs.vcvars THEN Answer(FALSE, named)
       ELSE IF arch \in vs.archs THEN Answer(TRUE, Vcvars(ready, id, arch))
       ELSE Answer(TRUE, ready)

\* Mutant: an initialised console is initialised again.
InitializeAgain(m, env, id, arch) ==
    CASE id = NoId -> Answer(FALSE, env)
      [] id = EWDK -> InitializeEnterpriseWDK(m, env, arch)
      [] OTHER     -> InitializeInstance(m, env, id, arch)

\* A console is initialised once: whatever is asked of it later, it keeps the
\* first instance and architecture.
InitializeVisualStudio(m, env, id, arch) ==
    IF env.init THEN Answer(TRUE, env)
    ELSE IF id = NoId THEN Answer(FALSE, env)
    ELSE IF id = EWDK THEN InitializeEnterpriseWDK(m, env, arch)
    ELSE InitializeInstance(m, env, id, arch)

\* Without an id: a release with the C++ tools, or else a preview with them.
DefaultVisualStudio(m, env, arch) ==
    LET Release(i) == i.vc /\ ~i.pre
        Any(i)     == i.vc
        stable == SelectSeq(m.list, Release)
        found  == IF stable # <<>> THEN stable ELSE SelectSeq(m.list, Any)
    IN IF found = <<>> THEN Answer(FALSE, env)
       ELSE InitializeVisualStudio(m, env, found[DefaultPosition(found)].id, arch)

\* -ClearEnv resets PATH and nothing else.
ReinitializePath(env) == [env EXCEPT !.tools = {}]

\* What bin/external has for the architecture that is asked for comes after what
\* PATH and LIB hold, whatever the console was initialised for.
InitializeExtranl(m, env, arch) ==
    LET With(dirs, there) == IF arch \in there THEN dirs \cup {<<External, arch>>} ELSE dirs
    IN [env EXCEPT !.libs = With(@, m.extlib), !.tools = With(@, m.extbin)]

\* The script up to InitializeExtranl: it goes on if the environment is ready
\* and there is a version, given or found.
Prepare(m, env, c) ==
    LET start == IF c.clear THEN ReinitializePath(env) ELSE env
        done  == IF c.id = NoId THEN DefaultVisualStudio(m, start, c.arch)
                 ELSE InitializeVisualStudio(m, start, c.id, c.arch)
        ok    == done.ok /\ (c.ver \/ done.env.version)
    IN Answer(ok, IF ok THEN InitializeExtranl(m, done.env, c.arch) ELSE done.env)
=============================================================================
