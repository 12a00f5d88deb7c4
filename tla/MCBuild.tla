------------------------------ MODULE MCBuild -------------------------------
(* Small instances of Build for TLC. *)
EXTENDS Build

\* A release without ARM64 tools, a preview, one without the C++ tools, and one of
\* the days before vswhere, whose vcvarsall.bat is elsewhere.
VS(id, pre, vc, archs) ==
    [id |-> id, main |-> 16, ver |-> 1604, pre |-> pre, vc |-> vc, vcvars |-> TRUE, archs |-> archs,
     legacy |-> FALSE]
Legacy == [VS("VisualStudio.14.0", FALSE, FALSE, {}) EXCEPT !.vcvars = FALSE, !.legacy = TRUE]
MCMachine == [list |-> << VS("vs", FALSE, TRUE, {"x64"}), VS("pre", TRUE, TRUE, {"x64", "ARM64"}),
                          VS("core", FALSE, FALSE, {}), Legacy >>,
              ewdk |-> TRUE, extlib |-> {"x64", "ARM64"}, extbin |-> {"ARM64"}]

Cmd(id, arch, engine, branch, flags) ==
    [id |-> id, ver |-> id # EWDK, arch |-> arch, engine |-> engine, branch |-> branch,
     env |-> "env" \in flags, pack |-> "pack" \in flags, clear |-> "clear" \in flags]

\* Builds of one branch that share directories, with several tools.
MCCommands == { Cmd("vs", "x64", "Ninja", "Mainline", {"pack"}),
                Cmd("pre", "ARM64", "NinjaBootstrap", "Mainline", {}),
                Cmd(EWDK, "x64", "NinjaIterate", "Stable", {"clear"}),
                Cmd("core", "x64", "Ninja", "Stable", {}),
                Cmd(Legacy.id, "x64", "Ninja", "Stable", {}),
                Cmd("vs", "ARM64", "MSBuild", "Release", {}),
                Cmd(NoId, "x64", "NinjaIterate", "Mainline", {"env"}) }
=============================================================================
