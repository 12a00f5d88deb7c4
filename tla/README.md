# Clangbuilder in TLA+

Clangbuilder builds LLVM/Clang on Windows.  It is a set of PowerShell scripts
with a few native helpers: `devi`, a portable package manager that brings the
tools a build needs; scripts that set up the Visual Studio environment and run
CMake and Ninja; a window that starts those scripts.  This directory holds TLA+
modules translated from that source, TLC configurations that check them, and
proofs that TLAPS checks.

    cd tla
    tlc -config DeviShared.cfg MCDevi.tla     # one of the runs below
    tlc -config MkFailures.cfg MCMklauncher.tla
    tlc -config Builds.cfg MCBuild.tla
    tlc -config Programs.cfg MCPrograms.tla
    tlapm StoreProofs.tla                     # the proofs: *Proofs.tla

| module | models | used by |
|---|---|---|
| `Devi` | `bin/devi.ps1` | `Mklauncher` extends it; `DeviProofs`, `ResultProofs`, `StoreProofs` |
| `PackageStore` | what devi promises: an abstract specification | instantiated by `Devi` |
| `Mklauncher` | `bin/Mklauncher.ps1` composed with devi | `MkProofs` |
| `VSInstance` | the order of Visual Studio instances, the proposed and the default one | `VSEnvironment`, `Window`, `WindowProofs` |
| `VSEnvironment` | how a console gets its tools | `Build` and `Window` extend it |
| `Build` | `bin/ClangbuilderTarget.ps1` in several consoles | `BuildProofs` |
| `Window` | `sources/ui` and the enumeration of instances | `Programs` |
| `Argv`, `ParseArgv` | passing and parsing of arguments, blast | `Programs`, `ArgvProofs` |
| `Paths` | paths, and the way to the root of clangbuilder | `Programs`, `PathProofs` |
| `Programs` | the programs of `sources`, one of them at a time | `WindowProofs`, `ArgvProofs`, `PathProofs` |
| `MC*` | instances for TLC | the configurations |

## 1. Inventory

| component | state | operations | talks to |
|---|---|---|---|
| **devi** (`bin/devi.ps1`) | `pkgs/<name>`, `pkgs/.temp`, `pkgs/.locks/*.json`, `pkgs/.linked`, the named mutex `Clangbuilder.devi.lock` | install, uninstall, upgrade, upgrade --default, repair; list, search, help only read | ports, blast and mklink, mklauncher (through lock files), curl, 7z/tar/Expand-Archive |
| **Devi module** (`modules/Devi`) | `$env:PATH` | DevinitializeEnv, Find-ExecutablePath | lock files, `ports/*.json` mounts |
| **mklauncher** (`bin/Mklauncher.ps1`, `modules/Launcher`) | `.linked`, lock files, a scratch build directory | build one launcher per console or GUI program of a port, merge their names in the lock file | devi, over the same files and *without* its mutex |
| **environment initialisation** (`modules/Initialize`, `modules/VisualStudio`) | process environment, `VSENV_INITIALIZED` | pick a Visual Studio instance or the enterprise WDK, run its batch file, adopt its environment, add `bin/external` | vswhere, devi's PATH |
| **ClangbuilderTarget** (`bin/ClangbuilderTarget.ps1`, `modules/CMake`, `modules/LLVM`) | `out/<branch>` sources, `out/msvc…` build directories, `out/prebuilt…` | GetLLVM, then configure, build, pack with the MSBuild, Ninja, NinjaBootstrap or NinjaIterate engine | git, curl, cmake, ninja |
| **Prebuilt** (`bin/Prebuilt.ps1`) | a download | fetch a prebuilt LLVM | curl |
| **bootstrap** (`script/Bootstrap.ps1`, `bin/CompileUtils.ps1`) | `bin/required`, built tools | fetch wincurl, compile blast and cli, `devi upgrade --default` | devi |
| **Utils module** (`modules/Utils`) | none | ProcessExec, Test-BestSourcesURL (the fastest mirror) | devi, Prebuilt |
| **ClangbuilderUI** (`sources/ui`) | the selections of a window, `config/settings.json` | list Visual Studio instances, build the command line, start it | ClangbuilderTarget, the Visual Studio setup API |
| **blast and cli** (`sources/cli`) | none | `blast --link` makes a symbolic link, `--dump` reads PE headers; cli finds and starts the window | file system |
| **shared headers** (`sources/include`) | none | find the root directory and pwsh, enumerate Visual Studio | Windows interfaces |
| **wincurl builder** (`sources/wincurl`) | downloads and build tree | download, check the hash, unpack, build | curl, tar |
| **maintenance scripts** (`script/Windows7SDK*`, `WindowsDefenderFilter`) | registry | one-shot | – |
| **ports and config** (`ports`, `config`) | data | – | everything above reads it |
| **bela** (`sources/bela`) | – | vendored third-party library | – |

What is hard about each, and what makes it correct:

* **devi** is where state lives longest and is shared most.  Processes started
  from several consoles meet on the same files; the mutex is waited for only
  one second and may be abandoned; downloads, unpacking, renames, moves, links
  and removals fail one by one; a killed process leaves directories under its
  pid, half-emptied directories, links and truncated lock files; `repair` takes
  no mutex.  Correct means: one writer at a time; the link directory and the
  lock files agree; "is up to date" and "success" are true; the last copy of a
  package is not lost; exit codes tell what happened; nobody waits for ever.
* **mklauncher** reads a lock file, runs a compiler for seconds, reads the lock
  file again and writes it, in a race with devi.  Correct means: a launcher is
  recorded in the lock file of a package that is installed, uninstall removes
  it, a failed one is reported.
* **environment initialisation** is sequential but stateful: a second call in
  the same console must give the environment it is asked for.  Correct means
  the chosen instance has the tools asked for, and the default is the newest.
* **ClangbuilderTarget** is a pipeline whose phases leave directories that the
  next run takes for finished ones.  Correct means: an interrupted checkout or
  configuration is completed or refused, and two builds do not mix.
* **ClangbuilderUI** and the script it starts must agree on what a legal
  command is.
* **Test-BestSourcesURL**, **wincurl** and the **root lookup** are small pure
  algorithms or retry loops: the fastest answering mirror is taken; a file whose
  hash is wrong twice is never unpacked; the nearest root within five parents is
  found.

`PROJECT.json` has the same list with sources, and the hazards line by line.

## 2. The model of devi (`Devi.tla`)

Any number of processes (`Procs`) run devi one command after another, on shared
files.  One action is one stretch of the script that another process, a failure
or a crash can fall between.

| variable | code |
|---|---|
| `ports[p]` | the version in `ports/<p>.json`, `None` when it is not ported any more |
| `locks[p]` | `pkgs/.locks/<p>.json`: version and `links`; `NoLock` when there is none, `BrokenLock` when it holds no JSON |
| `pkgdir[p]`, `temp[p]` | what `pkgs/<p>` and `pkgs/.temp/<p>` hold: nothing, a version, or `Mixed` parts |
| `stray` | packages with a `pkgs/<p>.<pid>` left by a dead process |
| `linked` | the names in `pkgs/.linked` |
| `mutex` | the named mutex: `Free`, `Abandoned` or its owner |
| `pc`, `job` | where each process is, and the locals of its functions |
| `runs` | a bound: processes started so far |

| `pc` | code (`bin/devi.ps1`) | actions |
|---|---|---|
| `wait` | 510–517, 535–542, 556–561 `WaitOne(1000)` | `Acquire`, `TimeOut` |
| `next`, `fail` | the loops of the dispatch (518–524, 543–550, 562–576) and of Update-Ports (431–466) | `NextArgument`, `NextUpgrade`, `InstallCore`, `Finish`, `Fail` |
| `check` | 263–294: the port, the 7z dependency, the lock file, "up to date" | `CheckPort` |
| `download`, `unpack` | 295–314, 316–347 | `Download`, `Unpack` |
| `rename`, `move`, `drop` | 348–361: `$packDir.$PID`, `Move-Item`, the `finally` block | `SetAside`, `Apply`, `DropBackup` |
| `oldlinks` | 369–387 | `DropOldLink`, `OldLinksDropped` |
| `clear`, `make` | 394–415, one link after the other | `ClearLink`, `MakeLink`, `MakeLinkFails`, `LinksDone` |
| `trunc`, `write` | 416–425: `Out-File` empties the file, then writes it | `TruncateLock`, `WriteLock` |
| `ulock`, `ulinks`, `unlocked`, `udir` | 233–257 Uninstall-Port | `ReadLock`, `RemoveLink`, `RemoveLock`, `RemoveDir` |
| `repair`, `rcheck`, `rmake` | 129–231 Repair-Ports, Repair-Port, and blast.cc 139–169 | `RepairPort`, `SkipLink`, `LinkIsMissing`, `RemakeLink`, `RemakeLinkFails`, `PortRepaired`, `RepairDone` |

`Crash` kills a process at any step; `Pull` is a `git pull` on the ports.

Choices a reader should know:

* **PowerShell errors.**  `Rename-Item -ErrorAction SilentlyContinue` (351)
  fails unnoticed, and `Move-Item` (352) under the default preference writes an
  error but does not throw, so the `catch` that renames the backup back is not
  entered.  `May("rename")` and `May("move")` switch these failures on.
* **The result of upgrade.**  `$ret` collects everything Update-Ports writes to
  its output, so `$ret -eq $false` filters an array: `UpgradeCode`.
* **The abandoned mutex.**  `WaitOne` throws `AbandonedMutexException`; the
  process is the owner then, `$mtxresult` is not `$false`, and it goes on.
* **`$portobj`** is not set in Install-Port (364), so no launcher of the old
  version is kept; lock files written by devi alone name no launcher anyhow.
* **Order.**  Arguments, locked packages and links are taken in any order, which
  includes the one the code takes.  A package named twice in one command is
  handled once.
* **Versions** of a port only go up, or the port is dropped: what a `git pull`
  does.  With a port that goes back and forth, an archive unpacked over stale
  files would be found "up to date" just as with a crash.
* **Unpacking over a `.temp` a dead process left.**  Nothing empties `.temp` before
  it is used (316–341).  An exe is copied over an older one.  The three archives go
  among the files that are there: Expand-Archive skips files of the same name,
  msiexec and 7z keep those they do not replace; then the tree is not flattened (the
  new top directory is not the only entry any more), or its parts are moved as far
  as no old directory is in their way and the rest is deleted (Devi.psm1:123–176).
  What is there then is the new version or `Mixed`: `Unpacked` is a set.
* **A mixed directory** may have or lack the file of a link: both outcomes.
* **A link without its file.**  `Get-Item` gives nothing, `Join-Path` the link
  directory itself, and `Remove-Item` without `-Recurse` asks the user before it
  removes a directory that is not empty.  The model takes the answer to be no;
  blast then fails, and the loop ends in its `catch` (`LinksDone`).
* **Not represented:** a link or a lock file that cannot be deleted because it
  is open, a pid used again by a later process (its backup directory
  would meet a stray one), a user who works in `pkgs` by hand, lock files with a
  `mount`, the wording of output.

### Properties

* `MutualExclusion`, `OldTableCurrent`: the critical section is exclusive, and
  what Install-Port read before a long download is current when it is used.
* `LinksMatchLocks`, `LinksResolve`: whenever nobody works on a package, the
  links present are those its lock file records, and none of them dangles,
  through failed downloads, unpackings, renames, moves, links and removals.
* `UpToDateIsTrue`: "up to date" is never said of a package whose directory is
  missing or holds another version.  This is the property that makes devi recover
  from a crash: the lock file is written last and removed before the directory.
  It is weaker for an archive where processes are killed (`PassesFor`): what the
  next install unpacks over their `.temp` may be a mixture.  An exe, and any
  package where nobody is killed, holds that version and nothing else.
* `UpgradeKeepsACopy`: an upgrade cut short at any point leaves a copy of the
  package somewhere.
* `ReportedDone`: what was reported done earlier in a command is still so when
  the command exits: an installed package has a lock file, and a directory that
  passes for its version in the same sense.
* `RecordedLinksExist`, `RepairRestoresLinks`: repair does not harm concurrent
  commands, and does what it is for.
* `Terminates`: every process comes to its end.
* `UpgradeTellsFailure`, `SuccessIsApplied`, `UpToDateIsWhole`: claims of the
  documentation and of the messages which the code does not keep (section 8).

### What devi promises (`PackageStore.tla`)

Nobody reads the state of devi but through the lock files: the PATH, mklauncher
and devi itself.  `PackageStore` is what they may rely on: a register with a
record per package, written by one process at a time; a record goes to a later
version only, or away; its links are among those that version asks for; a writer
that dies loses at most one record.  `Devi!Store` maps to it: the writer is the
owner of the mutex (nobody, once it was abandoned), and the record is what the
lock file says, except that between `Out-File` emptying the file and writing it
(423) the old record still counts (`Said`), because only the writer knows.  A
crash at that point is the one that loses the record.  `ImplementsStore` is
checked in `devi_crash` and proved (section 7).

## 3. The model of mklauncher (`Mklauncher.tla`)

mklauncher changes the lock files and `.linked` of devi, so its module extends
`Devi` and interleaves its steps with those of devi (`MkNext`).  `Makers` are its
processes; `mpc` is at `args` (the loop over the arguments, 79–85), `build` (the
loop over the launchers, 43–51 and Launcher.psm1), `trunc` and `write` (52–64).

What the code does with failures decides what is recorded, so each way a launcher
may go is an action: built (`MkBuild`); not built and nobody notices, since neither
the exit code of `link` nor the missing program is looked at (`MkBuildUnnoticed`);
`return $false` (`MkBuildFails`); an exception caught in Mklauncher (`MkThrow`); a
program that is not there (`MkBuildNothing`): it has no base name, nothing is made,
and the name ".exe" (`DotExe`, a name of no port) is recorded.  `BuildFaults`
switches the others on; a program is missing after a move of devi that failed,
where a directory is mixed, or in a version whose archive does not hold it.
The lock file is read again and rewritten with the new launchers alone: the loop
that would keep other links runs over nothing, because line 55 tests for null
where it means not null.

`Serial` says whether users start one command at a time.  Without it the race of
section 8 is there; with it the properties of `mk_failures` and `mk_match` hold:

* `RecordedLaunchersExist` – devi keeps a package out of the PATH once its lock
  file records launchers, so a recorded launcher that is not there makes the tool
  unreachable.  ".exe" names no tool and is excepted: section 8 says what it does.
* `LaunchedIsTrue` – the rewritten lock file carries the version of the package,
  not of the port, whatever was killed and run again.
* `NoOrphanLaunchers` – a launcher is in `.linked` only while it is recorded (or
  being made), so none outlives its package.  Not so when a build of several
  launchers stops half way (section 8).
* `MkTypeOK` says, besides the types, that a lock file names links and launchers of
  its own package only, or ".exe" if the package has launchers.

## 4. The model of builds (`VSEnvironment.tla`, `Build.tla`)

Each of `Consoles` is a PowerShell console that stays open (`-NoExit`) and runs
ClangbuilderTarget.ps1 with one of `Commands` after the other.  They share `out`.

| variable | code |
|---|---|
| `remote` | the revision of the remote branches |
| `tree[b]` | `out/mainline`, `out/<stable>`, `out/llvmorg-…`: `none`, `stuck` (a git is at work in it, or was killed and left its lock), `torn` (files are missing), `whole`; and the revision |
| `out[d]` | `out/msbuild`, `out/msvcninja`, `out/clangninja`: whose files are there, from which revision, with which tools and compiler, how far it got |
| `env[c]` | the environment of the console: `VSENV_INITIALIZED`, `VSENV_VERSION`, whose tools are in PATH, whose libraries in LIB: pairs of an instance, or `bin/external`, and an architecture |
| `pc`, `job` | where the script is, its parameters and the compiler it chose; two history fields, `fresh` (the console was clean) and `spoiled` (another build took what this one relies on) |

| `pc` | code (`bin/ClangbuilderTarget.ps1`) | actions |
|---|---|---|
| `setup` | 35–86, and `InitializeVisualStudio`, `DefaultVisualStudio`, `InitializeExtranl` | `Setup`, `SetupFails` |
| `source`, `clone`, `cloning`, `checkout`, `pull`, `pulling` | 239–254 GetLLVM, 277–307 | `Look`, `Clone`, `CloneRefused`, `Cloned`, `CloneFails`, `Checkout`, `CheckoutFails`, `Pull`, `PullNothing`, `PullRefused`, `Pulled` |
| `download` | 286–301 | `Download` |
| `stage` | 158–236 GenCMakeArgs, 362–380 | `Arguments`, `NoPrebuilt` |
| `wipe` | 311, 339, 383 | `Wipe`, `WipeFails` |
| `configure`, `compile`, `pack` | 313–331, 341–359, 386–407 | `Configure`, `ConfigureFails`, `Compile`, `NothingThere`, `Pack` |
| `done`, `failed` | 409, `exit` | `Exit` |

`ChildFails` ends the script after any child that fails; `Kill` closes the
console; `Push` moves the remote branch.  The four engines are one pipeline with a
directory per stage (`Dir`); NinjaBootstrap goes through it twice.

`VSEnvironment` has one operator per function of `modules/VisualStudio`, from an
environment to an environment and an answer.  The details that matter: a console
is initialised once (166), vcvarsall.bat is believed even if it fails, its
version is set before it is looked for, an instance of the days before vswhere
(`VisualStudio.*`, 191) is not asked for the C++ tools, `DefaultVisualStudio` splits
the joined versions of all instances (263), and `-ClearEnv` resets PATH alone.
`InitializeExtranl` (Initialize.psm1:54) adds what `bin/external` has for the
architecture asked for to LIB and PATH after every successful setup, whatever the
console was initialised for.

git is external: it clones, checks out and pulls under a lock it leaves when it is
killed, and it removes a clone it gives up.  cmake, ninja and cpack are external:
they fail without a source tree, a compiler, or the directory they work in.

* `DoneIsBuilt` – a build that ends with "compile llvm done" has made its own
  directory from one whole revision with the compiler its engine stands for,
  however earlier builds ended; and the first build of a console used the tools
  it asked for.  It speaks of builds that no other one disturbed (`spoiled`):
  the code has no lock, and two builds in one directory do spoil each other.
* `NeverFromHalfATree` – a clone or pull that was killed leaves a directory GetLLVM
  takes for a checkout; `git checkout .` repairs it or refuses, so the next build
  configures and compiles from a whole tree.  This too is said of builds that are
  not `spoiled`: while another console's git is at work on the tree, or is killed
  there, a build goes on with what it finds, half a tree included, and
  may say "done" of it (section 8).
* `EnvUnmixed` – a console never has the Visual Studio tools or libraries of two
  instances or architectures.  It leaves `bin/external` out, of which a console may
  have several architectures (section 8); `DoneIsBuilt` has it for the first build.
* `BuildEnds` – every build comes to its end.

A console in which an earlier script left its variables (a script started with
`-File` runs in the scope of the console) is not represented: the one variable
that matters is `$Installation`, of section 8.

## 5. The model of the programs (`Programs.tla`)

`program` says which program runs.  The window is a state machine; the others are
functions, given a text that grows piece by piece, so that TLC meets every text up
to a length, and each state checks what the program makes of it.

* **`Window`** – the enumeration of instances (Visual Studio's installer, the
  console of the EWDK, the EWDK of `settings.json`) with the sorts, the proposed
  entry, the five boxes, the three check boxes that are told apart, and the two
  buttons, which issue a command line for ClangbuilderTarget.ps1.
  `SameInstance` follows that command line through `Prepare` of `VSEnvironment`:
  the console gets the Visual Studio tools of the instance that was selected, or
  none, and programs of `bin/external` for the selected architecture at most.
  `WindowTypeOK` holds that every word the window issues is accepted by the
  script, with the exception section 8 names.  `LibcxxAgrees`,
  `DefaultIsNewest`.  pwsh is assumed to be found; the boxes for LTO and LLDB go
  as the one for packages does.
* **`Argv`** – `bela::EscapeArgv` and the tokenizer: `PassedOn`: arguments with
  any blanks, quotes and backslashes arrive one for one, as cli and cmdex pass
  them on, and splitting a command line, joining and splitting it again changes
  nothing.
* **`ParseArgv`** – `bela::ParseArgv` (short, long, joined, separate and missing
  parameters, subcommands) and blast.  `UsedOnce`: every argument is used once.
  `BlastLinks`: a link blast reports leads to a file, over all small file systems
  with links, and blast touches nothing else.
* **`Paths`** – `PathCat`, `DirName`, `BaseName`, `PathStripName`, and the lookup
  of the installation root.  `PathsNormal`: what is put together is in normal
  form and stays as it is when put together again.  `DirAndName`: taking apart
  and putting together agree, with and without a root, and across the two
  implementations the programs use.  It is said of paths whose directory has the
  root of the path.  `DirName` knows nothing of roots, and loses that of `C:\` (the
  directory is `.`), `c:b` (`.`), `\\b\b` (`\\b`, no share any more) and `\\?\a`
  (`\\?`); the name of a path that is only a drive is `.`.  Nor is it said of a
  path whose ".." leads above its root, which PathCat passes over.
  `RootFound`: the nearest root within five directories is found.

## 6. Runs

`MCDevi.tla` has a package `cmake` whose version 2 gives up link `a` and takes up
link `b`, with the file of `b` present in both versions, and a package `sz`, which
holds 7z, with the same link `c` in both; `Archives` says which of them are archives.
`MCMklauncher.tla` has `nasm` with two launchers and `sz` with one, the same in both
versions.  `MCBuild.tla` has a release without ARM64 tools, a preview with them, an
instance without the C++ tools, one of the days before vswhere and the EWDK, external
libraries for two architectures and external programs for one.  `MCPrograms.tla` has
ten machines.  All configurations set
`CHECK_DEADLOCK FALSE`: the system really may stop, when all started processes
have ended and no more are started.

| run | instance | shows |
|---|---|---|
| `devi_shared` | two processes, two packages, install, uninstall, failures of download, link, move, removal | types, the snapshot of the lock file, links against lock files |
| `devi_crash` | two processes, one archive, all commands but --default, crashes and failures of unpack, link, removal, fairness | the abandoned mutex, "up to date" of nothing missing or older, no lost copy, termination, the refinement of `PackageStore` |
| `devi_arguments` | one process at a time, an archive that needs 7z and 7z, an exe here; install, uninstall, upgrade --default, repair, crashes | reports are true at exit; an exe that is up to date is that version; repair restores links |
| `devi_repair` | repair beside install and uninstall, failing links and renames | recorded links survive repair |
| `devi_upgrade_result` | two packages, failing downloads | **violated**: exit 0 after a failure |
| `devi_failed_apply` | one package, failing moves | **violated**: "success" without the package |
| `devi_stale_temp` | one archive, install, crashes | **violated**: a mixture of two unpackings is "up to date" |
| `mk_failures` | serial, two packages, one of them with two launchers, whose second version lacks a program; compilers that fail, exceptions, crashes of mklauncher; failing downloads, unpackings and removals | no false "up to date"; recorded launchers exist, but for ".exe"; types; a lock file names only links of its package |
| `mk_match` | serial, two packages, launchers that fail unnoticed, failing downloads, unpackings and removals | no orphan launchers |
| `mk_race` | mklauncher beside uninstall | **violated**: a removed package is "up to date" |
| `builds` | two consoles, two starts, seven command lines that differ in engine, branch, instance, architecture and flags; all faults; a tree that may be there; two revisions; fairness | an undisturbed build that is done is what it says, and started from a whole tree after whatever was cut short, one Visual Studio toolchain per console, every build ends |
| `programs` | the window on ten machines; texts of up to six pieces (three or four arguments for the parser) | the command line fits the selection; arguments, links and paths survive |

Bounds.  Two processes are enough for one to hold the mutex while the other
waits, times out, takes over or repairs; more only wait.  Packages do not share
files (`LinksDisjoint`), so two show every interaction there is: the order of
arguments, the 7z dependency, the count of failures in an upgrade.  Two versions
give an upgrade whose links change.  `MaxRuns` (1 to 4) and `MaxBuilds` (1 or 2)
let a command follow an interrupted or failed one that followed a successful
one.  `Procs` is a symmetry set in the runs of two processes without liveness:
processes differ in nothing but their names.  Two consoles and two starts let one
build follow another in a console, or run beside it, on the same or on another
branch, directory and instance; a killed build is followed by one that meets what
it left; two revisions let a pull move a tree once.  In `programs` six pieces are
enough for two backslashes before a quote inside and at the end of each of two
arguments, an option with its parameter before and after a file, and a path with
a root, three names, doubled separators and "..".

Fairness.  `FairSpec` assumes weak fairness of `Step(s)` for each process: a
process that has been started is scheduled, and its downloads and unpackers
return (devi passes them no time limit, but they either finish or fail).  Nobody
is obliged to start a process, to pull or to crash one.  `FairBuild` assumes the
same of `Step(c)` for each console: the script waits for git, cmake, ninja and
cpack without a timeout, so a build ends only if they do.  Starting, closing a
console and pushing are not part of it.

## 7. Proofs

### `DeviProofs.tla`

For every set of processes, packages, links and versions, every choice of faults
and any number of process starts:

| theorem | statement |
|---|---|
| `TypeCorrect` | `Spec => []TypeOK` |
| `Exclusive` | `Spec => []MutualExclusion` |
| `Snapshot` | `Spec => []OldTableCurrent` |
| `UpToDateCorrect` | `Spec => [](ApplyWorks => UpToDateIsTrue)` |

The assumptions are those of `Devi.tla`: `ConstantsOK`.  The argument:

1. `TypeInv` is `TypeOK` and the fact that a version was read (`ver` is not
   `None`) in the steps that use it; it is inductive.
2. `MutualExclusion` is inductive given the types: each label of the critical
   section is entered by `Acquire` alone and left with a release or a crash.
3. `SafeInv` strengthens `OldTableCurrent` and `UpToDateIsTrue`.  "Up to date"
   compares the lock file with the port and says nothing of the directory, so
   the invariant has to carry the version through an installation: the recorded
   version is never ahead of the port (`LockBehindPort`); an install that has
   passed the check goes to a higher version (`GoesUp`), so that while it
   replaces the directory the old lock file cannot pass for the new version; by
   the time it writes, the directory holds the version (`Carried`, `WritesLast`);
   an uninstall that removes the directory has removed the lock file
   (`LockGone`); without crashes nothing is left in `.temp` when the next install
   unpacks (`TempClean`), and after one what comes out still passes for the version.
   `UpToDateIfApplied` is the result.  `ApplyWorks` (no
   rename or move failures) is needed: `SuccessIsApplied` shows what happens
   otherwise.  What `PassesFor` admits for archives is needed too: `devi_stale_temp`.

### `StoreProofs.tla`

`DeviImplementsStore`: `Spec => ImplementsStore`, under the same assumptions.  A
step of the register has a guard, so the invariants above are what makes each step
of devi one of them: `MutualExclusion` gives the writer, and `SafeInv` that the
record only goes to a later version, because the lock file is still the one that
was compared with the port.  `LinksAsked` is added to them: while an install
makes links, those still to be made and those made are among the links of its
version.  `SaidIs` says which process the record in between belongs to.  Then each
action is a step of the register (`Acquire` is Enter; `Release`, or a crash of the
owner, Leave; `WriteLock` Put; `RemoveLock` Remove; a crash between emptying and
writing Lose) or leaves `Recorded` and the writer as they are.

`StoreProofs` also holds the theorems on links, under the same assumptions:

| theorem | statement |
|---|---|
| `LinksRecorded` | `Spec => [](NoCrash => RecordedLinksExist)` |
| `LinksMatch` | `Spec => [](NoCrash /\ NoRepair => LinksMatchLocks)` |
| `LinksLead` | `Spec => [](NoCrash /\ NoRepair => LinksResolve)` |

The three properties speak of packages nobody works on, so the invariant has to
say what exists in between.  `Kept(s)` names the links of its package that exist
while `s` works on it: those not dropped yet, those made so far, or those of the
lock file.  `LinkInv` says of each package, quiet or not, that those links exist,
are its own, lead to a file where the directory is not being replaced and, without
repair, that no other link of the package exists.  With mutual exclusion a step
changes this for one package (`LinkFrame`) or not at all (`LinkIdle`).
`NoCrash` is needed: an uninstall killed between two links leaves a lock file
with a link too many.  `NoRepair` is needed for the other two: repair takes no
mutex and may make a link beside an uninstall; it never removes one, which is
why the first theorem does without.

### `ResultProofs.tla`

Under the same assumptions:

| theorem | statement |
|---|---|
| `CopyCorrect` | `Spec => [](NotBoth => UpgradeKeepsACopy)` |
| `ReportsStand` | `Spec => [](ApplyWorks => ReportedDone)` |
| `RepairRestores` | `Spec => [](OneProcessOnly => RepairRestoresLinks)` |

* `CopyInv`: a package with a lock file has a directory, a stray backup, a backup
  of the process at work, or, where a move may fail, what the move left in
  `.temp`; an install that goes on after the move has a copy in one of these
  places; a backup is held at `move` and `drop` alone.  Crashes are included.
  `NotBoth` excludes a disk on which moves and unpackings may both fail: there
  the failed move of an upgrade leaves the only copy in `.temp`, the next command
  finds the package not up to date (after one more `git pull`), and its failed
  unpacking removes `.temp` (section 8).
* `Doing` keeps the books of a session: what is done is not taken up again, but
  for a core port that is gone; `upgrade --default` removes only what is not
  ported and installs only what it found locked.  With `SafeInv` it gives
  `ReportedDone`; `ApplyWorks` is needed for the reason it is in `UpToDateCorrect`.
* `RepairedSoFar`: a link the loop of Repair-Port has passed is there or was
  found without its file.  `OneProcessOnly` (there is one process) is the
  condition the property is about: repair takes no mutex, and an uninstall
  beside it removes what it made.  What went before it, crashes included, is free.

### `MkProofs.tla`

devi and mklauncher together, under the assumptions of `Devi.tla` and
`Mklauncher.tla`:

| theorem | statement |
|---|---|
| `MkTypeCorrect` | `MkSpec => []MkTypeOK` |
| `LaunchedCorrect` | `MkSpec => [](Serial /\ ApplyWorks => LaunchedIsTrue)` |
| `LaunchersRecorded` | `MkSpec => [](Serial /\ NoCrash /\ Noticed => RecordedLaunchersExist)` |
| `NoneOrphaned` | `MkSpec => [](Careful => NoOrphanLaunchers)` |

The lemmas about the steps of devi are those of the other modules (`DeviNext`: a
step of devi in the composition is a step of devi); what is new are the steps of
mklauncher and what they do to the invariants of devi.  `MkTypeInv` needs
`MakerAsked`, since a launcher list outlives the package it was made for, and
`LocksOwned`; it holds however the two interleave.  `OneAtATime` makes a running
mklauncher the only process; `MakerKnows` carries what it read (the version, and
that the directory holds it) to the moment it writes.  `SafeInv` survives with
it; without `Serial` it does not (`mk_race`).  `KeptExist` and `MadeExist` extend
`LinkInv` to launchers.  `Noticed` is needed because a launcher the linker did
not make is recorded all the same where nobody looks; `NoCrash` is of devi alone,
mklauncher may be killed at any step.

`RecordedLaunchersExist` and `MkTypeOK` leave ".exe" out where a program was missing:
`Asks` says which names a mklauncher has made or has still to make, `DotExe` among
them, and `DotExeOK` that it is a name of no port, so it never hides a launcher.

`NoneOrphaned` is the bound from the other side.  Line 55 of the script forgets
the launchers recorded before, so they have all to be made again: `Few` carries
that a launcher that exists still has its program (`Programmed`), that the
directory is of one version (`OneVersion`), hence that a mklauncher that is
through has made every launcher that exists (`FewMade`), and that devi drops what
was recorded before it replaces the directory (`FewLinks`; `HandedOn` says of each
step at work which links it passes on).  `Careful` names what each part needs:

* `Serial`, `NoCrash`, and `AllMade` (no compiler that fails, exception or kill in
  mklauncher): a launcher made by one that stops half way is in no lock file;
* `Steady`: all versions of a port have the same launchers, and an archive has
  all their programs or none; a launcher a port drops is forgotten, not removed;
* `Unmixed`: no fault that mixes two versions in a directory with a lock file, in
  which some of the programs may be missing.

Linkers that fail unnoticed, and all other failures of devi, are covered.  The
instance of `mk_match` satisfies `Careful`.  TLC checked `Few` on larger ones, with
repair and failing downloads, unpackings, links, renames, moves and removals, before
it was proved.

### `BuildProofs.tla`

For every set of consoles, machine, set of accepted commands, faults and bounds
(`BuildAssumption`):

| theorem | statement |
|---|---|
| `BuildTypeCorrect` | `BuildSpec => []BuildTypeOK` |
| `EnvironmentUnmixed` | `BuildSpec => []EnvUnmixed` |
| `NothingFromHalfATree` | `BuildSpec => []NeverFromHalfATree` |
| `BuildsAreDone` | `BuildSpec => []DoneIsBuilt` |

`TypeInv` adds to the types that a running build has a number.  `EnvInv`: before
it is initialised a console has no tools, but for those of `bin/external`,
afterwards those of one instance and architecture; it holds through every operator of `VSEnvironment`
(`EnterpriseOK`, `InstanceOK`, `PrepareOK` …).  `TreeInv` is what
`NeverFromHalfATree` needs to be inductive: a git at work holds the lock of its
tree (so two of them are not in one tree, `Alone`), a checked out tree is not torn
before it is pulled unless another build was there, and only releases are
downloaded.  TLC checked the conjunction before it was proved.

`BuildsAreDone` speaks of the last moment of a build; `DoneInv` says what holds on the
way there: running builds have different numbers (`Unique`), only git branches
have trees, and those a revision (`TreesMade`), and of each console which stage and
compiler belong to its label (`Staged`), that the first build of a console has the
tools it asked for (`Equipped`), and what its directory holds at each label unless
it was spoiled (`Own`): nothing before it configures, afterwards its own files
alone, from the revision its tree still has while it compiles.  The steps of the
others are the difficulty, since there is no lock: `Relies(k, d)` says which
directories a build counts on, `Relying` that it is then alone among its owners,
and so whoever writes there marks it spoiled; each action is shown `Harmless` to
the rest, which `Stepped` turns into the invariant.  TLC checked `DoneInv` on the
instance of `builds` first.

### `WindowProofs.tla`

For every set of machines that meets `MachinesAssumption`: the installer lists
instances with an id of their own (not the empty one, not that of the EWDK) and a
main version of at least 1, and a console that was not initialised is clean.

| theorem | statement |
|---|---|
| `WindowTypeCorrect` | `ProgramsSpec => []WindowTypeOK` |
| `LibcxxCorrect` | `ProgramsSpec => []LibcxxAgrees` |
| `DefaultCorrect` | `ProgramsSpec => DefaultIsNewest` |
| `InstanceCorrect` | `ProgramsSpec => []SameInstance` |
| `LessIsStrictWeakOrder` | `operator<` of an instance is what `std::sort` requires, for all versions |
| `ProposedIsNewest` | in a sorted list of any length the proposed instance is of the highest main version, and so on down |

`WindowInv` is `Shown` (as long as the window is open every box has an entry
selected, but for that of the instances when there are none, and the libc++ box
follows the engine) and `Agrees` (a command line just issued is what is selected).
`SearchGives` is the lemma on the enumeration: each list it can return holds
instances of the machine, sorted or with the EWDK alone.  `DefaultCorrect` applies
`ProposedIsNewest` to it; `InstanceCorrect` follows the issued command line through
`Prepare`, with the lemmas on `VSEnvironment`.

### `ArgvProofs.tla`

The programs of `sources/` that take or pass arguments, for texts of any length over
any characters.

| theorem | statement |
|---|---|
| `RoundTrip` | arguments escaped into one line are split into the same arguments |
| `ArgumentsPassedOn` | `ProgramsSpec => [](NoBreaks(Typed) => PassedOn)` |
| `EveryArgumentUsed` | `ArgumentsUsedOnce` for all options told apart by their letters, all arguments, with and without subcommands |
| `TypedUsedOnce` | `ProgramsSpec => []UsedOnce` |
| `BlastTouchesOnlyDest` | blast on any file system in which links come to an end |
| `BlastLinksLead` | `ProgramsSpec => []BlastLinks` |

The only assumption is `TextsAssumption`: what is typed are sequences of characters.

A loop over a text is a recursive function of the position in the model, and what it
computes is proved by induction on that position.  The induction theorems of the
library take an operator; `Induction` and `StrongInduction` here say the same of a
set of numbers (from the least element of one, `Least`), and `Recursion` that a
function defined from one number to the next exists.

`RoundTrip` follows the line through both programs: `ShapeGrows` and `EscapedCharsIs`
say where each character of an argument is put, backslashes doubled before a quote,
`ReadEscaped` and `ReadArgument` that the reader, started there, comes out behind it
with the same argument, `LinesAre` and `ReadLine` the same of a line of arguments.
`NoBreaks` is needed: an argument without a blank is not quoted, and one that holds a
line break or the character of code 0 arrives as two (section 8).

`EveryArgumentUsed` compares two parses, one with and one without the last
argument: `SameParse` says how they may differ after each argument (not at all; by one
more of the rest, when all that is left was taken; by the parameter that is missing),
`SameParseStep` that no argument brings them to differ otherwise, `LastTurn` what
the last one adds.  `ParseRewritten` follows the parse of what was written out again.

### `PathProofs.tla`

The run checks paths of up to six pieces; these hold of paths of any length, over
any characters, under the same assumption.

| theorem | statement |
|---|---|
| `EveryPathNormal` | `ProgramsSpec => []PathsNormal` |
| `DirAndNameOfAll` | `ProgramsSpec => []DirAndName` |
| `NearestRootFound` | `ProgramsSpec => []RootFound` |

`Names` reads a path character by character.  `NamesMore` says that a separator and a
name add one name, `NamesSkip` that separators alone add none, `ReadAlike` that what
begins alike is read alike.  `IsJoined` is the normal form of a root and names put
together; `IsJoinedOne` keeps it from name to name.  `OutputType` says that no "." or
".." is left over, `OutputsSame` that names without them are put out as they are, so
that a path put together twice is the path put together once (`CatNormal`).

`NamesOfDir`: the names of a path are those of its directory and its name, which is what
the three loops of `DirName` and `BaseName` look for from the end.  `RootNone` says that
the directory of a path without a root has none either; with it `DirAndBase` compares
putting the two together with putting the whole together.  Of a path with a root that
its directory keeps, `RestOfDir` finds the same directory and name in what follows the
root, and `DirAndBaseRooted` does the same there; `BaseOfRooted` needs that a colon in
the second place is that of a drive (`ColonIsDrive`).

`SpecCut` follows `PathRemoveFileSpecU`, which reads from the front: it cuts at the last
backslash, but leaves that of the drive.  `OneUp` makes of it one name less
(`JoinsBegin`), `UpsAbove` follows the five turns of the lookup, and since a directory is
longer than those above it (`AboveLess`) the first root that is met is the nearer one
(`NearerFound`).  `UpIsDir` compares it with `DirName`, which reads from the end.

### Only model-checked

* `Terminates` and `BuildEnds`: liveness under fairness, out of the prover's reach.

## 8. What the code does not keep

* **One failed package of an upgrade goes unreported** (`devi_upgrade_result`).
  With exactly one failure `$ret -eq $false` is an array of one `$false`, which
  is falsy: devi prints "Update package completed." and exits 0.  With two
  failures it exits 1.
* **A failed Move-Item is success** (`devi_failed_apply`).  The catch block is
  not entered; the finally block then deletes the backup, the lock file records
  the new version, and the next install says "up to date" of an empty directory.
* **A mixture is up to date** (`devi_stale_temp`).  An install of a zip, msi or 7z
  killed while it unpacks leaves `.temp`; the next one unpacks over it, puts what
  comes out into place, records the version, and from then on devi says "is up to
  date" of it.  The run uses one version; with two the old files stay as well.
* **mklauncher races with devi** (`mk_race`): it writes a lock file it read
  before, without the mutex, and so brings back that of a removed package.

The models follow the code in what comes next too, so it limits what their properties
say; no run is kept for it, since the text of the scripts shows it.

* **A launcher of nothing is success**.  For a program that is not
  there (its move failed, line 352) the base name is empty, no exception stops
  MakeLauncher, "link … to …/.linked/.exe" and "create launcher success" are printed,
  and ".exe" is recorded with `linked`, which keeps the package out of the PATH.  A
  linker that fails (Launcher.psm1:73–80) goes the same way with the launcher's name.
* **The engine MSBuild cannot be configured**: the name of the
  generator is put together (112, 115) before `$Installation` gets its value
  (121).  In a console in which an earlier script left that variable the name is
  complete, but with a version of Visual Studio 16 and an architecture that
  generator does not exist either.
* **External libraries of another architecture**.  A console set
  up for x64 and asked for ARM64 keeps its tools, and gets `bin/external/lib/ARM64`
  and `bin/external/bin/ARM64` behind them: InitializeExtranl does not look at what
  the console was initialised for.
* **A pull in the middle of a build**.  Two consoles that build one
  branch share its tree, and nothing keeps the pull of one from coming between
  configure and compile of the other, which says "compile llvm done, you can use it"
  of a build made from two revisions.  A git that is killed at that point leaves the
  other build with half a tree in the same way.

Seen while modelling, with nothing in the repository that says otherwise, or as
wording of messages the model leaves out:

* a launcher that fails after a first one was made is reported as "create launcher
  success": `$mlinks.Add` writes an index to the output, so `return $false`
  returns an array, which is true; the first launcher is in no lock file;
* an uninstall killed between two links leaves a package that install calls up
  to date and that lacks a link; only repair brings it back;
* a repair concurrent with an uninstall may leave an orphan link, which is why
  `LinksMatchLocks` is not claimed of the run with repair;
* launchers do not survive an upgrade: Install-Port reads `$portobj`, where the
  port is `$pkobj`, so the branch for old launchers (376–381) is never taken;
* a port that drops a launcher, with mklauncher run before the upgrade: the old
  launcher is forgotten and outlives the package (line 55 again);
* an upgrade whose move failed leaves the only copy of the package in `.temp`; the
  next upgrade whose unpacking fails takes it away (`NotBoth` in section 7);
* the window offers the configuration RelWithDebInfo, the script accepts
  RelWithDebug: such a build ends before it begins;
* a release is downloaded to `out` and unpacked where the console stands, and
  the exit code of tar is not looked at: cmake then finds no sources;
* NinjaIterate with an LLVMRoot that is not there builds with MSVC, in silence;
* a clone that was killed while it held its lock is refused by every later build
  until somebody removes the directory;
* a second build in a console keeps the tools of the first, whatever instance and
  architecture it asks for; after `-ClearEnv` it has none, and fails;
* a window started from an initialised console hands that console's tools on;
* an instance of the EWDK's own console has an empty id, so the build takes the
  default instance instead;
* the window looks for `kernal32.dll`, so on a 64-bit system its 32-bit build
  proposes x86;
* without the script beside it the window does not open and the program waits for
  messages that never come;
* `blast --link --force` of a file to itself leaves a link to itself;
* an argument with a line break or the character of code 0, and no blank, is not
  quoted and arrives as two;
* of the prefix of a device the path library makes a path it takes for another one
  (`\\.` is too short for PathRootLen), and an absolute path without a drive
  becomes a relative one.

## 9. Not modelled

* **PATH in detail**: DevinitializeEnv, InitializeEnv and ShuffleEnv put directories
  into PATH, and InitializeExtranl `bin/external/include`, which is of no
  architecture, into INCLUDE; the models know whose tools are in PATH and whose
  libraries in LIB.
* **The window's drawing, layout and settings file**, the loss of its drawing
  device, the wrappers of Windows interfaces (`comutils`, `graphics`,
  `systemtools`): no state a command can leave wrong for the next.
* **The readers**: blast's --readlink, --dump and --analyze, devi's list and
  search change nothing.
* **Prebuilt**: a straight script, which ends early in any case because it tests
  a variable nobody sets (`$revob`, Prebuilt.ps1:19).
* **CMake and LLVM modules**: the script calls `CMakeInstallationFix` alone, which
  edits a file of the build; `CMakeCustomflags`, of ReadMe.md's chapter on custom
  flags, is called by nobody.
* **bootstrap, wincurl, the maintenance scripts, Test-BestSourcesURL**: sequences of
  external tools with no state that later commands depend on.
* **Most of bela**: formatting, number conversion, hash maps, demangling, JSON are
  vendored libraries of their own and make up nine tenths of the C++ lines of the
  repository; clangbuilder's own logic is in PowerShell and in small C++ programs.
  Lines of the models are therefore a small share of all C++ lines.

## 10. Plan

1. `Devi`, `DeviProofs` – done.
2. `PackageStore`, `StoreProofs` with the links – done.
3. `Mklauncher`, `MkProofs` – done.
4. `VSInstance`, `VSEnvironment`, `Build`, `BuildProofs` – done.
5. `Window`, `Argv`, `ParseArgv`, `Paths`, `Programs`, `WindowProofs`, `ArgvProofs`,
   `PathProofs` – done.
6. `ResultProofs` – done.
7. Left: sharper versions of two theorems.  `LaunchersRecorded` and `NoneOrphaned`
   ask for `NoCrash` throughout; a crash of devi on one package leaves the others
   as they were, which a version per package would say.
