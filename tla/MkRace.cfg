SPECIFICATION MkSpec
CONSTANTS
    nasm = nasm
    sz = sz
    n1 = n1
    n2 = n2
    z = z
    exe = exe
    Names <- MCNames
    Provides <- MCProvides
    Files <- MCLaunchers
    Launchers <- MCLaunchers
    MaxVersion = 2
    Pkgs = {nasm}
    SevenZip = nasm
    Needs7z = {}
    Archives = {nasm}
    Core = {}
    Procs = {"d1"}
    Commands = {"install", "uninstall"}
    Faults = {}
    MaxRuns = 2
    DotExe = exe
    Makers = {"m1"}
    BuildFaults = {}
    Serial = FALSE
    MaxBuilds = 1
INVARIANTS
    UpToDateBesideMklauncher
CHECK_DEADLOCK FALSE
