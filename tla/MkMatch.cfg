SPECIFICATION MkSpec
CONSTANTS
    nasm = nasm
    sz = sz
    n1 = n1
    n2 = n2
    z = z
    exe = exe
    Names <- MCNames
    Provides <- MCProvides
    Files <- MCLaunchers
    Launchers <- MCLaunchers
    MaxVersion = 2
    Pkgs = {nasm, sz}
    SevenZip = sz
    Needs7z = {nasm}
    Archives = {nasm, sz}
    Core = {}
    Procs = {"d1"}
    Commands = {"install", "uninstall", "upgrade"}
    Faults = {"download", "unpack", "remove"}
    MaxRuns = 3
    DotExe = exe
    Makers = {"m1"}
    BuildFaults = {"unnoticed"}
    Serial = TRUE
    MaxBuilds = 2
INVARIANTS
    NoOrphanLaunchers
CHECK_DEADLOCK FALSE
