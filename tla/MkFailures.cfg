SPECIFICATION MkSpec
CONSTANTS
    nasm = nasm
    sz = sz
    n1 = n1
    n2 = n2
    z = z
    exe = exe
    Names <- MCNames
    Provides <- MCProvides
    Files <- MCPrograms
    Launchers <- MCLaunchers
    MaxVersion = 2
    Pkgs = {nasm, sz}
    SevenZip = sz
    Needs7z = {nasm}
    Archives = {nasm, sz}
    Core = {}
    Procs = {"d1"}
    Commands = {"install", "uninstall", "upgrade"}
    Faults = {"download", "unpack", "link", "remove"}
    MaxRuns = 3
    DotExe = exe
    Makers = {"m1"}
    BuildFaults = {"compile", "throw", "crash"}
    Serial = TRUE
    MaxBuilds = 2
INVARIANTS
    MkTypeOK
    RecordedLaunchersExist
    LaunchedIsTrue
CHECK_DEADLOCK FALSE
