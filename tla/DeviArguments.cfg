SPECIFICATION Spec
CONSTANTS
    d1 = d1
    d2 = d2
    cmake = cmake
    sz = sz
    a = a
    b = b
    c = c
    Names <- MCNames
    Provides <- MCProvides
    Files <- MCFiles
    MaxVersion = 2
    Pkgs = {cmake, sz}
    SevenZip = sz
    Needs7z = {cmake}
    Archives = {cmake}
    Core = {cmake}
    Procs = {d1}
    Commands = {"install", "uninstall", "default", "repair"}
    Faults = {"download", "unpack", "link", "remove", "crash"}
    MaxRuns = 3
INVARIANTS
    UpToDateIsTrue
    ReportedDone
    RepairRestoresLinks
CHECK_DEADLOCK FALSE
