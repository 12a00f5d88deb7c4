SPECIFICATION FairSpec
CONSTANTS
    d1 = d1
    d2 = d2
    cmake = cmake
    sz = sz
    a = a
    b = b
    c = c
    Names <- MCNames
    Provides <- MCProvides
    Files <- MCFiles
    MaxVersion = 2
    Pkgs = {cmake}
    SevenZip = cmake
    Needs7z = {}
    Archives = {cmake}
    Core = {}
    Procs = {d1, d2}
    Commands = {"install", "uninstall", "upgrade", "repair"}
    Faults = {"unpack", "link", "remove", "crash"}
    MaxRuns = 3
INVARIANTS
    MutualExclusion
    UpToDateIsTrue
    UpgradeKeepsACopy
PROPERTIES
    Terminates
    ImplementsStore
CHECK_DEADLOCK FALSE
