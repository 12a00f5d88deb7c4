SPECIFICATION Spec
CONSTANTS
    d1 = d1
    d2 = d2
    cmake = cmake
    sz = sz
    a = a
    b = b
    c = c
    Names <- MCNames
    Provides <- MCProvides
    Files <- MCFiles
    MaxVersion = 2
    Pkgs = {cmake, sz}
    SevenZip = sz
    Needs7z = {cmake}
    Archives = {cmake, sz}
    Core = {}
    Procs = {d1, d2}
    Commands = {"install", "uninstall"}
    Faults = {"download", "link", "move", "remove"}
    MaxRuns = 3
SYMMETRY Symmetric
INVARIANTS
    TypeOK
    OldTableCurrent
    LinksMatchLocks
    LinksResolve
CHECK_DEADLOCK FALSE
