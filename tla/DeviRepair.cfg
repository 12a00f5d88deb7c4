SPECIFICATION Spec
CONSTANTS
    d1 = d1
    d2 = d2
    cmake = cmake
    sz = sz
    a = a
    b = b
    c = c
    Names <- MCNames
    Provides <- MCProvides
    Files <- MCFiles
    MaxVersion = 2
    Pkgs = {cmake}
    SevenZip = cmake
    Needs7z = {}
    Archives = {cmake}
    Core = {}
    Procs = {d1, d2}
    Commands = {"install", "uninstall", "repair"}
    Faults = {"download", "link", "rename"}
    MaxRuns = 4
SYMMETRY Symmetric
INVARIANTS
    RecordedLinksExist
CHECK_DEADLOCK FALSE
