SPECIFICATION Spec
CONSTANTS
    d1 = d1
    d2 = d2
    cmake = cmake
    sz = sz
    a = a
    b = b
    c = c
    Names <- MCNames
    Provides <- MCProvides
    Files <- MCFiles
    MaxVersion = 2
    Pkgs = {cmake}
    SevenZip = cmake
    Needs7z = {}
    Archives = {cmake}
    Core = {}
    Procs = {d1}
    Commands = {"install"}
    Faults = {"move"}
    MaxRuns = 2
INVARIANTS
    SuccessIsApplied
CHECK_DEADLOCK FALSE
