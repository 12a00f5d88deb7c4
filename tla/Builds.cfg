SPECIFICATION FairBuild
CONSTANTS
    Consoles = {"c1", "c2"}
    Machine <- MCMachine
    Commands <- MCCommands
    Prebuilt = {"there", "unset"}
    Fetched = {"Mainline"}
    Faults = {"devi", "child", "inuse", "kill"}
    MaxRuns = 2
    MaxRev = 2
INVARIANTS
    BuildTypeOK
    DoneIsBuilt
    NeverFromHalfATree
    EnvUnmixed
PROPERTIES
    BuildEnds
CHECK_DEADLOCK FALSE
