SPECIFICATION ProgramsSpec
CONSTANTS
    Machines <- MCMachines
    Positions <- MCPositions
    Texts <- MCTexts
    MaxPieces <- MCMaxPieces
INVARIANTS
    WindowTypeOK
    LibcxxAgrees
    SameInstance
    PassedOn
    UsedOnce
    BlastLinks
    PathsNormal
    DirAndName
    RootFound
PROPERTIES
    DefaultIsNewest
CHECK_DEADLOCK FALSE
