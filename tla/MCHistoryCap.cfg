SPECIFICATION Spec
CONSTANTS
    Peers = {p1}
    MaxRounds = 1
    ContextRounds = 1
    ImportSizes = {1, 2}
    ImportMax = 2
    Separators = {FALSE}
    TornWrites = TRUE
    RoundBound = 5
    FaultBound = 1
    CrashBound = 1
INVARIANTS
    TypeOK
    AckedRoundsNeverReused
    CapBound
    ForgetsOldestFirst
