SPECIFICATION Spec
CONSTANTS
    Peers = {p1}
    MaxRounds = 1
    ContextRounds = 1
    ImportSizes = {}
    ImportMax = 1
    Separators = {FALSE, TRUE}
    TornWrites = FALSE
    RoundBound = 3
    FaultBound = 0
    CrashBound = 0
INVARIANT FileIsJsonl
