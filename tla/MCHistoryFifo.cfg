SPECIFICATION Spec
CONSTANTS
    Peers = {p1}
    MaxRounds = 2
    ContextRounds = 1
    ImportSizes = {}
    ImportMax = 1
    Separators = {FALSE}
    TornWrites = FALSE
    RoundBound = 5
    FaultBound = 0
    CrashBound = 0
INVARIANT CapKeepsNewest
