SPECIFICATION Spec
SYMMETRY Symmetry
CONSTANTS
    Peers = {p1, p2}
    MaxRounds = 0
    ContextRounds = 1
    ImportSizes = {1, 2}
    ImportMax = 2
    Separators = {FALSE}
    TornWrites = TRUE
    RoundBound = 2
    FaultBound = 1
    CrashBound = 2
INVARIANTS
    NoSilentLoss
    OnlyRestartsRewind
    ContextHasCurrent
    IndexAgrees
PROPERTIES
    RefinesRounds
    IndexNeverGoesBack
