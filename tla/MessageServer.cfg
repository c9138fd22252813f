SPECIFICATION ServerSpec
CONSTANTS
    Peers = {p1}
    MaxRounds = 0
    ContextRounds = 1
    ImportSizes = {1}
    ImportMax = 1
    Separators = {FALSE}
    TornWrites = TRUE
    RoundBound = 2
    FaultBound = 1
    CrashBound = 1
    PageSize = 2
    PollLimit = 1
INVARIANTS
    ForwardedOnFile
    ForwardsRise
    TaskIsOneExchange
    ExportComplete
    PollMissesNothing
