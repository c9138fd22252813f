SPECIFICATION Spec
CHECK_DEADLOCK FALSE
CONSTANTS
    Tasks = {t1, t2}
    Requests = {r1}
    FaultBound = 1
    CrashBound = 2
INVARIANTS
    TypeOK
    CaughtUp
    
PROPERTIES
    CancelUndone
    SubmittedMovesOn
