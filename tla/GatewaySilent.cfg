SPECIFICATION Spec
CONSTANTS
    Tasks = {t1}
    Messages = {m1}
    CancelBound = 0
    CrashBound = 0
INVARIANT EveryMessagePublished
CHECK_DEADLOCK FALSE
