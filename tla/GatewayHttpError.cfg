SPECIFICATION Spec
CONSTANTS
    Tasks = {t1}
    Messages = {m1}
    CancelBound = 0
    CrashBound = 0
INVARIANT HttpErrorsCounted
CHECK_DEADLOCK FALSE
