SPECIFICATION Spec
CONSTANTS
    Tasks = {t1, t2}
    Messages = {m1, m2}
    CancelBound = 1
    CrashBound = 1
INVARIANTS
    TypeOK
    OneVerdict
    MetricsAgree
PROPERTIES
    RefinesLifecycle
    EveryTaskSettles
    CancelSettles
CHECK_DEADLOCK FALSE
