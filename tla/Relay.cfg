SPECIFICATION RelaySpec
CHECK_DEADLOCK FALSE
CONSTANTS
    Tasks = {1, 2}
    Messages = {1, 2}
    CancelBound = 1
    CrashBound = 1
    ProxyTimeout = 1
    PostTimeout = 3
    CommandTimeout = 1
    Grace = 1
    Latency = 0
INVARIANTS
    NothingLostToTimeout
    ClientToldStore
PROPERTIES
    WorkIsRecorded
    CommandsEnd
