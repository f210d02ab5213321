SPECIFICATION FairSpec
CONSTANTS
    Threads = {t1, t2}
    Windows = {"short", "long"}
    MaxRequests <- MCMaxRequests
    Seconds <- MCSeconds
    Calls = 3
    Horizon = 5
INVARIANTS
    TypeOK
    WindowBound
PROPERTIES
    ImplementsPacing
    SleepsOnlyWhenFull
    SleepSuffices
    EveryCallReturns
CHECK_DEADLOCK FALSE
