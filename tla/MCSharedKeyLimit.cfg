SPECIFICATION Spec
CONSTANTS
    Ingests = {i1, i2}
    Audits = {}
    Windows = {"short", "long"}
    MaxRequests <- MCMaxRequests
    Seconds <- MCSeconds
    MaxAttempts = 2
    Base = 1
    Cap = 2
    Hints = {2, 3}
    MaxDelay = 0
    Horizon = 4
INVARIANTS
    KeyWithinLimit
CHECK_DEADLOCK FALSE
