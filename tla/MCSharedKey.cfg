SPECIFICATION Spec
CONSTANTS
    Ingests = {i1, i2}
    Audits = {a1}
    Windows = {"short", "long"}
    MaxRequests <- MCMaxRequests
    Seconds <- MCSeconds
    MaxAttempts = 2
    Base = 1
    Cap = 2
    Hints = {2, 3}
    MaxDelay = 1
    Horizon = 4
SYMMETRY IngestSymmetry
INVARIANTS
    TypeOK
    KeyBound
    RefusalsExplained
    RefusedAgainOnlyByRivals
CHECK_DEADLOCK FALSE
