SPECIFICATION Spec
CONSTANTS
    MaxAttempts = 3
    Base = 1
    Cap = 3
    Threshold = 100
    HeaderValues <- MCHeaderValues
    MaxPacing = 1
INVARIANTS
    TypeOK
    FirstDecisiveAnswerWins
    EveryGetIsPaced
PROPERTIES
    RetriesWhenAsked
CHECK_DEADLOCK FALSE
