SPECIFICATION Spec
CONSTANTS
    m = m
    nt = nt
    LocationRecords <- MCLocationRecords
    TargetParameters = {2, 7}
    Texts = {"june", "july", "naive"}
    UtcOf <- MCUtcOf
    Answers <- MCAnswers
    InstantOf <- MCInstantOf
    Missing = m
    NoTime = nt
    MaxLocations = 2
    MaxClears = 1
INVARIANTS
    TypeOK
    WholeAudits
    ResultsTrue
    RepeatsExplained
CHECK_DEADLOCK FALSE
