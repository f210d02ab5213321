SPECIFICATION Spec
CONSTANTS
    LocationRecords <- MCLocationRecords
    Providers = {66, 70}
    TargetParameters = {2, 7}
    Texts = {"p1", "q1", "end", "bad"}
    InstantOf <- MCInstantOf
    Window = {0, 1}
    MaxLocations = 2
    MaxRows = 2
INVARIANT
    RepeatedLocationAccepted
CHECK_DEADLOCK FALSE
