SPECIFICATION Spec
CONSTANTS
    l1 = l1
    l2 = l2
    Loads <- MCLoads
    Keys = {"b", "c"}
    HourOf <- MCHourOf
    Raws = {r1, r2}
    Locations = {x}
    EndOf <- MCEndOf
    Lookback = 2
    MaxStaged = 2
    MaxFailures = 1
    MaxClears = 1
    Clearable = {"fetch", "record"}
SYMMETRY Symmetry
INVARIANTS
    TypeOK
    PublishedAsCollected
    EventsAreDurable
    SummaryTruthful
PROPERTIES
    RerunIsIdempotent
CHECK_DEADLOCK FALSE
