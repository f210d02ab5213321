SPECIFICATION FairSpec
CONSTANTS
    l1 = l1
    l2 = l2
    Loads <- MCLoads
    Keys = {"b"}
    HourOf <- MCHourOf
    Raws = {r1, r2}
    Locations = {}
    EndOf <- MCEndOf
    Lookback = 2
    MaxStaged = 2
    MaxFailures = 2
    MaxClears = 1
    Clearable = {"fetch", "refresh", "record"}
PROPERTIES
    RunsEnd
CHECK_DEADLOCK FALSE
