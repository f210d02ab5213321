SPECIFICATION BronzeSpec
CONSTANTS
    l1 = l1
    l2 = l2
    Loads <- MCLoads
    Keys = {"b", "c"}
    HourOf <- MCHourOf
    Raws = {r1, r2}
    Locations = {x}
    EndOf <- MCEndOf
    Lookback = 2
    MaxStaged = 2
SYMMETRY Symmetry
INVARIANTS
    TablesTypeOK
    BronzeUnique
PROPERTIES
    AtomicPublication
    DiffIsWhatHappened
