SPECIFICATION Spec
CONSTANTS
    Records = {1, 2, 3, 4, 5, 6, 7}
    IdentityOf <- MCIdentityOf
    PageSize = 2
    MaxPages = 3
    MaxSize = 5
    MaxChanges = 2
INVARIANTS
    TypeOK
    StillDatasetIsExact
    MissesOnlyAfterRemoval
    DuplicatesAreCounted
    StuckServerIsReported
CHECK_DEADLOCK FALSE
