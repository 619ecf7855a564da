SPECIFICATION Spec
CONSTANTS
    MaxJob = 2
    PageSize = 1
    RetainedLimit = 2
    MaxVersion = 1
    MaxFetches = 2
    MaxRefreshes = 2
    MaxMutations = 2
    MaxDisturbances = 1
CHECK_DEADLOCK FALSE
INVARIANTS
    TypeOK
    ListReadIsComplete
    SettlesWhenSequential
PROPERTIES
    AppliedListIsFresh
