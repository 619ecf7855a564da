SPECIFICATION Spec
CONSTANTS
    MaxJob = 2
    PageSize = 1
    RetainedLimit = 2
    MaxVersion = 1
    MaxFetches = 1
    MaxRefreshes = 2
    MaxMutations = 2
    MaxDisturbances = 0
CHECK_DEADLOCK FALSE
INVARIANTS
    MountLoadsTheList
