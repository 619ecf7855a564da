SPECIFICATION FairSpec
CONSTANTS
    Workers = {w1, w2}
    FreeLimit = 1
    RetainedLimit = 2
    Prices = {"premium", "retired"}
    Allowlist = {"premium"}
    BillingRows <- AllRows
    Now = 0
    Priorities = {0}
    MaxJobs = 3
    MaxChanges = 1
    MaxFailures = 1
CHECK_DEADLOCK FALSE
PROPERTIES
    StorageFollowsBilling
