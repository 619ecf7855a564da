SPECIFICATION Spec
CONSTANTS
    Workers = {w1, w2}
    FreeLimit = 1
    RetainedLimit = 2
    Prices = {"premium", "retired"}
    Allowlist = {"premium"}
    BillingRows <- AllRows
    Now = 0
    Priorities = {0, 3}
    MaxJobs = 3
    MaxChanges = 2
    MaxFailures = 0
SYMMETRY Symmetry
CHECK_DEADLOCK FALSE
INVARIANTS
    TypeOK
PROPERTIES
    GrowthWithinPlan
    LocksOnlyOverflow
    NothingLostUnasked
    WritesAsAllowed
