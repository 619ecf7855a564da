SPECIFICATION FairSpec
CONSTANTS
    Subs = {s1}
    Workers = {w1, w2}
    NoSub = NoSub
    LiveStatuses = {"incomplete", "active"}
    UnsupportedStatuses = {"trialing"}
    MaxTime = 2
    MaxRev = 2
    MaxEvents = 3
    MaxSyncs = 1
    MaxFailures = 1
CHECK_DEADLOCK FALSE
PROPERTIES
    EventuallyMirrors
