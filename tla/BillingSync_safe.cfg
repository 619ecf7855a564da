SPECIFICATION Spec
CONSTANTS
    Subs = {s1, s2}
    Workers = {w1, w2}
    NoSub = NoSub
    LiveStatuses = {"active"}
    UnsupportedStatuses = {}
    MaxTime = 2
    MaxRev = 2
    MaxEvents = 2
    MaxSyncs = 1
    MaxFailures = 0
SYMMETRY Symmetry
CHECK_DEADLOCK FALSE
INVARIANTS
    TypeOK
    AcknowledgedIsStored
    RowCoversItsTimestamp
PROPERTIES
    EqualTimeWriteNeverRegresses
    OnlyTerminalIsReplaced
    EventTimeNeverRunsBack
