SPECIFICATION FairSpec
CONSTANTS
    Workers = {w1, w2}
    StatusKinds = {"supported", "unsupported"}
    MaxEvents = 2
    MaxFailures = 2
CHECK_DEADLOCK FALSE
INVARIANTS
    TypeOK
    AcknowledgedIsSettled
    SupportedRepairIsRetried
PROPERTIES
    EventuallyAcknowledged
