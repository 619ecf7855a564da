SPECIFICATION Spec
CONSTANTS
    Workers = {w1, w2}
    Limit = 2
    Window = 2
    MaxSeconds = 3
    MaxBack = 1
    MaxFailures = 2
SYMMETRY Symmetry
CHECK_DEADLOCK FALSE
INVARIANTS
    TypeOK
    ExtraSlotsAreResends
PROPERTIES
    IsSlidingWindow
    RetryAfterIsTight
