SPECIFICATION FairSpec
CONSTANTS
    Workers = {w1, w2}
    RowIds = {r1, r2, r3}
    Nonces = {n1}
    MaxForgotten = 1
    NoSession = NoSession
    NoRow = NoRow
    MaxFailures = 1
CHECK_DEADLOCK FALSE
PROPERTIES
    ClaimIsReleased
