SPECIFICATION Spec
CONSTANTS
    Workers = {w1, w2}
    RowIds = {r1, r2, r3, r4}
    Nonces = {n1, n2}
    MaxForgotten = 1
    NoSession = NoSession
    NoRow = NoRow
    MaxFailures = 2
SYMMETRY Symmetry
CHECK_DEADLOCK FALSE
INVARIANTS
    TypeOK
    OneLiveUrl
    HandedOutIsMinted
    SessionsAreOfTheMapping
    OneCustomerPerKey
