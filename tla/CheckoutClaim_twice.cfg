SPECIFICATION Spec
CONSTANTS
    Workers = {w1, w2}
    RowIds = {r1, r2, r3}
    Nonces = {n1, n2}
    MaxForgotten = 0
    NoSession = NoSession
    NoRow = NoRow
    MaxFailures = 0
CHECK_DEADLOCK FALSE
INVARIANTS
    NeverPaysTwice
