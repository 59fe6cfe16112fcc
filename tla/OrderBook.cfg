CONSTANTS
    Orders = {1, 2}
    Expiry <- MCExpiry
    Buffer = 1
    PerPage = 2
    Posts = {p1, p2}
    Reads = {g1}
    MaxTime = 1
SPECIFICATION Spec
SYMMETRY PostSymmetry
INVARIANTS
    KeptWereAccepted
    ConfirmedAreKept
    ExistingIsFound
    OnlyRestoredAreMissed
CHECK_DEADLOCK FALSE
