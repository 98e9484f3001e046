\* pool_nowait: no Wait, MaxActive 1: a Get may fail with ErrPoolExhausted.
CONSTANTS
    c1 = c1
    c2 = c2
    c3 = c3
    Clients <- ThreeClients
    MaxIdle = 1
    MaxActive = 1
    Wait = FALSE
    PruneIdle = TRUE
    BorrowCheck = TRUE
    DialFails = TRUE
    PutNil = FALSE
    MaxGets = 5
SPECIFICATION Spec
INVARIANTS ActiveBounded
