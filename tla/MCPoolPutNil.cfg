\* pool_put_nil: clients Put what Get returned, nil included.
CONSTANTS
    c1 = c1
    c2 = c2
    c3 = c3
    Clients <- ThreeClients
    MaxIdle = 1
    MaxActive = 2
    Wait = TRUE
    PruneIdle = TRUE
    BorrowCheck = TRUE
    DialFails = TRUE
    PutNil = TRUE
    MaxGets = 3
SPECIFICATION Spec
INVARIANT NoPanic
