\* pool_wait: Wait with MaxActive 2 shared by three clients.
CONSTANTS
    c1 = c1
    c2 = c2
    c3 = c3
    Clients <- ThreeClients
    MaxIdle = 1
    MaxActive = 2
    Wait = TRUE
    PruneIdle = TRUE
    BorrowCheck = TRUE
    DialFails = TRUE
    PutNil = FALSE
    MaxGets = 5
SPECIFICATION Spec
INVARIANTS ActiveAccounting TokenConservation
PROPERTIES CallReturns
