\* pool_wait: Wait with MaxActive 2 shared by three clients, the idle list
\* kept as the linked list of poolConns.
CONSTANTS
    c1 = c1
    c2 = c2
    c3 = c3
    Clients <- ThreeClients
    MaxIdle = 1
    MaxActive = 2
    Wait = TRUE
    PruneIdle = TRUE
    BorrowCheck = TRUE
    DialFails = TRUE
    PutNil = FALSE
    MaxGets = 5
SPECIFICATION ComposedSpec
INVARIANTS ActiveAccounting TokenConservation IdleListMirrors
PROPERTIES CallReturns
