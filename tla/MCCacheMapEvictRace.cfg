\* The evictor races an access between its snapshot and its delete.
CONSTANTS
    c1 = c1
    c2 = c2
    k1 = k1
    k2 = k2
    Callers <- MCCallers
    Keys <- OneKey
    Ops <- GetOnly
    Expiration = 2
    ExpirationOnErr = 0
    RetryInterval = 2
    WaitTimeout = 0
    EvictTimeoutOpt = 3
    Batch = FALSE
    MaxLoadTime = 1
    MaxTime = 7
    MaxCalls = 3
SPECIFICATION Spec
SYMMETRY CallerSymmetry
PROPERTY EvictOnlyExpired
