\* Concurrent Gets on one key, with eviction: errors are not cached.
CONSTANTS
    c1 = c1
    c2 = c2
    k1 = k1
    k2 = k2
    Callers <- MCCallers
    Keys <- OneKey
    Ops <- GetOnly
    Expiration = 2
    ExpirationOnErr = 0
    RetryInterval = 2
    WaitTimeout = 1
    EvictTimeoutOpt = 3
    Batch = FALSE
    MaxLoadTime = 1
    MaxTime = 6
    MaxCalls = 3
SPECIFICATION Spec
INVARIANTS TypeOK MapSingleFlight
PROPERTIES CallReturns
