\* Get and GetMany on one key with a batch loader; errors are cached.
CONSTANTS
    c1 = c1
    c2 = c2
    k1 = k1
    k2 = k2
    Callers <- MCCallers
    Keys <- OneKey
    Ops <- BothOps
    Expiration = 2
    ExpirationOnErr = 2
    RetryInterval = 2
    WaitTimeout = 1
    EvictTimeoutOpt = 3
    Batch = TRUE
    MaxLoadTime = 1
    MaxTime = 5
    MaxCalls = 3
SPECIFICATION Spec
PROPERTIES CallReturns
