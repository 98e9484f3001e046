\* A batch load that returns after waitTimeout releases a lagging GetMany.
CONSTANTS
    c1 = c1
    c2 = c2
    k1 = k1
    k2 = k2
    Callers <- MCCallers
    Keys <- OneKey
    Ops <- BothOps
    Expiration = 2
    ExpirationOnErr = 0
    RetryInterval = 2
    WaitTimeout = 1
    EvictTimeoutOpt = 3
    Batch = TRUE
    MaxLoadTime = 3
    MaxTime = 6
    MaxCalls = 2
SPECIFICATION Spec
SYMMETRY CallerSymmetry
INVARIANT GetManyWaitBounded
