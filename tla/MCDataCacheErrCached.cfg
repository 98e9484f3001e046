\* Single-value cache with initial data, tolerated errors cached for ExpirationOnErr.
CONSTANTS
    Readers = {r1, r2}
    Expiration = 3
    ExpirationOnErr = 2
    RetryInterval = 2
    WaitTimeout = 1
    WithInitData = TRUE
    MaxLoadTime = 1
    MaxTime = 8
    MaxLoads = 4
SPECIFICATION Spec
INVARIANTS SingleFlight NoWaitOnceLoaded
