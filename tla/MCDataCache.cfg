\* Single-value cache, loads return within one retry interval, errors not cached.
CONSTANTS
    Readers = {r1, r2}
    Expiration = 2
    ExpirationOnErr = 0
    RetryInterval = 2
    WaitTimeout = 1
    WithInitData = FALSE
    MaxLoadTime = 1
    MaxTime = 8
    MaxLoads = 4
SPECIFICATION Spec
INVARIANTS SingleFlight NoWaitOnceLoaded
PROPERTIES NoReloadWithinExpiration GetReturns
