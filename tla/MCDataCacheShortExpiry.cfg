\* Single-value cache with expiration shorter than the retry interval (the defaults: 1 s retry).
CONSTANTS
    Readers = {r1, r2}
    Expiration = 1
    ExpirationOnErr = 0
    RetryInterval = 2
    WaitTimeout = 0
    WithInitData = TRUE
    MaxLoadTime = 1
    MaxTime = 7
    MaxLoads = 3
SPECIFICATION Spec
SYMMETRY ReaderSymmetry
INVARIANT SingleFlight
