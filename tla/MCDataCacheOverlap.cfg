\* Loads that may outlast the retry interval, so two of them overlap.
CONSTANTS
    Readers = {r1, r2}
    Expiration = 1
    ExpirationOnErr = 0
    RetryInterval = 1
    WaitTimeout = 0
    WithInitData = TRUE
    MaxLoadTime = 3
    MaxTime = 6
    MaxLoads = 3
SPECIFICATION Spec
PROPERTY ValueInLoadOrder
CHECK_DEADLOCK FALSE
