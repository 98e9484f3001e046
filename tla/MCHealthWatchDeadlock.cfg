\* health_watch_deadlock: a Watch stream's client goes away while reports arrive.
\* The stuck state has no successor; deadlock checking is off so that TLC
\* reports it as the liveness violation it is.
CONSTANTS
    k1 = k1
    k2 = k2
    w1 = w1
    w2 = w2
    Checks <- OneCheck
    Watchers <- OneWatcher
    SendFails = TRUE
    PanicOnError = FALSE
    MaxCycles = 2
SPECIFICATION Spec
PROPERTY LeaveCompletes
CHECK_DEADLOCK FALSE
