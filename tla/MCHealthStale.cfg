\* health_stale_watch: one Watch stream that stays, two cycles.
CONSTANTS
    k1 = k1
    k2 = k2
    w1 = w1
    w2 = w2
    Checks <- OneCheck
    Watchers <- OneWatcher
    SendFails = FALSE
    PanicOnError = FALSE
    MaxCycles = 2
SPECIFICATION Spec
PROPERTY WatchersConverge
