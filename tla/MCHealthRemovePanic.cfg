\* health_remove_panic: two Watch streams; the first one's client goes away.
CONSTANTS
    k1 = k1
    k2 = k2
    w1 = w1
    w2 = w2
    Checks <- OneCheck
    Watchers <- TwoWatchers
    SendFails = TRUE
    PanicOnError = FALSE
    MaxCycles = 1
SPECIFICATION Spec
INVARIANT NoRemovePanic
