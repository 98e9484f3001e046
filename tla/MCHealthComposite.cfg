\* health_composite_race: two checks write finalStatus concurrently.
CONSTANTS
    k1 = k1
    k2 = k2
    w1 = w1
    w2 = w2
    Checks <- TwoChecks
    Watchers <- OneWatcher
    SendFails = FALSE
    PanicOnError = FALSE
    MaxCycles = 1
SPECIFICATION Spec
INVARIANT CompositeWorst
