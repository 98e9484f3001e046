\* health_leave: two checks whose CheckFuncs may hang, panicOnError, one Watch stream whose client may go away, one cycle.
CONSTANTS
    k1 = k1
    k2 = k2
    w1 = w1
    w2 = w2
    Checks <- TwoChecks
    Watchers <- OneWatcher
    SendFails = TRUE
    PanicOnError = TRUE
    MaxCycles = 1
SPECIFICATION Spec
PROPERTY CycleEnds
