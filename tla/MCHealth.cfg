\* health_watch: one check, two Watch streams whose clients stay, two cycles.
CONSTANTS
    k1 = k1
    k2 = k2
    w1 = w1
    w2 = w2
    Checks <- OneCheck
    Watchers <- TwoWatchers
    SendFails = FALSE
    PanicOnError = FALSE
    MaxCycles = 2
SPECIFICATION Spec
PROPERTIES ReportsReachWatchers CycleEnds
