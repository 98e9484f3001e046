\* Busy ticks: one check, one Watch stream that stays, three cycles, so that a tick can find a cycle still running.
CONSTANTS
    k1 = k1
    k2 = k2
    w1 = w1
    w2 = w2
    Checks <- OneCheck
    Watchers <- OneWatcher
    SendFails = FALSE
    PanicOnError = FALSE
    MaxCycles = 3
SPECIFICATION Spec
PROPERTIES ReportsReachWatchers CycleEnds
