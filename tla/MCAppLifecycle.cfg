\* Three job names (two registered and configured, one only nameable with
\* --job), two services (s1 gRPC + HTTP, s2 HTTP only) whose start may fail,
\* the observable HTTP server, and an Init that may fail.
CONSTANTS
    j1 = j1
    j2 = j2
    j3 = j3
    s1 = s1
    s2 = s2
    obs = obs
    Jobs <- MCJobs
    Registered <- MCRegistered
    ConfiguredJobs <- MCConfiguredJobs
    Services <- MCServices
    Endpoints <- MCEndpoints
    Obs = obs
    InitFails = TRUE
    JobErrs = TRUE
    StartFails = TRUE
SPECIFICATION Spec
INVARIANT CleanExit
PROPERTIES RunReturns
