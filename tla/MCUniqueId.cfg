\* Three processes (node IDs 2, 1 and none: P3's hostname index overflows),
\* two callers sharing P1; a 7-bit word (4 time, 2 node, 1 step bits, one
\* node bit the instance index) so that step overflows after two IDs in a
\* millisecond;
\* the clock may be set back once.  No restarts.
CONSTANTS
    c1 = c1
    c2 = c2
    c3 = c3
    c4 = c4
    P1 = P1
    P2 = P2
    P3 = P3
    Callers <- MCCallers
    Processes <- MCProcesses
    ProcessOf <- MCProcessOf
    ServiceIDOf <- MCServiceIDOf
    HostOf <- MCHostOf
    Debug = FALSE
    Encrypt <- MCEncrypt
    NodeBits = 2
    InstanceIndexBits = 1
    StepBits = 1
    TimeBits = 4
    MaxReserved = 15
    MaxClock = 3
    MaxBack = 1
    MaxIDs = 5
SPECIFICATION Spec
INVARIANT IdsUnique
PROPERTIES PlainIncreasing NewIDReturns
