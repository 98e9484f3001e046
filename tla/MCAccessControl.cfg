\* Five calls: TLS client n on services s and t (same method name), a TLS
\* client known only by its DNS names, an in-process call, and a TLS call
\* without certificate to the health service; policies for n by pattern,
\* by role and by a service-qualified object.
CONSTANTS
    c1 = c1
    c2 = c2
    c3 = c3
    c4 = c4
    c5 = c5
    c6 = c6
    Exempt <- MCExempt
    Anonymous = anonymous
    Policy <- MCPolicy
    Grouping <- MCGrouping
    MaxHierarchy = 10
    Calls <- MCCalls
    PeerOf <- MCPeerOf
    MethodOf <- MCMethodOf
SPECIFICATION Spec
INVARIANTS TypeOK DecidedByMethodName CheckNeverPanics
