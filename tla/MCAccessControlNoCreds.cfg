\* A fifth call on a service built without TLS: its peer has no AuthInfo.
CONSTANTS
    c1 = c1
    c2 = c2
    c3 = c3
    c4 = c4
    c5 = c5
    c6 = c6
    Exempt <- MCExempt
    Anonymous = anonymous
    Policy <- MCPolicy
    Grouping <- MCGrouping
    MaxHierarchy = 10
    Calls <- MCCallsNoCreds
    PeerOf <- MCPeerOf
    MethodOf <- MCMethodOf
SPECIFICATION Spec
INVARIANT CheckNeverPanics
