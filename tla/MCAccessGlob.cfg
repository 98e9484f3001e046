\* The glob matcher against its reference on every short name and pattern.
CONSTANTS
    c1 = c1
    c2 = c2
    c3 = c3
    c4 = c4
    c5 = c5
    c6 = c6
    Exempt <- MCExempt
    Anonymous = anonymous
    Policy <- MCPolicy
    Grouping <- MCGrouping
    MaxHierarchy = 10
    Calls = {}
    PeerOf <- MCPeerOf
    MethodOf <- MCMethodOf
SPECIFICATION Spec
INVARIANT GlobOK
