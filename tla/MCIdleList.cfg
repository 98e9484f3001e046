\* Five connections: lists with a distinct front, back and several middle
\* elements, so that every pointer update of the three operations matters.
CONSTANTS
    a = a
    b = b
    c = c
    d = d
    e = e
    Nil = Nil
    Conns <- MCConns
SPECIFICATION Spec
INVARIANT WellLinked
PROPERTY ImplementsIdleSeq
