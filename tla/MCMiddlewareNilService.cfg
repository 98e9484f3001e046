\* Any entry in the client manager's middleware list: a bad one panics.
CONSTANTS
    clients = clients
    obs = obs
    s1 = s1
    missing = missing
    ClientMgr = clients
    Obs = obs
    Missing = missing
    ServiceSeq <- MCServiceSeq
    Bases <- MCBases
    ClientEntries <- Entries
    ServiceEntries <- Entries
    MaxEntries = 2
SPECIFICATION Spec
INVARIANT ApplyNeverPanics
