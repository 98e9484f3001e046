\* The client manager with valid middleware names only, one service whose
\* list may hold any entry, and the observable; lists of up to two entries.
CONSTANTS
    clients = clients
    obs = obs
    s1 = s1
    missing = missing
    ClientMgr = clients
    Obs = obs
    Missing = missing
    ServiceSeq <- MCServiceSeq
    Bases <- MCBases
    ClientEntries <- ValidEntries
    ServiceEntries <- Entries
    MaxEntries = 2
SPECIFICATION Spec
INVARIANTS TypeOK ApplyNeverPanics MetricsRegisteredIffChained ApplyMatchesConfig
