SPECIFICATION Spec
CONSTANTS
    c1 = c1
    c2 = c2
    m1 = m1
    m2 = m2
    none = none
    Requests <- MCRequests
    Clients = {c1, c2}
    Macs = {m1, m2}
    NoMac = none
    ClientOf <- MCClientOf
    MacOf <- MCMacOf
    KindOf <- MCKindOf
    Blocked <- MCBlocked
    Failed <- MCFailed
    ChanSize = 2
    BatchSize = 2
    BatchMode = TRUE
    MacCacheLimit = 1
    BatchAge = 0
    FlushAge = 1
    MaxClockBack = 1
INVARIANTS
    TypeOK
    CountersExact
    RowsExact
    NoRequestLost
    ClientsAccounted
    MacsWitnessed
PROPERTY
    ImplementsQueryLog
