SPECIFICATION Spec
CONSTANTS
    c1 = c1
    c2 = c2
    m1 = m1
    m2 = m2
    none = none
    Requests <- MCRequests3
    Clients = {c1, c2}
    Macs = {m1, m2}
    NoMac = none
    ClientOf <- MCClientOf3
    MacOf <- MCMacOf3
    KindOf <- MCKindOf3
    Blocked <- MCBlocked3
    Failed <- MCFailed3
    ChanSize = 1
    BatchSize = 2
    BatchMode = TRUE
    MacCacheLimit = 1
    BatchAge = 0
    FlushAge = 1
    MaxClockBack = 1
INVARIANT
    DropsCounted
