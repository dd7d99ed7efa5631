SPECIFICATION FairSpec
CONSTANTS
    a = a
    b = b
    m1 = m1
    m2 = m2
    BadId = BadId
    NoMac = NoMac
    Pool <- PoolOne
    Macs <- OneMac
    TimeLimits <- WithLimit
    IdleTimeout = 1
    DbReliable = FALSE
    MaxTime = 2
    MaxSessions = 2
    MaxDowns = 1
INVARIANT NoGhostAccess
PROPERTIES
    ExpiredSessionsEnd
    IdleClientsEnd
