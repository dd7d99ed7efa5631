SPECIFICATION Spec
CONSTANTS
    a = a
    b = b
    m1 = m1
    m2 = m2
    BadId = BadId
    NoMac = NoMac
    Pool <- PoolOne
    Macs <- TwoMacs
    TimeLimits <- NoLimit
    IdleTimeout = 0
    DbReliable = TRUE
    MaxTime = 1
    MaxSessions = 2
    MaxDowns = 0
PROPERTY PollStopsOnlyTheDue
