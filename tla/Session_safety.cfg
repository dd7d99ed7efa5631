SPECIFICATION Spec
CONSTANTS
    a = a
    b = b
    m1 = m1
    m2 = m2
    BadId = BadId
    NoMac = NoMac
    Pool <- PoolTwo
    Macs <- TwoMacs
    TimeLimits <- NoLimit
    IdleTimeout = 0
    DbReliable = TRUE
    MaxTime = 1
    MaxSessions = 3
    MaxDowns = 1
SYMMETRY Symmetry
INVARIANTS
    TypeOK
    UniqueClient
    NoGhostAccess
    KernelMirrorsMembers
    GreetedAreServed
PROPERTY
    ImplementsTable
