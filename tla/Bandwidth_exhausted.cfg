SPECIFICATION FairSpec
CONSTANTS
    a = a
    b = b
    c = c
    NoClient = NoClient
    Clients <- TwoClients
    Rates <- OneRate
    MaxSlotId = 2
    CountRange = 65536
    MaxLogins = 4
    MaxFailures = 0
PROPERTY RequestEnds
CHECK_DEADLOCK FALSE
