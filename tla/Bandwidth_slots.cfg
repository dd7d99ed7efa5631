SPECIFICATION Spec
CONSTANTS
    a = a
    b = b
    c = c
    NoClient = NoClient
    Clients <- TwoClients
    Rates <- NoneLowHigh
    MaxSlotId = 2
    CountRange = 65536
    MaxLogins = 3
    MaxFailures = 4
SYMMETRY Symmetry
INVARIANTS
    TypeOK
    OwnSlot
    OwnClass
    CountCovers
