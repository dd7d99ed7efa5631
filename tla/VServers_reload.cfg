SPECIFICATION FairSpec
CONSTANTS
    Devs <- DevNames
    StartsWith <- NameStarts
    MaxIfb = 4
    IntBits = 3
    Names = {"A", "B"}
    Numbers = {1, 2}
    Nets <- Networks
    Clients <- Addresses
    Covers <- CoversC
    Before <- BeforeAll
    NoName = NoName
    NoNet = NoNet
    NoDev = NoDev
    Plans <- AllPlans
    MaxFiles = 2
    MaxReloads = 2
    MaxDowns = 1
INVARIANTS
    TypeOK
    IfbApart
    ConfiguredAreServed
    ServedInThreePlaces
    InterfacesCounted
    FailsForAReason
PROPERTIES
    ReloadKeepsSessions
    RemovedLeaveNothing
    ReloadEnds
CHECK_DEADLOCK FALSE
