SPECIFICATION Spec
CONSTANTS
    Clients = {"x", "y"}
    Macs = {m, n}
    NoClass = "(null)"
    ClassNames = {"gold", "tin"}
    Ids = {1, 2}
    Width = 4
    Plans <- AllPlans
    MaxFiles = 2
    MaxReloads = 2
    MaxDowns = 1
SYMMETRY Cards
INVARIANTS
    TypeOK
    SlotsApart
    AddressesApart
    KernelServesMembers
    RowsMatchMembers
    ConfiguredAreServed
    FailsForAReason
CHECK_DEADLOCK FALSE
