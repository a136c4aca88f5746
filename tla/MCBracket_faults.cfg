SPECIFICATION Spec
CONSTANTS
    Specs <- AllKinds
    Buy = 2
    Wallet = 0
    Tp1Level = 5
    TopLevel = 6
    MaxOrders = 6
    Upsets <- Faults
INVARIANTS OneStop OneEntryRests ClosedIsOffered
PROPERTIES NeverWidens
CHECK_DEADLOCK FALSE
