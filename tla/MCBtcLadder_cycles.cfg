SPECIFICATION FairSpec
CONSTANTS
    MaxSells = 3
    MaxOrders = 5
    Passes = {1}
    Scenarios <- Ordinary
INVARIANTS BackedBySales OneFillOneCycle
PROPERTIES Credited Hedges
CHECK_DEADLOCK FALSE
