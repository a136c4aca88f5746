SPECIFICATION FairSpec
CONSTANTS
    MaxOrders = 3
    MaxTrades = 2
    Jobs = {1, 2}
    Scenarios <- Ordinary
INVARIANTS TradesOnce DisarmHolds
PROPERTIES Guarded
CHECK_DEADLOCK FALSE
