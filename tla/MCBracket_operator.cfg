SPECIFICATION FairSpec
CONSTANTS
    Specs <- WithStop
    Buy = 1
    Wallet = 0
    Tp1Level = 4
    TopLevel = 5
    MaxOrders = 6
    Upsets <- Operator
INVARIANTS NotForgotten
PROPERTIES LockHolds Adopted Recovers
CHECK_DEADLOCK FALSE
