SPECIFICATION Spec
CONSTANTS
    MaxWrites = 4
    MaxMonths = 2
    MaxTorn = 2
    MaxCrashes = 2
    MaxQueue = 2
INVARIANTS RowsAreTheFiles ChainNeverForks VerifyHonest
CHECK_DEADLOCK FALSE
