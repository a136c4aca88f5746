SPECIFICATION FairSpec
CONSTANTS
    plans = plans
    trades = trades
    NoKey = NoKey
    Keys <- TwoKeys
    Deletable <- Plans
    InPlace <- None
    MaxVersions = 2
    MaxSweeps = 2
    MaxCrashes = 2
INVARIANTS NeitherDrifts DiskIsLast
PROPERTIES RowsCatchUp
CHECK_DEADLOCK FALSE
