SPECIFICATION FairSpec
CONSTANTS
    MaxWrites = 5
    MaxMonths = 1
    MaxTorn = 0
    MaxCrashes = 2
    MaxQueue = 2
INVARIANTS CaughtUp
PROPERTIES ImplementsLog Mirrored
CHECK_DEADLOCK FALSE
