SPECIFICATION FairSpec
CONSTANTS
    NSteps = 2
    Shapes <- MixedOnly
    MaxPlans = 2
    MaxEntries = 2
    MaxRuns = 2
    MaxOrders = 2
    MaxPolls = 1
    MaxCrashes = 1
INVARIANTS FilledIsReal OnePlacementPerLife
PROPERTIES RestartRestores RunsEnd SequentialOrder StaleStartsNothing
CHECK_DEADLOCK FALSE
