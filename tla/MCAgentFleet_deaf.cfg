SPECIFICATION Spec
CONSTANTS
    NAgents = 2
    Gated = {2}
    MaxJobs = 3
    MaxAsks = 0
    MaxTrades = 0
    Amounts = {1}
    Budget = 2
    Scenarios <- Deaf
INVARIANTS OneRun
CHECK_DEADLOCK FALSE
