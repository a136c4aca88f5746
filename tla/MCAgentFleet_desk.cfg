SPECIFICATION FairSpec
CONSTANTS
    NAgents = 2
    Gated = {2}
    MaxJobs = 2
    MaxAsks = 2
    MaxTrades = 2
    Amounts = {1, 2}
    Budget = 2
    Scenarios <- Ordinary
INVARIANTS SlotsHonest BudgetHolds
PROPERTIES AnswersArrive NobodyStarves
CHECK_DEADLOCK FALSE
