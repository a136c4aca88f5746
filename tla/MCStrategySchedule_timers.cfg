SPECIFICATION FairSpec
CONSTANTS
    Strategies = {oversold, sniper}
    Default = oversold
    Routines = {hourly}
    MaxSessions = 2
    MaxCalls = 7
INVARIANTS
    OneSession
    TimersMatch
PROPERTIES
    QueueMoves
CHECK_DEADLOCK FALSE
