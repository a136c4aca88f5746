SPECIFICATION Spec
CONSTANTS
    desk = desk
    laptop = laptop
    attic = attic
    layout = layout
    v1 = v1
    v2 = v2
    v3 = v3
    r1 = r1
    r2 = r2
    NoNode = NoNode
    NoVersion = NoVersion
    Nodes <- ThreeNodes
    Writers <- Laptop
    Paths <- OnePath
    Versions <- ThreeVersions
    StampOf <- Stamps
    PeersOf <- Hub
    Tolerance = 1
    Runs <- TwoRuns
    MaxLate = 1
    MaxSkips = 1
INVARIANTS MtimeTravels
PROPERTIES ReportIsTrue NewestSurvives
SYMMETRY AnyRun
CHECK_DEADLOCK FALSE
