SPECIFICATION Spec
CONSTANTS
    o1 = o1
    o2 = o2
    o3 = o3
    Ops <- MCOps
    NoOp = NoOp
    FailingCleanups <- AllCleanups
    MaxEdits = 0
    MaxCrashes = 1
    MaxFaults = 3
    MaxTampers = 0
SYMMETRY MCSymmetry
PROPERTIES
    SurvivesLateCleanups
CHECK_DEADLOCK FALSE
