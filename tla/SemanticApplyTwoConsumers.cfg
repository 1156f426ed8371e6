SPECIFICATION Spec
CONSTANTS
    p1 = p1
    p2 = p2
    i1 = i1
    i2 = i2
    r1 = r1
    r2 = r2
    NoId = NoId
    NoRecord = NoRecord
    Procs <- MCProcs
    Ids <- MCId
    Records <- MCRecords
    MaxEdits = 0
    MaxCrashes = 0
    MaxFaults = 0
SYMMETRY MCSymmetry
INVARIANTS
    OneConsumer
CHECK_DEADLOCK FALSE
