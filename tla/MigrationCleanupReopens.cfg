SPECIFICATION Spec
CONSTANTS
    o1 = o1
    o2 = o2
    o3 = o3
    Ops <- MCOps
    NoOp = NoOp
    FailingCleanups <- CheckpointCleanup
    MaxEdits = 1
    MaxCrashes = 0
    MaxFaults = 2
    MaxTampers = 0
SYMMETRY MCSymmetry
INVARIANTS
    InterruptionRecoverable
CHECK_DEADLOCK FALSE
