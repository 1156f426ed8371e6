SPECIFICATION FairSpec
CONSTANTS
    o1 = o1
    o2 = o2
    o3 = o3
    Ops <- MCOps
    NoOp = NoOp
    FailingCleanups <- NoCleanups
    MaxEdits = 1
    MaxCrashes = 2
    MaxFaults = 2
    MaxTampers = 1
ACTION_CONSTRAINT InOrder
INVARIANTS
    TypeOK
    NeverLooksFresh
    RestorableAlways
    IncompleteNeverHealthy
    InterruptionRecoverable
    PinHasRuntime
PROPERTIES
    CheckpointOutlivesSwap
    KeepsContract
    InterruptionEnds
CHECK_DEADLOCK FALSE
