SPECIFICATION Spec
CONSTANTS
    p1 = p1
    p2 = p2
    i1 = i1
    i2 = i2
    r1 = r1
    r2 = r2
    NoId = NoId
    NoRecord = NoRecord
    Procs <- MCProcs
    Ids <- MCIds
    Records <- MCRecords
    MaxEdits = 0
    MaxCrashes = 1
    MaxFaults = 1
SYMMETRY MCSymmetry
INVARIANTS
    TypeOK
    MutationAuthorized
    CompletedIsApplied
    EvidenceAgrees
PROPERTIES
    ForwardOnly
    UncertainNeverDenied
CHECK_DEADLOCK FALSE
