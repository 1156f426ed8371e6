SPECIFICATION Spec
CONSTANTS
    one = one
    rc = rc
    two = two
    NoRelease = NoRelease
    Releases <- MCReleases
    Number <- MCNumber
    Schema <- MCSchema
    From <- MCFrom
    First = one
    MaxCommands = 3
    MaxBeside = 2
    MaxTrouble = 2
INVARIANTS
    TypeOK
    PointedIsTrusted
    PinIsHonoured
    FailureRestores
PROPERTIES
    PinFollowsPointer
CHECK_DEADLOCK FALSE
