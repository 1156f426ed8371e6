SPECIFICATION Spec
CONSTANTS
    old = old
    new = new
    a1 = a1
    a2 = a2
    release = release
    runtime = runtime
    NoMaterial = NoMaterial
    Builds <- MCBuilds
    Release = new
    Admins <- MCAdmins
    MaxRecords = 3
    Materials <- MCMaterials
    Persistent <- MCPersistent
    Consumer <- MCConsumer
    MaxTasks = 2
    MaxTrouble = 2
    MaxCalls = 2
    MaxBeside = 2
    Ttl = 1
    MaxClock = 1
INVARIANTS
    TypeOK
    AuthorityIsEarned
    StuckHasCause
    FailedUpgradeRestores
PROPERTIES
    RecoveryOpensPair
    CallsReturn
CHECK_DEADLOCK FALSE
