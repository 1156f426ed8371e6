SPECIFICATION Spec
CONSTANTS
    r1 = r1
    r2 = r2
    w1 = w1
    p1 = p1
    p2 = p2
    c1 = c1
    c2 = c2
    m1 = m1
    f1 = f1
    f2 = f2
    d1 = d1
    d2 = d2
    k1 = k1
    k2 = k2
    s1 = s1
    h1 = h1
    h2 = h2
    Roots <- MCRoots
    Workers <- MCWorkers
    Adoptions <- MCAdoptions
    LegacyRoot = r1
    NoRoot = NoRoot
    NoRegistry = NoRegistry
    LegacySlot = LegacySlot
    MaxGeneration = 3
    MaxTrouble = 2
    Documents <- MCDocuments
    MaxBlocks = 2
    MaxNotices = 1
    MaxNow = 2
    MaxReplies = 1
    MaxBroadcastTrouble = 1
    Versions <- MCVersions
    MaxToasts = 2
    Scopes <- MCScopes
    NoScope = NoScope
    MaxSwitches = 1
    MaxChoices = 2
    MaxMeasures = 1
    MaxTokens = 1
    MaxFaults = 1
    Linked <- MCLinked
    Paths <- MCPaths
    NoFile = NoFile
    Flows <- MCFlows
    MaxTurns = 4
    MaxMishaps = 1
    Contents <- MCContents
    NoContent = NoContent
    Tasks <- MCTasks
    NoTask = NoTask
    MaxMoves = 4
    Depth <- MCDepth
    Observed <- MCObserved
    Refreshes <- MCRefreshes
    MaxDeeds = 2
    Threads <- MCThreads
    MaxCalls = 3
    MaxChanges = 2
INVARIANTS
    TypeOK
    StartConverges
    ActiveIsRecorded
    DocumentsTakeEffect
    NoticesAreKept
    ChoiceIsKept
    UsageIsAttributed
    ReviewIsOfItsProject
    KnowledgeIsConfirmed
    SessionsFollowDecisions
    AgentsAreServed
VIEW View
CHECK_DEADLOCK FALSE
