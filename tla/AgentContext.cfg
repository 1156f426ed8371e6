SPECIFICATION BridgeSpec
CONSTANTS
    p1 = p1
    p2 = p2
    d1 = d1
    d2 = d2
    h1 = h1
    Scopes <- MCScopes
    NoScope = NoScope
    Contents <- MCContents
    NoContent = NoContent
    Tasks = {}
    NoTask = NoTask
    MaxMoves = 2
    Threads <- MCThreads
    MaxCalls = 1
    MaxChanges = 2
INVARIANTS
    ContextIsPromised
CHECK_DEADLOCK FALSE
