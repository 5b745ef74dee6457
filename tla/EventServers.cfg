\* The four programs with two clients.
SPECIFICATION Spec
CONSTANTS
    c1 = c1
    c2 = c2
    Clients = {c1, c2}
    NoClient = NoClient
    Programs <- MCPrograms
    Requests <- MCRequests
    MaxHandlers <- MCHandlers
INVARIANTS
    TypeOK
    AcceptNeverBlocks
    WatchExact
    NoEdgeLost
PROPERTIES
    ClosesOnlyLeft
    LevelAccepts
    RequestsReceived
    LeftIsClosed
CHECK_DEADLOCK FALSE
