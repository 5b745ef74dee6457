\* Three clients, and room above minSize for each of them.
SPECIFICATION FairSpec
CONSTANTS
    Clients = {c1, c2, c3}
    Conns = {n1, n2, n3, n4, n5}
    NoConn = NoConn
    minSize = 1
    maxSize = 5
    maxIdleTime = 2
    Rounds = 1
INVARIANTS
    TypeOK
    ExclusiveUse
    HeadIdleLongest
    ProducerAwake
    PoolBounded
PROPERTIES
    GetReturns
    SurplusRecycled
