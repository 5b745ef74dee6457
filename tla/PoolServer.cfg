\* Three clients and a pool that grows from one worker to two.
SPECIFICATION ServerSpec
CONSTANTS
    mainThread = mainThread
    acceptor = acceptor
    acceptConn = acceptConn
    Callers = {mainThread, acceptor}
    NumClients = 3
    Tasks = {acceptConn, 1, 2, 3}
    NoTask = NoTask
    minNum = 1
    maxNum = 2
    queueCapacity = 2
INVARIANTS
    ServerTypeOK
    TakenInOrder
PROPERTIES
    AcceptorResumes
    BacklogGrows
    IdlePoolShrinks
CHECK_DEADLOCK FALSE
