\* Two clients with maxSize below minSize + 2.
SPECIFICATION Spec
CONSTANTS
    Clients = {c1, c2}
    Conns = {n1, n2, n3, n4}
    NoConn = NoConn
    minSize = 1
    maxSize = 2
    maxIdleTime = 2
    Rounds = 2
PROPERTY
    ProducerSleepsWhenMany
