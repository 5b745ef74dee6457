\* Three clients and a table of two slots; bytes of one bit.
SPECIFICATION Spec
CONSTANTS
    c1 = c1
    c2 = c2
    c3 = c3
    Clients = {c1, c2, c3}
    NoClient = NoClient
    Text <- MCText
    MaxClients = 2
    Radix = 2
    HEADER = 2
INVARIANTS
    TypeOK
    WholeMessages
    SlotPerClient
PROPERTIES
    AllDelivered
    ThreadsEnd
CHECK_DEADLOCK FALSE
