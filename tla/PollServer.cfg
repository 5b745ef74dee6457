\* Two clients.
SPECIFICATION Spec
CONSTANTS
    Clients = {c1, c2}
    lfd = lfd
    NoFd = NoFd
    Cells = 3
PROPERTY
    ConnectionAccepted
CHECK_DEADLOCK FALSE
