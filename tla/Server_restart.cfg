\* The server is stopped and started again; after stop, one more connection and the
\* departure of the clients end it.
CONSTANTS
    Conns = {c1, c2, c3}
    Fds <- ThreeFds
    None = None
    Listen = Listen
    Initial = Initial
    MaxStarts = 2
    PortTaken = TRUE
SPECIFICATION LeavingSpec
CHECK_DEADLOCK FALSE
INVARIANTS
    TypeOK
    SocketsValid
    NothingLeft
    OneLateConnection
    OwnDataUntilRestart
PROPERTIES
    StopCompletes
