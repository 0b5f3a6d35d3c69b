\* Nobody connects after stop: the server does not end.
CONSTANTS
    Conns = {c1, c2}
    Fds <- ThreeFds
    None = None
    Listen = Listen
    Initial = Initial
    MaxStarts = 1
    PortTaken = FALSE
SPECIFICATION LeavingSpec
CHECK_DEADLOCK FALSE
PROPERTIES
    StopTerminates
