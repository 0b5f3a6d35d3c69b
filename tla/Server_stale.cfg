\* A connection of the second run gets a descriptor of the first.
CONSTANTS
    Conns = {c1, c2}
    Fds <- ThreeFds
    None = None
    Listen = Listen
    Initial = Initial
    MaxStarts = 2
    PortTaken = FALSE
SPECIFICATION Spec
CHECK_DEADLOCK FALSE
INVARIANTS
    OwnCommonData
