\* An interval below a second: the call gives up after the first rejection.
CONSTANTS
    Ops = {o1}
    NoOp = NoOp
    Intervals <- FourIntervals
    Timeouts <- FourTimeouts
    MaxCalls = 3
SPECIFICATION Spec
CHECK_DEADLOCK FALSE
INVARIANTS
    TimeoutElapsed
