\* Two threads, every way a call can end, all arguments.
CONSTANTS
    Ops = {o1, o2}
    NoOp = NoOp
    Intervals <- FourIntervals
    Timeouts <- FourTimeouts
    MaxCalls = 6
SPECIFICATION FairSpec
CHECK_DEADLOCK FALSE
INVARIANTS
    TypeOK
    AtMostOneEffect
    TimeoutHasNoEffect
    SleepBounded
PROPERTIES
    BlockingReturns
