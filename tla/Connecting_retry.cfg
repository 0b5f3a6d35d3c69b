\* connect and close, called by two threads, with descriptors that run out.
CONSTANTS
    Threads = {t1, t2}
    NoThread = NoThread
    Fds = {1, 2, 3}
    None = None
    Intervals <- ThreeIntervals
    Timeouts <- ThreeTimeouts
    MaxConnects = 2
SPECIFICATION FairSpec
CHECK_DEADLOCK FALSE
INVARIANTS
    TypeOK
    NothingLeaks
    FailureHasNoEffect
    AttemptsUsed
PROPERTIES
    OthersUntouched
    ConnectReturns
