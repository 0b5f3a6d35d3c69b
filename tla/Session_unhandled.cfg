\* No fault, a download code without a callback: the call hangs.
CONSTANTS
    Threads = {t1, t2}
    NoThread = NoThread
    Codes <- SomeCodes
    Handled <- OnlyData
    ResultCode <- Result
    Sizes = {0, 1}
    MaxCalls = 1
    Faults <- NoFault
SPECIFICATION FairSpec
CHECK_DEADLOCK FALSE
PROPERTIES
    CallReturns
