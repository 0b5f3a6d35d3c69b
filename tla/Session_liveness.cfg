\* Every call returns although the connection is reset and processes are killed; until
\* that happens, a close cuts no exchange.
CONSTANTS
    Threads = {t1, t2}
    NoThread = NoThread
    Codes <- SomeCodes
    Handled <- SomeRegistered
    ResultCode <- Result
    Sizes = {0, 1}
    MaxCalls = 2
    Faults <- Outages
SPECIFICATION QuietFairSpec
CHECK_DEADLOCK FALSE
INVARIANTS
    CloseLosesNothing
PROPERTIES
    CallReturns
