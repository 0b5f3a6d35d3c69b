\* Two threads share the client, every fault, a code of every group.
CONSTANTS
    Threads = {t1, t2}
    NoThread = NoThread
    Codes <- AllCodes
    Handled <- Registered
    ResultCode <- Result
    Sizes = {0, 1}
    MaxCalls = 3
    Faults <- AllFaults
SYMMETRY ThreadSymmetry
SPECIFICATION Spec
CHECK_DEADLOCK FALSE
INVARIANTS
    TypeOK
    IInv
    InStep
    OutcomeTruthful
    SerialExecution
    NoMutualWait
PROPERTIES
    ExecutesAtMostOnce
    KeepsPromise
