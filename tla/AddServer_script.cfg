\* A client that runs the script of the example, and one that sends anything.
CONSTANTS
    Conns = {c1, c2}
    Scripted = {c1}
    Values = {1, 3}
    Modulus = 4
SPECIFICATION FairSpec
CHECK_DEADLOCK FALSE
INVARIANTS
    TypeOK
    ResultTrue
    SumCurrent
    ScriptNeverRefused
PROPERTIES
    ScriptEnds
