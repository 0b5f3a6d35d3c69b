\* Two connections are evaluated for the first time at once.
CONSTANTS
    Conns = {c1, c2}
    None = None
    MaxEvals = 2
SPECIFICATION Spec
CHECK_DEADLOCK FALSE
INVARIANTS
    FindsItsData
