CONSTANTS
    Txn = {t1, t2, t3, t4}
    MaxEdges = 4
SPECIFICATION Spec
INVARIANTS
    ColoursMeanCalls
    VerdictCorrect
    CountersExact
    SortCorrect
PROPERTIES
    Terminates
CHECK_DEADLOCK FALSE
