CONSTANTS
    p = p
    q = q
    Txn = {t1, t2}
    Page = {p, q}
    Cell <- Cells
    Byte = {0, 1}
    FlushAtCheckpoint = TRUE
    MaxRecords = 6
    MaxCrashes = 2
SPECIFICATION Spec
SYMMETRY Symmetry
INVARIANTS
    RedoRepeatsHistory
    AnalysisExact
    LsnsExact
    UndoFindsPages
PROPERTIES
    ImplementsAtomicStore
CHECK_DEADLOCK FALSE
