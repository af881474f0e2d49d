CONSTANTS
    p = p
    q = q
    Txn = {t1, t2}
    Page = {p, q}
    Cell <- Cells
    Byte = {0, 1}
    FlushAtCheckpoint = FALSE
    MaxRecords = 5
    MaxCrashes = 2
SPECIFICATION Spec
INVARIANT CommittedSurvives
CHECK_DEADLOCK FALSE
