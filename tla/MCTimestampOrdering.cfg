CONSTANTS
    Txn = {t1, t2, t3}
    Item = {x, y}
    MaxTs = 3
    MaxOps = 4
SPECIFICATION Spec
SYMMETRY Symmetry
INVARIANTS
    TypeOK
    Serializable
    ReadsFollowStamps
    LastWriteIsYoungest
    YoungestNeverRejected
CHECK_DEADLOCK FALSE
