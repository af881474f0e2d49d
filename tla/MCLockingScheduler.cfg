CONSTANTS
    Txn = {t1, t2, t3}
    Item = {x, y}
    MaxOps = 4
SPECIFICATION Spec
SYMMETRY Symmetry
INVARIANTS
    TypeOK
    TxnLocksAgree
    GrantsHonoured
    LockPointOrder
    Serializable
PROPERTIES
    ImplementsRWLocks
CHECK_DEADLOCK FALSE
