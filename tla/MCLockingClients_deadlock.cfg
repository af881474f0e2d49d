CONSTANTS
    Txn = {t1, t2}
    Item = {1, 2}
    Programs <- AnyPrograms
SPECIFICATION Spec
INVARIANTS
    NoSilentDeadlock
