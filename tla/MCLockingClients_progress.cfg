CONSTANTS
    Txn = {t1, t2, t3}
    Item = {1, 2}
    Programs <- AnyPrograms
SPECIFICATION FairSpec
INVARIANTS
    BlockedByTheLiving
PROPERTIES
    AllFinish
