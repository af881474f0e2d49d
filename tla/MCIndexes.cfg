CONSTANTS
    Width = 6
    Key <- ChainedKeys
    Value = {v, w}
    Capacity = 3
    MinKey = 1
    MaxKey = 7
    Orders = {3, 4}
    BUCKET_CAPACITY = 2
    Multiplier = 49
SYMMETRY Symmetry
SPECIFICATION MCSpec
INVARIANTS
    TreeBalanced
    TreeRangeExact
    DirectoryExact
    SizeExact
PROPERTIES
    TreeImplements
    ExtendibleImplements
    ImplementsDictionary
CHECK_DEADLOCK FALSE
