CONSTANTS
    Bases <- Tables
    Names = {"a", "b", "c", "d"}
    Constants <- Compared
    MaxOps = 4
    WordBits = 5
    Name = {"r", "s", "t", "u"}
    Stats <- SomeStats
    Queries <- SomeQueries
    Width = 16
    Agent <- SomeAgents
    KeyName = {k, l}
    Bytes <- SomeBytes
    Timestamp = {7, 9, 65535}
    MaxPuts = 3
SYMMETRY Symmetry
SPECIFICATION MCSpec
INVARIANTS
    AlgebraExact
    PlansSound
    GetExact
    ListsExact
    IndexesFollow
CHECK_DEADLOCK FALSE
