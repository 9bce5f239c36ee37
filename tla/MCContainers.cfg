CONSTANTS
    BPW = 3
    NBits = 7
    PoolCells = 5
    Impls = {"direct", "full", "set"}
    NumSets = 2
    Assoc = 4
    Lines = {0, 2, 4, 6, 8, 1}
    Garbage = {0}
    MaxAccesses = 6
    MaxWrites = 1
SPECIFICATION MCSpec
CHECK_DEADLOCK FALSE
INVARIANTS
    LoopInv
    Represents
    FoldSpan
    ListsIntact
PROPERTY
    ImplementsLru
