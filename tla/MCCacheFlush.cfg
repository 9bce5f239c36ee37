CONSTANTS
    PoolCells = 4
    Impls = {"direct", "full", "set"}
    NumSets = 2
    Assoc = 2
    Lines = {0, 1, 2, 4}
    Garbage = {0}
    MaxAccesses = 6
    MaxWrites = 1
SPECIFICATION Spec
CHECK_DEADLOCK FALSE
INVARIANT
    AccessReturns
