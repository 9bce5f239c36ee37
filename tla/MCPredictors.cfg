CONSTANTS
    Addr = {0, 1, 3}
    WordBits = 4
    TableLengths <- MCTableLengths
    LgPht = 1
    TagLen = 2
    AddrShift = 0
    ResetPeriod = 2
    MaxBranches = 5
    MaxJumps = 1
SPECIFICATION MCSpec
CHECK_DEADLOCK FALSE
INVARIANTS
    TageTypeOK
    NothingUseful
PROPERTIES
    AllocatesNext
    ImplementsTage
    ImplementsPredictor
