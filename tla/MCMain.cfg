CONSTANTS
    WordBits = 8
    TageHistory = 16
    OptionSets <- MCOptionSets
    NWords = 1073741824
    RegionWords = 67108864
    Instructions <- MCInstructions
    Pcs <- MCPcs
    ByteOrders = {FALSE}
    Width = 4
    ByteBits = 2
    POLY <- MCPoly
    MaxBuf = 4
SPECIFICATION MCSpec
CHECK_DEADLOCK FALSE
INVARIANTS
    ReportBeforeEnd
    CacheAsAsked
    ListedAsRun
    HashCorrect
