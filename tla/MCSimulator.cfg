CONSTANTS
    NWords = 2
    Addr <- MCAddr
    RsbSize = 1
    MaxIcnt = 3
    HistLen = 3
    BpredImpls = {"gshare", "bimodal"}
    MaxNest = 2
    WordBits = 4
    LgPht = 1
    LgCPht = 1
    PcShift = 0
    LgInsn = 0
    LgDigit = 2
    NumSets = 1
    Lines = {0, 1}
    MaxAccesses = 3
SPECIFICATION SimFairSpec
CHECK_DEADLOCK FALSE
INVARIANTS
    TypeOK
    BudgetInv
    BreakUnwinds
    HistoriesAgree
    ReportAddsUp
PROPERTIES
    HitsAreFresh
    PredictorInContext
    Termination
