CONSTANTS
    NWords = 3
    Addr <- MCAddr
    RsbSize = 2
    MaxIcnt = 6
    HistLen = 1
    BpredImpls = {"gshare"}
    MaxNest = 1
SPECIFICATION Spec
CHECK_DEADLOCK FALSE
INVARIANTS
    RsbHoldsCalls
PROPERTIES
    ImplementsDelaySlot
    MatchedReturnPredicted
