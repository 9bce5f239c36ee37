CONSTANTS
    W = 4
    Regs <- MCRegs
    FpRegs <- MCFpRegs
    Programs <- AllPrograms
    InitRegs <- MCInitRegs
    InitFp <- MCInitFp
    HostOp <- MCHostOp
    HostLess <- MCHostLess
    HostEqual <- MCHostEqual
    HostMax <- MCHostMax
    HostOne <- MCHostOne
    HostConvert <- MCHostConvert
SPECIFICATION Spec
CHECK_DEADLOCK FALSE
INVARIANTS
    IntegerIdioms
    ProductIdioms
    FpIdioms
