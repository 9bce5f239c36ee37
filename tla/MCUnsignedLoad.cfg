CONSTANTS
    ByteBits = {0, 7}
    SignBit = 7
    UnitBit = 0
    Addr <- MCAddr
    Regs = {1, 2}
    FpRegs = {0, 1}
    InitMem <- MCInitMem
    InitReg <- MCInitReg
    MaxInstrs = 2
SPECIFICATION Spec
CHECK_DEADLOCK FALSE
PROPERTY
    UnsignedLoadsZeroExtend
