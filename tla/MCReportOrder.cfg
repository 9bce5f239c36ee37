SPECIFICATION DecodeSpec
CONSTANTS
    NWords = 1073741824
    RegionWords = 67108864
    Instructions <- MCInstructions
    Pcs <- MCPcs
    ByteOrders = {TRUE}
INVARIANTS HandedInstruction
CHECK_DEADLOCK FALSE
