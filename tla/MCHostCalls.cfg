SPECIFICATION HcSpec
CONSTANTS
    MaxFd = 4
    Dirs = {"/", "/d"}
    Names = {"f"}
    Data = {0, 1}
    BufLen = 1
    MaxLen = 2
    Flags <- MCFlags
    Offsets <- MCOffsets
    MARGS = 2
    Filename = "prog"
    Modes <- MCModes
    Existing <- MCExisting
    MaxCalls = 4
    HostWords = {7}
    MyTimeStart = 1048576
    MyTimeStep = 100
    MaxTime = 1048776
INVARIANTS ResultsReadable
PROPERTIES ImplementsService
CHECK_DEADLOCK FALSE
