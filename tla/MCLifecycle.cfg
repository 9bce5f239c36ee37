SPECIFICATION Spec
CONSTANTS
    NCells = 14
    PageCells = 2
    HostPages = {2, 4}
    VectorBase = 8
    NumVectors = 6
    Elfs <- MCElfs
    Calls = {0, 1, 2}
    MonTime = 1
    MonHost = {0}
    ByteValues = 4
    UsecLimit = 2
    MaxSteps = 3
INVARIANTS LoadedImage ProtectsOnlyCode MonitorReached ReportComplete
PROPERTIES DumpRestores FakeClockMonotonic
CHECK_DEADLOCK FALSE
