SPECIFICATION Spec
CONSTANTS
    AddressSpace = 32
    CellValues = 3
    MaxRangesScan = 2
    MaxRangesKept = 1
    Dumps <- MCDumps
    RefDirs <- MCRefDirs
    HeaderRead = 2
    IocScanMax = 5
    MzRead = 2
    MzMin = 1
    MaxFaults = 2
INVARIANT UnmodifiedIsIdentical
CHECK_DEADLOCK FALSE
