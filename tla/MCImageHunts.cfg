SPECIFICATION Spec
CONSTANTS
    AddressSpace = 32
    CellValues = 3
    MaxRangesScan = 2
    MaxRangesKept = 1
    Dumps <- MCDumps
    RefDirs <- MCRefDirs
    HeaderRead = 2
    IocScanMax = 5
    MzRead = 2
    MzMin = 1
    MaxFaults = 2
INVARIANTS CleanIsCompared ScoreIsTrue GapsAreNamed
CHECK_DEADLOCK FALSE
