SPECIFICATION Spec
CONSTANTS
    AddressSpace = 8
    Dumps <- MCDumps
    Rosters <- MCRosters
    Cap <- MCCap
    MinInput = 2
    SampleFrom = 3
INVARIANTS TypeOK BytesCountedOnce ShareIsHonest CleanIsEarned QueueKeepsEveryGap
CHECK_DEADLOCK FALSE
