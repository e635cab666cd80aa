SPECIFICATION Spec
CONSTANTS
    AddressSpace = 8
    Dumps <- MCDumps
    Rosters <- MCRosters
    Cap <- MCCap
    MinInput = 2
    SampleFrom = 2
INVARIANTS SampledSearchIsCounted
CHECK_DEADLOCK FALSE
