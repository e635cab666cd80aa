SPECIFICATION Spec
CONSTANTS
    AddressSpace = 7
    Tables <- MCTables
    RegionLists <- MCRegionLists
    Requests <- MCRequests
    Analyzers <- MCAnalyzers
    MinInput = 2
INVARIANTS TypeOK CapturedIsExact   NamedIsUnread
CHECK_DEADLOCK FALSE
