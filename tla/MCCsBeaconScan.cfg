SPECIFICATION FairSpec
CONSTANTS
  Unmeasured = Unmeasured
  Dumps <- MCDumps
  Configs <- MCConfigs
  Consumptions = {0, 1}
  MaxTime = 1
  MaxMarks = 2
INVARIANTS TypeOK EveryByteNamed ResidualIsExact BooksClose
PROPERTY ScanEnds
CHECK_DEADLOCK FALSE
