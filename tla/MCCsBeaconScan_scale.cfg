SPECIFICATION FairSpec
CONSTANTS
  Unmeasured = Unmeasured
  Dumps <- MCDumps
  Configs <- MCConfigs
  Consumptions = {0, 1}
  MaxTime = 1
  MaxMarks = 2
INVARIANT ScaleCountsOnce
CHECK_DEADLOCK FALSE
