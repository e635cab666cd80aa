SPECIFICATION FairSpec
CONSTANTS
  Unmeasured = Unmeasured
  Dumps <- MCDumps
  Configs <- MCConfigs
  RuleFiles = 2
  MaxMatches = 2
  MaxTime = 2
INVARIANTS TypeOK EveryRuleNamed StopsAreReal
PROPERTY ScanEnds
CHECK_DEADLOCK FALSE
