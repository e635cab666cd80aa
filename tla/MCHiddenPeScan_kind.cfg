SPECIFICATION FairSpec
CONSTANTS
  Unknown = Unknown
  Hunts <- MCHunts
  Limits <- MCLimits
  Window = 4
  Degraded = 2
  ValidateMax = 3
INVARIANT BudgetNamed
CHECK_DEADLOCK FALSE
