SPECIFICATION LedgersSpec
CONSTANTS
  Unmeasured = Unmeasured
  Sizes = {0, 2}
  MaxItems = 2
  MaxNotes = 3
  NoDeadline = NoDeadline
  L <- MCLimits
  Amounts = {0, 1, 2}
  MaxTime = 3
  MaxBytes = 4
INVARIANTS Balanced ReconciledIsExact CleanNegativeIsEarned DenominatorIsWhole
           BudgetTypeOK SpendingHolds DeadlineNoticed
PROPERTY FirstReasonStands
CHECK_DEADLOCK FALSE
