CONSTANTS
  Withdrawals = {w1}
  Funds = 6
  Amount = 2
  Fee = 1
  DailyLimit = 6
  MaxReplacements = 0
  Faults = {"reresolve"}
  MaxAttempts = 1
  MaxSpent = 0
  MaxAsks = 2
  MaxCrashes = 0
  MaxReverts = 1
  MaxReorgs = 0
  MaxTroubles = 3
SPECIFICATION Spec
INVARIANT RefundEnds
CHECK_DEADLOCK FALSE
