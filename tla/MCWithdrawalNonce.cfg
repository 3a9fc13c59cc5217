CONSTANTS
  Withdrawals = {w1, w2}
  Funds = 6
  Amount = 2
  Fee = 1
  DailyLimit = 6
  MaxReplacements = 0
  Faults = {"signer"}
  MaxAttempts = 0
  MaxSpent = 0
  MaxAsks = 0
  MaxCrashes = 0
  MaxReverts = 0
  MaxReorgs = 0
  MaxTroubles = 3
SYMMETRY TwoSymmetry
SPECIFICATION Spec
INVARIANT NonceOfOne
CHECK_DEADLOCK FALSE
