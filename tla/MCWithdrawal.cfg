CONSTANTS
  Withdrawals = {w1, w2}
  Funds = 6
  Amount = 2
  Fee = 1
  DailyLimit = 2
  MaxReplacements = 1
  Faults = {"signer", "rpc"}
  MaxAttempts = 1
  MaxSpent = 1
  MaxAsks = 1
  MaxCrashes = 1
  MaxReverts = 1
  MaxReorgs = 1
  MaxTroubles = 1
SYMMETRY TwoSymmetry
SPECIFICATION Spec
INVARIANTS LedgerAgrees ReturnedIsOver PaidOnce NoAbandonedNonce ConfirmedIsPaid
CHECK_DEADLOCK FALSE
