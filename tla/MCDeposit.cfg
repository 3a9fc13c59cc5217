CONSTANTS
  Deposits = {d1, d2}
  Tokens = {d1}
  Amount = 2
  Fee = 1
  Required = 2
  BatchSize = 2
  RingDepth = 2
  OrphanExpiry = 2
  MidTick = FALSE
  LateReturn = FALSE
  MaxHeight = 4
  MaxReorgs = 1
  MaxCrashes = 1
  MaxSpent = 1
SPECIFICATION Spec
INVARIANTS BooksFollowRows NoPhantom NoneMissed
PROPERTIES CreditIsFinal CatchesUp
CHECK_DEADLOCK FALSE
