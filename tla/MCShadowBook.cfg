CONSTANTS
  NoLimit = NoLimit
  Accounts = {a1, a2}
  Inputs <- Shapes
  Funds <- MCFunds
  Configs <- PlainOnly
  InitConfig <- Plain
  Statuses = {}
  Freezable = {}
  MakerBps = 700
  TakerBps = 1500
  MaxOrders = 3
  MaxSeq = 4
  MaxBuffer = 2
  MaxRepeats = 1
SYMMETRY Symmetry
SPECIFICATION ShadowSpec
INVARIANTS ShadowFaithful ClosedByItsOwn DeltasContiguous
CHECK_DEADLOCK FALSE
