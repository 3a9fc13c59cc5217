CONSTANTS
  NoLimit = NoLimit
  Accounts = {a1, a2}
  Inputs <- AdminInputs
  Funds <- MCFunds
  Configs <- TwoConfigs
  InitConfig <- Plain
  Statuses = {"active", "cancel_only", "delisted"}
  Freezable = {a1}
  MakerBps = 700
  TakerBps = 1500
  MaxOrders = 2
  MaxSeq = 3
SPECIFICATION Spec
INVARIANTS Conserved RestoreFaithful
CHECK_DEADLOCK FALSE
