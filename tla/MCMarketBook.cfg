CONSTANTS
  NoLimit = NoLimit
  Accounts = {a1, a2}
  Inputs <- BookInputs
  Funds <- MCFunds
  Configs <- BandedOnly
  InitConfig <- Banded
  Statuses = {}
  Freezable = {}
  MakerBps = 700
  TakerBps = 1500
  MaxOrders = 4
  MaxSeq = 5
SYMMETRY Symmetry
SPECIFICATION Spec
INVARIANTS HoldsExact HoldCoversRemaining RestoreFaithful BookWellFormed
PROPERTIES PriceTimePriority WithinBand MarketOrderUsesTheBook
CHECK_DEADLOCK FALSE
