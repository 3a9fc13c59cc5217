CONSTANTS
  MaxRows = 2
  Accounts = {"a"}
  Domains = {"trading", "chain"}
  BatchSize = 1
  MaxLog = 3
  MaxFaults = 1
  Account = "a"
  MaxHeld = 1
  PageSize = 1
SPECIFICATION FairSpec
INVARIANT JoinIsComplete
PROPERTY CatchesUp
CHECK_DEADLOCK FALSE
