CONSTANTS
  MaxRows = 2
  Accounts = {"a"}
  Domains = {"trading", "chain"}
  BatchSize = 2
  MaxLog = 4
  MaxFaults = 0
  Account = "a"
  MaxHeld = 1
  PageSize = 1
SPECIFICATION Spec
INVARIANT ResumeLosesNothing
CHECK_DEADLOCK FALSE
