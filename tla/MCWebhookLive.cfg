CONSTANTS
  MaxRows = 1
  Accounts = {"a"}
  Domains = {"trading"}
  BatchSize = 2
  MaxLog = 3
  MaxFaults = 2
  Endpoints = {"x"}
  Workers = {"w"}
  Budget = 1
  MaxDeliver = 2
  MaxRuns = 2
  MaxToggles = 1
  MaxReplays = 1
SPECIFICATION FairSpec
PROPERTY Settles
CHECK_DEADLOCK FALSE
