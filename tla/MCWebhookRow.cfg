CONSTANTS
  MaxRows = 1
  Accounts = {"a"}
  Domains = {"trading"}
  BatchSize = 2
  MaxLog = 2
  MaxFaults = 2
  Endpoints = {"x"}
  Workers = {v, w}
  Budget = 1
  MaxDeliver = 2
  MaxRuns = 3
  MaxToggles = 1
  MaxReplays = 1
SPECIFICATION Spec
INVARIANT NoUnreachableRow
SYMMETRY WorkerSymmetry
CHECK_DEADLOCK FALSE
