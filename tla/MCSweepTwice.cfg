CONSTANTS
  s1 = s1
  s2 = s2
  o1 = o1
  o2 = o2
  Sweeps = {s1, s2}
  Others = {o1, o2}
  Assets = {"eth", "tok"}
  DepositAmount <- MCDepositAmount
  Threshold <- MCThreshold
  Cost = 1
  Fees = {1, 2}
  Ceiling = 2
  Faults = {}
  Deposits <- MCDeposits
  MaxGifts = 1
  MaxFeeMoves = 1
  MaxDrops = 1
  MaxReverts = 1
  MaxSignerFaults = 1
  MaxCrashes = 1
  MaxTroubles = 0
SPECIFICATION Spec
INVARIANT NonceOfOne
CHECK_DEADLOCK FALSE
