CONSTANTS
  s1 = s1
  s2 = s2
  o1 = o1
  Sweeps = {s1, s2}
  Others = {o1}
  Assets = {"eth", "tok"}
  DepositAmount <- MCDepositAmount
  Threshold <- MCThreshold
  Cost = 1
  Fees = {1, 2}
  Ceiling = 2
  Faults = {"signer"}
  Deposits <- MCDeposits
  MaxGifts = 1
  MaxFeeMoves = 1
  MaxDrops = 1
  MaxReverts = 1
  MaxSignerFaults = 1
  MaxCrashes = 0
  MaxTroubles = 2
SPECIFICATION FairSpec
PROPERTY FundingEnds
CHECK_DEADLOCK FALSE
