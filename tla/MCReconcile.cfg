CONSTANTS
  d1 = d1
  w1 = w1
  s1 = s1
  f1 = f1
  x1 = x1
  Assets = {"eth", "usdc"}
  Native = "eth"
  Required <- MCRequired
  Deposits = {d1}
  Withdrawals = {w1}
  Sweeps = {s1}
  Fills = {f1}
  Strangers = {x1}
  Asset <- MCAsset
  Amount <- MCAmount
  Gas <- MCGas
  CancelledBy <- NoCancel
  MayRevert = {}
  LateMark = FALSE
  MaxHeight = 3
  MaxTxs = 1
  MaxReorgs = 1
  MaxDepth = 1
  MaxPasses = 1
SPECIFICATION Spec
PROPERTY BreaksAreReal
CHECK_DEADLOCK FALSE
