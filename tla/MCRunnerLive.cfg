CONSTANTS
  e1 = e1
  e2 = e2
  p1 = p1
  p2 = p2
  p3 = p3
  c1 = c1
  NoPlace = NoPlace
  NoEngine = NoEngine
  NoTx = NoTx
  Engines = {e1}
  Places = {p1, p2}
  Cancels = {c1}
  Target <- CancelP1
  Side <- TwoSides
  MayDeny = {p2}
  MayReject = {p2}
  MaxGroup = 2
  MaxSends <- SecondTwice
  MaxFaults = 2
SPECIFICATION FairSpec
PROPERTIES EveryRequestAnswered
CHECK_DEADLOCK FALSE
