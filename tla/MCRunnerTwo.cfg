CONSTANTS
  e1 = e1
  e2 = e2
  p1 = p1
  p2 = p2
  p3 = p3
  c1 = c1
  NoPlace = NoPlace
  NoEngine = NoEngine
  NoTx = NoTx
  Engines = {e1, e2}
  Places = {p1, p2, p3}
  Cancels = {c1}
  Target <- CancelP1
  Side <- OneSide
  MayDeny = {p2}
  MayReject = {}
  MaxGroup = 2
  MaxSends <- SecondTwice
  MaxFaults = 1
SYMMETRY EngineSymmetry
SPECIFICATION Spec
INVARIANTS TypeOK MirrorFaithful Paired AnswersDurable OldestFirst SeqsUnique
PROPERTIES EndedStays
CHECK_DEADLOCK FALSE
