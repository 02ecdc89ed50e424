SPECIFICATION LiveSpec
CONSTANTS
  p1 = p1
  p2 = p2
  c1 = c1
  c2 = c2
  leg = leg
  Procs = {p1}
  Cids = {c1}
  Legs = {leg}
  Leg <- OneLeg
  Reducing = {}
  Qty = 2
  Skew = 1
  NoOrder = NoOrder
  NoProc = NoProc
  MaxClock = 2
  MaxCrashes = 1
CHECK_DEADLOCK FALSE
INVARIANT TypeOK
INVARIANT FinishedIsNotOpen
INVARIANT FillsAreReal
INVARIANT SettledIsClassified
PROPERTY OrdersMoveForward
PROPERTY FinishIsLearned
PROPERTY NoKeyStuck
