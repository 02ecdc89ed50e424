SPECIFICATION LiveSpec
CONSTANTS
  p1 = p1
  p2 = p2
  c1 = c1
  c2 = c2
  leg = leg
  Procs = {p1}
  Cids = {c1}
  Legs = {leg}
  Leg <- OneLeg
  Reducing = {}
  Qty = 1
  Skew = 0
  NoOrder = NoOrder
  NoProc = NoProc
  MaxClock = 0
  MaxCrashes = 1
CHECK_DEADLOCK FALSE
PROPERTY FinishIsLearnedAfterCrash
