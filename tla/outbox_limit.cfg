SPECIFICATION FairSpec
CONSTANTS
  w1 = w1
  w2 = w2
  a = a
  b = b
  NoWorker = NoWorker
  Workers = {w1}
  Aggregates = {a, b}
  MaxAttempts = 1
  Limit = 1
  MaxRows = 3
  MaxRequeues = 0
CHECK_DEADLOCK FALSE
PROPERTY EventSettles
