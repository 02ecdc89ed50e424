SPECIFICATION FairSpec
CONSTANTS
  w1 = w1
  w2 = w2
  a = a
  b = b
  NoWorker = NoWorker
  Workers = {w1, w2}
  Aggregates = {a, b}
  MaxAttempts = 2
  Limit = 2
  MaxRows = 2
  MaxRequeues = 1
CHECK_DEADLOCK FALSE
INVARIANT TypeOK
INVARIANT PublishedWasTaken
PROPERTY KeepsOrder
PROPERTY EventSettles
