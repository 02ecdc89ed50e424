SPECIFICATION Spec
CONSTANTS
  o1 = o1
  o2 = o2
  i1 = i1
  i2 = i2
  Owners = {o1, o2}
  Intents = {i1, i2}
  NoLease = NoLease
  NoWork = NoWork
  NoCommit = NoCommit
  Ttl = 2
  Lag = 1
  MaxTime = 3
  MaxTokens = 2
  Capacity = 1
CHECK_DEADLOCK FALSE
PROPERTY CommitsAreFenced
