SPECIFICATION Spec
CONSTANTS
  t1 = t1
  t2 = t2
  c1 = c1
  NoRecord = NoRecord
  NoJob = NoJob
  Pollers = {t1, t2}
  Cids = {c1}
  MaxAttempts = 2
  Deadline = 3
  InitialBackoff = 1
  LongestBackoff = 2
  MaxLapses = 1
  MaxRestarts = 1
INVARIANT TypeOK
INVARIANT UnknownIsTracked
INVARIANT QueryingIsAsked
