SPECIFICATION Spec
CONSTANTS
  t1 = t1
  t2 = t2
  Threads = {t1, t2}
  Qty = 2
  Readings = {0, 3}
  MaxFailures = 1
  MaxDoubts = 1
SYMMETRY ThreadSymmetry
INVARIANT TypeOK
INVARIANT OrderIsTrue
INVARIANT LedgerNotAhead
 
PROPERTY EndIsNotLost
