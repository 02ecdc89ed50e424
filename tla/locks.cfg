SPECIFICATION Spec
CONSTANTS
  t1 = t1
  t2 = t2
  t3 = t3
  Nobody = Nobody
  NoKey = NoKey
  Threads = {t1, t2, t3}
  Keys = {1, 2, 3}
  Qty = 1
  MaxDepth = 4
SYMMETRY ThreadSymmetry
INVARIANT TypeOK
INVARIANT NoStandoff
INVARIANT OwnerIsHolder
INVARIANT ReservedWithin
PROPERTY AlarmsAreReal
