CONSTANTS
  Email = {e1}
  Password = {w1}
  TooLong = {}
  Pair = {t1, t2, t3}
  MaxUsers = 1
  Proc = {p1, p2}
  None = None
  Faults = {}
  AccessTTL = 0
  RefreshTTL = 0
  MaxTime = 0
SPECIFICATION Spec
SYMMETRY Symmetry
INVARIANTS
  RefreshIsSingleUse
