CONSTANTS
  Email = {e1}
  Password = {w1}
  TooLong = {}
  Pair = {t1, t2}
  MaxUsers = 1
  Proc = {p1, p2}
  None = None
  Faults = {}
  AccessTTL = 0
  RefreshTTL = 1
  MaxTime = 1
SPECIFICATION Spec
SYMMETRY Symmetry
PROPERTIES
  RefreshOutlivesAccess
