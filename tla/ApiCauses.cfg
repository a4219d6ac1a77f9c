CONSTANTS
  Email = {e1, e2}
  Password = {w1, w2}
  TooLong = {w2}
  Pair = {t1, t2}
  MaxUsers = 2
  Proc = {p1, p2}
  None = None
  Faults = {"lost", "crash", "panic"}
  AccessTTL = 0
  RefreshTTL = 1
  MaxTime = 2
SPECIFICATION Spec
SYMMETRY Symmetry
INVARIANTS
  LogoutIsFinal
PROPERTIES
  EndsForCause
  ImplementsSessions
