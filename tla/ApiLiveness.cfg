CONSTANTS
  Email = {e1}
  Password = {w1}
  TooLong = {}
  Pair = {t1, t2}
  MaxUsers = 1
  Proc = {p1, p2}
  None = None
  Faults = {"lost", "crash", "panic"}
  AccessTTL = 0
  RefreshTTL = 0
  MaxTime = 1
SPECIFICATION FairSpec
PROPERTIES
  Answered
  ExpiredTokenEnds
