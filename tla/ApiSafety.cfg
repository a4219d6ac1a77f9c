CONSTANTS
  Email = {e1}
  Password = {w1, w2}
  TooLong = {}
  Pair = {t1, t2}
  MaxUsers = 2
  Proc = {p1, p2}
  None = None
  Faults = {"error", "lost", "crash", "panic", "reuse"}
  AccessTTL = 0
  RefreshTTL = 0
  MaxTime = 1
SPECIFICATION Spec
SYMMETRY Symmetry
INVARIANTS
  TypeOK
  UniqueEmails
  NoOrphanSessions
  IssueMatchesCredentials
  ServedOnlyIfLive
  
PROPERTIES
  DeadStaysDead
