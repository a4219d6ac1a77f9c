CONSTANTS
  Account = {a1, a2}
  Name = {n1, n2}
  None = None
  Proc = {p1, p2}
  SyncModes = {TRUE, FALSE}
  Faults = {"redis", "redisLost", "flush", "lost", "crash"}
  MaxTime = 1
  MaxJobs = 2
SPECIFICATION Spec
SYMMETRY Symmetry
INVARIANTS
  TypeOK
  TouchRecorded
PROPERTIES
  DeletedStaysDeleted
  RenamedOnPurpose
