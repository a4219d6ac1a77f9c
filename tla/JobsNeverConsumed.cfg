CONSTANTS
  Account = {a1}
  Name = {n1}
  None = None
  Proc = {p1}
  SyncModes = {FALSE}
  Faults = {}
  MaxTime = 1
  MaxJobs = 2
SPECIFICATION FairSpec
PROPERTIES
  JobsAreExecuted
CHECK_DEADLOCK FALSE
