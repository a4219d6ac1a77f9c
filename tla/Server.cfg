CONSTANTS
  Unset = Unset
  Junk = Junk
  DefaultConns = 2
  Modulus = 8
  Proc = {p1, p2}
  Small = 1
  Wrapped = 13
  Environs <- MCEnvirons
  Files <- MCFiles
SPECIFICATION FairSpec
INVARIANTS
  TypeOK
  ServesPrepared
  NoLeak
PROPERTIES
  StaysUp
  DropsNeedAnEdit
  ConfiguredStartsUp
  EventuallyServes
  NoStarvation
