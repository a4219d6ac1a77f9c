CONSTANTS
  Empty = Empty
  Nil = Nil
  me = me
  junk = junk
  short = short
  good = good
  long = long
  huge = huge
  Word <- MCWord
  Runes <- MCRunes
  Bytes <- MCBytes
  Mailbox <- MCMailbox
  Email <- MCEmail
  Password <- MCPassword
  Names <- MCNames
  Pair = {}
  MaxUsers = 2
  Proc = {p1, p2}
  Faults = {"error"}
SPECIFICATION Spec
SYMMETRY Symmetry
INVARIANTS
  TypeOK
  OneAccountPerMailbox
  BodyIsOwn
PROPERTIES
  OwnersCanLogIn
  No500Alone
  LogsTheAnswer
  NoSilent5xx
