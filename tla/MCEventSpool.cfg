CONSTANTS
  MaxEvents = 2
  BatchEvents = 2
  Limit = 2
  DiskFails = TRUE
  MaxRestarts = 1
  MaxRepeats = 1
  Call = {c1}
  Worker = {w1}
  MsgId = {m1, m2}
  MaxLate = 1
  LookupFails = FALSE
  BusBatch = 1
  Hit = {}
  ChunkEvents = 1
  NoCall = NoCall
  Unread = Unread
  Window = 5
  t1 = 10
  t2 = 11
  t3 = 12
  c1 = c1
  w1 = w1
  m1 = m1
  m2 = m2
  Ts <- MCTs
SPECIFICATION Spec
SYMMETRY Symmetry
INVARIANTS
  TypeOK
  Kept
  InOrder
CHECK_DEADLOCK FALSE
