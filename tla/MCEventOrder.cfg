CONSTANTS
  MaxEvents = 2
  BatchEvents = 2
  Limit = 2
  DiskFails = FALSE
  MaxRestarts = 0
  MaxRepeats = 0
  Call = {c1}
  Worker = {w1, w2}
  MsgId = {m1, m2}
  MaxLate = 1
  LookupFails = TRUE
  BusBatch = 2
  Hit = {}
  ChunkEvents = 2
  NoCall = NoCall
  Unread = Unread
  Window = 5
  t1 = 10
  t2 = 11
  t3 = 12
  c1 = c1
  w1 = w1
  w2 = w2
  m1 = m1
  m2 = m2
  Ts <- MCTs
SPECIFICATION Spec
SYMMETRY Symmetry
INVARIANTS
  InOrder
CHECK_DEADLOCK FALSE
