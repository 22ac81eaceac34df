CONSTANTS
  MaxEvents = 2
  BatchEvents = 2
  Limit = 2
  DiskFails = FALSE
  MaxRestarts = 0
  MaxRepeats = 0
  Call = {c1, c2}
  Worker = {w1, w2}
  MsgId = {m1, m2}
  MaxLate = 0
  LookupFails = FALSE
  BusBatch = 2
  Hit = {1, 2}
  ChunkEvents = 2
  NoCall = NoCall
  Unread = Unread
  Window = 5
  t1 = 10
  t2 = 10
  t3 = 12
  c1 = c1
  c2 = c2
  w1 = w1
  w2 = w2
  m1 = m1
  m2 = m2
  Ts <- MCTs
SPECIFICATION Spec
SYMMETRY Symmetry
INVARIANTS
  Kept
  InOrder
  CountedOnce
  OneRowPerWindow
PROPERTIES
  LogSpec
CHECK_DEADLOCK FALSE
