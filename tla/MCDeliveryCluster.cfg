CONSTANTS
  kill = kill
  n1 = n1
  n2 = n2
  k2 = k2
  Cmd = {kill}
  Exec = {}
  Node = {n1, n2}
  Conn = {k1, k2}
  NoConn = NoConn
  Clustered = TRUE
  QueueCap = 1
  MaxTries = 2
  MaxCrashes = 1
  MaxRecords = 2
  MaxRestarts = 1
  Home <- MCHome
  Origin <- MCOrigin
SPECIFICATION Spec
INVARIANTS
  TypeOK
  AtMostOnce
  RowIsTrue
  OpenChannel
  NothingForgotten
PROPERTIES
  StatusForward
CHECK_DEADLOCK FALSE
