CONSTANTS
  kill = kill
  n1 = n1
  n2 = n1
  k2 = k2
  Cmd = {kill}
  Exec = {}
  Node = {n1}
  Conn = {k1}
  NoConn = NoConn
  Clustered = FALSE
  QueueCap = 1
  MaxTries = 0
  MaxCrashes = 0
  MaxRecords = 2
  MaxRestarts = 0
  Home <- MCHome
  Origin <- MCOrigin
SPECIFICATION FairSpec
PROPERTIES
  ReservedIsReported
CHECK_DEADLOCK FALSE
