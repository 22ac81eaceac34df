CONSTANTS
  kill = kill
  n1 = n1
  n2 = n1
  k2 = k2
  Cmd = {cmd}
  Exec = {cmd}
  Node = {n1}
  Conn = {k1, k2}
  NoConn = NoConn
  Clustered = FALSE
  QueueCap = 1
  MaxTries = 0
  MaxCrashes = 0
  MaxRecords = 2
  MaxRestarts = 1
  Home <- MCHome
  Origin <- MCOrigin
SPECIFICATION FairSpec
PROPERTIES
  ChannelsDrain
  ExecIsReported
CHECK_DEADLOCK FALSE
