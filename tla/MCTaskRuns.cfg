CONSTANTS
  Node = {n1, n2}
  NoNode = NoNode
  MaxFaults = 1
  Task = {t1, t2}
  Effectful = {t1}
  MaxSessions = 2
  n1 = n1
  n2 = n2
  t1 = t1
  t2 = t2
SPECIFICATION MCSpec
INVARIANTS
  TypeOK
  OneLeader
  
  EffectsOnce
  OneAttempt
  RunIsTrue
  WithinLimit
PROPERTIES
  StopIsFinal RunEnds
CHECK_DEADLOCK FALSE
