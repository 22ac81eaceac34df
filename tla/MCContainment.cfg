CONSTANTS
  Alert = {a1, a2}
  Engine = {e1}
  Person = {p1}
  MaxLifts <- MCMaxLifts
  MaxStops = 1
  a1 = a1
  a2 = a2
  e1 = e1
  p1 = p1

SPECIFICATION FairSpec
INVARIANTS
  TypeOK
  OneInEffect
  EndedIsReleased
  ActiveHolds
  NothingDone
  OneLift
PROPERTIES
  PersonsLift
  LeaseEnds
CHECK_DEADLOCK FALSE
