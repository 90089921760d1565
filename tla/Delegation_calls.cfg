SPECIFICATION FairSpec
CONSTANTS
  a = a
  b = b
  Turns = {t1, t2, t3}
  Roles = {a, b}
  Grants <- MutualGrants
  Exclusive = {b}
  WholeDb = {a}
  NULL = NULL
  MaxStops = 1
  MaxFaults = 1
INVARIANTS
  RolesWaitOnce StopsReachChildren
PROPERTIES
  LoopComesFree
CHECK_DEADLOCK FALSE
