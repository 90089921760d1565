SPECIFICATION Spec
CONSTANTS
  Turns = {t1, t2, t3}
  Keys = {k1}
  NULL = NULL
  MaxRequests = 2
  MaxCrashes = 1
SYMMETRY Symmetry
CHECK_DEADLOCK FALSE
INVARIANTS
  RecordNamesItsAsset
PROPERTIES
  ReclaimKeepsNewer
