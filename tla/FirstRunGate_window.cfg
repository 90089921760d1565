SPECIFICATION FairGateSpec
CONSTANTS
  Turns = {t1, t2, t3, t4}
  Libraries <- OneLibrary
  Library <- Shared
  NULL = NULL
  MaxLeaks = 1
  MaxStops = 1
INVARIANTS
  FirstRunIsExclusive
PROPERTIES
  LibraryBecomesReady
CHECK_DEADLOCK FALSE
