SPECIFICATION FairSpec
CONSTANTS
  Turns = {t1}
  Keys = {k1}
  Callers = {c1, c2}
  Submitters = {u1, u2}
  NULL = NULL
  MaxClaims = 2
  RebuildLimit = 1
INVARIANTS
  AbortOnce InterruptedIsNotCompleted
PROPERTIES
  ReceiptOutlivesRun StopsAreAnswered
CHECK_DEADLOCK FALSE
