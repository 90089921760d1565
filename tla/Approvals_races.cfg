SPECIFICATION FairSpec
CONSTANTS
  Turns = {t1, t2}
  Ports <- OnePort
  PortOf <- Shared
  Rows = {a1}
  Calls = {c1, c2}
  RequestIds = {q1, q2}
  Decisions = {allow, deny}
  NULL = NULL
  RebuildLimit = 1
  MaxRestarts = 1
INVARIANTS
  AnswersAreRecorded
PROPERTIES
  ApprovalsClose
CHECK_DEADLOCK FALSE
