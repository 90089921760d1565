SPECIFICATION FairTurnSpec
CONSTANTS
  i1 = i1
  Turns = {t1, t2}
  Works = {t1, t2}
  Execs = {t1, t2}
  Callers = {t1, t2}
  Keys <- KeySet
  ExecutionKey <- KeyOf
  FinalKey <- SealOf
  Inputs = {i1}
  InputSets <- Lists
  Frozen <- Given
  Succeeded = succeeded
  Cancelled = cancelled
  Outcomes = {succeeded, cancelled}
  Times <- Clock
  Freshness = {"stale"}
  NULL = NULL
  MaxCalls = 4
  MaxDeaths = 1
  MaxFaults = 1
INVARIANTS
  RecordsAgree CleanStopIsQuiet
PROPERTIES
  SealedStaysDown RunsComeToRest TurnsAreDriven
CHECK_DEADLOCK FALSE
