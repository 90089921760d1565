SPECIFICATION Spec
CONSTANTS
  i1 = i1
  Works = {w1}
  Execs = {e1, e2}
  Callers = {c1, c2}
  Keys = {k1, k2}
  Inputs = {i1}
  InputSets <- Lists
  Outcomes = {succeeded}
  Times <- Clock
  Freshness = {"stale"}
  NULL = NULL
  MaxCalls = 3
  MaxDeaths = 1
SYMMETRY Symmetry
INVARIANTS
  AnswersAreTrue
PROPERTIES
  KeepsStartPromise HistoryIsKept
CHECK_DEADLOCK FALSE
