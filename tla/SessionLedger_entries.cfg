SPECIFICATION Spec
CONSTANTS
  pa = pa
  pb = pb
  pc = pc
  Sessions = {s1, s2}
  Profiles = {pa, pb, pc}
  Turns = {t1, t2}
  Items = {i1, i2}
  SendIds = {r1, r2}
  TurnKeys = {k1}
  NULL = NULL
  Families = {"exclusive", "shared"}
  Family <- FamilyOf
  ExclusiveFamilies = {"exclusive"}
  MaxRestarts = 1
  MaxAbandoned = 1
SYMMETRY Symmetry
CHECK_DEADLOCK FALSE
INVARIANTS
  ExclusiveHome StatusTracksTurns ItemMirrorsTurn
  CompletionNotRefused PendingIsDriven
PROPERTIES
  KeepsPromise
