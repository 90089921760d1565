SPECIFICATION Spec
CONSTANTS
  Roles = {r1, r2}
  Turns = {t1, t2}
  Providers = {m1}
  Tools = {bash}
  Contents = {c1, c2}
  Revisions = {1, 2}
  NULL = NULL
  LOST = LOST
  MaxEdits = 4
  MaxCrashes = 1
SYMMETRY Symmetry
CHECK_DEADLOCK FALSE
INVARIANTS
  FrozenIsOneRevision ChildrenAreNarrower OnlyPublishedIsProjected
