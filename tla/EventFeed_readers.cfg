SPECIFICATION FairFeedSpec
CONSTANTS
  Sessions = {s1, s2}
  Calls = {c1, c2}
  Nowhere = Nowhere
  PageLimit = 1
  BatchLimit = 1
  MaxEvents = 3
  MaxOpens = 2
CHECK_DEADLOCK FALSE
INVARIANTS
  FeedIsExact NoWakeupIsLost
PROPERTIES
  EventsArrive
