SPECIFICATION FairSpec
CONSTANTS
  RebuildLimit = 2
  MaxFaults = 2
CHECK_DEADLOCK FALSE
INVARIANTS
  SecretsAreSwept CompletedIsClean ReplayIsNotAnswer
PROPERTIES
  RunsLeaveNoProcess
