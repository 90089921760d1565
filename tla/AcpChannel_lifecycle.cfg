SPECIFICATION ChannelSpec
CONSTANTS
  NumConns = 2
  Conns <- MCConns
  Callers = {k1, k2}
  Stopper = stopper
  Sockets = {s1}
  None = None
  MaxFaults = 1
INVARIANTS
  ReleasesAreProved StopLeavesNothing DeathsAreNoticed
SYMMETRY CallerSymmetry
CHECK_DEADLOCK FALSE
