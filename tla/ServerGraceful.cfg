SPECIFICATION FairSpec
CONSTANTS
  Calls = {c1}
  Stoppers = {}
  Gracefuls = {g1}
  MaxOps = 1
  PeerHangsUp = FALSE
PROPERTY GracefulStopReturns
CHECK_DEADLOCK FALSE
