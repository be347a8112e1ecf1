SPECIFICATION FairSpec
CONSTANTS
  Calls = {c1, c2, c3}
  Stoppers = {s1, s2}
  Gracefuls = {g1}
  MaxOps = 1
  PeerHangsUp = TRUE
INVARIANTS TypeOK StoppedForGood WaitGroupUsed
PROPERTIES StopReturns
CHECK_DEADLOCK FALSE
