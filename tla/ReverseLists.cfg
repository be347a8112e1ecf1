SPECIFICATION FairSpec
CONSTANTS
  Tunnels = {t1, t2}
  Keys = {k1}
  All = All
  Closers = {"user"}
  Closed = {t1}
  Waiters = {w1}
  MaxPicks = 2
INVARIANTS TypeOK AvailAgrees Unlisted Reachable RoundRobin
PROPERTIES ClosedLeaves WaitersWoken
CHECK_DEADLOCK FALSE
