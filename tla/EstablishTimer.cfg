SPECIFICATION Spec
CONSTANTS
  Configs <- Timed
  MaxId = 2
INVARIANT ListedStays
CHECK_DEADLOCK FALSE
