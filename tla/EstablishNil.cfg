SPECIFICATION Spec
CONSTANTS
  Configs <- Impatient
  MaxId = 2
INVARIANT NoNilSettings
CHECK_DEADLOCK FALSE
