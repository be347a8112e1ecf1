SPECIFICATION Spec
CONSTANTS
  MaxStreams = 1
  Cap = 1
  RespWindow = 1
  Scenarios <- PhantomScenarios
INVARIANT NoPhantomMessage
CHECK_DEADLOCK FALSE
