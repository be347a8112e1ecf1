SPECIFICATION Spec
CONSTANTS
  MaxStreams = 2
  Cap = 1
  RespWindow = 1
  Scenarios <- SafetyScenarios
INVARIANTS TypeOK NoProtocolError EndIsPublished ClosedOnce
PROPERTY RpcSpec
CHECK_DEADLOCK FALSE
