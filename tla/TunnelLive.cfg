SPECIFICATION FairSpec
CONSTANTS
  MaxStreams = 1
  Cap = 1
  RespWindow = 1
  Scenarios <- LiveScenarios
PROPERTIES RpcSpec StatusArrives CancelArrives
CHECK_DEADLOCK FALSE
