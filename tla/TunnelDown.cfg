SPECIFICATION FairSpec
CONSTANTS
  MaxStreams = 1
  Cap = 1
  RespWindow = 1
  Scenarios <- DownScenarios
PROPERTIES RpcSpec TunnelEndsStreams
CHECK_DEADLOCK FALSE
