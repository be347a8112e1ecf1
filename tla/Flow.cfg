SPECIFICATION FairSpec
CONSTANTS
  Threads = {t1, t2}
  NoThread = NoThread
  Revision = 2
  Window = 7
  MaxChunk = 3
  MinUpdate = 9
  Uint = 16
  Sizes = {0, 4}
  MaxMsgs = 3
  Faults = {"context", "tunnel", "cancel", "abandon"}
CHECK_DEADLOCK FALSE
INVARIANTS
  TypeOK NeverRejected NoLostWakeup NoStall ReaderAwake FramesBounded DeliveredInOrder
PROPERTIES
  SendReturns StreamSpec
