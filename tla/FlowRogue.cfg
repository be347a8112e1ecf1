SPECIFICATION RogueSpec
CONSTANTS
  Threads = {t1}
  NoThread = NoThread
  Revision = 2
  Window = 7
  MaxChunk = 7
  MinUpdate = 3
  Uint = 16
  Sizes = {1, 3}
  MaxMsgs = 1
  Faults = {}
  RogueSizes = {0, 3, 8}
  MaxRogue = 2
CHECK_DEADLOCK FALSE
INVARIANTS
  QueueWithinWindow
PROPERTIES
  RogueStreamEnds
