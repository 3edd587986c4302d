CONSTANTS
  Capacity = 3
  StampMod = 8
  Starts <- MCStartsOrdered
  MaxChunks = 2
  MaxQueued = 4
  MaxFlushes = 0
  None = None
SPECIFICATION FairSpec
PROPERTIES NoFrameStuck
CHECK_DEADLOCK FALSE
