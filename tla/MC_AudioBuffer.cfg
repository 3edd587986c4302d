CONSTANTS
  Capacity = 3
  StampMod = 8
  Starts <- MCStarts
  MaxChunks = 2
  MaxQueued = 3
  MaxFlushes = 2
  None = None
SPECIFICATION Spec
INVARIANTS SlotConservation SortedByRtp SearchFindsInsertPos FewStranded
PROPERTIES IsJitterQueue
CHECK_DEADLOCK FALSE
