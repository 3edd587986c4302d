SPECIFICATION Spec
CONSTANTS
  PosMod = 64
  Threshold = 1
  Window = 2
  NearlyFull = 2
  Bases <- MCBases
  FirstBase = 12
  MaxFrames = 3
  MaxBacklog = 2
  MaxElapsed = 2
  Off = Off
INVARIANTS BacklogStaysOut
CHECK_DEADLOCK FALSE
