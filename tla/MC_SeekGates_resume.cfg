SPECIFICATION Spec
CONSTANTS
  PosMod = 64
  Threshold = 1
  Window = 2
  NearlyFull = 3
  Bases <- MCShortBases
  FirstBase = 60
  MaxFrames = 3
  MaxBacklog = 3
  MaxElapsed = 2
  Off = Off
PROPERTY ResumeKeepsBuffer
CHECK_DEADLOCK FALSE
