SPECIFICATION StreamSpec
CONSTANTS
  MaxTries = 3
  MaxFrames = 2
  Jitter = 1
  Outlier = 3
  LockWithin = 3
  PosDiv = 2
  NegDiv = 1
  NegClamp = 1
  MinSamples = 2
  Stable = 1
  Startup = 1
  LockTimeout = 0
  SeqMod = 2
  Interval = 2
  MaxResets = 1
  MaxSteps = 1
  SeqNumbers = 16
  Window = 3
  FirstSeq = 13
  Packets = 5
  MaxNet = 2
  MaxFaults = 1
  MaxWindowResets = 1
INVARIANTS OnceEach OffsetSound InStep
PROPERTIES HolesFilled  Recovers StopsClean Decided
CHECK_DEADLOCK FALSE
