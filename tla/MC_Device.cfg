SPECIFICATION DeviceSpec
CONSTANTS
  Pieces = 2
  StallLimit = 1
  MaxTimeouts = 2
  Passphrases = {"", "p"}
  Networks = {"n", "m"}
  MaxRequests = 3
  Size = 5
  Prefetch = 3
  AbsVolumes = {0, 60, 127}
  MaxSessions = 2
  MaxKeys = 2
  MaxCmds = 1
INVARIANTS  VolumesAgree
PROPERTIES   Reconnects WebAnswers EveryPressAnswered
CHECK_DEADLOCK FALSE
