SPECIFICATION Spec
CONSTANTS
  MaxSessions = 3
  MaxRestarts = 0
  MaxFailures = 1
  NoOne = NoOne
INVARIANTS TypeOK  OneClientServed EventSocketOpen RestIsClean
CHECK_DEADLOCK FALSE
