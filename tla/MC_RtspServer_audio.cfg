SPECIFICATION Spec
CONSTANTS
  MaxSessions = 2
  MaxRestarts = 0
  MaxFailures = 0
  NoOne = NoOne
PROPERTIES StreamSurvivesReplacement
CHECK_DEADLOCK FALSE
