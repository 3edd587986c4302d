SPECIFICATION FairSpec
CONSTANTS
  MaxSessions = 2
  MaxRestarts = 1
  MaxFailures = 1
  NoOne = NoOne
INVARIANTS PublishedConnLives
 
CHECK_DEADLOCK FALSE
