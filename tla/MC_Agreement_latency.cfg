SPECIFICATION AgreementSpec
CONSTANTS
  History = 3
  MinMeasurements = 2
  MaxDelay = 2
  Limit = 3
  MaxStarts = 4
  MaxConnections = 2
  MaxRequests = 2
  Levels = {20, 70}
  Step = 10
  MaxOps = 3
  Devs = 2
  Corners = {0, 80}
  BiampCorners = {2500, 3000}
  Gains = {0, 6}
  Offsets = {0, 3}
  Volumes <- MCVolumes
  MaxVolume = 0
  BiampSupported = TRUE
  MaxChanges = 3
  Dacs = 2
  DacVolumes = {1, 2}
  Trims = {0, 3}
  MaxOrders = 3
  Titles = {"a", "b"}
  TrackLength = 4
  RtpMod = 16
  TrackStarts = {0, 12}
  MaxNow = 7
  MaxEvents = 3
  MaxErrors = 1
INVARIANT AirPlay1Undelayed
CHECK_DEADLOCK FALSE
