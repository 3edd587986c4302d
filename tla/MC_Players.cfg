SPECIFICATION PlayersSpec
CONSTANTS
  Window = 6
  Header = 1
  Word = 1
  Safe = 8
  Mod = 16
  Entries = 2
  Lines = 3
  MaxOps = 4
  Tracks = 2
  RadioSongs = 2
  StreamChunks = 2
  RadioRing = 1
  MaxGen = 3
  RadioMaxSkips = 1
  SdSongs = 3
  FileChunks = 2
  SdRing = 1
  MaxPlays = 2
  SdMaxSkips = 1
INVARIANTS ReadsInside 
PROPERTIES OneTaskEach  StopSettles
CHECK_DEADLOCK FALSE
