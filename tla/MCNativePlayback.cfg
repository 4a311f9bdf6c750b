SPECIFICATION FairOutputSpec
CONSTANTS
  Room = 2
  MaxCalls = 5
INVARIANTS
  PausedIsQuiet
PROPERTIES
  KeepsPlaying
CHECK_DEADLOCK FALSE
