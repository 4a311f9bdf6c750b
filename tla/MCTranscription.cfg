SPECIFICATION FairSpec
CONSTANTS
  MaxSessions = 3
  MaxEvents = 6
  MaxNotes = 2
INVARIANTS
  SilenceShowsNothing
  WritesOnlyWhenWanted
PROPERTIES
  RecognizerEnds
CHECK_DEADLOCK FALSE
