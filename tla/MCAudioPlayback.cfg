SPECIFICATION AudioSpec
CONSTANTS
  Modulus = 4
  MaxSent = 5
  MaxSessions = 2
  MaxAir = 2
  MaxCalls = 1
  Events = {"focusLost", "focusPaused", "focusGained", "activityPaused", "activityResumed", "route"}
PROPERTIES
  PlaysInOrder
  PauseIsRemembered
CHECK_DEADLOCK FALSE
