SPECIFICATION FairSpec
CONSTANTS
  Limits = {1, 2}
  Grants = {TRUE, FALSE}
  AudioEvents = {"route", "focusLost", "resumed"}
  MaxOrders = 1
  MaxSignals = 1
INVARIANTS
  MicrophoneIsHeld
  DrainIsComing
  TimeLimitHolds
  ReadinessArrives
  StartsFromRest
PROPERTIES
  TransmissionEnds
