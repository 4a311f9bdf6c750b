SPECIFICATION Spec
CONSTANTS
  FrameSize = 2
  LeadInFrames = 1
  MaxBlock = 2
  MaxSamples = 3
  MaxTakes = 3
  MaxRoutes = 1
  MaxFaults = 1
INVARIANTS
  InOrder
  MicrophoneIsGivenBack
PROPERTIES
  NothingFromBefore
CHECK_DEADLOCK FALSE
