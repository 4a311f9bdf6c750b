SPECIFICATION FairSpec
CONSTANTS
  Samples = {0, 1}
  Silence = 0
  Sizes = {2, 3, 4}
  Prebufs = {0, 1, 2, 9}
  Frame = 2
  MaxCount = 5
INVARIANTS
  TypeOK
  HoldsBackForReason
PROPERTIES
  KeepsOrder
  SpeechIsHeard
