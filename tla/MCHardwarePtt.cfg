SPECIFICATION Spec
CONSTANTS
  Dev = dev
  NoDev = none
  Keys = {side, vendor}
  Supported = {vendor}
  NoKey = nokey
  MaxStarts = 2
  MaxEvents = 2
INVARIANTS
  EndIsComing
  LinkIsComing
PROPERTIES
  LearningWithholdsPtt
CHECK_DEADLOCK FALSE
