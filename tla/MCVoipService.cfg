SPECIFICATION Spec
CONSTANT
  MaxEvents = 2
INVARIANTS
  StoppedHoldsNothing
  WatchIsKept
CHECK_DEADLOCK FALSE
