SPECIFICATION FairSpec
CONSTANTS
  BackoffSteps = 7
  MaxSnapshots = 2
  MaxStarts = 2
INVARIANTS
  TypeOK
  NoStaleIgnore
  SessionIsAnchored
  PendingOnlyWhenDown
  WaitsOnlyWithoutNetwork
  NotForgotten
PROPERTIES
  StaysQuiet
  KeepsPromise
  EventuallyConnected
