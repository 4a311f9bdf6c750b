SPECIFICATION Spec
CONSTANTS
  BackoffSteps = 7
  MaxSnapshots = 1
  MaxStarts = 2
INVARIANTS
  WaitingIsFlagged
