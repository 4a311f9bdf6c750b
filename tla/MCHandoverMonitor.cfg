SPECIFICATION FairSpec
CONSTANTS
  Routes = {home, cafe, mobile}
  Cellular = {mobile}
  None = none
  MaxChanges = 2
  MaxConnects = 2
  MaxDisconnects = 1
INVARIANTS
  AtMostOneAfterStop
PROPERTIES
  LastDescribesNetwork
CHECK_DEADLOCK FALSE
