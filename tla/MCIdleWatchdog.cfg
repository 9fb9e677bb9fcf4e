CONSTANTS
  Timeout = 3
  MaxTrips = 3
SPECIFICATION FairSpec
INVARIANTS
  TypeOK
  AlwaysGuarded
PROPERTIES
  QuietAfterClose
  TripAfterFullTimeout
  ReadsReturn
CHECK_DEADLOCK FALSE
