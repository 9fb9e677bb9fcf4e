CONSTANTS
  Timeout = 2
  MaxTrips = 2
SPECIFICATION FairSpec
PROPERTY SlowClientIsNotIdle
CHECK_DEADLOCK FALSE
