CONSTANTS
  Timeout = 2
  MaxTrips = 2
SPECIFICATION FairSpec
PROPERTY SilentUpstreamIsCancelled
CHECK_DEADLOCK FALSE
