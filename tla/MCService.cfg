CONSTANTS
  Mode = "on"
  MinChars = 8
  MinSavedChars = 4
  MinSavingsPercent = 15
  MinSavedTokens = 2
  MinTokenSavingsPercent = 10
  LiveZoneItems = 0
  LiveZonePolicy = "latest-per-type"
  Sources = {s1, s2}
  NoSource = none
  maxTrackedSources = 1
  keep = 2
  maxLines = 0
  Requests = {r1, r2, r3}
  Setups <- MCSetups
  s1 = s1
  s2 = s2
  MaxRetries = 1
  MaxLogFaults = 1
  MaxDiskFaults = 1
SPECIFICATION Spec
SYMMETRY Symmetry
INVARIANTS
  TypeOK
  CountsAreTrue
  LogIsWhole
  OriginalsServed
