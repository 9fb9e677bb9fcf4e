CONSTANTS
  c1 = c1
  c2 = c2
  c3 = c3
  Callers = {c1, c2, c3}
  CooldownMs = 1
  Delays <- MCDelays
  MaxNow = 2
SPECIFICATION FairSpec
INVARIANT TypeOK
PROPERTIES
  ExtendTakesEffect
  WaitOutlastsCooldown
  ImplementsGate
  CallsReturn
