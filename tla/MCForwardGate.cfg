CONSTANTS
  r1 = r1
  r2 = r2
  r3 = r3
  Requests = {r1, r2, r3}
  MaxAttempts = 2
  Retryable = {429}
  RetryDelay = 1
  RetryStepDelay = 0
  MaxRetryDelay = 2
  HonoredMax = 2
  CooldownMs = 1
  HollowMax = 0
  Shapes = {"responses"}
  Replies <- GateReplies
SPECIFICATION Spec
SYMMETRY Symmetry
PROPERTY CooldownHonoured
CHECK_DEADLOCK FALSE
