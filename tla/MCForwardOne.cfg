CONSTANTS
  r1 = r1
  Requests = {r1}
  MaxAttempts = 2
  Retryable = {429, 501, 503}
  RetryDelay = 1
  RetryStepDelay = 1
  MaxRetryDelay = 2
  HonoredMax = 2
  CooldownMs = 1
  HollowMax = 1
  Shapes <- AllShapes
  Replies <- EveryReply
SPECIFICATION FairSpec
INVARIANTS
  TypeOK
  AttemptsBounded
  HonestStatus
PROPERTIES
  ImplementsRelay
  Served
CHECK_DEADLOCK FALSE
