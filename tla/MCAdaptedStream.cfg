CONSTANTS
  MaxItems = 6
  Blocks <- MCBlocks
  Calls <- MCCalls
  Own <- MCOwn
  syntheticIndexBase = 2
SPECIFICATION Spec
INVARIANTS TypeOK WellFormed NoEmptyHanded HonestReport TurnEnds ReasoningLast FramesWhole
PROPERTIES NoLateKeepalive HandlerReturns
CHECK_DEADLOCK FALSE
