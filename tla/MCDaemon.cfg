CONSTANTS
  p1 = p1
  p2 = p2
  o1 = o1
  o2 = o2
  None = None
  Operators = {o1, o2}
  Pids = {p1, p2}
SPECIFICATION FairSpec
INVARIANTS
  TypeOK
  Manageable
PROPERTIES
  StartIsTrue
  StopIsEffective
  CommandsReturn
  SignalEnds
