CONSTANTS
  p1 = p1
  p2 = p2
  o1 = o1
  None = None
  Operators = {o1}
  Pids = {p1, p2}
SPECIFICATION Spec
PROPERTY ShutdownWaits
