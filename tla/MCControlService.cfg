SPECIFICATION Spec
CONSTANTS
  c1 = c1  c2 = c2
  Callers = {c1, c2}
  None = None
  Calls <- AllCalls
SYMMETRY Symmetry
INVARIANTS StopHonoured DriversEntitled LeftAtRest
CHECK_DEADLOCK FALSE
