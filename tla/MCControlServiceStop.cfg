SPECIFICATION Spec
CONSTANTS
  c1 = c1  c2 = c2
  Callers = {c1, c2}
  None = None
  Calls = {"execute", "estop", "observe"}
INVARIANTS StopAlwaysHonoured
CHECK_DEADLOCK FALSE
