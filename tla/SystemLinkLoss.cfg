SPECIFICATION Spec
CONSTANTS
  Calls = {s1, c1}
  Starts = {s1}
  Echoes = {}
  Budget = 2
  None = None
PROPERTY ErrorsReachCaller
CHECK_DEADLOCK FALSE
