SPECIFICATION Spec
CONSTANTS
  Callers = {c1, c2}
  MaxCalls = 2
  MaxLost = 0
  MaxForeign = 0
  ClientMaxTime = 2
INVARIANT TimeRemains
CHECK_DEADLOCK FALSE
