SPECIFICATION Spec
CONSTANTS
  Callers = {c1, c2}
  MaxCalls = 2
  MaxLost = 1
  MaxForeign = 1
  ClientMaxTime = 2
SYMMETRY CallerSymmetry
INVARIANTS
  IfExistsHonest
  ConditionsHonoured
  CacheMirrors
  HolderServed
PROPERTIES
  SnapshotReadOnly
CHECK_DEADLOCK FALSE
