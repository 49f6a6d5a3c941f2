SPECIFICATION Spec
CONSTANTS
  Callers = {c1, c2}
  MaxCalls = 2
  MaxLost = 1
  MaxForeign = 1
  ClientMaxTime = 2
  Names = {1, 2, 3}
  ReplicatedNames = {1, 3}
  PrefixNames = {1}
  MaxPage = 2
  Limits = {0, 2}
SYMMETRY CallerSymmetry
INVARIANTS
  IfExistsHonest
  HandlesCurrent
  ListingComplete
PROPERTIES
  EntityProtected
  PropertiesKept
CHECK_DEADLOCK FALSE
