\* Two descendants, which may escape; one interrupt at any point.
CONSTANTS
  k1 = k1
  k2 = k2
  Kids <- MCKids
  leader = leader
  NoResult = NoResult
SPECIFICATION Spec
INVARIANTS
  TypeOK
  NoSurvivorInGroup
PROPERTIES
  CommandReturns
  KeepsBoundary
\* The call returns and every process ends: nothing happens any more.
CHECK_DEADLOCK FALSE
