\* The claim that the time a command takes is bounded.
CONSTANTS
  k1 = k1
  k2 = k2
  Kids <- MCKids
  leader = leader
  NoResult = NoResult
SPECIFICATION Spec
PROPERTY TimeIsBounded
CHECK_DEADLOCK FALSE
