\* A chunk of two units and a pipe of two; the general limit lies inside a
\* chunk, the prefix is shorter than one.
CONSTANTS
  MaxOutput = 3
  MaxError = 1
  Chunk = 2
  PipeSize = 2
  OutputLimit = 1
  ErrorLimit = 0
  MemberLimit = 2
  PrefixLimit = 1
SPECIFICATION Spec
CHECK_DEADLOCK FALSE
INVARIANTS
  TypeOK
  OutputIsWhole
PROPERTIES
  LimitStopsGit
  CallReturns
