\* Every expectation and phase, with one interrupt at any point.
CONSTANT NoResult = NoResult
SPECIFICATION Spec
INVARIANTS
  TypeOK
  KnownExitIsQuiet
PROPERTIES
  NothingIsAskedAfterRemoval
  CommandReturns
  KeepsBoundary
\* The call returns and the container is gone: nothing happens any more.
CHECK_DEADLOCK FALSE
