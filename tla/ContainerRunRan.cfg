\* The claim that a passed command ran in the container.
CONSTANT NoResult = NoResult
SPECIFICATION Spec
INVARIANT PassedCommandRan
CHECK_DEADLOCK FALSE
