CONSTANTS
  Patches <- MCPatches
  Paths <- MCPaths
  Texts <- MCTexts
  NoPath = NoPath
  NoLine = NoLine
  Quoted = Quoted
  Other = Other
SPECIFICATION Spec
CHECK_DEADLOCK FALSE
INVARIANT
  MismatchIsFound
