\* Every patch of MCDiffLines and of MCPolicyChecks, through to the findings.
CONSTANTS
  Patches <- MCAllPatches
  Paths <- MCCheckPaths
  Texts <- MCCheckTexts
  Limits <- MCLimits
  KindsOf <- MCKindsOf
  ShownBy <- MCShownBy
  Indent <- MCIndent
  NoPath = NoPath
  NoLine = NoLine
  NoText = NoText
  Quoted = Quoted
  Other = Other
SPECIFICATION CheckSpec
\* A patch is read once.
CHECK_DEADLOCK FALSE
INVARIANTS
  TypeOK
  OrdinaryChangeIsExact
  PathsAreGits
  FindingsAreExact
  LimitsAreGits
  CheckoutIsJudgedByItsStep
