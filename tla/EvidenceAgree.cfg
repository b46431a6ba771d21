\* The claim that an accepted bundle speaks of one verification.
CONSTANTS
  r1 = r1
  r2 = r2
  r3 = r3
  r4 = r4
  Runs <- MCRuns
  OutcomeOf <- MCOutcomeOf
  SizeOf <- MCSizeOf
  ManifestSize = 1
  MemberLimit = 2
  TotalLimit = 6
  Schedules <- MCPairs
  NoFile = NoFile
  Torn = Torn
SPECIFICATION Spec
INVARIANTS
  AcceptedIdentitiesAgree
\* Every run comes to an end and the directory is left alone.
CHECK_DEADLOCK FALSE
