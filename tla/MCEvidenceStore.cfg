\* Three runs one after the other, each of which may fail or crash at any step,
\* and two at the same time.
CONSTANTS
  r1 = r1
  r2 = r2
  r3 = r3
  r4 = r4
  Runs <- MCRuns
  OutcomeOf <- MCOutcomeOf
  SizeOf <- MCSizeOf
  ManifestSize = 1
  MemberLimit = 2
  TotalLimit = 6
  Schedules <- MCSchedules
  NoFile = NoFile
  Torn = Torn
SPECIFICATION Spec
INVARIANTS
  TypeOK
  ReturnedEvidenceIsOwn
  NoFileIsTorn
  EmittedIsVerified
PROPERTY KeepsRegister
\* Every run comes to an end and the directory is left alone.
CHECK_DEADLOCK FALSE
