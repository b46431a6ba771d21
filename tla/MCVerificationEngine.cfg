\* One verification next to one change of refs, working tree or runtimes.
CONSTANTS
  c1 = c1
  c2 = c2
  c3 = c3
  c4 = c4
  Garbled = Garbled
  Commits = {c1, c2, c3, c4}
  Unreadable = {Garbled}
  Refs = {"main", "patch"}
  Policies <- MCPolicies
  ConfigAt <- MCConfigAt
  Reconciled <- MCReconciled
  RuleFindings <- MCRuleFindings
  Requests <- MCRequests
  Worktrees <- MCWorktrees
  Endings <- MCEndings
  StartHosts <- MCHosts
  MaxChanges = 1
  NoCommit = NoCommit
  NoConfig = NoConfig
  NoRecord = NoRecord
SPECIFICATION Spec
INVARIANTS
  TypeOK
  PassIsEarned
  PolicyChangeIsReviewed
  NativeNeedsConsent
  EvidenceFromOnePair
  IdentityIsAcceptable
  BoundaryIsTruthful
  ExitZeroIsPublished
PROPERTY AnswerArrives
\* A verification ends: the exited process takes no further step.
CHECK_DEADLOCK FALSE
