---------------------- MODULE VerificationEngine_proofs ----------------------
(***************************************************************************)
(* Proofs about VerificationEngine, for every repository, policy, request, *)
(* host and number of changes.  The inductive invariant IInv says, part by *)
(* part, what each step of verify has established when it is reached.      *)
(***************************************************************************)
EXTENDS VerificationEngine, TLAPS

\* The steps up to loading the policy, up to selecting the executor, and after.
Unloaded   == {"resolve-base", "resolve-head", "load-policy"}
Unselected == Unloaded \cup {"check-worktree", "analyse", "select-executor"}
Loaded     == {"check-worktree", "analyse", "select-executor", "run", "judge",
               "publish", "exit"}
Analysed   == {"select-executor", "run", "judge", "publish", "exit"}

CommitsPart ==
  /\ pc \in {"resolve-head", "load-policy"} \cup Loaded => baseSha \in Commits
  /\ pc \in {"load-policy"} \cup Loaded => headSha \in Commits

PolicyPart ==
  /\ pc \in Unloaded => policy = NoConfig
  /\ pc \in Loaded => policy # NoConfig
  /\ policy # NoConfig =>
       /\ ConfigAccepted(policy)
       /\ OverridesAccepted(request.overrides)
       /\ execution = EffectiveExecution(policy.execution, request.overrides)
       /\ request.source = "base" => policy = ConfigAt[baseSha]

BoundaryPart ==
  /\ pc \in Unselected => executor = StaticExecutor
  /\ \/ executor = StaticExecutor
     \/ /\ policy # NoConfig
        /\ \/ /\ executor = NativeExecutor
              /\ execution.mode \in {"auto", "native"} /\ execution.allowNative
           \/ /\ execution.image # "none"
              /\ \E name \in Runtimes : executor = ContainerExecutor(execution, name)

EvidencePart ==
  /\ pc \in Unselected => results = {}
  /\ pc = "run" => executor.mode # "static"
  /\ \A r \in results :
       r.mode = executor.mode /\ r.mode # "static" /\ r.commit = CommitOf(r.phase)

VerdictPart ==
  /\ pc \in {"publish", "exit"} => outcome # "none"
  /\ outcome # "none" => pc \in {"publish", "exit", "exited"} /\ outcome = OutcomeOf(findings)
  /\ pc \in Analysed \/ outcome # "none" =>
       /\ PolicyChanged => <<"PL-POLICY-001", "review">> \in findings
       /\ <<baseSha, headSha>> \notin Reconciled => <<"PL-GIT-003", "deny">> \in findings
  /\ executor.mode = "container" /\ executor.network =>
       <<"PL-EXEC-003", "review">> \in findings

PublishedPart ==
  /\ pc = "exit" => published # NoRecord
  /\ published # NoRecord =>
       /\ pc \in {"exit", "exited"}
       /\ published = [base |-> baseSha, head |-> headSha, outcome |-> outcome,
                       execution |-> Identity]
  /\ exitCode = 0 => pc = "exited" /\ published # NoRecord /\ outcome # "fail"

IInv ==
  /\ TypeOK /\ CommitsPart /\ PolicyPart /\ BoundaryPart /\ EvidencePart
  /\ VerdictPart /\ PublishedPart

-----------------------------------------------------------------------------
(* Facts about the decision of ExecutionPolicy                             *)

\* Accepted overrides of a well-formed execution table give one again.
LEMMA EffectiveInType ==
  ASSUME NEW cfg \in ExecutionConfigs, NEW over \in Overrides, OverridesAccepted(over)
  PROVE  EffectiveExecution(cfg, over) \in ExecutionConfigs
BY DEF ExecutionConfigs, Overrides, OverridesAccepted, EffectiveExecution, Overridden,
       Switched, Modes, Preferences, Runtimes, Images

\* The four answers the selection can give, and what each one presupposes.
LEMMA Selection ==
  ASSUME NEW cfg \in ExecutionConfigs, NEW h \in Hosts
  PROVE  \/ SelectExecutor(cfg, h) \in {StaticExecutor, Unavailable}
         \/ /\ SelectExecutor(cfg, h) = NativeExecutor
            /\ cfg.mode \in {"auto", "native"} /\ cfg.allowNative
         \/ /\ cfg.image # "none"
            /\ \E name \in Runtimes : SelectExecutor(cfg, h) = ContainerExecutor(cfg, name)
<1>1. Candidate(cfg, h) \in Runtimes
  BY DEF Candidate, ExecutionConfigs, Preferences, Runtimes
<1> QED
  BY <1>1 DEF SelectExecutor, NativeFallback, ContainerPossible, ExecutionConfigs, Modes

\* Whatever boundary was selected under an accepted policy and request, its
\* identity passes the rules of the passport.
LEMMA IdentityIsValid ==
  ASSUME EngineAssumption, TypeOK, PolicyPart, BoundaryPart
  PROVE  ValidExecutionIdentity(Identity) /\ Identity \in ExecutionIdentities
<1>1. CASE executor = StaticExecutor
  BY <1>1 DEF StaticExecutor, Identity, ExecutionIdentity, BoundaryOf,
              ValidExecutionIdentity, ExecutionIdentities, Images
<1>2. CASE policy # NoConfig /\ executor = NativeExecutor /\ execution.allowNative
  BY <1>2 DEF NativeExecutor, Identity, ExecutionIdentity, BoundaryOf,
              ValidExecutionIdentity, ExecutionIdentities, Images
<1>3. ASSUME policy # NoConfig, execution.image # "none", NEW name \in Runtimes,
             executor = ContainerExecutor(execution, name)
      PROVE  ValidExecutionIdentity(Identity) /\ Identity \in ExecutionIdentities
  <2>1. policy.execution \in ExecutionConfigs /\ request.overrides \in Overrides
    BY <1>3 DEF TypeOK, EngineAssumption
  <2>2. ExecutionAccepted(policy.execution) /\ OverridesAccepted(request.overrides)
    BY <1>3 DEF PolicyPart, ConfigAccepted
  <2>3. execution = EffectiveExecution(policy.execution, request.overrides)
    BY <1>3 DEF PolicyPart
  <2>4. execution \in ExecutionConfigs
    BY <2>1, <2>2, <2>3, EffectiveInType
  <2>5. execution.image = "pinned"
    BY <1>3, <2>1, <2>2, <2>3
       DEF ExecutionAccepted, OverridesAccepted, EffectiveExecution, Overridden,
           ExecutionConfigs, Overrides, Images
  <2> QED
    BY <1>3, <2>4, <2>5
       DEF ContainerExecutor, Identity, ExecutionIdentity, BoundaryOf, Runtimes,
           ValidExecutionIdentity, ExecutionIdentities, ExecutionConfigs, Images
<1> QED BY <1>1, <1>2, <1>3 DEF BoundaryPart

-----------------------------------------------------------------------------
(* The invariant holds at the start and is kept by every step              *)

LEMMA InitIInv == ASSUME EngineAssumption, Init PROVE IInv
<1> USE DEF Init
<1>1. TypeOK
  <2>1. /\ refs \in [Refs -> Commits \cup {NoCommit}] /\ worktree \in [config : Contents, clean : BOOLEAN]
        /\ host \in Hosts
    BY DEF EngineAssumption
  <2>1a. changes \in 0..MaxChanges
    BY DEF EngineAssumption
  <2>2. at \in [index : Nat, phase : Phases]
    BY DEF Finished, Phases
  <2> QED BY <2>1, <2>1a, <2>2 DEF TypeOK, StaticExecutor
<1>2. CommitsPart /\ PolicyPart
  BY DEF CommitsPart, PolicyPart, Unloaded, Loaded
<1>3. BoundaryPart /\ EvidencePart
  BY DEF BoundaryPart, EvidencePart
<1>4. VerdictPart
  BY DEF VerdictPart, Analysed, StaticExecutor
<1>5. PublishedPart
  BY DEF PublishedPart
<1> QED BY <1>1, <1>2, <1>3, <1>4, <1>5 DEF IInv

LEMMA AbortKeeps ==
  ASSUME EngineAssumption, IInv, StepFails
  PROVE  IInv'
<1> USE DEF StepFails, Abort, envVars, inputVars, runVars, endVars
<1>0. TypeOK /\ CommitsPart /\ PolicyPart /\ BoundaryPart /\ EvidencePart /\ VerdictPart /\ PublishedPart
  BY DEF IInv
<1>1. TypeOK'
  BY <1>0 DEF TypeOK, EngineAssumption
<1>2. CommitsPart'
  BY <1>0, <1>1 DEF CommitsPart, TypeOK, Loaded
<1>3. PolicyPart'
  BY <1>0 DEF PolicyPart, Unloaded, Loaded
<1>4. BoundaryPart'
  BY <1>0 DEF BoundaryPart, Unloaded, Unselected, Loaded, Analysed, PolicyPart
<1>5. EvidencePart'
  BY <1>0 DEF EvidencePart, Unloaded, Unselected, Loaded, Analysed, CommitOf
<1>6. VerdictPart'
  BY <1>0 DEF VerdictPart, Analysed, PolicyChanged, OutcomeOf, FailOnReview
<1>7. PublishedPart'
  <2>1. exitCode' # 0
    OBVIOUS
  <2>2. pc' = "exited" /\ pc' # "exit" /\ UNCHANGED <<published, baseSha, headSha, outcome, executor, execution>>
    OBVIOUS
  <2> QED BY <1>0, <2>1, <2>2 DEF PublishedPart, Identity, ExecutionIdentity
<1> QED BY <1>1, <1>2, <1>3, <1>4, <1>5, <1>6, <1>7 DEF IInv

LEMMA ResolveBaseKeeps ==
  ASSUME EngineAssumption, IInv, ResolveBase
  PROVE  IInv'
<1> USE DEF ResolveBase, envVars, inputVars, runVars, endVars
<1>0. TypeOK /\ CommitsPart /\ PolicyPart /\ BoundaryPart /\ EvidencePart /\ VerdictPart /\ PublishedPart
  BY DEF IInv
<1>1. TypeOK'
  BY <1>0 DEF TypeOK, EngineAssumption
<1>2. CommitsPart'
  BY <1>0, <1>1 DEF CommitsPart, TypeOK, Loaded
<1>3. PolicyPart'
  BY <1>0 DEF PolicyPart, Unloaded, Loaded
<1>4. BoundaryPart'
  BY <1>0 DEF BoundaryPart, Unloaded, Unselected, Loaded, Analysed, PolicyPart
<1>5. EvidencePart'
  BY <1>0 DEF EvidencePart, Unloaded, Unselected, Loaded, Analysed, CommitOf
<1>6. VerdictPart'
  BY <1>0 DEF VerdictPart, Analysed, PolicyChanged, OutcomeOf, FailOnReview
<1>7. PublishedPart'
  BY <1>0 DEF PublishedPart, Identity, ExecutionIdentity, TypeOK
<1> QED BY <1>1, <1>2, <1>3, <1>4, <1>5, <1>6, <1>7 DEF IInv

LEMMA ResolveHeadKeeps ==
  ASSUME EngineAssumption, IInv, ResolveHead
  PROVE  IInv'
<1> USE DEF ResolveHead, envVars, inputVars, runVars, endVars
<1>0. TypeOK /\ CommitsPart /\ PolicyPart /\ BoundaryPart /\ EvidencePart /\ VerdictPart /\ PublishedPart
  BY DEF IInv
<1>1. TypeOK'
  BY <1>0 DEF TypeOK, EngineAssumption
<1>2. CommitsPart'
  BY <1>0, <1>1 DEF CommitsPart, TypeOK, Loaded
<1>3. PolicyPart'
  BY <1>0 DEF PolicyPart, Unloaded, Loaded
<1>4. BoundaryPart'
  BY <1>0 DEF BoundaryPart, Unloaded, Unselected, Loaded, Analysed, PolicyPart
<1>5. EvidencePart'
  BY <1>0 DEF EvidencePart, Unloaded, Unselected, Loaded, Analysed, CommitOf
<1>6. VerdictPart'
  BY <1>0 DEF VerdictPart, Analysed, PolicyChanged, OutcomeOf, FailOnReview
<1>7. PublishedPart'
  BY <1>0 DEF PublishedPart, Identity, ExecutionIdentity, TypeOK
<1> QED BY <1>1, <1>2, <1>3, <1>4, <1>5, <1>6, <1>7 DEF IInv

LEMMA LoadPolicyKeeps ==
  ASSUME EngineAssumption, IInv, LoadPolicy
  PROVE  IInv'
<1> USE DEF LoadPolicy, envVars, inputVars, runVars, endVars
<1>0. TypeOK /\ CommitsPart /\ PolicyPart /\ BoundaryPart /\ EvidencePart /\ VerdictPart /\ PublishedPart
  BY DEF IInv
<1>1. TypeOK'
  <2>1. request \in Requests
    BY <1>0 DEF TypeOK, EngineAssumption
  <2>2. policy' \in Policies
    OBVIOUS
  <2>3. policy'.execution \in ExecutionConfigs /\ request.overrides \in Overrides
    BY <2>1, <2>2 DEF EngineAssumption
  <2>4. execution' \in ExecutionConfigs
    BY <2>3, EffectiveInType
  <2> QED BY <1>0, <2>2, <2>4 DEF TypeOK
<1>2. CommitsPart'
  BY <1>0, <1>1 DEF CommitsPart, TypeOK, Loaded
<1>3. PolicyPart'
  <2>1. request.source = "base" => policy' = ConfigAt[baseSha]
    BY DEF SourceConfig
  <2>2. policy' \in Policies /\ policy' # NoConfig
    BY DEF EngineAssumption
  <2> QED BY <2>1, <2>2 DEF PolicyPart, Unloaded, Loaded, ConfigAccepted
<1>4. BoundaryPart'
  BY <1>0 DEF BoundaryPart, Unloaded, Unselected, Loaded, Analysed, PolicyPart
<1>5. EvidencePart'
  BY <1>0 DEF EvidencePart, Unloaded, Unselected, Loaded, Analysed, CommitOf
<1>6. VerdictPart'
  BY <1>0 DEF VerdictPart, Analysed, PolicyChanged, OutcomeOf, FailOnReview
<1>7. PublishedPart'
  BY <1>0 DEF PublishedPart, Identity, ExecutionIdentity, TypeOK
<1> QED BY <1>1, <1>2, <1>3, <1>4, <1>5, <1>6, <1>7 DEF IInv

LEMMA CheckWorktreeKeeps ==
  ASSUME EngineAssumption, IInv, CheckWorktree
  PROVE  IInv'
<1> USE DEF CheckWorktree, envVars, inputVars, runVars, endVars
<1>0. TypeOK /\ CommitsPart /\ PolicyPart /\ BoundaryPart /\ EvidencePart /\ VerdictPart /\ PublishedPart
  BY DEF IInv
<1>1. TypeOK'
  <2>1. \A f \in findings' : f[2] \in {"allow", "review", "deny"}
    BY DEF FindingIf
  <2> QED BY <1>0, <2>1 DEF TypeOK
<1>2. CommitsPart'
  BY <1>0, <1>1 DEF CommitsPart, TypeOK, Loaded
<1>3. PolicyPart'
  BY <1>0 DEF PolicyPart, Unloaded, Loaded
<1>4. BoundaryPart'
  BY <1>0 DEF BoundaryPart, Unloaded, Unselected, Loaded, Analysed, PolicyPart
<1>5. EvidencePart'
  BY <1>0 DEF EvidencePart, Unloaded, Unselected, Loaded, Analysed, CommitOf
<1>6. VerdictPart'
  <2>1. executor' = executor /\ executor.mode = "static"
    BY <1>0 DEF BoundaryPart, Unselected, StaticExecutor
  <2> QED BY <1>0, <2>1 DEF VerdictPart, Analysed, PolicyChanged, OutcomeOf, FailOnReview
<1>7. PublishedPart'
  BY <1>0 DEF PublishedPart, Identity, ExecutionIdentity, TypeOK
<1> QED BY <1>1, <1>2, <1>3, <1>4, <1>5, <1>6, <1>7 DEF IInv

LEMMA AnalyseKeeps ==
  ASSUME EngineAssumption, IInv, Analyse
  PROVE  IInv'
<1> USE DEF Analyse, envVars, inputVars, runVars, endVars
<1>0. TypeOK /\ CommitsPart /\ PolicyPart /\ BoundaryPart /\ EvidencePart /\ VerdictPart /\ PublishedPart
  BY DEF IInv
<1>1. TypeOK'
  <2>1. \A f \in findings : f[2] \in {"allow", "review", "deny"}
    BY <1>0 DEF TypeOK
  <2>2. <<baseSha, headSha>> \in Commits \X Commits
    BY <1>0 DEF CommitsPart, Loaded
  <2>3. RuleFindings[<<baseSha, headSha>>] \subseteq {"allow", "review", "deny"}
    BY <2>2 DEF EngineAssumption
  <2>4. \A f \in findings' : f[2] \in {"allow", "review", "deny"}
    BY <2>1, <2>3 DEF FindingIf
  <2> QED BY <1>0, <2>4 DEF TypeOK
<1>2. CommitsPart'
  BY <1>0, <1>1 DEF CommitsPart, TypeOK, Loaded
<1>3. PolicyPart'
  BY <1>0 DEF PolicyPart, Unloaded, Loaded
<1>4. BoundaryPart'
  BY <1>0 DEF BoundaryPart, Unloaded, Unselected, Loaded, Analysed, PolicyPart
<1>5. EvidencePart'
  BY <1>0 DEF EvidencePart, Unloaded, Unselected, Loaded, Analysed, CommitOf
<1>6. VerdictPart'
  <2>1. PolicyChanged => <<"PL-POLICY-001", "review">> \in findings'
    BY DEF FindingIf
  <2>2. PolicyChanged' = PolicyChanged
    BY DEF PolicyChanged
  <2>3. outcome' = "none"
    BY <1>0 DEF VerdictPart
  <2>4. <<baseSha, headSha>> \notin Reconciled => <<"PL-GIT-003", "deny">> \in findings'
    BY DEF FindingIf
  <2>5. executor' = executor /\ executor.mode = "static"
    BY <1>0 DEF BoundaryPart, Unselected, StaticExecutor
  <2>6. UNCHANGED <<baseSha, headSha>> /\ pc' \notin {"publish", "exit"}
    OBVIOUS
  <2> QED BY <2>1, <2>2, <2>3, <2>4, <2>5, <2>6 DEF VerdictPart
<1>7. PublishedPart'
  BY <1>0 DEF PublishedPart, Identity, ExecutionIdentity, TypeOK
<1> QED BY <1>1, <1>2, <1>3, <1>4, <1>5, <1>6, <1>7 DEF IInv

LEMMA SelectKeeps ==
  ASSUME EngineAssumption, IInv, Select
  PROVE  IInv'
<1> USE DEF Select, envVars, inputVars, runVars, endVars
<1>0. TypeOK /\ CommitsPart /\ PolicyPart /\ BoundaryPart /\ EvidencePart /\ VerdictPart /\ PublishedPart
  BY DEF IInv
<1>1. TypeOK'
  <2>1. policy \in Policies /\ execution \in ExecutionConfigs /\ host \in Hosts
    <3>1. policy \in Policies
      BY <1>0 DEF TypeOK, PolicyPart, Loaded
    <3>2. policy.execution \in ExecutionConfigs /\ request.overrides \in Overrides
      BY <1>0, <3>1 DEF TypeOK, EngineAssumption
    <3>3. execution \in ExecutionConfigs
      BY <1>0, <3>1, <3>2, EffectiveInType DEF PolicyPart, Loaded
    <3> QED BY <1>0, <3>1, <3>3 DEF TypeOK
  <2>2. executor'.mode \in {"static", "native", "container"}
    BY <2>1, Selection DEF StaticExecutor, NativeExecutor, ContainerExecutor
  <2>3. at' \in [index : Nat, phase : Phases]
    BY DEF Finished, FirstPhase, Phases
  <2>4. \A f \in findings' : f[2] \in {"allow", "review", "deny"}
    BY <1>0 DEF FindingIf, TypeOK
  <2> QED BY <1>0, <2>2, <2>3, <2>4 DEF TypeOK
<1>2. CommitsPart'
  BY <1>0, <1>1 DEF CommitsPart, TypeOK, Loaded
<1>3. PolicyPart'
  BY <1>0 DEF PolicyPart, Unloaded, Loaded
<1>4. BoundaryPart'
  <2>1. policy # NoConfig
    BY <1>0 DEF PolicyPart, Loaded
  <2>2. execution \in ExecutionConfigs /\ host \in Hosts
    <3>1. policy.execution \in ExecutionConfigs /\ request.overrides \in Overrides
      BY <1>0, <2>1 DEF TypeOK, EngineAssumption
    <3>2. execution \in ExecutionConfigs
      BY <1>0, <2>1, <3>1, EffectiveInType DEF PolicyPart
    <3> QED BY <1>0, <3>2 DEF TypeOK
  <2>3. \/ executor' = StaticExecutor
        \/ executor' = SelectExecutor(execution, host) /\ executor' # Unavailable
    OBVIOUS
  <2>4. pc' \in {"run", "judge"}
    OBVIOUS
  <2>5. execution' = execution /\ policy' = policy
    OBVIOUS
  <2> HIDE DEF Select
  <2> QED BY <2>1, <2>2, <2>3, <2>4, <2>5, Selection DEF BoundaryPart, Unselected, Unloaded
<1>5. EvidencePart'
  <2>1. results' = {}
    BY <1>0 DEF EvidencePart, Unselected
  <2>2. pc' \in {"run", "judge"}
    OBVIOUS
  <2>3. pc' = "run" => executor'.mode # "static"
    BY DEF Unavailable
  <2> HIDE DEF Select
  <2> QED BY <2>1, <2>2, <2>3 DEF EvidencePart, Unselected, Unloaded
<1>6. VerdictPart'
  <2>1. /\ PolicyChanged' = PolicyChanged /\ findings \subseteq findings' /\ outcome' = "none"
        /\ PolicyChanged => <<"PL-POLICY-001", "review">> \in findings
        /\ <<baseSha, headSha>> \notin Reconciled => <<"PL-GIT-003", "deny">> \in findings
    BY <1>0 DEF VerdictPart, Analysed, PolicyChanged
  <2>2. executor'.mode = "container" /\ executor'.network =>
          <<"PL-EXEC-003", "review">> \in findings'
    BY DEF FindingIf, StaticExecutor
  <2>3. pc' \notin {"publish", "exit"} /\ UNCHANGED <<baseSha, headSha>>
    OBVIOUS
  <2> HIDE DEF Select
  <2> QED BY <2>1, <2>2, <2>3 DEF VerdictPart
<1>7. PublishedPart'
  BY <1>0 DEF PublishedPart, Identity, ExecutionIdentity, TypeOK
<1> QED BY <1>1, <1>2, <1>3, <1>4, <1>5, <1>6, <1>7 DEF IInv

LEMMA RunCommandKeeps ==
  ASSUME EngineAssumption, IInv, NEW exit \in ExitCodes, NEW timedOut \in BOOLEAN, RunCommand(exit, timedOut)
  PROVE  IInv'
<1> USE DEF RunCommand, envVars, inputVars, runVars, endVars
<1>0. TypeOK /\ CommitsPart /\ PolicyPart /\ BoundaryPart /\ EvidencePart /\ VerdictPart /\ PublishedPart
  BY DEF IInv
<1>1. TypeOK'
  <2>1. at \in [index : Nat, phase : Phases]
    BY <1>0 DEF TypeOK
  <2>2. at' \in [index : Nat, phase : Phases]
    BY <2>1 DEF NextAt, Finished, FirstPhase, Phases
  <2>3. SnapshotOf(at.phase) \in Commits
    BY <1>0 DEF SnapshotOf, CommitOf, CommitsPart, Loaded
  <2>4. \A r \in results' : r.commit \in Commits /\ r.exit \in ExitCodes
    BY <1>0, <2>3 DEF TypeOK
  <2> QED BY <1>0, <2>2, <2>4 DEF TypeOK
<1>2. CommitsPart'
  BY <1>0, <1>1 DEF CommitsPart, TypeOK, Loaded
<1>3. PolicyPart'
  BY <1>0 DEF PolicyPart, Unloaded, Loaded
<1>4. BoundaryPart'
  BY <1>0 DEF BoundaryPart, Unloaded, Unselected, Loaded, Analysed, PolicyPart
<1>5. EvidencePart'
  <2>1. \A r \in results :
          r.mode = executor.mode /\ r.mode # "static" /\ r.commit = CommitOf(r.phase)
    BY <1>0 DEF EvidencePart
  <2>2. \A r \in results' :
          r.mode = executor.mode /\ r.mode # "static" /\ r.commit = CommitOf(r.phase)
    BY <1>0, <2>1 DEF SnapshotOf, EvidencePart
  <2>3. \A phase : CommitOf(phase)' = CommitOf(phase)
    BY DEF CommitOf
  <2>4. executor' = executor /\ pc' \in {"run", "judge"}
    OBVIOUS
  <2> QED BY <2>2, <2>3, <2>4 DEF EvidencePart, Unselected, Unloaded, CommitOf
<1>6. VerdictPart'
  BY <1>0 DEF VerdictPart, Analysed, PolicyChanged, OutcomeOf, FailOnReview
<1>7. PublishedPart'
  BY <1>0 DEF PublishedPart, Identity, ExecutionIdentity, TypeOK
<1> QED BY <1>1, <1>2, <1>3, <1>4, <1>5, <1>6, <1>7 DEF IInv

LEMMA BoundaryLostKeeps ==
  ASSUME EngineAssumption, IInv, BoundaryLost
  PROVE  IInv'
<1> USE DEF BoundaryLost, envVars, inputVars, runVars, endVars
<1>0. TypeOK /\ CommitsPart /\ PolicyPart /\ BoundaryPart /\ EvidencePart /\ VerdictPart /\ PublishedPart
  BY DEF IInv
<1>1. TypeOK'
  BY <1>0 DEF TypeOK, EngineAssumption
<1>2. CommitsPart'
  BY <1>0, <1>1 DEF CommitsPart, TypeOK, Loaded
<1>3. PolicyPart'
  BY <1>0 DEF PolicyPart, Unloaded, Loaded
<1>4. BoundaryPart'
  BY <1>0 DEF BoundaryPart, Unloaded, Unselected, Loaded, Analysed, PolicyPart
<1>5. EvidencePart'
  BY <1>0 DEF EvidencePart, Unloaded, Unselected, Loaded, Analysed, CommitOf
<1>6. VerdictPart'
  BY <1>0 DEF VerdictPart, Analysed, PolicyChanged, OutcomeOf, FailOnReview
<1>7. PublishedPart'
  BY <1>0 DEF PublishedPart, Identity, ExecutionIdentity, TypeOK
<1> QED BY <1>1, <1>2, <1>3, <1>4, <1>5, <1>6, <1>7 DEF IInv

LEMMA JudgeKeeps ==
  ASSUME EngineAssumption, IInv, Judge
  PROVE  IInv'
<1> USE DEF Judge, envVars, inputVars, runVars, endVars
<1>0. TypeOK /\ CommitsPart /\ PolicyPart /\ BoundaryPart /\ EvidencePart /\ VerdictPart /\ PublishedPart
  BY DEF IInv
<1>1. TypeOK'
  <2>1. \A f \in findings' : f[2] \in {"allow", "review", "deny"}
    BY <1>0 DEF CommandFindings, TypeOK
  <2>2. outcome' \in {"none", "pass", "needs_review", "fail"}
    BY DEF OutcomeOf
  <2> QED BY <1>0, <2>1, <2>2 DEF TypeOK
<1>2. CommitsPart'
  BY <1>0, <1>1 DEF CommitsPart, TypeOK, Loaded
<1>3. PolicyPart'
  BY <1>0 DEF PolicyPart, Unloaded, Loaded
<1>4. BoundaryPart'
  BY <1>0 DEF BoundaryPart, Unloaded, Unselected, Loaded, Analysed, PolicyPart
<1>5. EvidencePart'
  BY <1>0 DEF EvidencePart, Unloaded, Unselected, Loaded, Analysed, CommitOf
<1>6. VerdictPart'
  BY <1>0 DEF VerdictPart, Analysed, PolicyChanged, OutcomeOf, FailOnReview
<1>7. PublishedPart'
  BY <1>0 DEF PublishedPart, Identity, ExecutionIdentity, TypeOK
<1> QED BY <1>1, <1>2, <1>3, <1>4, <1>5, <1>6, <1>7 DEF IInv

LEMMA PublishKeeps ==
  ASSUME EngineAssumption, IInv, Publish
  PROVE  IInv'
<1> USE DEF Publish, envVars, inputVars, runVars, endVars
<1>0. TypeOK /\ CommitsPart /\ PolicyPart /\ BoundaryPart /\ EvidencePart /\ VerdictPart /\ PublishedPart
  BY DEF IInv
<1>1. TypeOK'
  <2>1. baseSha \in Commits /\ headSha \in Commits
    BY <1>0 DEF CommitsPart, Loaded
  <2>2. outcome \in {"pass", "needs_review", "fail"}
    BY <1>0 DEF VerdictPart, TypeOK
  <2>3. Identity \in ExecutionIdentities
    BY <1>0, IdentityIsValid
  <2>4. published' \in Verdicts
    BY <2>1, <2>2, <2>3 DEF Verdicts
  <2> QED BY <1>0, <2>4 DEF TypeOK
<1>2. CommitsPart'
  BY <1>0, <1>1 DEF CommitsPart, TypeOK, Loaded
<1>3. PolicyPart'
  BY <1>0 DEF PolicyPart, Unloaded, Loaded
<1>4. BoundaryPart'
  BY <1>0 DEF BoundaryPart, Unloaded, Unselected, Loaded, Analysed, PolicyPart
<1>5. EvidencePart'
  BY <1>0 DEF EvidencePart, Unloaded, Unselected, Loaded, Analysed, CommitOf
<1>6. VerdictPart'
  BY <1>0 DEF VerdictPart, Analysed, PolicyChanged, OutcomeOf, FailOnReview
<1>7. PublishedPart'
  <2>1. published' # NoRecord
    <3>1. published' \in Verdicts
      BY <1>0, IdentityIsValid DEF CommitsPart, Loaded, VerdictPart, TypeOK, Verdicts
    <3> QED BY <3>1 DEF EngineAssumption
  <2>2. Identity' = Identity
    BY DEF Identity
  <2> QED BY <1>0, <2>1, <2>2 DEF PublishedPart
<1> QED BY <1>1, <1>2, <1>3, <1>4, <1>5, <1>6, <1>7 DEF IInv

LEMMA ExitKeeps ==
  ASSUME EngineAssumption, IInv, Exit
  PROVE  IInv'
<1> USE DEF Exit, envVars, inputVars, runVars, endVars
<1>0. TypeOK /\ CommitsPart /\ PolicyPart /\ BoundaryPart /\ EvidencePart /\ VerdictPart /\ PublishedPart
  BY DEF IInv
<1>1. TypeOK'
  BY <1>0 DEF TypeOK, EngineAssumption
<1>2. CommitsPart'
  BY <1>0, <1>1 DEF CommitsPart, TypeOK, Loaded
<1>3. PolicyPart'
  BY <1>0 DEF PolicyPart, Unloaded, Loaded
<1>4. BoundaryPart'
  BY <1>0 DEF BoundaryPart, Unloaded, Unselected, Loaded, Analysed, PolicyPart
<1>5. EvidencePart'
  BY <1>0 DEF EvidencePart, Unloaded, Unselected, Loaded, Analysed, CommitOf
<1>6. VerdictPart'
  BY <1>0 DEF VerdictPart, Analysed, PolicyChanged, OutcomeOf, FailOnReview
<1>7. PublishedPart'
  BY <1>0 DEF PublishedPart, Identity, ExecutionIdentity, TypeOK
<1> QED BY <1>1, <1>2, <1>3, <1>4, <1>5, <1>6, <1>7 DEF IInv

\* The environment touches nothing the engine has written down.
LEMMA EnvironmentKeeps ==
  ASSUME EngineAssumption, IInv, Environment
  PROVE  IInv'
<1> USE DEF Changes, engineVars, inputVars, runVars, endVars
<1>0. TypeOK /\ CommitsPart /\ PolicyPart /\ BoundaryPart /\ EvidencePart /\ VerdictPart /\ PublishedPart
  BY DEF IInv
<1>1. UNCHANGED engineVars
  BY DEF Environment, MoveRef, EditWorktree, ChangeRuntime
<1>2. TypeOK'
  <2>1. CASE \E r \in Refs, c \in Commits \cup {NoCommit} : MoveRef(r, c)
    BY <1>0, <2>1 DEF MoveRef, TypeOK, EngineAssumption
  <2>2. CASE \E tree \in Worktrees : EditWorktree(tree)
    BY <1>0, <2>2 DEF EditWorktree, TypeOK, EngineAssumption
  <2>3. ASSUME NEW name \in Runtimes, NEW status \in {"absent", "unusable", "usable"},
               ChangeRuntime(name, status)
        PROVE  TypeOK'
    <3>1. host' \in Hosts
      BY <1>0, <2>3 DEF ChangeRuntime, TypeOK, Hosts
    <3>2. changes' \in 0..MaxChanges
      BY <1>0, <2>3 DEF ChangeRuntime, TypeOK, EngineAssumption
    <3> QED BY <1>0, <2>3, <3>1, <3>2 DEF ChangeRuntime, TypeOK
  <2> QED BY <2>1, <2>2, <2>3 DEF Environment
<1>3. CommitsPart' /\ PolicyPart' /\ BoundaryPart'
  BY <1>0, <1>1 DEF CommitsPart, PolicyPart, BoundaryPart
<1>4. EvidencePart' /\ VerdictPart'
  BY <1>0, <1>1 DEF EvidencePart, VerdictPart, CommitOf, PolicyChanged, OutcomeOf, FailOnReview
<1>5. PublishedPart'
  BY <1>0, <1>1 DEF PublishedPart, Identity, ExecutionIdentity
<1> QED BY <1>2, <1>3, <1>4, <1>5 DEF IInv

LEMMA StutterKeeps == ASSUME IInv, UNCHANGED vars PROVE IInv'
<1> USE DEF vars, envVars, engineVars, inputVars, runVars, endVars
<1>1. TypeOK'
  BY DEF IInv, TypeOK
<1>2. CommitsPart' /\ PolicyPart' /\ BoundaryPart'
  BY DEF IInv, CommitsPart, PolicyPart, BoundaryPart
<1>3. EvidencePart' /\ VerdictPart'
  BY DEF IInv, EvidencePart, VerdictPart, CommitOf, PolicyChanged, OutcomeOf, FailOnReview
<1>4. PublishedPart'
  BY DEF IInv, PublishedPart, Identity, ExecutionIdentity
<1> QED BY <1>1, <1>2, <1>3, <1>4 DEF IInv

LEMMA NextIInv == ASSUME EngineAssumption, IInv, [Next]_vars PROVE IInv'
<1>1. CASE Environment
  BY <1>1, EnvironmentKeeps
<1>2. CASE Engine
  <2>1. ASSUME \E ending \in Endings : RunCommand(ending[1], ending[2])
        PROVE  IInv'
    <3>1. PICK ending \in Endings : RunCommand(ending[1], ending[2])
      BY <2>1
    <3>2. ending[1] \in ExitCodes /\ ending[2] \in BOOLEAN
      BY DEF EngineAssumption
    <3> QED BY <3>1, <3>2, RunCommandKeeps
  <2> QED
    BY <1>2, <2>1, AbortKeeps, ResolveBaseKeeps, ResolveHeadKeeps, LoadPolicyKeeps,
       CheckWorktreeKeeps, AnalyseKeeps, SelectKeeps, BoundaryLostKeeps, JudgeKeeps,
       PublishKeeps, ExitKeeps
       DEF Engine
<1>3. CASE UNCHANGED vars
  BY <1>3, StutterKeeps
<1> QED BY <1>1, <1>2, <1>3 DEF Next

THEOREM EngineInvariant == Spec => []IInv
<1>1. Init => IInv
  BY EngineAssumption, InitIInv
<1>2. IInv /\ [Next]_vars => IInv'
  BY EngineAssumption, NextIInv
<1> QED BY <1>1, <1>2, PTL DEF Spec

-----------------------------------------------------------------------------
(* What the invariant gives                                                *)

\* Every variable of a verification holds a value the program can store.
THEOREM EngineTypeOK == Spec => []TypeOK
<1>1. IInv => TypeOK
  BY DEF IInv
<1> QED BY <1>1, EngineInvariant, PTL

\* Invariants 5 and 6 of docs/THREAT_MODEL.md: no native execution without
\* consent, no degradation of container mode.
THEOREM ConsentTheorem == Spec => []NativeNeedsConsent
<1>1. ASSUME IInv PROVE NativeNeedsConsent
  <2> SUFFICES ASSUME NEW r \in results, r.mode = "native" PROVE NativeNeedsConsent
    BY DEF NativeNeedsConsent
  <2>1. executor.mode = "native"
    BY <1>1 DEF IInv, EvidencePart
  <2>2. /\ policy # NoConfig
        /\ execution.mode \in {"auto", "native"} /\ execution.allowNative
    BY <1>1, <2>1 DEF IInv, BoundaryPart, StaticExecutor, ContainerExecutor
  <2>3. /\ execution = EffectiveExecution(policy.execution, request.overrides)
        /\ request.source = "base" => policy = ConfigAt[baseSha]
    BY <1>1, <2>2 DEF IInv, PolicyPart
  <2>4. request.overrides.allowNative \in {"unset", "on", "off"}
    BY <1>1, EngineAssumption DEF IInv, TypeOK, EngineAssumption, Overrides
  <2> QED BY <2>2, <2>3, <2>4 DEF NativeNeedsConsent, EffectiveExecution, Switched
<1> QED BY <1>1, EngineInvariant, PTL

\* All evidence comes from the pair of commits resolved at the start, whatever
\* happens to the refs meanwhile.
THEOREM EvidenceTheorem == Spec => []EvidenceFromOnePair
<1>1. IInv => EvidenceFromOnePair
  BY DEF IInv, EvidencePart, PublishedPart, EvidenceFromOnePair, CommitOf
<1> QED BY <1>1, EngineInvariant, PTL

\* No verdict is lost because the passport refuses its identity.
THEOREM IdentityTheorem == Spec => []IdentityIsAcceptable
<1>1. IInv => IdentityIsAcceptable
  BY EngineAssumption, IdentityIsValid DEF IInv, IdentityIsAcceptable
<1> QED BY <1>1, EngineInvariant, PTL

\* The boundary of the passport is the one every command ran in.
THEOREM BoundaryTheorem == Spec => []BoundaryIsTruthful
<1>1. ASSUME IInv PROVE BoundaryIsTruthful
  <2> SUFFICES ASSUME published # NoRecord, NEW r \in results
               PROVE  published.execution.boundary =
                        IF r.mode = "container" THEN "isolated-container" ELSE "weak-native"
    BY DEF BoundaryIsTruthful
  <2>1. r.mode = executor.mode
    BY <1>1 DEF IInv, EvidencePart
  <2>2. published.execution = Identity
    BY <1>1 DEF IInv, PublishedPart
  <2>3. r.mode # "static"
    BY <1>1 DEF IInv, EvidencePart
  <2> QED BY <1>1, <2>1, <2>2, <2>3
          DEF IInv, StaticExecutor, BoundaryPart, Identity, ExecutionIdentity, BoundaryOf,
              NativeExecutor, ContainerExecutor
<1> QED BY <1>1, EngineInvariant, PTL

\* A patch that changes the policy never passes without a human.
THEOREM PolicyChangeTheorem == Spec => []PolicyChangeIsReviewed
<1>1. ASSUME IInv PROVE PolicyChangeIsReviewed
  <2> SUFFICES ASSUME outcome = "pass", PolicyChanged PROVE FALSE
    BY DEF PolicyChangeIsReviewed, PolicyChanged
  <2>1. outcome = OutcomeOf(findings) /\ <<"PL-POLICY-001", "review">> \in findings
    BY <1>1 DEF IInv, VerdictPart
  <2> QED BY <2>1 DEF OutcomeOf
<1> QED BY <1>1, EngineInvariant, PTL

\* Exit code 0 means a published verdict that does not fail.
THEOREM ExitTheorem == Spec => []ExitZeroIsPublished
<1>1. ASSUME IInv, exitCode = 0 PROVE ExitZeroIsPublished
  <2>1. published # NoRecord /\ outcome # "fail" /\ published.outcome = outcome
    BY <1>1 DEF IInv, PublishedPart
  <2>2. published.outcome \in {"pass", "needs_review", "fail"}
    BY <1>1, <2>1 DEF IInv, TypeOK, Verdicts
  <2>3. outcome = OutcomeOf(findings)
    BY <1>1, <2>1, <2>2 DEF IInv, VerdictPart
  <2>4. \A f \in findings : f[2] # "deny"
    <3>1. ASSUME NEW f \in findings, f[2] = "deny" PROVE FALSE
      <4>1. \E g \in findings : g[2] = "deny"
        BY <3>1
      <4>2. OutcomeOf(findings) = "fail"
        BY <4>1 DEF OutcomeOf
      <4> QED BY <2>1, <2>3, <4>2
    <3> QED BY <3>1
  <2>5. FailOnReview => outcome = "pass"
    BY <2>1, <2>3, <2>4 DEF OutcomeOf
  <2> QED BY <2>1, <2>2, <2>4, <2>5 DEF ExitZeroIsPublished
<1>2. IInv => ExitZeroIsPublished
  BY <1>1 DEF ExitZeroIsPublished
<1> QED BY <1>2, EngineInvariant, PTL

-----------------------------------------------------------------------------
(* A pass is earned                                                        *)

\* The command and phase that come before a position of the loop.
Before(position, i, phase) ==
  \/ i < position.index
  \/ i = position.index /\ phase = "base" /\ position.phase = "head"

HasResult(i, phase) == \E r \in results : r.index = i /\ r.phase = phase

AllRan == \A i \in DOMAIN policy.commands :
            \A phase \in PhasesOf(policy.commands[i]) : HasResult(i, phase)

\* Something was found that a pass cannot have.
Blocked == \E f \in findings : f[2] \in {"deny", "review"}

ResultsPart ==
  \A r \in results :
    r.passed <=> CommandPassed(policy.commands[r.index].expected, r.phase, r.exit, r.timedOut)

\* While commands run: the position is that of a command and phase to run, and
\* everything before it has a result.
LoopPart ==
  pc = "run" =>
    /\ at.index \in DOMAIN policy.commands
    /\ at.phase \in PhasesOf(policy.commands[at.index])
    /\ \A i \in DOMAIN policy.commands : \A phase \in PhasesOf(policy.commands[i]) :
         Before(at, i, phase) => HasResult(i, phase)

\* When findings are judged: a loop that was left early, or never entered, has
\* left a finding, and so has a pair of equal commits.
JudgedPart ==
  /\ pc \in {"analyse"} \cup Analysed \/ outcome # "none" => baseSha # headSha \/ Blocked
  /\ pc \in {"judge", "publish", "exit"} \/ outcome # "none" => AllRan \/ Blocked
  /\ outcome # "none" => Blocked \/ \A r \in results : r.passed

PassInv == ResultsPart /\ LoopPart /\ JudgedPart

\* What is known of the loaded policy's commands.
LEMMA CommandsTyped ==
  ASSUME EngineAssumption, IInv, pc \in Loaded
  PROVE  policy.commands \in Seq([runOn    : Phases \cup {"both"},
                                  expected : Expectations,
                                  required : BOOLEAN])
<1>1. policy \in Policies
  BY DEF IInv, TypeOK, PolicyPart
<1> QED BY <1>1 DEF EngineAssumption

\* NextAt moves to a command and phase of the policy and skips none on its way:
\* what is before the new position was before the old one or is the old one.
LEMMA NextAtSkipsNothing ==
  ASSUME policy.commands \in Seq([runOn    : Phases \cup {"both"},
                                  expected : Expectations,
                                  required : BOOLEAN]),
         at \in [index : Nat, phase : Phases],
         at.index \in DOMAIN policy.commands,
         at.phase \in PhasesOf(policy.commands[at.index])
  PROVE  \/ /\ NextAt = Finished
            /\ \A i \in DOMAIN policy.commands : \A phase \in PhasesOf(policy.commands[i]) :
                 Before(at, i, phase) \/ (i = at.index /\ phase = at.phase)
         \/ /\ NextAt # Finished
            /\ NextAt.index \in DOMAIN policy.commands
            /\ NextAt.phase \in PhasesOf(policy.commands[NextAt.index])
            /\ \A i \in DOMAIN policy.commands : \A phase \in PhasesOf(policy.commands[i]) :
                 Before(NextAt, i, phase) =>
                   Before(at, i, phase) \/ (i = at.index /\ phase = at.phase)
<1> DEFINE cmds == policy.commands
       Command == [runOn : Phases \cup {"both"}, expected : Expectations, required : BOOLEAN]
<1>0. cmds \in Seq(Command)
  OBVIOUS
<1> HIDE DEF cmds, Command
<1>1. /\ DOMAIN cmds = 1 .. Len(cmds) /\ Len(cmds) \in Nat
      /\ \A i \in DOMAIN cmds : cmds[i] \in Command
  BY <1>0
<1>2. \A i \in DOMAIN cmds : cmds[i].runOn \in {"base", "head", "both"}
  BY <1>1 DEF Command, Phases
<1>3. \A i \in DOMAIN cmds :
        PhasesOf(cmds[i]) = IF cmds[i].runOn = "both" THEN {"base", "head"}
                            ELSE {cmds[i].runOn}
  BY DEF PhasesOf, Phases
<1>4. CASE cmds[at.index].runOn = "both" /\ at.phase = "base"
  <2>1. NextAt = [index |-> at.index, phase |-> "head"]
    BY <1>4 DEF NextAt, cmds
  <2>2. NextAt.index = at.index /\ NextAt.phase = "head" /\ NextAt # Finished
    BY <1>1, <2>1 DEF Finished, cmds
  <2> QED BY <1>1, <1>3, <1>4, <2>2 DEF Before, cmds
<1>5. CASE /\ ~(cmds[at.index].runOn = "both" /\ at.phase = "base")
           /\ at.index < Len(cmds)
  <2>1. NextAt = [index |-> at.index + 1, phase |-> FirstPhase(cmds[at.index + 1])]
    BY <1>5 DEF NextAt, cmds
  <2>2. /\ NextAt.index = at.index + 1 /\ NextAt # Finished
        /\ NextAt.phase = FirstPhase(cmds[at.index + 1])
    BY <1>1, <2>1 DEF Finished, cmds
  <2>3. at.index + 1 \in DOMAIN cmds
    BY <1>1, <1>5
  <2>4. NextAt.phase \in PhasesOf(cmds[NextAt.index])
    BY <1>2, <1>3, <2>2, <2>3 DEF FirstPhase
  <2>5. ASSUME NEW i \in DOMAIN cmds, NEW phase \in PhasesOf(cmds[i]), Before(NextAt, i, phase)
        PROVE  Before(at, i, phase) \/ (i = at.index /\ phase = at.phase)
    <3>1. i <= at.index \/ (i = at.index + 1 /\ phase = "base" /\ NextAt.phase = "head")
      BY <1>1, <2>2, <2>5 DEF Before
    <3>2. ~(i = at.index + 1 /\ phase = "base" /\ NextAt.phase = "head")
      BY <1>2, <1>3, <2>2, <2>3, <2>5 DEF FirstPhase
    <3>3. CASE i < at.index
      BY <3>3 DEF Before
    <3>4. CASE i = at.index
      BY <1>2, <1>3, <1>5, <3>4, ZenonT(30) DEF Before, Phases, cmds
    <3> QED BY <1>1, <3>1, <3>2, <3>3, <3>4
  <2> QED BY <2>2, <2>3, <2>4, <2>5 DEF cmds
<1>6. CASE /\ ~(cmds[at.index].runOn = "both" /\ at.phase = "base")
           /\ ~(at.index < Len(cmds))
  <2>1. NextAt = Finished
    BY <1>6 DEF NextAt, cmds
  <2>2. ASSUME NEW i \in DOMAIN cmds, NEW phase \in PhasesOf(cmds[i])
        PROVE  Before(at, i, phase) \/ (i = at.index /\ phase = at.phase)
    <3>1. i < at.index \/ i = at.index
      BY <1>1, <1>6
    <3>2. CASE i = at.index
      BY <1>2, <1>3, <1>6, <2>2, <3>2, ZenonT(30) DEF Before, Phases, cmds
    <3> QED BY <3>1, <3>2 DEF Before
  <2> QED BY <2>1, <2>2 DEF cmds
<1> QED BY <1>4, <1>5, <1>6

\* What the loop and the judgement keep when nothing they speak of changes.
LEMMA PassInvFrame ==
  ASSUME PassInv, UNCHANGED <<policy, results, at, baseSha, headSha, findings, outcome>>,
         \/ pc' = pc
         \/ pc' = "exited"
         \/ pc' \in {"resolve-head", "load-policy"}
         \/ pc \in {"publish", "exit"} /\ pc' \in {"publish", "exit"}
  PROVE  PassInv'
<1>1. ResultsPart' /\ LoopPart'
  BY DEF PassInv, ResultsPart, LoopPart, HasResult, Before
<1>2. (AllRan' <=> AllRan) /\ (Blocked' <=> Blocked)
  BY DEF AllRan, HasResult, Blocked
<1>3. JudgedPart'
  BY <1>2 DEF PassInv, JudgedPart, Analysed
<1> QED BY <1>1, <1>3 DEF PassInv

\* Nothing has run, and the commits have not been compared.
LEMMA InitPassInv == ASSUME Init PROVE PassInv
BY DEF Init, PassInv, ResultsPart, LoopPart, JudgedPart, Analysed

\* The steps up to the selection run nothing.
LEMMA EarlyPassInv ==
  ASSUME EngineAssumption, IInv, PassInv,
         ResolveBase \/ ResolveHead \/ LoadPolicy \/ CheckWorktree \/ Analyse
  PROVE  PassInv'
<1>1. results' = {} /\ outcome' = "none"
  BY DEF IInv, EvidencePart, VerdictPart, Unselected, Unloaded, ResolveBase, ResolveHead,
         LoadPolicy, CheckWorktree, Analyse, runVars, endVars
<1>2. ResultsPart' /\ LoopPart'
  BY <1>1 DEF ResultsPart, LoopPart, ResolveBase, ResolveHead, LoadPolicy, CheckWorktree, Analyse
<1>3. CASE ResolveBase \/ ResolveHead \/ LoadPolicy
  BY <1>1, <1>2, <1>3 DEF PassInv, JudgedPart, Analysed, ResolveBase, ResolveHead, LoadPolicy
<1>4. CASE CheckWorktree
  <2>1. baseSha # headSha \/ <<"PL-GIT-001", "deny">> \in findings'
    BY <1>4 DEF CheckWorktree, FindingIf
  <2>2. (baseSha # headSha)' \/ Blocked'
    BY <1>4, <2>1 DEF CheckWorktree, Blocked, inputVars
  <2> QED BY <1>1, <1>2, <1>4, <2>2 DEF PassInv, JudgedPart, Analysed, CheckWorktree
<1>5. CASE Analyse
  <2>1. baseSha # headSha \/ Blocked
    BY <1>5 DEF PassInv, JudgedPart, Analyse
  <2>2. (baseSha # headSha)' \/ Blocked'
    BY <1>5, <2>1 DEF Analyse, Blocked, inputVars
  <2> QED BY <1>1, <1>2, <1>5, <2>2 DEF PassInv, JudgedPart, Analysed, Analyse
<1> QED BY <1>3, <1>4, <1>5

\* The selection enters the loop at the first command, or leaves a finding, or
\* there is no command to run.
LEMMA SelectPassInv ==
  ASSUME EngineAssumption, IInv, PassInv, Select
  PROVE  PassInv'
<1> DEFINE wanted == policy.commands # <<>>
           choice == IF wanted THEN SelectExecutor(execution, host) ELSE StaticExecutor
           dispatched == wanted /\ choice.mode \in {"native", "container"}
<1>1. /\ results = {} /\ results' = {} /\ outcome' = "none" /\ outcome = "none"
      /\ UNCHANGED <<policy, baseSha, headSha>>
      /\ pc = "select-executor" /\ pc' \in {"run", "judge"}
  BY DEF IInv, EvidencePart, VerdictPart, Unselected, Unloaded, Select, endVars, inputVars
<1>2. ResultsPart'
  BY <1>1 DEF ResultsPart
<1>3. baseSha # headSha \/ Blocked
  BY <1>1 DEF PassInv, JudgedPart, Analysed
<1>4. (baseSha # headSha)' \/ Blocked'
  BY <1>1, <1>3 DEF Blocked, Select
<1>5. policy.commands \in Seq([runOn    : Phases \cup {"both"},
                               expected : Expectations,
                               required : BOOLEAN])
  BY <1>1, CommandsTyped DEF Loaded
<1>6. choice.mode \in {"static", "unavailable", "native", "container"}
  <2>1. execution \in ExecutionConfigs /\ host \in Hosts
    <3>1. policy \in Policies
      BY <1>1 DEF IInv, TypeOK, PolicyPart, Loaded
    <3>2. policy.execution \in ExecutionConfigs /\ request.overrides \in Overrides
      BY <3>1 DEF IInv, TypeOK, EngineAssumption
    <3>3. execution \in ExecutionConfigs
      BY <1>1, <3>2, EffectiveInType DEF IInv, PolicyPart, Loaded
    <3> QED BY <3>3 DEF IInv, TypeOK
  <2> QED BY <2>1, Selection DEF StaticExecutor, Unavailable, NativeExecutor, ContainerExecutor
<1>7. CASE dispatched
  <2>1. pc' = "run" /\ at' = [index |-> 1, phase |-> FirstPhase(policy.commands[1])]
    BY <1>7 DEF Select
  <2>2. 1 \in DOMAIN policy.commands
    BY <1>5, <1>7
  <2>3. at'.index = 1 /\ at'.phase = FirstPhase(policy.commands[1])
    BY <2>1
  <2>4. policy.commands[1].runOn \in {"base", "head", "both"}
    <3> DEFINE Command == [runOn : Phases \cup {"both"}, expected : Expectations, required : BOOLEAN]
               cmds    == policy.commands
    <3>1. cmds \in Seq(Command) /\ 1 \in DOMAIN cmds
      BY <1>5, <2>2
    <3> HIDE DEF Command, cmds
    <3>2. cmds[1] \in Command
      BY <3>1
    <3> QED BY <3>2 DEF Command, cmds, Phases
  <2>5. at'.phase \in PhasesOf(policy.commands[1])
    BY <2>3, <2>4 DEF FirstPhase, PhasesOf, Phases
  <2>6. ASSUME NEW i \in DOMAIN policy.commands, NEW phase \in PhasesOf(policy.commands[i]),
               Before(at', i, phase)
        PROVE  FALSE
    <3>1. i \in Nat /\ i >= 1
      BY <1>5
    <3>2. i = 1 /\ phase = "base" /\ FirstPhase(policy.commands[1]) = "head"
      BY <2>3, <2>6, <3>1 DEF Before
    <3> QED BY <2>4, <2>6, <3>2 DEF FirstPhase, PhasesOf, Phases
  <2>7. LoopPart'
    BY <1>1, <2>2, <2>3, <2>5, <2>6 DEF LoopPart
  <2> QED BY <1>1, <1>2, <1>4, <2>1, <2>7 DEF PassInv, JudgedPart
<1>8. CASE ~dispatched /\ wanted
  <2>1. choice.mode = "static" \/ choice = Unavailable
    BY <1>6, <1>8 DEF SelectExecutor, StaticExecutor, NativeExecutor, Unavailable, ContainerExecutor
  <2>2. \/ <<"PL-EXEC-001", "deny">> \in findings'
        \/ <<"PL-EXEC-002", "review">> \in findings'
    BY <1>8, <2>1 DEF Select, FindingIf
  <2>3. Blocked' /\ pc' = "judge"
    BY <1>8, <2>2 DEF Blocked, Select
  <2> QED BY <1>1, <1>2, <2>3 DEF PassInv, JudgedPart, LoopPart
<1>9. CASE ~wanted
  <2>1. AllRan'
    BY <1>1, <1>9 DEF AllRan
  <2>2. pc' = "judge"
    BY <1>9 DEF Select
  <2> QED BY <1>1, <1>2, <1>4, <2>1, <2>2 DEF PassInv, JudgedPart, LoopPart
<1> QED BY <1>7, <1>8, <1>9

\* The command and phase that was next has its result now.
LEMMA RunCommandPassInv ==
  ASSUME EngineAssumption, IInv, PassInv, NEW exit \in ExitCodes, NEW timedOut \in BOOLEAN,
         RunCommand(exit, timedOut)
  PROVE  PassInv'
<1> DEFINE new == [index    |-> at.index,
                   phase    |-> at.phase,
                   commit   |-> SnapshotOf(at.phase),
                   mode     |-> executor.mode,
                   exit     |-> exit,
                   timedOut |-> timedOut,
                   passed   |-> CommandPassed(policy.commands[at.index].expected,
                                              at.phase, exit, timedOut)]
<1>1. /\ results' = results \cup {new} /\ at' = NextAt
      /\ pc = "run" /\ pc' = IF at' = Finished THEN "judge" ELSE "run"
      /\ UNCHANGED <<policy, baseSha, headSha, findings, outcome>>
  BY DEF RunCommand, inputVars, endVars
<1>2. /\ new.index = at.index /\ new.phase = at.phase /\ new.exit = exit
      /\ new.timedOut = timedOut
      /\ new.passed = CommandPassed(policy.commands[at.index].expected, at.phase, exit, timedOut)
  OBVIOUS
<1> HIDE DEF new
<1>3. ResultsPart'
  <2>1. ASSUME NEW r \in results'
        PROVE  r.passed <=> CommandPassed(policy.commands[r.index].expected, r.phase,
                                          r.exit, r.timedOut)
    <3>1. CASE r \in results
      BY <3>1 DEF PassInv, ResultsPart
    <3>2. CASE r = new
      BY <1>2, <3>2
    <3> QED BY <1>1, <3>1, <3>2
  <2> QED BY <1>1, <2>1 DEF ResultsPart
<1>4. /\ at.index \in DOMAIN policy.commands
      /\ at.phase \in PhasesOf(policy.commands[at.index])
      /\ \A i \in DOMAIN policy.commands : \A phase \in PhasesOf(policy.commands[i]) :
           Before(at, i, phase) => HasResult(i, phase)
  BY <1>1 DEF PassInv, LoopPart
<1>5. \A i \in DOMAIN policy.commands : \A phase \in PhasesOf(policy.commands[i]) :
        Before(at, i, phase) \/ (i = at.index /\ phase = at.phase) => HasResult(i, phase)'
  BY <1>1, <1>2, <1>4 DEF HasResult
<1>6. policy.commands \in Seq([runOn    : Phases \cup {"both"},
                               expected : Expectations,
                               required : BOOLEAN])
  BY <1>1, CommandsTyped DEF Loaded
<1>7. at \in [index : Nat, phase : Phases]
  BY DEF IInv, TypeOK
<1>8. outcome = "none" /\ (baseSha # headSha \/ Blocked)
  BY <1>1 DEF IInv, VerdictPart, PassInv, JudgedPart, Analysed
<1>9. (baseSha # headSha)' \/ Blocked'
  BY <1>1, <1>8 DEF Blocked
<1>10. CASE NextAt = Finished
  <2>1. \A i \in DOMAIN policy.commands : \A phase \in PhasesOf(policy.commands[i]) :
          Before(at, i, phase) \/ (i = at.index /\ phase = at.phase)
    BY <1>4, <1>6, <1>7, <1>10, NextAtSkipsNothing, Zenon
  <2>2. AllRan'
    BY <1>1, <1>5, <2>1 DEF AllRan
  <2> QED BY <1>1, <1>3, <1>8, <1>9, <1>10, <2>2 DEF PassInv, JudgedPart, LoopPart
<1>11. CASE NextAt # Finished
  <2>1. /\ NextAt.index \in DOMAIN policy.commands
        /\ NextAt.phase \in PhasesOf(policy.commands[NextAt.index])
        /\ \A i \in DOMAIN policy.commands : \A phase \in PhasesOf(policy.commands[i]) :
             Before(NextAt, i, phase) =>
               Before(at, i, phase) \/ (i = at.index /\ phase = at.phase)
    BY <1>4, <1>6, <1>7, <1>11, NextAtSkipsNothing, Zenon
  <2>2. LoopPart'
    BY <1>1, <1>5, <2>1 DEF LoopPart, Before
  <2> QED BY <1>1, <1>3, <1>8, <1>9, <1>11, <2>2 DEF PassInv, JudgedPart
<1> QED BY <1>10, <1>11

\* A boundary that is lost leaves its finding.
LEMMA BoundaryLostPassInv ==
  ASSUME IInv, PassInv, BoundaryLost
  PROVE  PassInv'
<1>1. /\ pc' = "judge" /\ outcome' = "none" /\ <<"PL-EXEC-001", "deny">> \in findings'
      /\ UNCHANGED <<results, policy>>
  BY DEF BoundaryLost, runVars, endVars, inputVars, IInv, VerdictPart
<1>2. Blocked'
  BY <1>1 DEF Blocked
<1> QED BY <1>1, <1>2 DEF PassInv, ResultsPart, LoopPart, JudgedPart

\* A command that failed is a finding when the outcome is computed.
LEMMA JudgePassInv ==
  ASSUME IInv, PassInv, Judge
  PROVE  PassInv'
<1>1. /\ pc = "judge" /\ pc' = "publish" /\ findings' = findings \cup CommandFindings
      /\ UNCHANGED <<results, policy, at, baseSha, headSha>>
  BY DEF Judge, inputVars, runVars
<1>2. Blocked => Blocked'
  BY <1>1 DEF Blocked
<1>3. AllRan' <=> AllRan
  BY <1>1 DEF AllRan, HasResult
<1>4. Blocked' \/ \A r \in results' : r.passed
  <2>1. ASSUME NEW r \in results, ~r.passed PROVE Blocked'
    <3>1. \/ <<"PL-CMD-001", "deny">> \in CommandFindings
          \/ <<"PL-CMD-002", "review">> \in CommandFindings
      BY <2>1 DEF CommandFindings
    <3> QED BY <1>1, <3>1 DEF Blocked
  <2> QED BY <1>1, <2>1
<1>5. ResultsPart' /\ LoopPart'
  BY <1>1 DEF PassInv, ResultsPart, LoopPart
<1>6. JudgedPart'
  BY <1>1, <1>2, <1>3, <1>4 DEF PassInv, JudgedPart, Analysed
<1> QED BY <1>5, <1>6 DEF PassInv

\* Every step keeps what a pass rests on.
LEMMA NextPassInv ==
  ASSUME EngineAssumption, IInv, PassInv, [Next]_vars
  PROVE  PassInv'
<1>1. CASE Environment \/ UNCHANGED vars
  <2>1. UNCHANGED engineVars
    BY <1>1 DEF Environment, MoveRef, EditWorktree, ChangeRuntime, Changes, vars
  <2> QED BY <2>1, PassInvFrame DEF engineVars, inputVars, runVars, endVars
<1>2. CASE ResolveBase \/ ResolveHead \/ LoadPolicy \/ CheckWorktree \/ Analyse
  BY <1>2, EarlyPassInv
<1>3. CASE StepFails \/ Publish \/ Exit
  BY <1>3, PassInvFrame DEF StepFails, Abort, Publish, Exit, inputVars, runVars, endVars
<1>4. ASSUME NEW ending \in Endings, RunCommand(ending[1], ending[2]) PROVE PassInv'
  <2>1. ending[1] \in ExitCodes /\ ending[2] \in BOOLEAN
    BY DEF EngineAssumption
  <2> QED BY <1>4, <2>1, RunCommandPassInv
<1> QED BY <1>1, <1>2, <1>3, <1>4, SelectPassInv, BoundaryLostPassInv, JudgePassInv
        DEF Next, Engine

\* What a pass rests on holds in every behaviour of the engine.
THEOREM PassInvariant == Spec => []PassInv
<1>1. Init => PassInv
  BY InitPassInv
<1>2. IInv /\ PassInv /\ [Next]_vars => PassInv'
  BY EngineAssumption, NextPassInv
<1> QED BY <1>1, <1>2, EngineInvariant, PTL DEF Spec

\* A pass is earned: the commits differ, their diff is reconciled, and every
\* phase of every command of the policy ended by itself with the exit its
\* expectation names, on its commit and in the selected boundary, which is not a
\* container with network access.
THEOREM PassTheorem == Spec => []PassIsEarned
<1>1. ASSUME IInv, PassInv PROVE PassIsEarned
  <2> SUFFICES ASSUME outcome = "pass"
               PROVE  /\ baseSha # headSha
                      /\ <<baseSha, headSha>> \in Reconciled
                      /\ executor.mode = "container" => ~executor.network
                      /\ \A i \in DOMAIN policy.commands :
                           \A phase \in PhasesOf(policy.commands[i]) :
                             \E r \in results :
                               /\ r.index = i
                               /\ r.commit = CommitOf(phase)
                               /\ r.mode = executor.mode
                               /\ ~r.timedOut
                               /\ r.exit = WantedExit(policy.commands[i].expected, phase)
    BY DEF PassIsEarned
  <2>1. ~Blocked
    <3>1. OutcomeOf(findings) = "pass"
      BY <1>1 DEF IInv, VerdictPart
    <3> QED BY <3>1 DEF OutcomeOf, Blocked
  <2>2. baseSha # headSha /\ AllRan /\ \A r \in results : r.passed
    BY <1>1, <2>1 DEF PassInv, JudgedPart
  <2>3. ASSUME NEW i \in DOMAIN policy.commands, NEW phase \in PhasesOf(policy.commands[i])
        PROVE  \E r \in results :
                 /\ r.index = i
                 /\ r.commit = CommitOf(phase)
                 /\ r.mode = executor.mode
                 /\ ~r.timedOut
                 /\ r.exit = WantedExit(policy.commands[i].expected, phase)
    <3>1. PICK r \in results : r.index = i /\ r.phase = phase
      BY <2>2 DEF AllRan, HasResult
    <3>2. CommandPassed(policy.commands[i].expected, phase, r.exit, r.timedOut)
      BY <1>1, <2>2, <3>1 DEF PassInv, ResultsPart
    <3>3. r.commit = CommitOf(phase) /\ r.mode = executor.mode
      BY <1>1, <3>1 DEF IInv, EvidencePart
    <3>4. ~r.timedOut /\ r.exit = WantedExit(policy.commands[i].expected, phase)
      BY <3>2 DEF CommandPassed, ExpectedPass, WantedExit
    <3> QED BY <3>1, <3>3, <3>4
  <2>4. <<baseSha, headSha>> \in Reconciled
    <3>1. <<baseSha, headSha>> \notin Reconciled => <<"PL-GIT-003", "deny">> \in findings
      BY <1>1 DEF IInv, VerdictPart
    <3> QED BY <2>1, <3>1 DEF Blocked
  <2>5. executor.mode = "container" => ~executor.network
    <3>1. executor.mode = "container" /\ executor.network =>
            <<"PL-EXEC-003", "review">> \in findings
      BY <1>1 DEF IInv, VerdictPart
    <3> QED BY <2>1, <3>1 DEF Blocked
  <2> QED BY <2>2, <2>3, <2>4, <2>5
<1> QED BY <1>1, EngineInvariant, PassInvariant, PTL

=============================================================================
