------------------------- MODULE VerificationEngine -------------------------
(***************************************************************************)
(* One verification (VerificationEngine.verify of engine.py and the exit   *)
(* code of cli.py) next to the people and jobs that keep using the same    *)
(* repository and machine: refs move, the working tree is edited and the   *)
(* container runtime comes and goes between any two steps of the engine.   *)
(*                                                                         *)
(* Commits are immutable.  ConfigAt[c] is the content of patchlab.toml in  *)
(* a commit, NoConfig when it has none.  What the rules of checks/ say of  *)
(* a pair of commits is a constant, as they read nothing but the two       *)
(* commits and the policy.                                                 *)
(***************************************************************************)
EXTENDS Integers, Sequences, ExecutionPolicy

CONSTANTS
  Commits,       \* commit ids
  Refs,          \* names a ref can have
  Policies,      \* raw configurations that parse as TOML
  Unreadable,    \* contents that are not UTF-8 or not TOML
  ConfigAt,      \* [Commits -> Contents]
  Reconciled,    \* pairs of commits whose parsed diff matches the changed files
  RuleFindings,  \* [pairs of commits -> dispositions the rules report]
  Requests,      \* the requests under study
  StartHosts,    \* the hosts under study
  Worktrees,     \* the working trees under study
  Endings,       \* how a command may end: <<exit code, whether it timed out>>
  MaxChanges,    \* bound: how often the environment changes something
  NoCommit, NoConfig, NoRecord

\* What there can be under the name of the configuration file.
Contents == Policies \cup Unreadable \cup {NoConfig}

\* What is published: the commits compared, the outcome and the boundary.
Verdicts == [base      : Commits,
             head      : Commits,
             outcome   : {"pass", "needs_review", "fail"},
             execution : ExecutionIdentities]

ASSUME EngineAssumption ==
  /\ NoCommit \notin Commits
  /\ NoConfig \notin Policies
  /\ NoRecord \notin Verdicts
  /\ ConfigAt \in [Commits -> Contents]
  /\ RuleFindings \in [Commits \X Commits -> SUBSET {"allow", "review", "deny"}]
  /\ \A p \in Policies :
       /\ p.execution \in ExecutionConfigs
       /\ p.commands \in Seq([runOn    : Phases \cup {"both"},
                              expected : Expectations,
                              required : BOOLEAN])
       /\ p.failOnReview \in BOOLEAN
       /\ p.requireClean \in BOOLEAN
  /\ Requests \subseteq [base         : Refs,
                         head         : Refs,
                         source       : {"base", "head", "working-tree"},
                         relative     : BOOLEAN,
                         failOnReview : {"unset", "on", "off"},
                         overrides    : Overrides]
  /\ StartHosts \subseteq Hosts
  /\ Worktrees \subseteq [config : Contents, clean : BOOLEAN]
  /\ Endings \subseteq ExitCodes \X BOOLEAN
  /\ MaxChanges \in Nat

VARIABLES
  \* The environment
  refs,      \* [Refs -> Commits \cup {NoCommit}]
  worktree,  \* the working tree: its configuration and whether it is clean
  host,      \* platform and container runtimes
  changes,   \* how often the environment changed something
  \* The engine
  request,   \* the VerificationRequest
  pc,        \* the next step of verify
  baseSha, headSha,
  policy,    \* the configuration that was loaded
  execution, \* the effective execution table
  findings,  \* set of <<rule, disposition>>
  executor,  \* the selected boundary
  at,        \* the command and phase to run next
  results,   \* the command results
  outcome,
  published, \* the report and passport identity on disk, or NoRecord
  exitCode   \* -1 while running

envVars    == <<refs, worktree, host, changes>>
inputVars  == <<request, baseSha, headSha, policy, execution>>
runVars    == <<executor, at, results>>
endVars    == <<outcome, published, exitCode>>
engineVars == <<inputVars, pc, findings, runVars, endVars>>
vars       == <<envVars, engineVars>>

Finished == [index |-> 0, phase |-> "head"]

ConfigAccepted(p) ==
  /\ ExecutionAccepted(p.execution)
  /\ \A i \in DOMAIN p.commands : CommandAccepted(p.commands[i])

CommitOf(phase) == IF phase = "base" THEN baseSha ELSE headSha

-----------------------------------------------------------------------------

Init ==
  /\ refs \in [Refs -> Commits]
  /\ worktree \in Worktrees
  /\ host \in StartHosts
  /\ changes = 0
  /\ request \in Requests
  /\ pc = "resolve-base"
  /\ baseSha = NoCommit
  /\ headSha = NoCommit
  /\ policy = NoConfig
  /\ execution = NoRecord
  /\ findings = {}
  /\ executor = StaticExecutor
  /\ at = Finished
  /\ results = {}
  /\ outcome = "none"
  /\ published = NoRecord
  /\ exitCode = -1

-----------------------------------------------------------------------------
(* The environment, as long as the verification runs                       *)

Changes ==
  /\ pc # "exited"
  /\ changes < MaxChanges
  /\ changes' = changes + 1
  /\ UNCHANGED engineVars

\* Somebody moves or deletes a ref.
MoveRef(r, c) ==
  /\ Changes
  /\ refs' = [refs EXCEPT ![r] = c]
  /\ UNCHANGED <<worktree, host>>

\* Somebody edits the working tree.
EditWorktree(tree) ==
  /\ Changes
  /\ worktree' = tree
  /\ UNCHANGED <<refs, host>>

\* A container runtime is installed, removed or broken.
ChangeRuntime(name, status) ==
  /\ Changes
  /\ host' = [host EXCEPT !.found[name] = status]
  /\ UNCHANGED <<refs, worktree>>

-----------------------------------------------------------------------------
(* The engine                                                              *)

\* An exception leaves verify; the command line prints it and returns 1.
Abort ==
  /\ pc' = "exited"
  /\ exitCode' = 1
  /\ UNCHANGED <<envVars, inputVars, findings, runVars, outcome, published>>

\* Git, the file system or a limit fails in one of the engine's steps.
StepFails == pc # "exited" /\ Abort

ResolveBase ==
  /\ pc = "resolve-base"
  /\ refs[request.base] # NoCommit
  /\ baseSha' = refs[request.base]
  /\ pc' = "resolve-head"
  /\ UNCHANGED <<envVars, request, headSha, policy, execution, findings,
                 runVars, endVars>>

ResolveHead ==
  /\ pc = "resolve-head"
  /\ refs[request.head] # NoCommit
  /\ headSha' = refs[request.head]
  /\ pc' = "load-policy"
  /\ UNCHANGED <<envVars, request, baseSha, policy, execution, findings,
                 runVars, endVars>>

\* The configuration the request points at.
SourceConfig ==
  IF request.source = "working-tree" THEN worktree.config
  ELSE IF ~request.relative THEN NoConfig
  ELSE ConfigAt[IF request.source = "base" THEN baseSha ELSE headSha]

LoadPolicy ==
  /\ pc = "load-policy"
  /\ SourceConfig \in Policies
  /\ ConfigAccepted(SourceConfig)
  /\ OverridesAccepted(request.overrides)
  /\ policy' = SourceConfig
  /\ execution' = EffectiveExecution(policy'.execution, request.overrides)
  /\ pc' = "check-worktree"
  /\ UNCHANGED <<envVars, request, baseSha, headSha, findings, runVars, endVars>>

\* One finding when the condition holds.
FindingIf(condition, rule, disposition) ==
  {f \in {<<rule, disposition>>} : condition}

CheckWorktree ==
  /\ pc = "check-worktree"
  /\ findings' =
       FindingIf(baseSha = headSha, "PL-GIT-001", "deny") \cup
       FindingIf(policy.requireClean /\ ~worktree.clean, "PL-GIT-002", "deny")
  /\ pc' = "analyse"
  /\ UNCHANGED <<envVars, inputVars, runVars, endVars>>

\* Mutant: the loaded policy, which may be the head's own, is compared.
LoadedPolicyChanged == request.relative /\ policy # ConfigAt[headSha]

\* The policy file differs between the two commits.
PolicyChanged == request.relative /\ ConfigAt[baseSha] # ConfigAt[headSha]

\* Changed files, diff, policy comparison and the static rules.
Analyse ==
  /\ pc = "analyse"
  /\ LET pair == <<baseSha, headSha>>
     IN  findings' = findings
           \cup FindingIf(pair \notin Reconciled, "PL-GIT-003", "deny")
           \cup FindingIf(PolicyChanged, "PL-POLICY-001", "review")
           \cup {<<"PL-RULE", d>> : d \in RuleFindings[pair]}
  /\ pc' = "select-executor"
  /\ UNCHANGED <<envVars, inputVars, runVars, endVars>>

Select ==
  /\ pc = "select-executor"
  /\ LET wanted     == policy.commands # <<>>
         choice     == IF wanted THEN SelectExecutor(execution, host)
                       ELSE StaticExecutor
         dispatched == wanted /\ choice.mode \in {"native", "container"}
     IN  /\ executor' = IF choice = Unavailable THEN StaticExecutor ELSE choice
         /\ findings' = findings
              \cup FindingIf(choice = Unavailable, "PL-EXEC-001", "deny")
              \cup FindingIf(wanted /\ choice.mode = "static", "PL-EXEC-002", "review")
              \cup FindingIf(choice.mode = "container" /\ choice.network,
                             "PL-EXEC-003", "review")
         /\ at' = IF dispatched
                  THEN [index |-> 1, phase |-> FirstPhase(policy.commands[1])]
                  ELSE Finished
         /\ pc' = IF dispatched THEN "run" ELSE "judge"
  /\ UNCHANGED <<envVars, inputVars, results, endVars>>

\* Mutant: the two phases of a command follow each other for ever.
EndlessAt ==
  IF policy.commands[at.index].runOn = "both"
  THEN [at EXCEPT !.phase = IF @ = "base" THEN "head" ELSE "base"]
  ELSE IF at.index < Len(policy.commands)
  THEN [index |-> at.index + 1, phase |-> FirstPhase(policy.commands[at.index + 1])]
  ELSE Finished

\* The phase after this one: head follows base, then comes the next command.
NextAt ==
  IF policy.commands[at.index].runOn = "both" /\ at.phase = "base"
  THEN [at EXCEPT !.phase = "head"]
  ELSE IF at.index < Len(policy.commands)
  THEN [index |-> at.index + 1, phase |-> FirstPhase(policy.commands[at.index + 1])]
  ELSE Finished

\* The runtime found by Select is looked at again before each command.
RuntimeUsable ==
  executor.mode = "container" => host.found[executor.runtime] = "usable"

\* Mutant: the ref is resolved again when the snapshot is taken.
SnapshotOfRef(phase) ==
  LET now == refs[IF phase = "base" THEN request.base ELSE request.head]
  IN  IF now = NoCommit THEN CommitOf(phase) ELSE now

\* The snapshot a command runs in is the one of the commit resolved at the start.
SnapshotOf(phase) == CommitOf(phase)

RunCommand(exit, timedOut) ==
  /\ pc = "run"
  /\ RuntimeUsable
  /\ LET command == policy.commands[at.index]
     IN  results' = results \cup
           {[index    |-> at.index,
             phase    |-> at.phase,
             commit   |-> SnapshotOf(at.phase),
             mode     |-> executor.mode,
             exit     |-> exit,
             timedOut |-> timedOut,
             passed   |-> CommandPassed(command.expected, at.phase, exit, timedOut)]}
  /\ at' = NextAt
  /\ pc' = IF at' = Finished THEN "judge" ELSE "run"
  /\ UNCHANGED <<envVars, inputVars, findings, executor, endVars>>

\* Mutant: the selection is cleared, as if nothing had run.
BoundaryForgotten ==
  /\ pc = "run"
  /\ executor.mode = "container"
  /\ findings' = findings \cup {<<"PL-EXEC-001", "deny">>}
  /\ executor' = StaticExecutor
  /\ pc' = "judge"
  /\ UNCHANGED <<envVars, inputVars, at, results, endVars>>

\* Mutant: the rest is skipped without a finding.
BoundaryLostSilently ==
  /\ pc = "run"
  /\ executor.mode = "container"
  /\ pc' = "judge"
  /\ UNCHANGED <<envVars, inputVars, findings, runVars, endVars>>

\* The boundary is gone or the snapshot cannot be mounted: what has run so far
\* is kept, the rest does not run.
BoundaryLost ==
  /\ pc = "run"
  /\ executor.mode = "container"
  /\ findings' = findings \cup {<<"PL-EXEC-001", "deny">>}
  /\ pc' = "judge"
  /\ UNCHANGED <<envVars, inputVars, runVars, endVars>>

FailOnReview == Switched(request.failOnReview, policy.failOnReview)

\* Mutant: the switch that turns reviews into failures is not looked at.
LenientOutcomeOf(all) ==
  IF \E f \in all : f[2] = "deny" THEN "fail"
  ELSE IF \E f \in all : f[2] = "review" THEN "needs_review"
  ELSE "pass"

OutcomeOf(all) ==
  IF \E f \in all : f[2] = "deny" THEN "fail"
  ELSE IF \E f \in all : f[2] = "review"
  THEN IF FailOnReview THEN "fail" ELSE "needs_review"
  ELSE "pass"

\* A command that did not meet its expectation becomes a finding.
CommandFindings ==
  {<<"PL-CMD-001", "deny">> : r \in
     {r \in results : ~r.passed /\ policy.commands[r.index].required}} \cup
  {<<"PL-CMD-002", "review">> : r \in
     {r \in results : ~r.passed /\ ~policy.commands[r.index].required}}

Judge ==
  /\ pc = "judge"
  /\ findings' = findings \cup CommandFindings
  /\ outcome' = OutcomeOf(findings')
  /\ pc' = "publish"
  /\ UNCHANGED <<envVars, inputVars, runVars, published, exitCode>>

Identity == ExecutionIdentity(executor, execution)

\* Reports, then the bundle, whose identity is validated before it is built.
Publish ==
  /\ pc = "publish"
  /\ ValidExecutionIdentity(Identity)
  /\ published' = [base      |-> baseSha,
                   head      |-> headSha,
                   outcome   |-> outcome,
                   execution |-> Identity]
  /\ pc' = "exit"
  /\ UNCHANGED <<envVars, inputVars, findings, runVars, outcome, exitCode>>

Exit ==
  /\ pc = "exit"
  /\ exitCode' = IF outcome = "fail" THEN 1 ELSE 0
  /\ pc' = "exited"
  /\ UNCHANGED <<envVars, inputVars, findings, runVars, outcome, published>>

-----------------------------------------------------------------------------

Environment ==
  \/ \E r \in Refs, c \in Commits \cup {NoCommit} : MoveRef(r, c)
  \/ \E tree \in Worktrees : EditWorktree(tree)
  \/ \E name \in Runtimes, status \in {"absent", "unusable", "usable"} :
       ChangeRuntime(name, status)

Engine ==
  \/ ResolveBase \/ ResolveHead \/ LoadPolicy \/ CheckWorktree \/ Analyse
  \/ Select \/ BoundaryLost \/ Judge \/ Publish \/ Exit \/ StepFails
  \/ \E ending \in Endings : RunCommand(ending[1], ending[2])

Next == Environment \/ Engine

\* The engine's process is scheduled; nothing obliges anybody to change anything.
Spec == Init /\ [][Next]_vars /\ WF_vars(Engine)

-----------------------------------------------------------------------------
(* Properties                                                              *)

\* Every variable holds a value the program can store.
TypeOK ==
  /\ refs \in [Refs -> Commits \cup {NoCommit}]
  /\ worktree \in Worktrees
  /\ host \in Hosts
  /\ changes \in 0..MaxChanges
  /\ request \in Requests
  /\ pc \in {"resolve-base", "resolve-head", "load-policy", "check-worktree",
             "analyse", "select-executor", "run", "judge", "publish", "exit",
             "exited"}
  /\ baseSha \in Commits \cup {NoCommit}
  /\ headSha \in Commits \cup {NoCommit}
  /\ policy \in Policies \cup {NoConfig}
  /\ execution \in ExecutionConfigs \cup {NoRecord}
  /\ \A f \in findings : f[2] \in {"allow", "review", "deny"}
  /\ executor.mode \in {"static", "native", "container"}
  /\ at \in [index : Nat, phase : Phases]
  /\ \A r \in results : r.commit \in Commits /\ r.exit \in ExitCodes
  /\ outcome \in {"none", "pass", "needs_review", "fail"}
  /\ published \in Verdicts \cup {NoRecord}
  /\ exitCode \in {-1, 0, 1}

\* The exit a command must have on a commit for its promise to be kept.
WantedExit(expected, phase) ==
  IF expected = "nonzero" \/ (expected = "base_nonzero_head_zero" /\ phase = "base")
  THEN "nonzero" ELSE "zero"

\* An outcome of "pass" is earned by execution: the two commits differ, the
\* diff the rules judged matches Git's own list of changes, and every configured
\* command ended by itself, with the exit its expectation names, on the very
\* commit of each of its phases, all of them in the selected boundary, which is
\* not a container with network access. In particular a reproduction command
\* failed on the base commit and passed on the head.
PassIsEarned ==
  outcome = "pass" =>
    /\ baseSha # headSha
    /\ <<baseSha, headSha>> \in Reconciled
    /\ executor.mode = "container" => ~executor.network
    /\ \A i \in DOMAIN policy.commands : \A phase \in PhasesOf(policy.commands[i]) :
         \E r \in results :
           /\ r.index = i
           /\ r.commit = CommitOf(phase)
           /\ r.mode = executor.mode
           /\ ~r.timedOut
           /\ r.exit = WantedExit(policy.commands[i].expected, phase)

\* A patch that changes the policy file at the configured path never passes
\* without a human: PL-POLICY-001 keeps it at "needs_review" or "fail".
PolicyChangeIsReviewed ==
  outcome = "pass" /\ request.relative => ConfigAt[baseSha] = ConfigAt[headSha]

\* Project code runs natively only with consent from the trusted side: the
\* switch is on in the request, or left alone there and on in the policy that
\* was loaded, which is the base commit's when the request says so.  A request
\* or policy that names the container mode never ends in native execution.
NativeNeedsConsent ==
  (\E r \in results : r.mode = "native") =>
    LET trusted == IF request.source = "base" THEN ConfigAt[baseSha] ELSE policy
        wanted  == Overridden(request.overrides.mode, trusted.execution.mode)
    IN  /\ wanted \in {"auto", "native"}
        /\ \/ request.overrides.allowNative = "on"
           \/ /\ request.overrides.allowNative = "unset"
              /\ trusted.execution.allowNative

\* All evidence of a published verdict comes from the pair of commits the
\* verdict names, however often the refs moved meanwhile.
EvidenceFromOnePair ==
  published # NoRecord =>
    \A r \in results :
      r.commit = IF r.phase = "base" THEN published.base ELSE published.head

\* A verdict that was reached can be published: whatever policy, overrides and
\* host led to the boundary, the identity rules of the passport accept it.
IdentityIsAcceptable == pc = "publish" => ValidExecutionIdentity(Identity)

\* The boundary the passport names is the one the evidence was gathered in.
BoundaryIsTruthful ==
  published # NoRecord =>
    \A r \in results :
      published.execution.boundary =
        IF r.mode = "container" THEN "isolated-container" ELSE "weak-native"

\* Exit code 0 is given only for a published verdict that does not fail, and
\* for a clean pass when reviews are to fail.
ExitZeroIsPublished ==
  exitCode = 0 =>
    /\ published # NoRecord
    /\ published.outcome \in IF FailOnReview THEN {"pass"} ELSE {"pass", "needs_review"}
    /\ \A f \in findings : f[2] # "deny"

\* A verification whose engine is scheduled and whose commands return ends
\* with an exit code.
AnswerArrives == <>(exitCode \in {0, 1})

=============================================================================
