# A verification project for PatchLab Commons

PatchLab Commons compares two commits of a repository, runs the policy's rules and, when the
policy allows it, its commands on both, and publishes the result as a *Patch Passport*: reports,
a manifest with their digests, an archive of the four files and the archive's digest. This
directory holds TLA+ modules translated from the Python source, the TLC configurations that check
them on small instances, and TLAPS proofs for every value of the constants.

Paths below are relative to the repository; `pl/` stands for `src/patchlab_commons/`.

## Inventory

| Part | State it keeps | Operations | Talks to | Hard behaviour | Correct when |
|---|---|---|---|---|---|
| Engine (`pl/engine.py`, exit code in `pl/cli.py`) | resolved commits, policy, effective execution, findings, results, outcome | `verify`, `_run_commands`, `_load_config`, `_outcome` | git, policy, executor, runner, evidence store | refs, working tree and runtimes change between its steps; any step may fail | outcome, boundary, exit code and evidence agree and come from one pair of commits |
| Execution policy (`pl/config.py`, `pl/engine.py`, `pl/runner.py`, `pl/passport.py`) | none (pure) | validate, override, `select_executor`, `_expected_pass`, `_valid_execution_identity` | called by the engine | product of policy, request and host | native code only with consent; every outcome has a valid identity |
| Container runs (`pl/runner.py`) | client process, container, cleanup error | `_run_container_command`, `_remove_container`, `_terminate_process_tree` | runtime client, daemon | late requests, refused removal, timeouts, interrupts | a known exit code means no project code is left |
| Native runs (`pl/runner.py`) | process group, pipes | `_run_native_command`, the sweep, pipe closing | the command and its descendants | forks between signals, ignored signals, sessions, held pipes | nothing of the group survives; the call returns |
| Output capture (`pl/runner.py`) | head, tail, total | `feed`, `render` | a reader thread and the coordinator | render while the thread still reads | the report accounts for every byte read |
| Evidence store (`pl/safeio.py`, `pl/reporting.py`, `pl/passport.py`) | six files and temporary files | write, replace, read back, pack, digest | engine, verifier, other runs | crash between steps, two runs in one directory, sizes at the limits | complete old or complete new bundle; own evidence |
| Passport verifier (`pl/passport.py`) | none | `verify_passport_bundle` | action, `verify-passport` | malformed, oversized, mixed archives | an accepted bundle is consistent |
| Action entry point (`scripts/action_entry.py`) | none | check the bundle, emit outputs | engine, verifier | bundle replaced between checks | the emitted digest is that of a verified bundle |
| Git access (`pl/gitutils.py`) | buffers, process | `_run_git_bounded`, metadata checks, blob reads | git | limits that kill the process, timeouts, truncation | output that was cut at a limit, by a kill or at the timeout is never taken for whole |
| Snapshots (`pl/gitutils.py`, use in `pl/runner.py`) | a directory tree | `snapshot`, `_parse_tree_entries`, the writers of files, links and directories | git, engine, commands | names that collide on some hosts, links, short reads, umask, commands that write | exactly the commit's tree, readable by the container, or none |
| Diff (`pl/diffparse.py`) | none | parse, align | checks | lines that look like headers | every added and removed line, at its number |
| Checks (`pl/checks/`) | none | six rule sets, look-up of a workflow step, de-duplication | engine, parser, git | numbers computed elsewhere, lines the parser misreads | exactly the lines and files the rules speak of |
| Rendering, schemas, doctor, init, demos, release scripts | files | single-shot | - | - | not behaviour of a verification |

## Modules

| Module | Models | Correspondence |
|---|---|---|
| `ExecutionPolicy` | the pure decision which boundary runs the commands | one operator per guard, override, selection and identity rule; image text is reduced to none, pinned, mutable |
| `VerificationEngine` | one `verify` call, the CLI exit code and the environment | `pc` names the next statement of `verify`; each action is one call that reads shared state (resolve, load, clean check, analysis, selection, one command, judgement, publication, exit); `StepFails` is an exception at that point |
| `CommandBoundary` | what `run_command` promises its caller (abstract) | project code running or not, and the verdict |
| `ContainerRun` | `_run_container_command` with client and daemon | `pc` is the position in the function; `remove`, `look` and their `-again` twins are `rm` and `ps` of the two `_remove_container` calls; client and daemon are external actions |
| `NativeRun` | `_run_native_command` with the command's processes | `place`, `signal`, `holds` are the processes' group, strongest signal and open pipe; coordinator actions are `wait`, `killpg` and the sweep |
| `BoundedCapture` | `_BoundedCapture`, reader thread, render | a byte is its offset in the stream, so loss, order and duplication are visible |
| `GitBounded` | `_run_git_bounded`, its reader threads, and what its callers make of the answer: `_run` and `_run_bytes` with `check`, the three that look at the exit code otherwise or not at all, and the two reads of blobs | `reader` is the position of each thread (about to read, in `read`, in `feed`, about to kill), `stored` and `exceeded` the limited buffers; a stream is an amount, as one reader keeps its order |
| `DiffLines` | `parse_unified_diff`, the comparison of file counts, `align_file_diffs` | one action per branch of the parser's loop; a line is the prefix the parser tests and what it takes from it; what Git prints for a patch is external |
| `PolicyChecks` | `run_checks` on what `DiffLines` hands over | one operator per check; a regular expression is the set of texts it matches, a path the kinds it has, a finding its rule, file, line and what tells it from others of its rule |
| `Snapshot` | `GitRepo.snapshot` from the listing of the tree to the removal of the directory, and the commands in between | `todo` holds the positions of the two loops over files and links that are still to come (`Turn` is their order), `fs` the directory by the names the host keeps apart; `Write` is a read of an object and the writer's checks; names are sequences with a constant that says which fold together and which are portable |
| `EvidenceRegister` | what the evidence directory promises a reader (abstract) | which run's bundle is in place, or a mixture when runs may overlap |
| `EvidenceStore` | the write, read-back, pack, digest, verify and confirm steps of runs | `Steps` is the order of the code; a report is the run that wrote it, with its size, a digest is the digested content; `schedule` says which runs there are and whether two may overlap |
| `MC...` | constants for TLC | |
| `..._proofs` | theorems and their proofs | |

`VerificationEngine` extends `ExecutionPolicy`, and so do the two runners, which share
`CommandPassed`. The engine sees a command as one step with an exit code, a timeout or a lost
boundary. The two runners justify this: both implement `CommandBoundary`, by which a known exit
code is given only when no project code runs and none runs after it, so the engine may go on with
the next command. The engine's analysis takes the diff as one step that is reconciled or not:
`DiffLines` shows what that step reads, `PolicyChecks`, which extends it, what is reported on it
(the engine's constant `RuleFindings`), and `GitBounded` what every git call may return: all that
git wrote, or an error. Three exceptions are in the code and in the model. A call that wants a
prefix of a blob gets exactly that. `repository_display` asks with `check=False` and takes what a
git that failed by itself had written before. And a reader of standard output that is still at work
after five seconds is let go without a word; only a blob is compared with its size then, and
`Snapshot` starts from there: a blob is whole, or its read fails. A snapshot is a step of
the engine that works or fails; `Snapshot` shows what the commands find in it.
Publication is one step in the engine; `EvidenceStore` shows the steps below it
and implements `EvidenceRegister`, in which publication is one step indeed.

## Runs

All runs are exhaustive. Those that stop have deadlock checking off, as programs end.

* `bounded_capture`: limits 0 to 6 (zero, odd, even, below and above the split) against a stream
  of 7 bytes read in chunks of up to 4, with a render between any two feeds. Chunks cross the end
  of the head, the limit is met exactly and exceeded. Larger numbers add no new relation between
  head limit, tail limit and chunk; the proofs cover them.
* `engine`: four commits (two with the same policy at the configured path, one with another, one
  with a file that is no TOML), two refs that may point anywhere, four policies (contained, weak,
  without commands, rejected by the parser), ten requests that between them use each source, each tri-state override and an
  absolute path, four hosts and one environment change at any point. One change is enough to come
  between any two reads of the same datum, and the properties relate two reads. Commands end with
  exit zero, nonzero, none known or a timeout; the boundary may be lost before each.
  A pass is checked to be of two commits whose diff was reconciled, in a boundary without network
  or native by consent, with every command and phase run to its exit.
* `container_run`: one container, one client with at most one request under way, one interrupt
  at any point, every expectation and phase. Two removals and two looks are all the code has.
  `NothingIsAskedAfterRemoval` is about the client that ignores SIGTERM: without SIGKILL and the
  wait for its end it could ask for the container when the last removal has already looked.
* `native_run`: the command and two descendants; a process forked by a process forked between
  signals needs three in all. They fork, escape, close their output and end whenever they can run.
* `evidence`: either runs one after the other, each failing or crashing at any of its 16 steps
  (leftovers of two runs before the one that completes), or two that overlap at any step. Sizes
  of reports are below, at and above the limits; three reports at theirs leave no room for the
  manifest, so this bundle is created and then refused by the verifier. A digest that is emitted
  belongs to a bundle the run verified; this does not hold for three runs at once, as a third may
  put the digest's bundle back after another one was verified (see Proofs).
* `git_bounded`: up to three units of output and one of errors, chunks and pipes of two, the
  general limit inside a chunk, blobs of every size below, at and above their limit and what git
  really writes; git fails, hangs, ignores SIGTERM or has a helper at any point, and an interrupt
  may come anywhere. A third chunk adds no new relation between chunk, pipe and limit.
* `diff_lines`: one modified change with up to two edits of every mark and class of text in its
  first hunk and a second hunk after it, pairs of an added, deleted or renamed change with usual
  or unusual path and a modified one, binary changes, every kind of text in files of every kind,
  and workflows with two steps of which one or two lines are new and one was taken away, in diffs
  with no context, with one line and with all: one hunk or several, from any line on, and settings
  of a step that no hunk shows. What a line does to the
  parser's state shows in the next line, hunk or file; what it does to a checkout shows in its
  step or the next one. The limits of the policy lie on both sides of the counts.
* `snapshot`: trees of up to two entries of every kind (file, executable, link inside, outside,
  back and out again, absolute, to a device name, empty or without target, submodule, unportable
  name) and some of three and four, around each limit, on hosts that fold case or do not, with
  every umask for others and two commands after each other in either boundary. Two entries suffice
  for a collision; the others show that order and limits do not hide it.
* `container_ran`, `native_bounded`, `evidence_agree`, `diff_counts` refute one claim of the
  documents each:

| Run | The document says | The run shows |
|---|---|---|
| `container_ran` | `docs/PATCH_PASSPORT_SPEC.md`: isolated-container means the command ran in the container | the client's own failure (exit 125) satisfies a nonzero expectation, with nothing run |
| `native_bounded` | `docs/THREAT_MODEL.md`: time remains bounded | after timeout and sweep, `stream.close()` waits for a read that an escaped process keeps open |
| `evidence_agree` | `docs/PATCH_PASSPORT_SPEC.md`: a verifier confirms that report and passport identities agree | it compares digests only; two runs in one directory give an accepted mixed bundle |
| `diff_counts` | `README.md`: the rules cover mismatches between Git metadata and parsed diff evidence (`docs/RULES.md` narrows PL-GIT-003 to the numbers of files) | only files are counted; an added line that begins with `++ ` is taken for a path and reaches no check |

Bounds: `MaxChanges` (environment changes), `Kids` (forks), `Runs`, `StreamLen`, `ReadSize` and
`Limits`, `MaxOutput` and `MaxError` (what git writes), `MaxCommands` (in one snapshot), and the
patches and trees of `MCDiffLines`, `MCPolicyChecks` and `MCSnapshot`. Nothing else is bounded.

Three more places where the code does less, or other, than a reader may expect are in the modules;
no run is devoted to them:

* `docs/ARCHITECTURE.md` says a verification "creates and verifies the Patch Passport".
  `VerificationEngine.verify` only creates it; `verify_passport_bundle` is called by the action
  and by the `verify-passport` command.
* `create_passport_bundle` holds the three reports against the total limit, the verifier holds the
  four members against it (`Overfull` in `EvidenceStore`).
* `_parse_tree_entries` compares whole paths: `a/x` and `A/y` pass, and so do a file `A` and a
  directory `a`. Which of these trees is accepted depends on the host (last part of `Clean` in
  `Snapshot`): with folding the first gives one directory, the second is refused while it is
  written. No entry is lost or overwritten on either host, which is what `SnapshotIsTree` says.

## Fairness

* `VerificationEngine`: weak fairness of the engine's steps. It is one thread; commands return by
  the runners' `CommandReturns`, git by its own timeout. Nothing is assumed of the environment.
* `ContainerRun`, `NativeRun`: weak fairness of the coordinator, whose waits all have timeouts,
  and the end of processes that got SIGKILL. Project code, the daemon and a client that was not
  killed may do nothing for ever. `CommandReturns` of `NativeRun` excepts the one wait without a
  timeout, the closing of a pipe that an escaped process holds; `native_bounded` shows it is real.
* `GitBounded`: weak fairness of the caller, whose waits and joins have timeouts, of each reader
  thread, and the end of killed processes. The readers are daemon threads: after an interrupt they
  go on only as long as the interpreter lives, so `LimitStopsGit` holds of an interrupted call
  whose process does not exit before the reader's next step. git itself and its helper may hang for ever. A helper
  that outlives git and keeps its standard error open is the one exception to `CallReturns`.
* The other modules state safety only.

## Assumptions about what is not in the repository

A killed process runs no more code and ends; a signal to a group reaches all its members at once;
a session leader stays in its group; a process group id is not reused while a sweep is under way;
no process of the command changes its user (a killpg that is refused for this reason would be
reported as a launch error). The daemon starts only what exists and `rm -f`, when it works,
removes a container in any state. git exits with zero only when it has written all it had to say
and its helper is done; its NUL-delimited list of changes is right and in the order of the diff. What
a diff shows of a file after the change it shows under the file's own numbers, in any number of
hunks, and two changes to one path have one file after them (`HeadAssumption`; the file itself is
the field `head` of a change, of which a diff may show as little as it likes). The lists within a
step are indented deeper than its checkout, because no key of a workflow's step has a list for its
value and the text under `with` or `run` is indented (`WorkflowAssumption`). A runtime without a daemon has fewer
behaviours: requests are not served after the client's end. `os.replace` is atomic, and temporary
names are unique.

## Proofs

`BoundedCapture_proofs`: from `CaptureAssumption` alone. `WindowExact` is inductive once the
types are known: both buffers are windows of the stream, and windows are closed under
concatenation of neighbours, sub-sequence and dropping a prefix (lemmas `WindowConcat`,
`WindowSubSeq`, `WindowKeepLast`). `FeedWindows` is the one step that needs them. The bounds of
the buffers and the honesty of a render follow from the windows.

`VerificationEngine_proofs`: from `EngineAssumption`. None of the properties is inductive, as each
relates what is published to what was decided many steps before. `IInv` carries, step by step,
what `verify` has established: the commits are fixed from their resolution on (`CommitsPart`), the
policy is the accepted one of its source and `execution` its effective table (`PolicyPart`), the
executor is what the selection gives for that table (`BoundaryPart`), every result has the
executor's mode and the commit of its phase (`EvidencePart`), the outcome is computed from the
findings, among them the policy change, the diff that was not reconciled and the container with
network (`VerdictPart`), and the record repeats these
(`PublishedPart`). There is one lemma per action. `Selection` and `IdentityIsValid` are the facts
about the pure decision on which consent, identity and truthful boundary rest; the environment's
steps disturb nothing `IInv` speaks of but the host's and the refs' types.

`PassIsEarned` is the property of the engine that speaks of a loop. `PassInv` is its loop
invariant: what `_run_commands` has passed has a result (`LoopPart`), a result's `passed` is what
its exit and expectation say (`ResultsPart`), and a loop that was left early or never entered,
like a pair of equal commits, has left a finding that a pass cannot have (`JudgedPart`). That a
pass has a reconciled diff and no container with network is in `VerdictPart`.

`ContainerRun_proofs`: no assumption at all. A known exit is quiet because the last look at the
daemon comes after the client has ended (`ReapedPart`): nobody is left who could ask for a start.
"No container runs" alone is not inductive. `Quiet` says what is: no client, and either no
container or one that was created with no start request under way, since a create request may be
served after the look. Interrupts and failed looks are the disjuncts of `VerifiedPart`.
`AskedTheorem`, that the client asks for nothing once the last removal has begun, is an action
property and follows from `ReapedPart` step by step.

`NativeRun_proofs`: from `NativeAssumption`, for every number of descendants. SIGKILL reaches the
group as it is, a fork needs a parent that still runs code in the group (`NoNewSurvivor`), so an
empty group stays empty (`SweptPart`); a second interrupt in the sweep is the exception, and then
no answer is given. Both modules prove that each step of a runner is a step of `CommandBoundary`
or leaves it unchanged (`BoundaryRefined`), which is what the engine's model takes for granted.

`GitBounded_proofs`: from `GitAssumption`, for all limits, chunks and pipes. `AmountsPart` balances
each stream below its limit: written is stored, in hand or in the pipe. `ReaderPart` says how a
reader came to its end and what the caller knows of one it has joined; a signal to git means that
its time was over or a limit passed (`ProcessPart`), so neither has happened to a git whose output
is taken. A first version was
not inductive: it lacked that a reader about to kill has exceeded its limit, without which a
stream cut at a limit and a whole one look the same after the kill.

`EvidenceStore_proofs`: from `StoreAssumption`, for any number of runs, sizes and limits. `Own` lists
what a run that works alone has done after each of the 16 steps; it needs `TurnsPart` (runs that
do not overlap take turns) and `WholePart` (nothing torn is in place or was read). Own evidence
and the refinement of `EvidenceRegister` follow, the latter for runs that overlap as well.
`EmittedIsVerified` is proved for at most two overlapping runs (`AtMostTwo`, a hypothesis of the
theorem). The attempt without it failed for a reason: runs 1 and 3 pack the same members X; 1
installs X and digests it, 2 installs Y, 1 verifies Y, 3 installs X, and 1 confirms its digest and
emits X, which was never verified in run 1. In the action the runs of one directory follow each
other; two at once are already a misuse.

`Snapshot_proofs`: from `SnapshotAssumption`, for trees of any size, every umask and folding.
`WrittenPart` says, as long as no native command may have written, that each entry written so far
stands in its own place with its own content, and that what else is there are parents of written
entries. `CleanPart` says what the entries so far have shown of the tree; with it the snapshot is
refused exactly when the tree is not clean, in any order (`RefusedTheorem`). This rests on
`WalkIsCount`: the walk of `_lexical_link_escapes` along a link's target agrees with counting
names up and down, for targets of any length. To be reasoned about, the loops had to be positions
still to come and not a sorted copy of the listing.

`PolicyChecks_proofs`: from `TextAssumption`, `PatchAssumption`, `CheckAssumption`,
`HeadAssumption` and `WorkflowAssumption`, for patches of any number of changes, hunks and edits, and every kind of text
and path. It holds the proofs about `DiffLines` as well, and goes in four steps.

1. `IInv` types the lines still to be read, the files and the line numbers, whatever lines the
   parser takes for headers; it only appends files and changes the last one, and alignment gives
   out Git's paths only when the counts agree (`TypesTheorem`, `PathsTheorem`).
2. That an ordinary change is exact is not inductive by itself: the files and numbers of a change
   under way say nothing without what is left of the diff. `ExactPart` is the strengthening: while
   the diff is read, the parser is between two changes (`Between`), or within one (`Within`), at a
   header line, or after edit `e` of hunk `h`: then the rest of the diff is what Git prints from
   there, the file has exactly the lines gathered so far, and the numbers are those of the next
   line. Or it has gone astray (`Strayed`) within a change with odd text, or it has already made more
   files than changes have begun, which alignment then refuses. A change with odd text may be left again:
   either it has made files of its own, and there are too many from then on, or it has not, and the
   parser is between two changes with every ordinary one before exact, as the next `diff --git`
   line starts a file of its own whatever came before.
   There is one lemma for each step from a place to the next (`HeaderStep`, `EditStep`, `HunkStep`,
   `ChangeStep`), and `ExactTheorem` follows.
3. `CheckPart` adds that the findings are all the checks make of the files. `Deduplicated` loses
   none, because a finding has nothing but what its key has. For an ordinary patch the lines
   that the checks see are the numbered lines of the changes (`LinesSeen`), the rules catch among
   them what the catalogue names (`ToldOfAll`), and this is what the catalogue expects of each
   change by itself (`FindingsTheorem`).
4. Sums and look-ups: the sum over the changes is the cardinality of the set of marked edits, whatever the
   patch (`TotalIsCount`, for `LimitsTheorem`), and the lines that `splitlines` makes of a head
   revision without odd line ends are the file's own (`SinglesFlattened`), so that every line an
   ordinary change adds is there under the number the parser gave it, in whichever hunk
   (`HeadShows`, for `CheckoutTheorem`). A file with odd line ends is left out (`EvenHead`):
   `splitlines` then numbers it otherwise than Git, and the look-up may find another step.
   `SettingFound` then compares the search of `_checkout_setting` with the step the line belongs to; it needs the part of `WorkflowAssumption` on indentation, since a list
   within the step that stands as far left as the checkout ends the search.

Induction over data. The library's induction theorems take a predicate for a parameter, which the
provers cannot instantiate. These proofs use sets for predicates: a set of naturals that is not
empty has a least member (`LeastNatural`, from the well-foundedness of `<`), hence a set with 0 and
with every successor has all (`NaturalsInSet`). `FlattenSeq` and `FoldLeft` choose a function
with a recursive equation. `FlattenExists`, `FlattenUnique` and `FoldExists` show by such
an induction that there is one, and with it what the operators compute.

Model-checked only: liveness, which needs fairness (`AnswerArrives`, `CommandReturns` of both
runners, `LimitStopsGit`, `CallReturns`), and the bound of two overlapping runs in
`EmittedIsVerified`, without which it is false. Every invariant and every other action property of
the passing runs is proved.

## Not modelled

* Policy text parsing beyond the guards that decide execution: type and range checks of single
  keys without interaction. A configuration is accepted or rejected as a constant says.
* The checks on Git metadata paths in `GitRepo.__init__` and Git's environment: reads of a
  directory before its first use, whose hazard is another writer of the repository's metadata.
* The raw tar that `create_passport_bundle` writes next to the bundle before compression
  (`passport.py:344`): it is never under a name that is read, a failure while it is written fails
  the step `EvidenceStore` has, and only a killed run leaves it behind, as any other temporary file.
* A git reader that is let go after five seconds although its stream has no known size: the code
  returns what it has with git's exit code. The behaviour is in `GitBounded`; nothing is claimed of it.
* The characters, lengths and device names that make a path portable, and the regular expressions
  of `checks/`: constants say which names and texts they are. Where a link leads at run time is not
  followed either; the code decides by the names alone, and so does `Snapshot`.
* The order of findings, their wording, severity and redaction, and the names of dependencies that
  changed.
* In the verifier the syntax of archives, time stamps and digests; in the action entry point the
  reading of inputs.
* Rendering, schemas, doctor, init, demos, end-to-end and release scripts: single passes over their
  input without state that outlives them.
* On Windows the process tree is ended by `taskkill`; only the POSIX branch is modelled.
  Symbolic-link checks of `safeio.py` guard against another writer of the directory.

## Plan

1. Done: all modules above, and the proofs of every safety property and refinement the passing runs
   check; the abstract specifications they implement are `CommandBoundary` and `EvidenceRegister`.
2. Extensions: a `killpg` that is refused because a process changed its user; an abstract
   snapshot (a commit's tree, in one step) that `Snapshot` implements; the release scripts.
