-------------------------- MODULE ExecutionPolicy --------------------------
(***************************************************************************)
(* The pure part of the decision which boundary runs the project's         *)
(* commands: validation of the execution table of patchlab.toml            *)
(* (config.py), overrides of the request (engine.py), selection of the     *)
(* executor (runner.py), the exit expectation of a command (runner.py) and *)
(* the identity rules of the passport (passport.py).                       *)
(*                                                                         *)
(* An image reference is "none" (empty), pinned (@sha256 digest or image   *)
(* id) or mutable; its text does not matter.  Overrides are tri-state:     *)
(* "unset" stands for None, "unknown" for a value outside the accepted set.*)
(***************************************************************************)

Modes        == {"auto", "static", "container", "native"}
Runtimes     == {"docker", "podman"}
Preferences  == Runtimes \cup {"auto"}
Images       == {"none", "pinned", "mutable"}
Phases       == {"base", "head"}
Expectations == {"zero", "nonzero", "base_nonzero_head_zero"}
ExitCodes    == {"zero", "nonzero", "none"}   \* "none": no exit code is known

ExecutionConfigs ==
  [mode : Modes, preference : Preferences, image : Images,
   network : BOOLEAN, allowNative : BOOLEAN]

Overrides ==
  [mode        : Modes \cup {"unset", "unknown"},
   preference  : Preferences \cup {"unset", "unknown"},
   image       : Images \cup {"unset"},
   network     : {"unset", "on", "off"},
   allowNative : {"unset", "on", "off"}]

\* What a look at PATH finds for one runtime name: nothing, a file that cannot
\* be executed, one inside the repository under test, or a trusted one.
Hosts ==
  [linux : BOOLEAN,
   found : [Runtimes -> {"absent", "unusable", "inRepository", "usable"}]]

-----------------------------------------------------------------------------
(* Validation and overrides                                                *)

\* The guards of load_config_text on the execution table.
ExecutionAccepted(cfg) ==
  /\ cfg.image # "mutable"
  /\ cfg.mode = "container" => cfg.image # "none"
  /\ cfg.mode = "native" => cfg.allowNative

\* The guard of load_config_text on one command.
CommandAccepted(command) ==
  command.expected = "base_nonzero_head_zero" => command.runOn = "both"

\* Mutant: the image of the request is taken as it is.
ImageUnchecked(over) == over.mode # "unknown" /\ over.preference # "unknown"

OverridesAccepted(over) ==
  /\ over.mode # "unknown"
  /\ over.preference # "unknown"
  /\ over.image # "mutable"

\* Mutant: an override that was not given replaces the policy.
NoDefault(value, default) == value

Overridden(value, default) == IF value = "unset" THEN default ELSE value

Switched(value, default) == IF value = "unset" THEN default ELSE value = "on"

EffectiveExecution(cfg, over) ==
  [mode        |-> Overridden(over.mode, cfg.mode),
   preference  |-> Overridden(over.preference, cfg.preference),
   image       |-> Overridden(over.image, cfg.image),
   network     |-> Switched(over.network, cfg.network),
   allowNative |-> Switched(over.allowNative, cfg.allowNative)]

-----------------------------------------------------------------------------
(* Executor selection                                                      *)

StaticExecutor == [mode |-> "static", runtime |-> "none", image |-> "none", network |-> FALSE]
NativeExecutor == [mode |-> "native", runtime |-> "none", image |-> "none", network |-> TRUE]
Unavailable    == [mode |-> "unavailable", runtime |-> "none", image |-> "none", network |-> FALSE]

ContainerExecutor(cfg, runtime) ==
  [mode |-> "container", runtime |-> runtime, image |-> cfg.image,
   network |-> cfg.network]

\* The search stops at the first name that resolves to an executable file.
Hit(host, name) == host.found[name] \in {"inRepository", "usable"}

\* The runtime the search ends at; the last candidate when none is a hit.
Candidate(cfg, host) ==
  IF cfg.preference # "auto" THEN cfg.preference
  ELSE IF Hit(host, "docker") THEN "docker" ELSE "podman"

\* The search raises: the executable belongs to the code under test.
RuntimeRejected(cfg, host) ==
  host.found[Candidate(cfg, host)] = "inRepository"

ContainerPossible(cfg, host) ==
  /\ host.linux
  /\ host.found[Candidate(cfg, host)] = "usable"
  /\ cfg.image # "none"

\* Mutant: auto mode falls back without the policy's consent.
UnaskedFallback(cfg, host) ==
  /\ ~ContainerPossible(cfg, host)
  /\ ~(host.linux /\ RuntimeRejected(cfg, host))

\* The fall back of auto mode, open only to a policy that opted in.
NativeFallback(cfg, host) ==
  /\ cfg.allowNative
  /\ ~ContainerPossible(cfg, host)
  /\ ~(host.linux /\ RuntimeRejected(cfg, host))

SelectExecutor(cfg, host) ==
  CASE cfg.mode = "static" -> StaticExecutor
    [] cfg.mode = "native" /\ cfg.allowNative -> NativeExecutor
    [] cfg.mode \in {"auto", "container"} /\ ContainerPossible(cfg, host)
         -> ContainerExecutor(cfg, Candidate(cfg, host))
    [] cfg.mode = "auto" /\ NativeFallback(cfg, host) -> NativeExecutor
    [] OTHER -> Unavailable

-----------------------------------------------------------------------------
(* Commands                                                                *)

PhasesOf(command) == IF command.runOn = "both" THEN Phases ELSE {command.runOn}

FirstPhase(command) == IF command.runOn = "head" THEN "head" ELSE "base"

ExpectedPass(expected, phase, exit) ==
  \/ expected = "zero" /\ exit = "zero"
  \/ expected = "nonzero" /\ exit = "nonzero"
  \/ /\ expected = "base_nonzero_head_zero"
     /\ exit = IF phase = "base" THEN "nonzero" ELSE "zero"

CommandPassed(expected, phase, exit, timedOut) ==
  exit # "none" /\ ~timedOut /\ ExpectedPass(expected, phase, exit)

-----------------------------------------------------------------------------
(* The execution part of the passport identity                             *)

BoundaryOf(mode) ==
  CASE mode = "container" -> "isolated-container"
    [] mode = "native"    -> "weak-native"
    [] OTHER              -> "static-no-execution"

ExecutionIdentities ==
  [mode         : {"static", "native", "container"},
   boundary     : {"static-no-execution", "weak-native", "isolated-container"},
   runtime      : Runtimes \cup {"none"},
   image        : Images,
   network      : BOOLEAN,
   unsafeNative : BOOLEAN]

ExecutionIdentity(executor, cfg) ==
  [mode         |-> executor.mode,
   boundary     |-> BoundaryOf(executor.mode),
   runtime      |-> executor.runtime,
   image        |-> executor.image,
   network      |-> executor.network,
   unsafeNative |-> executor.mode = "native" /\ cfg.allowNative]

ValidExecutionIdentity(id) ==
  \/ /\ id.mode = "static"
     /\ id.boundary = "static-no-execution"
     /\ id.runtime = "none" /\ id.image = "none"
     /\ ~id.network /\ ~id.unsafeNative
  \/ /\ id.mode = "native"
     /\ id.boundary = "weak-native"
     /\ id.runtime = "none" /\ id.image = "none"
     /\ id.network /\ id.unsafeNative
  \/ /\ id.mode = "container"
     /\ id.boundary = "isolated-container"
     /\ id.runtime \in Runtimes
     /\ id.image = "pinned"
     /\ ~id.unsafeNative

=============================================================================
