---------------------------- MODULE ContainerRun ----------------------------
(***************************************************************************)
(* One command in a container (_run_container_command of runner.py): the   *)
(* coordinator in PatchLab, the runtime client it starts (docker run) and  *)
(* the daemon that creates and starts the container on the client's        *)
(* request.  Requests travel: one that was sent may be served after its    *)
(* sender died, and after the coordinator looked for the container.        *)
(*                                                                         *)
(* External: the client sends create, waits for the answer, then sends     *)
(* start; it starts nothing when it is dead; the daemon starts only a      *)
(* container that exists; "rm -f" removes it in any state; a process that  *)
(* got SIGKILL ends, one that got SIGTERM may not.                         *)
(***************************************************************************)
EXTENDS ExecutionPolicy

CONSTANT NoResult

VARIABLES
  \* The coordinator
  pc,           \* the next step of _run_container_command
  expected, phase,   \* of the command
  timedOut, exitCode,
  doubt,        \* cleanup_error is not empty
  interrupted,  \* a KeyboardInterrupt (or another exception) is on its way out
  result,
  \* The client process
  client,       \* "none", "alive", "exited"
  clientExit,   \* its exit code once it exited
  signal,       \* the strongest signal it got
  \* The daemon
  request,      \* the client's request not served yet
  container,    \* "none", "created", "running", "exited", "removed"
  ran           \* project code has run in the container

coordinatorVars == <<pc, expected, phase, timedOut, exitCode, doubt, interrupted, result>>
clientVars      == <<client, clientExit, signal>>
daemonVars      == <<request, container, ran>>
vars            == <<coordinatorVars, clientVars, daemonVars>>

Init ==
  /\ pc = "launch"
  /\ expected \in Expectations
  /\ phase \in Phases
  /\ timedOut = FALSE
  /\ exitCode = "none"
  /\ doubt = FALSE
  /\ interrupted = FALSE
  /\ result = NoResult
  /\ client = "none"
  /\ clientExit = "none"
  /\ signal = "none"
  /\ request = "none"
  /\ container = "none"
  /\ ran = FALSE

-----------------------------------------------------------------------------
(* The coordinator                                                         *)

Goto(from, to) == pc = from /\ pc' = to

\* Mutant: the coordinator waits for a client that did not start.
LaunchUnchecked ==
  /\ Goto("launch", "wait")
  /\ client' \in {"none", "alive"}
  /\ UNCHANGED <<expected, phase, timedOut, exitCode, doubt, interrupted, result,
                 clientExit, signal, daemonVars>>

\* Popen: the client starts, or an OSError ends the call with no exit code.
Launch ==
  /\ \/ Goto("launch", "wait") /\ client' = "alive"
     \/ Goto("launch", "answer") /\ UNCHANGED client
  /\ UNCHANGED <<expected, phase, timedOut, exitCode, doubt, interrupted, result,
                 clientExit, signal, daemonVars>>

SeeExit ==
  /\ Goto("wait", "remove-again")
  /\ client = "exited"
  /\ exitCode' = clientExit
  /\ UNCHANGED <<expected, phase, timedOut, doubt, interrupted, result,
                 clientVars, daemonVars>>

TimeOut ==
  /\ Goto("wait", "remove")
  /\ client = "alive"
  /\ timedOut' = TRUE
  /\ UNCHANGED <<expected, phase, exitCode, doubt, interrupted, result,
                 clientVars, daemonVars>>

\* After the look at the container: on to terminating the client, or on to
\* closing the streams in the outer finally.
AfterCleanup(from) == IF from \in {"remove", "look"} THEN "terminate" ELSE "drain"

\* rm -f served: the container is gone if there was one.
Remove(from, look) ==
  /\ Goto(from, look)
  /\ container' = IF container = "none" THEN "none" ELSE "removed"
  /\ UNCHANGED <<expected, phase, timedOut, exitCode, doubt, interrupted, result,
                 clientVars, request, ran>>

\* rm -f returns and has removed nothing; its exit status is not looked at.
RemoveRefused(from, look) ==
  /\ Goto(from, look)
  /\ UNCHANGED <<expected, phase, timedOut, exitCode, doubt, interrupted, result,
                 clientVars, daemonVars>>

\* rm or ps raises (OSError, 10 seconds are over) or ps fails: no ps after rm.
CleanupBreaks(from) ==
  /\ Goto(from, AfterCleanup(from))
  /\ doubt' = TRUE
  /\ UNCHANGED <<expected, phase, timedOut, exitCode, interrupted, result,
                 clientVars, daemonVars>>

\* ps answers: a container that exists, in whatever state, is a doubt.
Look(from) ==
  /\ Goto(from, AfterCleanup(from))
  /\ doubt' = (doubt \/ container \in {"created", "running", "exited"})
  /\ UNCHANGED <<expected, phase, timedOut, exitCode, interrupted, result,
                 clientVars, daemonVars>>

\* Mutant: one removal is enough once the client is terminated.
CleanupOnce == IF timedOut THEN "drain" ELSE "remove-again"

\* What follows the client's end: the finally block removes the container.
FinallyStep == "remove-again"

\* SIGTERM to the client's group, unless it has ended already.
Terminate ==
  /\ pc = "terminate"
  /\ \/ /\ client = "exited"
        /\ pc' = FinallyStep
        /\ exitCode' = clientExit
        /\ UNCHANGED signal
     \/ /\ client = "alive"
        /\ pc' = "grace"
        /\ signal' = "term"
        /\ UNCHANGED exitCode
  /\ UNCHANGED <<expected, phase, timedOut, doubt, interrupted, result, client,
                 clientExit, daemonVars>>

\* The client ended within the grace period, or after SIGKILL.
Reap ==
  /\ pc \in {"grace", "reap"}
  /\ client = "exited"
  /\ pc' = FinallyStep
  /\ exitCode' = clientExit
  /\ UNCHANGED <<expected, phase, timedOut, doubt, interrupted, result,
                 clientVars, daemonVars>>

\* Mutant: the group is not killed when the grace period is over.
GraceOverKindly ==
  /\ Goto("grace", "reap")
  /\ client = "alive"
  /\ UNCHANGED <<expected, phase, timedOut, exitCode, doubt, interrupted, result,
                 clientVars, daemonVars>>

\* Mutant: the coordinator gives the client up when the grace period is over.
GraceOverForgetful ==
  /\ Goto("grace", FinallyStep)
  /\ client = "alive"
  /\ UNCHANGED <<expected, phase, timedOut, exitCode, doubt, interrupted, result,
                 clientVars, daemonVars>>

GraceOver ==
  /\ Goto("grace", "reap")
  /\ client = "alive"
  /\ signal' = "kill"
  /\ UNCHANGED <<expected, phase, timedOut, exitCode, doubt, interrupted, result,
                 client, clientExit, daemonVars>>

\* Joining the readers and closing the pipes ends when no process writes to
\* them: closing a pipe waits for the read that is blocked on it.
Drain ==
  /\ Goto("drain", IF interrupted THEN "raised" ELSE "answer")
  /\ client = "exited"
  /\ UNCHANGED <<expected, phase, timedOut, exitCode, doubt, interrupted, result,
                 clientVars, daemonVars>>

\* Mutant: the exit code survives a cleanup that could not be verified.
ExitDespiteDoubt == exitCode

ReportedExit == IF doubt THEN "none" ELSE exitCode

Answer ==
  /\ Goto("answer", "returned")
  /\ result' = [exit     |-> ReportedExit,
                timedOut |-> timedOut,
                passed   |-> CommandPassed(expected, phase, ReportedExit, timedOut)]
  /\ UNCHANGED <<expected, phase, timedOut, exitCode, doubt, interrupted,
                 clientVars, daemonVars>>

\* An exception that is not caught: the finally block still runs, unless it is
\* the finally block that is interrupted.
Interrupt ==
  /\ ~interrupted
  /\ pc \in {"wait", "remove", "look", "terminate", "grace", "reap",
             "remove-again", "look-again", "drain"}
  /\ interrupted' = TRUE
  /\ pc' = IF pc \in {"remove-again", "look-again", "drain"} THEN "raised"
           ELSE "remove-again"
  /\ UNCHANGED <<expected, phase, timedOut, exitCode, doubt, result,
                 clientVars, daemonVars>>

Coordinator ==
  \/ Launch \/ SeeExit \/ TimeOut \/ Terminate \/ Reap \/ GraceOver \/ Drain \/ Answer
  \/ Remove("remove", "look") \/ Remove("remove-again", "look-again")
  \/ RemoveRefused("remove", "look") \/ RemoveRefused("remove-again", "look-again")
  \/ Look("look") \/ Look("look-again")
  \/ \E from \in {"remove", "look", "remove-again", "look-again"} : CleanupBreaks(from)

-----------------------------------------------------------------------------
(* The client                                                              *)

Working == client = "alive" /\ signal # "kill"

SendCreate ==
  /\ Working /\ container = "none" /\ request = "none"
  /\ request' = "create"
  /\ UNCHANGED <<coordinatorVars, clientVars, container, ran>>

SendStart ==
  /\ Working /\ container = "created" /\ request = "none"
  /\ request' = "start"
  /\ UNCHANGED <<coordinatorVars, clientVars, container, ran>>

\* The client ends: with the container's own code, or with an error of its own
\* (125: no image, daemon gone, container removed), or killed by a signal.
ClientEnds(exit) ==
  /\ client = "alive"
  /\ exit = "zero" => container \in {"exited", "removed"} /\ ran /\ signal # "kill"
  /\ exit # "none"
  /\ client' = "exited"
  /\ clientExit' = exit
  /\ UNCHANGED <<coordinatorVars, signal, daemonVars>>

-----------------------------------------------------------------------------
(* The daemon                                                              *)

ServeCreate ==
  /\ request = "create"
  /\ request' = "none"
  /\ container' = IF container = "none" THEN "created" ELSE container
  /\ UNCHANGED <<coordinatorVars, clientVars, ran>>

ServeStart ==
  /\ request = "start"
  /\ request' = "none"
  /\ container' = IF container = "created" THEN "running" ELSE container
  /\ ran' = (ran \/ container = "created")
  /\ UNCHANGED <<coordinatorVars, clientVars>>

\* The daemon refuses: the image is not there and is never pulled.
Refuse ==
  /\ request # "none"
  /\ request' = "none"
  /\ UNCHANGED <<coordinatorVars, clientVars, container, ran>>

ProjectCodeEnds ==
  /\ container = "running"
  /\ container' = "exited"
  /\ UNCHANGED <<coordinatorVars, clientVars, request, ran>>

\* --rm: the daemon removes the container that has exited.
AutoRemove ==
  /\ container = "exited"
  /\ container' = "removed"
  /\ UNCHANGED <<coordinatorVars, clientVars, request, ran>>

Outside ==
  \/ SendCreate \/ SendStart \/ \E exit \in ExitCodes : ClientEnds(exit)
  \/ ServeCreate \/ ServeStart \/ Refuse \/ ProjectCodeEnds \/ AutoRemove

-----------------------------------------------------------------------------

Next == Coordinator \/ Interrupt \/ Outside

\* The coordinator is scheduled and its timeouts fire; a killed process ends.
\* Nothing is assumed of project code, of a client that was not killed, or of
\* the daemon.
Spec ==
  /\ Init /\ [][Next]_vars
  /\ WF_vars(Coordinator)
  /\ WF_vars(signal = "kill" /\ \E exit \in ExitCodes : ClientEnds(exit))

-----------------------------------------------------------------------------
(* Properties                                                              *)

\* Every variable holds a value the program can store, and the steps that use
\* the client's process object have one.
TypeOK ==
  /\ pc \in {"launch", "wait", "remove", "look", "terminate", "grace", "reap",
             "remove-again", "look-again", "drain", "answer", "returned", "raised"}
  /\ expected \in Expectations /\ phase \in Phases
  /\ {timedOut, doubt, interrupted, ran} \subseteq BOOLEAN
  /\ {exitCode, clientExit} \subseteq ExitCodes
  /\ result \in {NoResult} \cup [exit : ExitCodes, timedOut : BOOLEAN, passed : BOOLEAN]
  /\ client \in {"none", "alive", "exited"}
  /\ client = "none" => pc \in {"launch", "answer", "returned"}
  /\ signal \in {"none", "term", "kill"}
  /\ request \in {"none", "create", "start"}
  /\ container \in {"none", "created", "running", "exited", "removed"}

\* A result with an exit code is given only when no project code runs in the
\* container, and none runs in it ever after: neither a create or start request
\* served late nor a first removal that came too early leaves code behind.
KnownExitIsQuiet ==
  result # NoResult /\ result.exit # "none" => container # "running"

\* Once the last removal has begun the client asks the daemon for nothing more,
\* however the wait for it ended: what that removal and the look after it find
\* can then only be changed by requests sent before. An exception that cuts the
\* wait short gives no answer and is the one case in which the client goes on.
NothingIsAskedAfterRemoval ==
  [][/\ pc \in {"remove-again", "look-again", "drain", "answer", "returned"}
     /\ ~interrupted
     => request' \in {request, "none"}]_vars

\* The call returns, whatever project code, client and daemon do, unless an
\* exception is on its way out: a SIGTERM ignored is followed by SIGKILL.
CommandReturns == <>(pc = "returned" \/ interrupted)

Boundary == INSTANCE CommandBoundary WITH
  executing <- container = "running",
  verdict   <- IF result = NoResult THEN "none"
               ELSE IF result.exit = "none" THEN "doubt" ELSE "known"

\* The container path keeps the promise of run_command.
KeepsBoundary == Boundary!Spec

\* What docs/PATCH_PASSPORT_SPEC.md says of the isolated-container boundary: a
\* command that counts as passed ran through the container.
PassedCommandRan == result # NoResult /\ result.passed => ran

=============================================================================
