----------------------------- MODULE NativeRun -----------------------------
(***************************************************************************)
(* One command without a container on a POSIX host (_run_native_command of *)
(* runner.py): the coordinator starts the command as leader of a session   *)
(* of its own, waits, terminates the leader after the timeout, sweeps the  *)
(* leader's process group in any case and then closes the output pipes.    *)
(* Project code forks, ignores SIGTERM, closes its output and moves to     *)
(* other sessions as it likes, between any two steps of the coordinator.   *)
(*                                                                         *)
(* External: a signal to a group reaches all its members at once; only     *)
(* SIGKILL cannot be ignored; a process that got it runs no more code and  *)
(* ends; the leader of a session cannot leave its group; a group id is not *)
(* given away while a sweep is under way; no member changes its user.      *)
(* stdout and stderr are one pipe here.                                    *)
(***************************************************************************)
EXTENDS ExecutionPolicy

CONSTANTS
  Kids,    \* descendants the command may fork: the bound on forks
  leader,  \* the command itself
  NoResult

ASSUME NativeAssumption == leader \notin Kids

Processes == Kids \cup {leader}

VARIABLES
  \* The coordinator
  pc,
  timedOut, exitCode, result,
  interrupted,  \* "no", or when a KeyboardInterrupt came: "early" or "late"
  \* The processes
  place,   \* "none" (not started), "group", "escaped" or "dead"
  reaped,  \* the coordinator has seen the leader's exit
  exit,    \* the leader's exit code once it is dead
  signal,  \* the strongest signal each process got
  holds    \* the processes that have the output pipe open

coordinatorVars == <<pc, timedOut, exitCode, result, interrupted>>
processVars     == <<place, reaped, exit, signal, holds>>
vars            == <<coordinatorVars, processVars>>

Group    == {p \in Processes : place[p] = "group"}
Escaped  == {p \in Processes : place[p] = "escaped"}
Runnable == {p \in Group \cup Escaped : signal[p] # "kill"}

Init ==
  /\ pc = "launch"
  /\ timedOut = FALSE
  /\ exitCode = "none"
  /\ result = NoResult
  /\ interrupted = "no"
  /\ place = [p \in Processes |-> "none"]
  /\ reaped = FALSE
  /\ exit = "none"
  /\ signal = [p \in Processes |-> "none"]
  /\ holds = {}

-----------------------------------------------------------------------------
(* The coordinator                                                         *)

Goto(from, to) == pc = from /\ pc' = to

\* killpg
SignalGroup(sig) ==
  signal' = [p \in Processes |->
               IF p \in Group /\ signal[p] # "kill" THEN sig ELSE signal[p]]

\* Popen starts the leader, or the program cannot be started at all.
Launch ==
  /\ \/ /\ Goto("launch", "wait")
        /\ place' = [place EXCEPT ![leader] = "group"]
        /\ holds' = {leader}
     \/ Goto("launch", "answer") /\ UNCHANGED <<place, holds>>
  /\ UNCHANGED <<timedOut, exitCode, result, interrupted, reaped, exit, signal>>

\* Mutant: the signal that was sent is recorded instead of the exit code.
ReapSignal ==
  /\ pc \in {"wait", "terminate", "grace", "reap"}
  /\ pc' = "sweep"
  /\ place[leader] = "dead"
  /\ reaped' = TRUE
  /\ exitCode' = signal[leader]
  /\ UNCHANGED <<timedOut, result, interrupted, place, exit, signal, holds>>

\* The leader has ended: its exit code is taken and the sweep begins.
Reap ==
  /\ pc \in {"wait", "terminate", "grace", "reap"}
  /\ pc' = "sweep"
  /\ place[leader] = "dead"
  /\ reaped' = TRUE
  /\ exitCode' = exit
  /\ UNCHANGED <<timedOut, result, interrupted, place, exit, signal, holds>>

TimeOut ==
  /\ Goto("wait", "terminate")
  /\ place[leader] # "dead"
  /\ timedOut' = TRUE
  /\ UNCHANGED <<exitCode, result, interrupted, processVars>>

Terminate ==
  /\ Goto("terminate", "grace")
  /\ place[leader] # "dead"
  /\ SignalGroup("term")
  /\ UNCHANGED <<timedOut, exitCode, result, interrupted, place, reaped, exit, holds>>

\* Mutant: a leader that ignores SIGTERM is waited for.
GraceNeverOver ==
  /\ Goto("grace", "reap")
  /\ place[leader] # "dead"
  /\ UNCHANGED <<timedOut, exitCode, result, interrupted, processVars>>

GraceOver ==
  /\ Goto("grace", "reap")
  /\ place[leader] # "dead"
  /\ SignalGroup("kill")
  /\ UNCHANGED <<timedOut, exitCode, result, interrupted, place, reaped, exit, holds>>

\* The group still exists: a leader that was not reaped counts, dead or alive.
GroupExists == Group # {} \/ ~reaped

\* SIGTERM to what is left of the group; without a group the sweep is over.
Sweep ==
  /\ pc = "sweep"
  /\ pc' = IF GroupExists THEN "sweep-again" ELSE "drain"
  /\ SignalGroup("term")
  /\ UNCHANGED <<timedOut, exitCode, result, interrupted, place, reaped, exit, holds>>

\* Mutant: only the processes that got the SIGTERM are killed.
SweepKnown ==
  /\ Goto("sweep-again", "drain")
  /\ signal' = [p \in Processes |-> IF signal[p] = "term" THEN "kill" ELSE signal[p]]
  /\ UNCHANGED <<timedOut, exitCode, result, interrupted, place, reaped, exit, holds>>

\* Mutant: what the first signal was sent to is taken to be gone.
SweepOnce ==
  /\ Goto("sweep-again", "drain")
  /\ UNCHANGED <<timedOut, exitCode, result, interrupted, processVars>>

\* SIGKILL, twenty milliseconds later, to the group as it is then.
SweepAgain ==
  /\ Goto("sweep-again", "drain")
  /\ SignalGroup("kill")
  /\ UNCHANGED <<timedOut, exitCode, result, interrupted, place, reaped, exit, holds>>

\* The readers are joined for a while; closing a pipe then waits for the read
\* that is blocked on it, which ends when nobody holds the other end.
Drain ==
  /\ Goto("drain", IF interrupted = "no" THEN "answer" ELSE "raised")
  /\ holds = {}
  /\ UNCHANGED <<timedOut, exitCode, result, interrupted, processVars>>

Answer ==
  /\ Goto("answer", "returned")
  /\ result' = [exit |-> exitCode, timedOut |-> timedOut]
  /\ UNCHANGED <<timedOut, exitCode, interrupted, processVars>>

\* An interrupt before the sweep leads to it; one during the sweep ends it.
Interrupt ==
  /\ interrupted = "no"
  /\ \/ /\ pc \in {"wait", "terminate", "grace", "reap"}
        /\ interrupted' = "early" /\ pc' = "sweep"
     \/ /\ pc \in {"sweep", "sweep-again"}
        /\ interrupted' = "late" /\ pc' = "drain"
     \/ /\ pc = "drain"
        /\ interrupted' = "late" /\ pc' = "raised"
  /\ UNCHANGED <<timedOut, exitCode, result, processVars>>

Coordinator ==
  \/ Launch \/ Reap \/ TimeOut \/ Terminate \/ GraceOver
  \/ Sweep \/ SweepAgain \/ Drain \/ Answer

-----------------------------------------------------------------------------
(* Project code                                                            *)

\* A child is where its parent is and has what its parent has open.
Fork(p, k) ==
  /\ p \in Runnable
  /\ place[k] = "none"
  /\ place' = [place EXCEPT ![k] = place[p]]
  /\ holds' = IF p \in holds THEN holds \cup {k} ELSE holds
  /\ UNCHANGED <<coordinatorVars, reaped, exit, signal>>

\* setsid or setpgid: out of the group, in a session or group of its own.
Escape(k) ==
  /\ k \in Runnable \cap Group
  /\ place' = [place EXCEPT ![k] = "escaped"]
  /\ UNCHANGED <<coordinatorVars, reaped, exit, signal, holds>>

CloseOutput(p) ==
  /\ p \in Runnable \cap holds
  /\ holds' = holds \ {p}
  /\ UNCHANGED <<coordinatorVars, place, reaped, exit, signal>>

\* A process ends, by itself or by a signal.
End(p, code) ==
  /\ p \in Group \cup Escaped
  /\ place' = [place EXCEPT ![p] = "dead"]
  /\ holds' = holds \ {p}
  /\ exit' = IF p = leader THEN code ELSE exit
  /\ UNCHANGED <<coordinatorVars, reaped, signal>>

KilledEnds == \E p \in Processes : signal[p] = "kill" /\ End(p, "nonzero")

ProjectCode ==
  \/ \E p \in Processes, k \in Kids : Fork(p, k)
  \/ \E k \in Kids : Escape(k)
  \/ \E p \in Processes : CloseOutput(p)
  \/ \E p \in Processes, code \in {"zero", "nonzero"} : End(p, code)

-----------------------------------------------------------------------------

Next == Coordinator \/ Interrupt \/ ProjectCode

\* The coordinator is scheduled and its timeouts fire; killed processes end.
\* Nothing else is assumed of project code.
Spec == Init /\ [][Next]_vars /\ WF_vars(Coordinator) /\ WF_vars(KilledEnds)

-----------------------------------------------------------------------------
(* Properties                                                              *)

\* Every variable holds a value the program can store; only the leader's end
\* gives an exit code.
TypeOK ==
  /\ pc \in {"launch", "wait", "terminate", "grace", "reap", "sweep", "sweep-again",
             "drain", "answer", "returned", "raised"}
  /\ {timedOut, reaped} \subseteq BOOLEAN
  /\ {exitCode, exit} \subseteq ExitCodes
  /\ result \in {NoResult} \cup [exit : ExitCodes, timedOut : BOOLEAN]
  /\ interrupted \in {"no", "early", "late"}
  /\ place \in [Processes -> {"none", "group", "escaped", "dead"}]
  /\ signal \in [Processes -> {"none", "term", "kill"}]
  /\ holds \subseteq Group \cup Escaped
  /\ exit # "none" => place[leader] = "dead"

\* Once the sweep is over no process of the command's group runs project code:
\* a process forked between the two signals is swept as well, on every path to
\* the sweep (exit, timeout, interrupt).
NoSurvivorInGroup ==
  pc \in {"drain", "answer", "returned", "raised"} /\ interrupted # "late" =>
    Group \cap Runnable = {}

\* The call returns, unless it is interrupted or a process that left the group
\* keeps the output pipe open for ever.
CommandReturns ==
  \/ <>(pc = "returned" \/ interrupted # "no")
  \/ <>[](Escaped \cap holds # {})

Boundary == INSTANCE CommandBoundary WITH
  executing <- Group \cap Runnable # {},
  verdict   <- IF result = NoResult THEN "none"
               ELSE IF result.exit = "none" THEN "doubt" ELSE "known"

\* The native path keeps the promise of run_command, for the command's group.
KeepsBoundary == Boundary!Spec

\* What docs/THREAT_MODEL.md says of the program: the time a command takes
\* remains bounded.
TimeIsBounded == <>(pc = "returned" \/ interrupted # "no")

=============================================================================
