-------------------------- MODULE NativeRun_proofs --------------------------
(***************************************************************************)
(* Proofs about NativeRun for every number of descendants.  The argument:  *)
(* SIGKILL reaches the group as it is at that moment, whoever is forked    *)
(* later has a parent that still runs code in the group, and there is none *)
(* once every member got the signal.                                       *)
(***************************************************************************)
EXTENDS NativeRun, TLAPS

\* The processes of the command's group that can still run code.
Survivors == Group \cap Runnable

\* The steps after the sweep.
Swept == {"drain", "answer", "returned", "raised"}

\* Nothing runs before the launch; the sweep is complete unless it was
\* interrupted, and then no answer is given.
SweptPart ==
  /\ pc = "launch" => interrupted = "no" /\ \A p \in Processes : place[p] = "none"
  /\ pc \in Swept /\ interrupted # "late" => Survivors = {}
  /\ pc \in {"answer", "returned"} => interrupted # "late"

ResultPart ==
  /\ pc # "returned" => result = NoResult
  /\ result # NoResult => Survivors = {}

IInv == TypeOK /\ SweptPart /\ ResultPart

-----------------------------------------------------------------------------
(* What a step does to the group                                           *)

\* Who survives is decided by place and signal alone.
LEMMA SurvivorsMeaning ==
  Survivors = {p \in Processes : place[p] = "group" /\ signal[p] # "kill"}
BY DEF Survivors, Group, Escaped, Runnable

\* SIGKILL to the group leaves no survivor in it, SIGTERM none more than before.
LEMMA SignalsSpareNobody ==
  ASSUME TypeOK, UNCHANGED place, NEW sig \in {"term", "kill"}, SignalGroup(sig)
  PROVE  /\ signal' \in [Processes -> {"none", "term", "kill"}]
         /\ Survivors' \subseteq Survivors
         /\ sig = "kill" => Survivors' = {}
         /\ sig = "term" => Survivors' = Survivors
BY DEF TypeOK, SignalGroup, Survivors, Group, Escaped, Runnable

\* What project code does brings no survivor into a group without one.
LEMMA NoNewSurvivor ==
  ASSUME TypeOK, ProjectCode
  PROVE  Survivors = {} => Survivors' = {}
<1> USE DEF TypeOK, Survivors, Group, Escaped, Runnable
<1>1. ASSUME NEW p \in Processes, NEW k \in Kids, Fork(p, k)
      PROVE  Survivors = {} => Survivors' = {}
  BY <1>1 DEF Fork, Processes
<1>2. ASSUME NEW k \in Kids, Escape(k)
      PROVE  Survivors = {} => Survivors' = {}
  BY <1>2 DEF Escape, Processes
<1>3. ASSUME NEW p \in Processes, CloseOutput(p)
      PROVE  Survivors = {} => Survivors' = {}
  BY <1>3 DEF CloseOutput
<1>4. ASSUME NEW p \in Processes, NEW code \in {"zero", "nonzero"}, End(p, code)
      PROVE  Survivors = {} => Survivors' = {}
  BY <1>4 DEF End
<1> QED BY <1>1, <1>2, <1>3, <1>4 DEF ProjectCode

-----------------------------------------------------------------------------
(* The invariant holds at the start and is kept by every step              *)

\* No process was started.
LEMMA InitIInv == ASSUME Init PROVE IInv
<1>1. TypeOK
  BY DEF Init, TypeOK, ExitCodes
<1>2. SweptPart /\ ResultPart
  BY DEF Init, SweptPart, ResultPart, Swept, Survivors, Group
<1> QED BY <1>1, <1>2 DEF IInv

\* The leader is the first process, or there is none.
LEMMA LaunchKeeps == ASSUME IInv, Launch PROVE IInv'
<1> USE DEF IInv, Launch, Goto
<1>1. leader \in Processes
  BY DEF Processes
<1>2. TypeOK'
  <2>1. CASE Goto("launch", "wait")
    <3>1. /\ place' = [place EXCEPT ![leader] = "group"] /\ holds' = {leader} /\ pc' = "wait"
          /\ UNCHANGED <<timedOut, exitCode, result, interrupted, reaped, exit, signal>>
      BY <2>1
    <3>2. place' \in [Processes -> {"none", "group", "escaped", "dead"}] /\ place'[leader] = "group"
      BY <1>1, <3>1 DEF TypeOK
    <3>3. holds' \subseteq Group'
      BY <1>1, <3>1, <3>2 DEF Group
    <3>4. exit = "none"
      BY <1>1, <2>1 DEF TypeOK, SweptPart
    <3> QED BY <3>1, <3>2, <3>3, <3>4 DEF TypeOK
  <2>2. CASE Goto("launch", "answer")
    BY <2>2 DEF TypeOK, Group, Escaped
  <2> QED BY <2>1, <2>2
<1>3. pc' = "answer" => Survivors' = {}
  BY DEF SweptPart, Survivors, Group
<1>4. SweptPart' /\ ResultPart'
  BY <1>3 DEF SweptPart, ResultPart, Swept
<1> QED BY <1>2, <1>4

\* The exit code is that of a leader that has ended.
LEMMA ReapKeeps == ASSUME IInv, Reap PROVE IInv'
<1> USE DEF IInv, Reap, Goto, processVars
<1>1. TypeOK'
  BY DEF TypeOK, Group, Escaped
<1>2. SweptPart' /\ ResultPart'
  BY DEF SweptPart, ResultPart, Swept, Survivors, Group, Escaped, Runnable
<1> QED BY <1>1, <1>2

\* The leader is alive when the time is over.
LEMMA TimeOutKeeps == ASSUME IInv, TimeOut PROVE IInv'
<1> USE DEF IInv, TimeOut, Goto, processVars
<1>1. TypeOK'
  BY DEF TypeOK, Group, Escaped
<1>2. SweptPart' /\ ResultPart'
  BY DEF SweptPart, ResultPart, Swept, Survivors, Group, Escaped, Runnable
<1> QED BY <1>1, <1>2

\* SIGTERM spares whoever ignores it.
LEMMA TerminateKeeps == ASSUME IInv, Terminate PROVE IInv'
<1> USE DEF IInv, Terminate, Goto
<1>1. /\ signal' \in [Processes -> {"none", "term", "kill"}]
      /\ Survivors' \subseteq Survivors
      /\ Survivors' = Survivors
  BY SignalsSpareNobody
<1>2. TypeOK'
  BY <1>1 DEF TypeOK, Group, Escaped
<1>3. SweptPart' /\ ResultPart'
  BY <1>1 DEF SweptPart, ResultPart, Swept
<1> QED BY <1>2, <1>3

\* SIGKILL before the sweep, too, reaches the whole group.
LEMMA GraceOverKeeps == ASSUME IInv, GraceOver PROVE IInv'
<1> USE DEF IInv, GraceOver, Goto
<1>1. /\ signal' \in [Processes -> {"none", "term", "kill"}]
      /\ Survivors' \subseteq Survivors
      /\ Survivors' = {}
  BY SignalsSpareNobody
<1>2. TypeOK'
  BY <1>1 DEF TypeOK, Group, Escaped
<1>3. SweptPart' /\ ResultPart'
  BY <1>1 DEF SweptPart, ResultPart, Swept
<1> QED BY <1>2, <1>3

\* A sweep without a second signal found no group.
LEMMA SweepKeeps == ASSUME IInv, Sweep PROVE IInv'
<1> USE DEF IInv, Sweep, Goto
<1>1. /\ signal' \in [Processes -> {"none", "term", "kill"}]
      /\ Survivors' \subseteq Survivors
      /\ Survivors' = Survivors
  BY SignalsSpareNobody
<1>2. TypeOK'
  BY <1>1 DEF TypeOK, Group, Escaped
<1>3. SweptPart' /\ ResultPart'
  BY <1>1 DEF SweptPart, ResultPart, Swept, GroupExists, Survivors
<1> QED BY <1>2, <1>3

\* The second signal of the sweep leaves nobody in the group.
LEMMA SweepAgainKeeps == ASSUME IInv, SweepAgain PROVE IInv'
<1> USE DEF IInv, SweepAgain, Goto
<1>1. /\ signal' \in [Processes -> {"none", "term", "kill"}]
      /\ Survivors' \subseteq Survivors
      /\ Survivors' = {}
  BY SignalsSpareNobody
<1>2. TypeOK'
  BY <1>1 DEF TypeOK, Group, Escaped
<1>3. SweptPart' /\ ResultPart'
  BY <1>1 DEF SweptPart, ResultPart, Swept
<1> QED BY <1>2, <1>3

\* The answer follows a drain that was not interrupted.
LEMMA DrainKeeps == ASSUME IInv, Drain PROVE IInv'
<1> USE DEF IInv, Drain, Goto, processVars
<1>1. TypeOK'
  BY DEF TypeOK, Group, Escaped
<1>2. SweptPart' /\ ResultPart'
  BY DEF SweptPart, ResultPart, Swept, Survivors, Group, Escaped, Runnable
<1> QED BY <1>1, <1>2

\* The answer changes no process.
LEMMA AnswerKeeps == ASSUME IInv, Answer PROVE IInv'
<1> USE DEF IInv, Answer, Goto, processVars
<1>1. TypeOK'
  BY DEF TypeOK, Group, Escaped
<1>2. SweptPart' /\ ResultPart'
  BY DEF SweptPart, ResultPart, Swept, Survivors, Group, Escaped, Runnable
<1> QED BY <1>1, <1>2

\* An interrupted sweep is marked as one.
LEMMA InterruptKeeps == ASSUME IInv, Interrupt PROVE IInv'
<1> USE DEF IInv, Interrupt, Goto, processVars
<1>1. TypeOK'
  BY DEF TypeOK, Group, Escaped
<1>2. SweptPart' /\ ResultPart'
  BY DEF SweptPart, ResultPart, Swept, Survivors, Group, Escaped, Runnable
<1> QED BY <1>1, <1>2

\* Project code, at any point of the coordinator.
LEMMA ProjectCodeKeeps == ASSUME IInv, ProjectCode PROVE IInv'
<1>0. TypeOK /\ SweptPart /\ ResultPart
  BY DEF IInv
<1>1. UNCHANGED coordinatorVars
  BY DEF ProjectCode, Fork, Escape, CloseOutput, End
<1>2. TypeOK'
  <2> USE DEF TypeOK, Group, Escaped, Runnable, coordinatorVars
  <2>1. ASSUME NEW p \in Processes, NEW k \in Kids, Fork(p, k) PROVE TypeOK'
    BY <1>0, <2>1 DEF Fork, Processes
  <2>2. ASSUME NEW k \in Kids, Escape(k) PROVE TypeOK'
    BY <1>0, <2>2, NativeAssumption DEF Escape, Processes
  <2>3. ASSUME NEW p \in Processes, CloseOutput(p) PROVE TypeOK'
    BY <1>0, <2>3 DEF CloseOutput
  <2>4. ASSUME NEW p \in Processes, NEW code \in {"zero", "nonzero"}, End(p, code) PROVE TypeOK'
    BY <1>0, <2>4 DEF End, ExitCodes
  <2> QED BY <2>1, <2>2, <2>3, <2>4 DEF ProjectCode
<1>3. pc = "launch" => (\A p \in Processes : place[p] = "none")'
  <2>1. ASSUME pc = "launch" PROVE FALSE
    <3>1. Group = {} /\ Escaped = {} /\ Runnable = {}
      BY <1>0, <2>1 DEF SweptPart, Group, Escaped, Runnable
    <3> QED BY <3>1 DEF ProjectCode, Fork, Escape, CloseOutput, End
  <2> QED BY <2>1
<1>4. SweptPart' /\ ResultPart'
  BY <1>0, <1>1, <1>3, NoNewSurvivor DEF SweptPart, ResultPart, coordinatorVars
<1> QED BY <1>2, <1>4 DEF IInv

\* Every step keeps the invariant.
LEMMA NextIInv == ASSUME IInv, [Next]_vars PROVE IInv'
<1>1. CASE Coordinator
  BY <1>1, LaunchKeeps, ReapKeeps, TimeOutKeeps, TerminateKeeps, GraceOverKeeps, SweepKeeps,
     SweepAgainKeeps, DrainKeeps, AnswerKeeps DEF Coordinator
<1>2. CASE Interrupt
  BY <1>2, InterruptKeeps
<1>3. CASE ProjectCode
  BY <1>3, ProjectCodeKeeps
<1>4. CASE UNCHANGED vars
  BY <1>4 DEF IInv, TypeOK, SweptPart, ResultPart, Survivors, Group, Escaped, Runnable,
              vars, coordinatorVars, processVars
<1> QED BY <1>1, <1>2, <1>3, <1>4 DEF Next

-----------------------------------------------------------------------------
(* The theorems                                                            *)

\* The inductive invariant holds in every behaviour of a native run.
THEOREM NativeInvariant == Spec => []IInv
<1>1. Init => IInv
  BY InitIInv
<1>2. IInv /\ [Next]_vars => IInv'
  BY NextIInv
<1> QED BY <1>1, <1>2, PTL DEF Spec

\* The variables keep their types, and an exit code is a dead leader's.
THEOREM NativeTypes == Spec => []TypeOK
<1>1. IInv => TypeOK
  BY DEF IInv
<1> QED BY <1>1, NativeInvariant, PTL

\* After the sweep no process of the command's group runs project code, also
\* none that was forked while the sweep was under way.
THEOREM SweepTheorem == Spec => []NoSurvivorInGroup
<1>1. IInv => NoSurvivorInGroup
  BY DEF IInv, SweptPart, Swept, Survivors, NoSurvivorInGroup
<1> QED BY <1>1, NativeInvariant, PTL

-----------------------------------------------------------------------------
(* The promise of run_command                                              *)

Executing == Survivors # {}
Verdict   == IF result = NoResult THEN "none"
             ELSE IF result.exit = "none" THEN "doubt" ELSE "known"

\* The call starts with nothing running and no verdict.
LEMMA InitMaps == ASSUME Init PROVE Boundary!Init
BY DEF Init, Boundary!Init, Group

\* Every step of coordinator and project code is one the promise allows, or one
\* that it does not see.
LEMMA StepMaps ==
  ASSUME IInv, [Next]_vars
  PROVE  [Boundary!Next]_<<Executing, Verdict>>
<1> USE DEF Boundary!Next, Boundary!StartCode, Boundary!StopCode, Boundary!Answer
<1>0. IInv'
  BY NextIInv
<1>1. Executing = (Group \cap Runnable # {})
  BY DEF Executing, Survivors
<1>2. CASE Answer
  <2>1. Executing' = Executing /\ result = NoResult
    BY <1>2 DEF IInv, ResultPart, Answer, Goto, processVars, Executing, Survivors, Group,
                Escaped, Runnable
  <2>2. result' # NoResult => ~Executing
    BY <1>0, <2>1 DEF IInv, ResultPart, Executing
  <2> QED BY <2>1, <2>2 DEF Executing, Verdict, Survivors
<1>3. CASE ~Answer
  <2>1. result' = result
    BY <1>3 DEF Next, Coordinator, Launch, Reap, TimeOut, Terminate, GraceOver, Sweep,
                SweepAgain, Drain, Interrupt, ProjectCode, Fork, Escape, CloseOutput, End,
                coordinatorVars, vars
  <2>2. CASE Executing' = Executing
    BY <2>1, <2>2 DEF Verdict
  <2>3. CASE Executing /\ ~Executing'
    BY <2>1, <2>3 DEF Executing, Verdict, Survivors
  <2>4. CASE ~Executing /\ Executing'
    <3>1. result = NoResult
      BY <1>0, <2>1, <2>4 DEF IInv, ResultPart, Executing
    <3> QED BY <2>1, <2>4, <3>1 DEF Executing, Verdict, Survivors
  <2> QED BY <2>2, <2>3, <2>4 DEF Executing
<1> QED BY <1>2, <1>3

\* The native path implements the promise of run_command for the command's
\* group: one verdict at most, and after it no project code in the group.
THEOREM BoundaryRefined == Spec => KeepsBoundary
<1>1. Init => Boundary!Init
  BY InitMaps
<1>2. IInv /\ [Next]_vars => [Boundary!Next]_<<Executing, Verdict>>
  BY StepMaps
<1>3. IInv /\ [Next]_vars => [Boundary!Next]_(Boundary!vars)
  BY <1>2 DEF Executing, Verdict, Survivors, Boundary!vars
<1> QED BY <1>1, <1>3, NativeInvariant, PTL DEF Spec, KeepsBoundary, Boundary!Spec

=============================================================================
