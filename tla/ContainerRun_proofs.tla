------------------------ MODULE ContainerRun_proofs ------------------------
(***************************************************************************)
(* Proofs about ContainerRun.  Why a known exit code is quiet: the last    *)
(* look at the daemon comes after the client ended, so nobody is left who  *)
(* could ask for a start.  A create request that is still on its way can   *)
(* bring a container into being after the look, and the container then     *)
(* stays as it was created.                                                *)
(***************************************************************************)
EXTENDS ContainerRun, TLAPS

\* No project code runs and nobody is left to have it started.
Quiet ==
  /\ client # "alive"
  /\ \/ container \in {"none", "removed"}
     \/ container = "created" /\ request # "start"

\* Who is reaped when: past the grace period the client has ended, unless an
\* exception cut the wait short, and then no answer is given.
ReapedPart ==
  /\ pc = "launch" =>
       client = "none" /\ request = "none" /\ container = "none" /\ ~interrupted
  /\ pc \in {"remove-again", "look-again", "drain"} => interrupted \/ client = "exited"
  /\ pc \in {"answer", "returned"} => ~interrupted /\ client # "alive"

\* What the last look at the daemon has established.
VerifiedPart ==
  pc \in {"drain", "answer"} => doubt \/ interrupted \/ Quiet

ResultPart ==
  /\ pc # "returned" => result = NoResult
  /\ result # NoResult /\ result.exit # "none" => Quiet

IInv == TypeOK /\ ReapedPart /\ VerifiedPart /\ ResultPart

-----------------------------------------------------------------------------
(* The invariant holds at the start and is kept by every step              *)

\* No command has been started, no container has been asked for.
LEMMA InitIInv == ASSUME Init PROVE IInv
BY DEF Init, IInv, TypeOK, ReapedPart, VerifiedPart, ResultPart, Quiet, ExitCodes

\* Quiet stays: whoever outlives the client can only serve a create request,
\* let the container end or remove it.
LEMMA QuietStays == ASSUME TypeOK, Quiet, Outside PROVE Quiet'
BY DEF TypeOK, Quiet, Outside, SendCreate, SendStart, ClientEnds, ServeCreate, ServeStart,
       Refuse, ProjectCodeEnds, AutoRemove, Working, coordinatorVars, clientVars, daemonVars

\* A client that starts is awaited; one that does not start leaves nothing behind.
LEMMA LaunchKeeps == ASSUME IInv, Launch PROVE IInv'
BY DEF IInv, TypeOK, ReapedPart, VerifiedPart, ResultPart, Quiet, Launch, Goto,
       clientVars, daemonVars, ExitCodes

\* The client ended by itself.
LEMMA SeeExitKeeps == ASSUME IInv, SeeExit PROVE IInv'
BY DEF IInv, TypeOK, ReapedPart, VerifiedPart, ResultPart, Quiet, SeeExit, Goto,
       clientVars, daemonVars, ExitCodes

\* The deadline passed with the client alive: it is removed and terminated first.
LEMMA TimeOutKeeps == ASSUME IInv, TimeOut PROVE IInv'
BY DEF IInv, TypeOK, ReapedPart, VerifiedPart, ResultPart, Quiet, TimeOut, Goto,
       clientVars, daemonVars, ExitCodes

\* The client is reaped when it has ended, else it gets SIGTERM.
LEMMA TerminateKeeps == ASSUME IInv, Terminate PROVE IInv'
BY DEF IInv, TypeOK, ReapedPart, VerifiedPart, ResultPart, Quiet, Terminate, FinallyStep, Goto,
       clientVars, daemonVars, ExitCodes

\* The client has ended, so the removal that follows has no rival.
LEMMA ReapKeeps == ASSUME IInv, Reap PROVE IInv'
BY DEF IInv, TypeOK, ReapedPart, VerifiedPart, ResultPart, Quiet, Reap, FinallyStep, Goto,
       clientVars, daemonVars, ExitCodes

\* SIGKILL, and on to awaiting the client.
LEMMA GraceOverKeeps == ASSUME IInv, GraceOver PROVE IInv'
BY DEF IInv, TypeOK, ReapedPart, VerifiedPart, ResultPart, Quiet, GraceOver, Goto,
       clientVars, daemonVars, ExitCodes

\* The answer follows the drain only without an exception on its way.
LEMMA DrainKeeps == ASSUME IInv, Drain PROVE IInv'
BY DEF IInv, TypeOK, ReapedPart, VerifiedPart, ResultPart, Quiet, Drain, Goto,
       clientVars, daemonVars, ExitCodes

\* A known exit code is reported only without a doubt.
LEMMA AnswerKeeps == ASSUME IInv, Answer PROVE IInv'
BY DEF IInv, TypeOK, ReapedPart, VerifiedPart, ResultPart, Quiet, Answer, ReportedExit, CommandPassed, ExpectedPass, Goto,
       clientVars, daemonVars, ExitCodes

\* An exception leaves the awaited client alive, and no answer is given.
LEMMA InterruptKeeps == ASSUME IInv, Interrupt PROVE IInv'
BY DEF IInv, TypeOK, ReapedPart, VerifiedPart, ResultPart, Quiet, Interrupt, Goto,
       clientVars, daemonVars, ExitCodes

\* The removal and the look at the daemon, before and after the client's end:
\* only the second look verifies anything.
LEMMA CleanupKeeps ==
  ASSUME IInv,
         \/ Remove("remove", "look") \/ Remove("remove-again", "look-again")
         \/ RemoveRefused("remove", "look") \/ RemoveRefused("remove-again", "look-again")
         \/ Look("look") \/ Look("look-again")
         \/ \E from \in {"remove", "look", "remove-again", "look-again"} : CleanupBreaks(from)
  PROVE  IInv'
<1> USE DEF IInv, TypeOK, ReapedPart, VerifiedPart, ResultPart, Quiet, Goto, AfterCleanup,
            clientVars, daemonVars
<1>1. CASE Remove("remove", "look") \/ Remove("remove-again", "look-again")
  BY <1>1 DEF Remove
<1>2. CASE RemoveRefused("remove", "look") \/ RemoveRefused("remove-again", "look-again")
  BY <1>2 DEF RemoveRefused
<1>3. CASE Look("look")
  BY <1>3 DEF Look
<1>4. CASE Look("look-again")
  BY <1>4 DEF Look
<1>5. ASSUME NEW from \in {"remove", "look", "remove-again", "look-again"}, CleanupBreaks(from)
      PROVE  IInv'
  BY <1>5 DEF CleanupBreaks
<1> QED BY <1>1, <1>2, <1>3, <1>4, <1>5

\* Client and daemon keep the types, the daemon's requests and states included.
LEMMA OutsideTypes == ASSUME TypeOK, Outside PROVE TypeOK'
<1>1. ASSUME NEW exit \in ExitCodes, ClientEnds(exit) PROVE TypeOK'
  <2>1. UNCHANGED <<pc, expected, phase, timedOut, exitCode, doubt, interrupted, result,
                    signal, request, container, ran>>
    BY <1>1 DEF ClientEnds, coordinatorVars, daemonVars
  <2> QED BY <1>1, <2>1 DEF TypeOK, ClientEnds
<1>2. CASE SendCreate \/ SendStart \/ ServeCreate \/ ServeStart \/ Refuse
  BY <1>2, ZenonT(40) DEF TypeOK, SendCreate, SendStart, ServeCreate, ServeStart, Refuse,
              coordinatorVars, clientVars
<1>3. CASE ProjectCodeEnds \/ AutoRemove
  BY <1>3 DEF TypeOK, ProjectCodeEnds, AutoRemove, coordinatorVars, clientVars
<1> QED BY <1>1, <1>2, <1>3 DEF Outside

\* What the client and the daemon do, at any point of the coordinator.
LEMMA OutsideKeeps == ASSUME IInv, Outside PROVE IInv'
<1> USE DEF IInv, Outside, SendCreate, SendStart, ClientEnds, ServeCreate, ServeStart,
            Refuse, ProjectCodeEnds, AutoRemove, coordinatorVars, clientVars, daemonVars
<1>1. TypeOK'
  BY OutsideTypes
<1>2. ReapedPart'
  BY DEF TypeOK, ReapedPart, Working
<1>3. VerifiedPart' /\ ResultPart'
  BY QuietStays DEF VerifiedPart, ResultPart
<1> QED BY <1>1, <1>2, <1>3

\* Every step keeps the invariant.
LEMMA NextIInv == ASSUME IInv, [Next]_vars PROVE IInv'
<1>1. CASE Coordinator
  BY <1>1, LaunchKeeps, SeeExitKeeps, TimeOutKeeps, TerminateKeeps, ReapKeeps,
     GraceOverKeeps, DrainKeeps, AnswerKeeps, CleanupKeeps DEF Coordinator
<1>2. CASE Interrupt
  BY <1>2, InterruptKeeps
<1>3. CASE Outside
  BY <1>3, OutsideKeeps
<1>4. CASE UNCHANGED vars
  BY <1>4 DEF IInv, TypeOK, ReapedPart, VerifiedPart, ResultPart, Quiet,
              vars, coordinatorVars, clientVars, daemonVars
<1> QED BY <1>1, <1>2, <1>3, <1>4 DEF Next

-----------------------------------------------------------------------------
(* The theorems                                                            *)

\* The inductive invariant holds in every behaviour of a container run.
THEOREM ContainerInvariant == Spec => []IInv
<1>1. Init => IInv
  BY InitIInv
<1>2. IInv /\ [Next]_vars => IInv'
  BY NextIInv
<1> QED BY <1>1, <1>2, PTL DEF Spec

\* The variables keep their types, and no step of the coordinator uses the
\* client's process object before there is one.
THEOREM ContainerTypes == Spec => []TypeOK
<1>1. IInv => TypeOK
  BY DEF IInv
<1> QED BY <1>1, ContainerInvariant, PTL

\* From the last removal on the client is gone and asks the daemon for nothing.
THEOREM AskedTheorem == Spec => NothingIsAskedAfterRemoval
<1> DEFINE Removing == /\ pc \in {"remove-again", "look-again", "drain", "answer", "returned"}
                       /\ ~interrupted
           Quietly  == Removing => request' \in {request, "none"}
<1>1. ASSUME IInv, [Next]_vars PROVE Quietly
  <2> SUFFICES ASSUME Removing PROVE request' \in {request, "none"}
    OBVIOUS
  <2>1. client # "alive"
    BY <1>1 DEF IInv, ReapedPart
  <2>2. CASE Outside
    BY <2>1, <2>2 DEF Outside, SendCreate, SendStart, Working, ClientEnds, ServeCreate,
                      ServeStart, Refuse, ProjectCodeEnds, AutoRemove, daemonVars
  <2>3. CASE Coordinator
    BY <2>3 DEF Coordinator, Launch, SeeExit, TimeOut, Terminate, Reap, GraceOver, Drain,
                Answer, Remove, RemoveRefused, Look, CleanupBreaks, daemonVars
  <2>4. CASE Interrupt \/ UNCHANGED vars
    BY <2>4 DEF Interrupt, vars, daemonVars
  <2> QED BY <1>1, <2>2, <2>3, <2>4 DEF Next
<1>2. IInv /\ [Next]_vars => [Quietly]_vars
  BY <1>1
<1> QED BY <1>2, ContainerInvariant, PTL DEF Spec, NothingIsAskedAfterRemoval

\* Once an exit code was reported no project code runs in the container.
THEOREM QuietTheorem == Spec => []KnownExitIsQuiet
<1>1. IInv => KnownExitIsQuiet
  BY DEF IInv, ResultPart, Quiet, KnownExitIsQuiet
<1> QED BY <1>1, ContainerInvariant, PTL

-----------------------------------------------------------------------------
(* The promise of run_command                                              *)

Executing == container = "running"
Verdict   == IF result = NoResult THEN "none"
             ELSE IF result.exit = "none" THEN "doubt" ELSE "known"

\* The call starts with nothing running and no verdict.
LEMMA InitMaps == ASSUME Init PROVE Boundary!Init
BY DEF Init, Boundary!Init

\* Every step of coordinator, client and daemon is one the promise allows, or
\* one that it does not see.
LEMMA StepMaps ==
  ASSUME IInv, [Next]_vars
  PROVE  [Boundary!Next]_<<Executing, Verdict>>
<1> USE DEF Executing, Verdict
<1>0. IInv'
  BY NextIInv
<1>1. CASE Answer
  <2>1. container' = container /\ result = NoResult /\ pc = "answer"
    BY <1>1 DEF IInv, ResultPart, Answer, Goto, daemonVars
  <2>2. CASE result' = NoResult
    BY <2>1, <2>2
  <2>3. CASE result' # NoResult /\ result'.exit = "none"
    BY <2>1, <2>3 DEF Boundary!Next, Boundary!Answer
  <2>4. CASE result' # NoResult /\ result'.exit # "none"
    <3>1. container # "running"
      BY <1>0, <2>1, <2>4 DEF IInv, ResultPart, Quiet
    <3> QED BY <2>1, <2>4, <3>1 DEF Boundary!Next, Boundary!Answer
  <2> QED BY <2>2, <2>3, <2>4
<1>2. CASE ServeStart
  <2>1. result' = result
    BY <1>2 DEF ServeStart, coordinatorVars
  <2>2. CASE container = "created"
    <3>1. container' = "running"
      BY <1>2, <2>2 DEF ServeStart
    <3>2. Verdict # "known"
      BY <1>0, <2>1, <3>1 DEF IInv, ResultPart, Quiet
    <3> QED BY <2>1, <3>1, <3>2 DEF Boundary!Next, Boundary!StartCode
  <2>3. CASE container # "created"
    BY <1>2, <2>1, <2>3 DEF ServeStart
  <2> QED BY <2>2, <2>3
<1>3. CASE \/ Remove("remove", "look") \/ Remove("remove-again", "look-again")
           \/ ProjectCodeEnds
  <2>1. result' = result /\ (container' # "running" \/ container' = container)
    BY <1>3 DEF Remove, ProjectCodeEnds, coordinatorVars
  <2> QED BY <2>1 DEF Boundary!Next, Boundary!StopCode
<1>4. CASE \/ SendCreate \/ SendStart \/ \E exit \in ExitCodes : ClientEnds(exit)
           \/ ServeCreate \/ Refuse \/ AutoRemove
  <2>1. result' = result /\ (container' = "running" <=> container = "running")
    BY <1>4 DEF SendCreate, SendStart, ClientEnds, ServeCreate, Refuse, AutoRemove,
                coordinatorVars, daemonVars
  <2> QED BY <2>1
<1>5. CASE \/ Launch \/ SeeExit \/ TimeOut \/ Terminate \/ Reap \/ GraceOver \/ Drain
           \/ Interrupt \/ UNCHANGED vars
  <2>1. result' = result /\ container' = container
    BY <1>5 DEF Launch, SeeExit, TimeOut, Terminate, Reap, GraceOver, Drain, Interrupt,
                vars, coordinatorVars, daemonVars
  <2> QED BY <2>1
<1>6. CASE \/ RemoveRefused("remove", "look") \/ RemoveRefused("remove-again", "look-again")
           \/ Look("look") \/ Look("look-again")
           \/ \E from \in {"remove", "look", "remove-again", "look-again"} : CleanupBreaks(from)
  <2>1. result' = result /\ container' = container
    BY <1>6 DEF RemoveRefused, Look, CleanupBreaks, daemonVars
  <2> QED BY <2>1
<1> QED BY <1>1, <1>2, <1>3, <1>4, <1>5, <1>6 DEF Next, Coordinator, Outside

\* The container path implements the promise of run_command: one verdict at
\* most, and after a known exit code no project code, then or ever after.
THEOREM BoundaryRefined == Spec => KeepsBoundary
<1>1. Init => Boundary!Init
  BY InitMaps
<1>2. IInv /\ [Next]_vars => [Boundary!Next]_<<Executing, Verdict>>
  BY StepMaps
<1>3. <<Executing, Verdict>> = Boundary!vars
  BY DEF Executing, Verdict, Boundary!vars
<1>4. IInv /\ [Next]_vars => [Boundary!Next]_(Boundary!vars)
  BY <1>2 DEF Executing, Verdict, Boundary!vars
<1> QED BY <1>1, <1>4, ContainerInvariant, PTL DEF Spec, KeepsBoundary, Boundary!Spec

=============================================================================
