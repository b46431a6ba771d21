------------------------- MODULE GitBounded_proofs -------------------------
(***************************************************************************)
(* Proofs about GitBounded for all limits, chunk and pipe sizes.           *)
(* The argument: no byte of a stream is lost before its limit is passed,   *)
(* so a reader that came to its end by itself has stored the stream when   *)
(* nobody can write to it any more; the caller looks at the readers before *)
(* it closes their pipes, and what it saw then cannot change before it     *)
(* takes the bytes.                                                        *)
(***************************************************************************)
EXTENDS GitBounded, TLAPS

\* git was started; git was awaited; the pipes are not closed yet.
Awaited   == {"join-out", "join-err", "close-out", "close-err", "check", "take", "returned"}
PipesOpen == {"launch", "wait", "terminate", "grace", "reap", "join-out", "join-err", "close-out"}

\* The steps after the join of a stream's reader.
Joined(s) == Awaited \ (IF s = "out" THEN {"join-out"} ELSE {"join-out", "join-err"})

\* Everything written to the stream is stored, and nobody can write more.
Whole(s) ==
  /\ state["git"] = "ended"
  /\ s = "err" => state["helper"] # "running"
  /\ hand[s] = 0 /\ pipe[s] = 0

\* The amounts are natural numbers, and nothing is lost below the limit.
AmountsPart ==
  /\ {hand, stored, written, pipe} \subseteq [Streams -> Nat]
  /\ \A s \in Streams : s \notin exceeded => written[s] = stored[s] + hand[s] + pipe[s]

ProcessPart ==
  /\ pc = "launch" => state["git"] = "none"
  /\ \A s \in Streams : reader[s] # "ready" => state["git"] # "none"
  /\ pc \in Awaited => state["git"] = "ended" /\ returncode = exit
  /\ pc \in {"terminate", "grace", "reap"} => timedOut
  /\ signal["git"] # "none" => timedOut \/ exceeded # {}
  /\ pc = "take" /\ ~TruncationAllowed => signal["git"] = "none"

\* How a reader came to its end, and what the caller knows of one that was
\* done when it was joined.
ReaderPart ==
  /\ pc \in PipesOpen => closed = {}
  /\ \A s \in Streams :
       /\ reader[s] = "kill" => s \in exceeded
       /\ reader[s] = "done" => s \in exceeded \/ s \in closed \/ Whole(s)
       /\ pc \in Joined(s) /\ s \notin late =>
            reader[s] = "done" /\ (s \in exceeded \/ Whole(s))
  /\ pc = "take" /\ ~TruncationAllowed => "out" \in late \/ "out" \notin exceeded

ResultPart ==
  /\ pc # "returned" => result.kind = "none"
  /\ HasBytes =>
       /\ TruncationAllowed => result.size = Wanted
       /\ ~TruncationAllowed =>
            /\ signal["git"] = "none"
            /\ call.kind # "remote" => exit = "zero"
            /\ call.kind = "blob" => result.size = call.size
            /\ "out" \notin late => result.size = written["out"]

IInv == TypeOK /\ AmountsPart /\ ProcessPart /\ ReaderPart /\ ResultPart

-----------------------------------------------------------------------------
(* Limits                                                                  *)

\* What a caller takes of a stream is a number, whatever it asks for.
LEMMA LimitsAreNumbers ==
  ASSUME GitAssumption, call \in Calls
  PROVE  /\ call.size \in Nat /\ Wanted \in Nat
         /\ \A s \in Streams : Limit(s) \in Nat /\ MostOf(s) \in Nat
<1>1. call.size \in Nat
  BY DEF Calls, GitAssumption
<1>2. Wanted \in Nat
  BY <1>1 DEF Wanted, Smaller, GitAssumption
<1> QED BY <1>1, <1>2 DEF Limit, MostOf, GitAssumption

-----------------------------------------------------------------------------
(* The invariant holds at the start and is kept by every step              *)

\* Nothing was started, read or stored.
LEMMA InitIInv == ASSUME GitAssumption, Init PROVE IInv
<1>1. TypeOK
  <2>1. \A s \in Streams : Limit(s) \in Nat /\ MostOf(s) \in Nat
    BY LimitsAreNumbers DEF Init
  <2>2. \A s \in Streams :
          /\ hand[s] \in 0..Chunk /\ pipe[s] \in 0..PipeSize
          /\ stored[s] \in 0..Limit(s)
          /\ written[s] \in (stored[s] + hand[s] + pipe[s])..MostOf(s)
    BY <2>1 DEF Init, GitAssumption
  <2> QED BY <2>2 DEF Init, TypeOK
<1>2. AmountsPart /\ ProcessPart
  BY DEF Init, AmountsPart, ProcessPart, Streams, Processes, Awaited
<1>3. ReaderPart /\ ResultPart
  BY DEF Init, ReaderPart, ResultPart, HasBytes, Streams, Joined, Awaited
<1> QED BY <1>1, <1>2, <1>3 DEF IInv

\* git starts, or nothing does.
LEMMA LaunchKeeps ==
  ASSUME GitAssumption, IInv, Launch
  PROVE  IInv'
<1> USE DEF Launch, Goto, callerVars, readerVars, gitVars
<1>0. TypeOK /\ AmountsPart /\ ProcessPart /\ ReaderPart /\ ResultPart
  BY DEF IInv
<1>1. TypeOK'
  BY <1>0 DEF TypeOK, Limit, Wanted, Signalled, Processes
<1>2. AmountsPart'
  BY <1>0 DEF AmountsPart
<1>3. ProcessPart'
  BY <1>0 DEF ProcessPart, TypeOK, Awaited, TruncationAllowed, Wanted
<1>4. ReaderPart'
  <2>1. \A s \in Streams : reader[s] = "ready"
    BY <1>0 DEF ProcessPart
  <2> QED BY <1>0, <2>1 DEF ReaderPart, Joined, Awaited, PipesOpen, TruncationAllowed, Wanted
<1>5. ResultPart'
  BY <1>0 DEF ResultPart, HasBytes, TruncationAllowed, Wanted, ProcessPart, Awaited
<1> QED BY <1>1, <1>2, <1>3, <1>4, <1>5 DEF IInv

\* git has ended: nobody but its helper can write any more.
LEMMA ReapKeeps ==
  ASSUME GitAssumption, IInv, Reap
  PROVE  IInv'
<1> USE DEF Reap, Goto, callerVars, readerVars, gitVars
<1>0. TypeOK /\ AmountsPart /\ ProcessPart /\ ReaderPart /\ ResultPart
  BY DEF IInv
<1>1. TypeOK'
  BY <1>0 DEF TypeOK, Limit, Wanted, Signalled, Processes
<1>2. AmountsPart'
  BY <1>0 DEF AmountsPart
<1>3. ProcessPart'
  BY <1>0 DEF ProcessPart, TypeOK, Awaited, TruncationAllowed, Wanted
<1>4. ReaderPart'
  BY <1>0 DEF ReaderPart, Whole, Joined, Awaited, PipesOpen, TruncationAllowed, Wanted
<1>5. ResultPart'
  BY <1>0 DEF ResultPart, HasBytes, TruncationAllowed, Wanted, ProcessPart, Awaited
<1> QED BY <1>1, <1>2, <1>3, <1>4, <1>5 DEF IInv

\* The time is over while git runs.
LEMMA TimeOutKeeps ==
  ASSUME GitAssumption, IInv, TimeOut
  PROVE  IInv'
<1> USE DEF TimeOut, Goto, callerVars, readerVars, gitVars
<1>0. TypeOK /\ AmountsPart /\ ProcessPart /\ ReaderPart /\ ResultPart
  BY DEF IInv
<1>1. TypeOK'
  BY <1>0 DEF TypeOK, Limit, Wanted, Signalled, Processes
<1>2. AmountsPart'
  BY <1>0 DEF AmountsPart
<1>3. ProcessPart'
  BY <1>0 DEF ProcessPart, TypeOK, Awaited, TruncationAllowed, Wanted
<1>4. ReaderPart'
  BY <1>0 DEF ReaderPart, Whole, Joined, Awaited, PipesOpen, TruncationAllowed, Wanted
<1>5. ResultPart'
  BY <1>0 DEF ResultPart, HasBytes, TruncationAllowed, Wanted, ProcessPart, Awaited
<1> QED BY <1>1, <1>2, <1>3, <1>4, <1>5 DEF IInv

\* A signal changes no amount and no reader.
LEMMA TerminateKeeps ==
  ASSUME GitAssumption, IInv, Terminate
  PROVE  IInv'
<1> USE DEF Terminate, Goto, callerVars, readerVars, gitVars, Signalled
<1>0. TypeOK /\ AmountsPart /\ ProcessPart /\ ReaderPart /\ ResultPart
  BY DEF IInv
<1>1. TypeOK'
  BY <1>0 DEF TypeOK, Limit, Wanted, Signalled, Processes
<1>2. AmountsPart'
  BY <1>0 DEF AmountsPart
<1>3. ProcessPart'
  BY <1>0 DEF ProcessPart, TypeOK, Awaited, TruncationAllowed, Wanted
<1>4. ReaderPart'
  BY <1>0 DEF ReaderPart, Whole, Joined, Awaited, PipesOpen, TruncationAllowed, Wanted
<1>5. ResultPart'
  BY <1>0 DEF ResultPart, HasBytes, TruncationAllowed, Wanted, ProcessPart, Awaited
<1> QED BY <1>1, <1>2, <1>3, <1>4, <1>5 DEF IInv

\* Neither does the stronger one.
LEMMA GraceOverKeeps ==
  ASSUME GitAssumption, IInv, GraceOver
  PROVE  IInv'
<1> USE DEF GraceOver, Goto, callerVars, readerVars, gitVars, Signalled
<1>0. TypeOK /\ AmountsPart /\ ProcessPart /\ ReaderPart /\ ResultPart
  BY DEF IInv
<1>1. TypeOK'
  BY <1>0 DEF TypeOK, Limit, Wanted, Signalled, Processes
<1>2. AmountsPart'
  BY <1>0 DEF AmountsPart
<1>3. ProcessPart'
  BY <1>0 DEF ProcessPart, TypeOK, Awaited, TruncationAllowed, Wanted
<1>4. ReaderPart'
  BY <1>0 DEF ReaderPart, Whole, Joined, Awaited, PipesOpen, TruncationAllowed, Wanted
<1>5. ResultPart'
  BY <1>0 DEF ResultPart, HasBytes, TruncationAllowed, Wanted, ProcessPart, Awaited
<1> QED BY <1>1, <1>2, <1>3, <1>4, <1>5 DEF IInv

\* A reader that is done when it is joined has come to the end or passed its limit.
LEMMA JoinOutKeeps ==
  ASSUME GitAssumption, IInv, Join("out", "join-out", "join-err")
  PROVE  IInv'
<1> USE DEF Join, Goto, callerVars, readerVars, gitVars
<1>0. TypeOK /\ AmountsPart /\ ProcessPart /\ ReaderPart /\ ResultPart
  BY DEF IInv
<1>1. TypeOK'
  <2>1. late' \cup exceeded' \cup closed' \subseteq Streams
    BY <1>0 DEF TypeOK, Streams
  <2> QED BY <1>0, <2>1 DEF TypeOK, Limit, Wanted
<1>2. AmountsPart'
  BY <1>0 DEF AmountsPart
<1>3. ProcessPart'
  BY <1>0 DEF ProcessPart, TypeOK, Awaited, TruncationAllowed, Wanted
<1>4. ReaderPart'
  <2>1. reader["out"] = "done" => "out" \in exceeded \/ Whole("out")
    BY <1>0 DEF ReaderPart, PipesOpen, Streams
  <2> QED BY <1>0, <2>1 DEF ReaderPart, Whole, Joined, Awaited, PipesOpen, TruncationAllowed, Wanted, Streams
<1>5. ResultPart'
  BY <1>0 DEF ResultPart, HasBytes, TruncationAllowed, Wanted, ProcessPart, Awaited
<1> QED BY <1>1, <1>2, <1>3, <1>4, <1>5 DEF IInv

\* The same for the other reader.
LEMMA JoinErrKeeps ==
  ASSUME GitAssumption, IInv, Join("err", "join-err", "close-out")
  PROVE  IInv'
<1> USE DEF Join, Goto, callerVars, readerVars, gitVars
<1>0. TypeOK /\ AmountsPart /\ ProcessPart /\ ReaderPart /\ ResultPart
  BY DEF IInv
<1>1. TypeOK'
  <2>1. late' \cup exceeded' \cup closed' \subseteq Streams
    BY <1>0 DEF TypeOK, Streams
  <2> QED BY <1>0, <2>1 DEF TypeOK, Limit, Wanted
<1>2. AmountsPart'
  BY <1>0 DEF AmountsPart
<1>3. ProcessPart'
  BY <1>0 DEF ProcessPart, TypeOK, Awaited, TruncationAllowed, Wanted
<1>4. ReaderPart'
  <2>1. reader["err"] = "done" => "err" \in exceeded \/ Whole("err")
    BY <1>0 DEF ReaderPart, PipesOpen, Streams
  <2> QED BY <1>0, <2>1 DEF ReaderPart, Whole, Joined, Awaited, PipesOpen, TruncationAllowed, Wanted, Streams
<1>5. ResultPart'
  BY <1>0 DEF ResultPart, HasBytes, TruncationAllowed, Wanted, ProcessPart, Awaited
<1> QED BY <1>1, <1>2, <1>3, <1>4, <1>5 DEF IInv

\* The pipes are closed after both joins.
LEMMA CloseOutKeeps ==
  ASSUME GitAssumption, IInv, Close("out", "close-out", "close-err")
  PROVE  IInv'
<1> USE DEF Close, Goto, callerVars, readerVars, gitVars
<1>0. TypeOK /\ AmountsPart /\ ProcessPart /\ ReaderPart /\ ResultPart
  BY DEF IInv
<1>1. TypeOK'
  <2>1. late' \cup exceeded' \cup closed' \subseteq Streams
    BY <1>0 DEF TypeOK, Streams
  <2> QED BY <1>0, <2>1 DEF TypeOK, Limit, Wanted
<1>2. AmountsPart'
  BY <1>0 DEF AmountsPart
<1>3. ProcessPart'
  BY <1>0 DEF ProcessPart, TypeOK, Awaited, TruncationAllowed, Wanted
<1>4. ReaderPart'
  BY <1>0 DEF ReaderPart, Whole, Joined, Awaited, PipesOpen, TruncationAllowed, Wanted
<1>5. ResultPart'
  BY <1>0 DEF ResultPart, HasBytes, TruncationAllowed, Wanted, ProcessPart, Awaited
<1> QED BY <1>1, <1>2, <1>3, <1>4, <1>5 DEF IInv

\* The same for the other pipe.
LEMMA CloseErrKeeps ==
  ASSUME GitAssumption, IInv, Close("err", "close-err", "check")
  PROVE  IInv'
<1> USE DEF Close, Goto, callerVars, readerVars, gitVars
<1>0. TypeOK /\ AmountsPart /\ ProcessPart /\ ReaderPart /\ ResultPart
  BY DEF IInv
<1>1. TypeOK'
  <2>1. late' \cup exceeded' \cup closed' \subseteq Streams
    BY <1>0 DEF TypeOK, Streams
  <2> QED BY <1>0, <2>1 DEF TypeOK, Limit, Wanted
<1>2. AmountsPart'
  BY <1>0 DEF AmountsPart
<1>3. ProcessPart'
  BY <1>0 DEF ProcessPart, TypeOK, Awaited, TruncationAllowed, Wanted
<1>4. ReaderPart'
  BY <1>0 DEF ReaderPart, Whole, Joined, Awaited, PipesOpen, TruncationAllowed, Wanted
<1>5. ResultPart'
  BY <1>0 DEF ResultPart, HasBytes, TruncationAllowed, Wanted, ProcessPart, Awaited
<1> QED BY <1>1, <1>2, <1>3, <1>4, <1>5 DEF IInv

\* What the check saw of a reader that is done stays true.
LEMMA CheckKeeps ==
  ASSUME GitAssumption, IInv, Check
  PROVE  IInv'
<1> USE DEF Check, Goto, callerVars, readerVars, gitVars, Refused
<1>0. TypeOK /\ AmountsPart /\ ProcessPart /\ ReaderPart /\ ResultPart
  BY DEF IInv
<1>1. TypeOK'
  BY <1>0 DEF TypeOK, Limit, Wanted, Signalled, Processes
<1>2. AmountsPart'
  BY <1>0 DEF AmountsPart
<1>3. ProcessPart'
  <2>1. pc' = "take" /\ ~TruncationAllowed => ~timedOut /\ exceeded = {}
    BY <1>0 DEF TypeOK, Streams
  <2> QED BY <1>0, <2>1 DEF ProcessPart, Awaited, TruncationAllowed, Wanted
<1>4. ReaderPart'
  BY <1>0 DEF ReaderPart, Whole, Joined, Awaited, PipesOpen, TruncationAllowed, Wanted
<1>5. ResultPart'
  BY <1>0 DEF ResultPart, HasBytes, TruncationAllowed, Wanted, ProcessPart, Awaited
<1> QED BY <1>1, <1>2, <1>3, <1>4, <1>5 DEF IInv

\* The bytes are taken from readers that are done, or were let go.
LEMMA TakeKeeps ==
  ASSUME GitAssumption, IInv, Take
  PROVE  IInv'
<1> USE DEF Take, Goto, callerVars, readerVars, gitVars
<1>0. TypeOK /\ AmountsPart /\ ProcessPart /\ ReaderPart /\ ResultPart
  BY DEF IInv
<1>1. TypeOK'
  <2>1. stored["out"] \in Nat
    BY <1>0 DEF AmountsPart, Streams
  <2>2. \/ result' = [kind |-> "bytes", size |-> stored["out"]]
        \/ result' = [kind |-> "absent"]
        \/ result' = [kind |-> "error"]
    BY DEF AnswerOf, Bytes
  <2>3. result' \in [kind : {"none", "absent", "error"}] \cup [kind : {"bytes"}, size : Nat]
    BY <2>1, <2>2
  <2> QED BY <1>0, <2>3 DEF TypeOK, Limit, Wanted
<1>2. AmountsPart'
  BY <1>0 DEF AmountsPart
<1>3. ProcessPart'
  BY <1>0 DEF ProcessPart, TypeOK, Awaited, TruncationAllowed, Wanted
<1>4. ReaderPart'
  BY <1>0 DEF ReaderPart, Whole, Joined, Awaited, PipesOpen, TruncationAllowed, Wanted
<1>5. ResultPart'
  <2>1. pc' = "returned" /\ UNCHANGED <<call, late, exit, signal, written, stored>>
    OBVIOUS
  <2> SUFFICES ASSUME result'.kind = "bytes"
               PROVE  /\ TruncationAllowed => result'.size = Wanted
                      /\ ~TruncationAllowed =>
                           /\ signal["git"] = "none"
                           /\ call.kind # "remote" => exit = "zero"
                           /\ call.kind = "blob" => result'.size = call.size
                           /\ "out" \notin late => result'.size = written["out"]
    BY <2>1 DEF ResultPart, HasBytes, TruncationAllowed, Wanted
  <2>2. result' = Bytes /\ result'.size = stored["out"]
    BY DEF AnswerOf, Bytes
  <2>3. call.kind = "blob" => returncode = "zero" /\ stored["out"] = call.size
    BY DEF AnswerOf
  <2>4. call.kind = "prefix" =>
          stored["out"] = Wanted /\ (call.size <= Wanted => returncode = "zero")
    BY DEF AnswerOf
  <2>5. call.kind \notin {"blob", "prefix", "remote"} => returncode = "zero"
    BY DEF AnswerOf
  <2>6. returncode = exit
    BY <1>0 DEF ProcessPart, Awaited
  <2>7. ASSUME ~TruncationAllowed, call.kind # "remote" PROVE exit = "zero"
    <3>1. call.size \in Nat /\ Wanted \in Nat
      BY <1>0, LimitsAreNumbers DEF TypeOK
    <3> QED BY <2>3, <2>4, <2>5, <2>6, <2>7, <3>1 DEF TruncationAllowed
  <2>8. ASSUME ~TruncationAllowed, "out" \notin late PROVE stored["out"] = written["out"]
    <3>1. Whole("out") /\ "out" \notin exceeded
      BY <1>0, <2>8 DEF ReaderPart, Joined, Awaited, Streams
    <3>2. stored["out"] \in Nat
      BY <1>0 DEF AmountsPart, Streams
    <3> QED BY <1>0, <3>1, <3>2 DEF AmountsPart, Whole, Streams
  <2>9. ~TruncationAllowed => signal["git"] = "none"
    BY <1>0 DEF ProcessPart
  <2> QED BY <2>2, <2>3, <2>4, <2>7, <2>8, <2>9 DEF TruncationAllowed
<1> QED BY <1>1, <1>2, <1>3, <1>4, <1>5 DEF IInv

\* An interrupted call gives no answer.
LEMMA InterruptKeeps ==
  ASSUME GitAssumption, IInv, Interrupt
  PROVE  IInv'
<1> USE DEF Interrupt, Goto, callerVars, readerVars, gitVars
<1>0. TypeOK /\ AmountsPart /\ ProcessPart /\ ReaderPart /\ ResultPart
  BY DEF IInv
<1>1. TypeOK'
  BY <1>0 DEF TypeOK, Limit, Wanted, Signalled, Processes
<1>2. AmountsPart'
  BY <1>0 DEF AmountsPart
<1>3. ProcessPart'
  BY <1>0 DEF ProcessPart, TypeOK, Awaited, TruncationAllowed, Wanted
<1>4. ReaderPart'
  BY <1>0 DEF ReaderPart, Whole, Joined, Awaited, PipesOpen, TruncationAllowed, Wanted
<1>5. ResultPart'
  BY <1>0 DEF ResultPart, HasBytes, TruncationAllowed, Wanted, ProcessPart, Awaited
<1> QED BY <1>1, <1>2, <1>3, <1>4, <1>5 DEF IInv

\* A reader starts while git is there.
LEMMA StartReadKeeps ==
  ASSUME GitAssumption, IInv, NEW s \in Streams, StartRead(s)
  PROVE  IInv'
<1> USE DEF StartRead, Goto, callerVars, readerVars, gitVars
<1>0. TypeOK /\ AmountsPart /\ ProcessPart /\ ReaderPart /\ ResultPart
  BY DEF IInv
<1>1. TypeOK'
  BY <1>0 DEF TypeOK, Limit, Wanted, Signalled, Processes
<1>2. AmountsPart'
  BY <1>0 DEF AmountsPart
<1>3. ProcessPart'
  BY <1>0 DEF ProcessPart, TypeOK, Awaited, TruncationAllowed, Wanted
<1>4. ReaderPart'
  BY <1>0 DEF ReaderPart, Whole, Joined, Awaited, PipesOpen, TruncationAllowed, Wanted
<1>5. ResultPart'
  BY <1>0 DEF ResultPart, HasBytes, TruncationAllowed, Wanted, ProcessPart, Awaited
<1> QED BY <1>1, <1>2, <1>3, <1>4, <1>5 DEF IInv

\* What leaves the pipe is in the hand.
LEMMA ReceiveKeeps ==
  ASSUME GitAssumption, IInv, NEW s \in Streams, Receive(s)
  PROVE  IInv'
<1> USE DEF Receive, Goto, callerVars, readerVars, gitVars
<1>0. TypeOK /\ AmountsPart /\ ProcessPart /\ ReaderPart /\ ResultPart
  BY DEF IInv
<1>1. TypeOK'
  <2>1. hand[s] \in Nat /\ pipe[s] \in Nat /\ stored[s] \in Nat /\ written[s] \in Nat
    BY <1>0 DEF AmountsPart
  <2>2. Limit(s) \in Nat /\ MostOf(s) \in Nat /\ Chunk \in Nat /\ PipeSize \in Nat
    BY <1>0, LimitsAreNumbers DEF TypeOK, GitAssumption
  <2> DEFINE n == Smaller(pipe[s], Chunk - hand[s])
  <2>3. n \in Nat /\ n <= pipe[s] /\ hand[s] + n <= Chunk
    BY <1>0, <2>1, <2>2 DEF Smaller, TypeOK
  <2>4. /\ hand' = [hand EXCEPT ![s] = hand[s] + n]
        /\ pipe' = [pipe EXCEPT ![s] = pipe[s] - n]
    OBVIOUS
  <2> HIDE DEF n
  <2>5. UNCHANGED <<call, stored, written>>
    OBVIOUS
  <2>6. \A t \in Streams :
          /\ hand'[t] \in 0..Chunk /\ pipe'[t] \in 0..PipeSize
          /\ stored'[t] \in 0..Limit(t)
          /\ written'[t] \in (stored'[t] + hand'[t] + pipe'[t])..MostOf(t)
    <3>1. ASSUME NEW t \in Streams, t # s
          PROVE  hand'[t] = hand[t] /\ pipe'[t] = pipe[t]
      BY <1>0, <2>4, <3>1 DEF AmountsPart
    <3>2. hand'[s] = hand[s] + n /\ pipe'[s] = pipe[s] - n
      BY <1>0, <2>4 DEF AmountsPart
    <3>3. /\ hand'[s] \in 0..Chunk /\ pipe'[s] \in 0..PipeSize
          /\ stored[s] + hand'[s] + pipe'[s] = stored[s] + hand[s] + pipe[s]
      BY <1>0, <2>1, <2>2, <2>3, <3>2 DEF TypeOK
    <3> QED BY <1>0, <2>5, <3>1, <3>3 DEF TypeOK
  <2> QED BY <1>0, <2>5, <2>6 DEF TypeOK, Limit, Wanted
<1>2. AmountsPart'
  <2>1. hand[s] \in Nat /\ pipe[s] \in Nat /\ stored[s] \in Nat /\ written[s] \in Nat
    BY <1>0 DEF AmountsPart
  <2>2. Limit(s) \in Nat /\ MostOf(s) \in Nat /\ Chunk \in Nat /\ PipeSize \in Nat
    BY <1>0, LimitsAreNumbers DEF TypeOK, GitAssumption
  <2> DEFINE n == Smaller(pipe[s], Chunk - hand[s])
  <2>3. n \in Nat /\ n <= pipe[s] /\ hand[s] + n <= Chunk
    BY <1>0, <2>1, <2>2 DEF Smaller, TypeOK
  <2>4. /\ hand' = [hand EXCEPT ![s] = hand[s] + n]
        /\ pipe' = [pipe EXCEPT ![s] = pipe[s] - n]
    OBVIOUS
  <2> HIDE DEF n
  <2>5. hand' \in [Streams -> Nat] /\ pipe' \in [Streams -> Nat]
    <3>1. hand[s] + n \in Nat /\ pipe[s] - n \in Nat
      BY <2>1, <2>3
    <3> QED BY <1>0, <2>4, <3>1 DEF AmountsPart
  <2>6. \A t \in Streams : hand'[t] + pipe'[t] = hand[t] + pipe[t]
    BY <1>0, <2>1, <2>3, <2>4 DEF AmountsPart
  <2>7. UNCHANGED <<stored, written, exceeded>>
    OBVIOUS
  <2>8. ASSUME NEW t \in Streams, t \notin exceeded
        PROVE  written[t] = stored[t] + hand'[t] + pipe'[t]
    <3>1. /\ stored[t] \in Nat /\ hand[t] \in Nat /\ pipe[t] \in Nat
          /\ hand'[t] \in Nat /\ pipe'[t] \in Nat
      BY <1>0, <2>5 DEF AmountsPart
    <3>2. written[t] = stored[t] + hand[t] + pipe[t]
      BY <1>0, <2>8 DEF AmountsPart
    <3> QED BY <2>6, <3>1, <3>2
  <2> QED BY <1>0, <2>5, <2>7, <2>8 DEF AmountsPart
<1>3. ProcessPart'
  BY <1>0 DEF ProcessPart, TypeOK, Awaited, TruncationAllowed, Wanted
<1>4. ReaderPart'
  BY <1>0 DEF ReaderPart, Whole, Joined, Awaited, PipesOpen, TruncationAllowed, Wanted
<1>5. ResultPart'
  BY <1>0 DEF ResultPart, HasBytes, TruncationAllowed, Wanted, ProcessPart, Awaited
<1> QED BY <1>1, <1>2, <1>3, <1>4, <1>5 DEF IInv

\* A reader ends with empty hands when the pipe is empty and has no writer.
LEMMA EndReadKeeps ==
  ASSUME GitAssumption, IInv, NEW s \in Streams, EndRead(s)
  PROVE  IInv'
<1> USE DEF EndRead, Goto, callerVars, readerVars, gitVars
<1>0. TypeOK /\ AmountsPart /\ ProcessPart /\ ReaderPart /\ ResultPart
  BY DEF IInv
<1>1. TypeOK'
  BY <1>0 DEF TypeOK, Limit, Wanted, Signalled, Processes
<1>2. AmountsPart'
  BY <1>0 DEF AmountsPart
<1>3. ProcessPart'
  BY <1>0 DEF ProcessPart, TypeOK, Awaited, TruncationAllowed, Wanted
<1>4. ReaderPart'
  <2>1. hand[s] = 0 => Whole(s)
    <3>1. Chunk # 0
      BY DEF GitAssumption
    <3>2. state["git"] # "none" /\ state["git"] \in {"none", "running", "ended"}
      BY <1>0 DEF ProcessPart, TypeOK, Processes
    <3> QED BY <3>1, <3>2 DEF Whole, Open, Running
  <2>2. /\ reader' = [reader EXCEPT ![s] = IF hand[s] = 0 THEN "done" ELSE "feed"]
        /\ reader[s] = "reading"
        /\ UNCHANGED <<call, pc, late, hand, exceeded, closed, pipe, state>>
    OBVIOUS
  <2> HIDE DEF EndRead
  <2>3. \A t \in Streams : Whole(t)' <=> Whole(t)
    BY <2>2 DEF Whole
  <2>4. ASSUME NEW t \in Streams
        PROVE  /\ reader'[t] = "kill" => t \in exceeded
               /\ reader'[t] = "done" => t \in exceeded \/ t \in closed \/ Whole(t)
               /\ pc \in Joined(t) /\ t \notin late =>
                    reader'[t] = "done" /\ (t \in exceeded \/ Whole(t))
    <3>1. reader \in [Streams -> {"ready", "reading", "feed", "kill", "done"}]
      BY <1>0 DEF TypeOK
    <3> QED BY <1>0, <2>1, <2>2, <3>1 DEF ReaderPart
  <2> QED BY <1>0, <2>2, <2>3, <2>4 DEF ReaderPart, TruncationAllowed, Wanted, Joined
<1>5. ResultPart'
  BY <1>0 DEF ResultPart, HasBytes, TruncationAllowed, Wanted, ProcessPart, Awaited
<1> QED BY <1>1, <1>2, <1>3, <1>4, <1>5 DEF IInv

\* Below the limit the whole hand is stored.
LEMMA FeedKeeps ==
  ASSUME GitAssumption, IInv, NEW s \in Streams, Feed(s)
  PROVE  IInv'
<1> USE DEF Feed, Goto, callerVars, readerVars, gitVars
<1>0. TypeOK /\ AmountsPart /\ ProcessPart /\ ReaderPart /\ ResultPart
  BY DEF IInv
<1>1. TypeOK'
  <2>1. hand[s] \in Nat /\ pipe[s] \in Nat /\ stored[s] \in Nat /\ written[s] \in Nat
    BY <1>0 DEF AmountsPart
  <2>2. Limit(s) \in Nat /\ MostOf(s) \in Nat /\ Chunk \in Nat /\ PipeSize \in Nat
    BY <1>0, LimitsAreNumbers DEF TypeOK, GitAssumption
  <2>3. /\ stored' = [stored EXCEPT ![s] = Smaller(stored[s] + hand[s], Limit(s))]
        /\ hand' = [hand EXCEPT ![s] = 0]
        /\ exceeded' = IF Fits(s) THEN exceeded ELSE exceeded \cup {s}
        /\ UNCHANGED <<call, written, pipe>>
    OBVIOUS
  <2>4. /\ Smaller(stored[s] + hand[s], Limit(s)) \in 0..Limit(s)
        /\ Smaller(stored[s] + hand[s], Limit(s)) <= stored[s] + hand[s]
        /\ Fits(s) => Smaller(stored[s] + hand[s], Limit(s)) = stored[s] + hand[s]
    BY <2>1, <2>2 DEF Smaller, Fits
  <2>5. ASSUME NEW t \in Streams
        PROVE  /\ t # s => stored'[t] = stored[t] /\ hand'[t] = hand[t]
               /\ stored'[s] = Smaller(stored[s] + hand[s], Limit(s)) /\ hand'[s] = 0
    BY <1>0, <2>3 DEF AmountsPart
  <2>6. \A t \in Streams :
          /\ hand'[t] \in 0..Chunk /\ pipe'[t] \in 0..PipeSize
          /\ stored'[t] \in 0..Limit(t)
          /\ written'[t] \in (stored'[t] + hand'[t] + pipe'[t])..MostOf(t)
    <3>1. /\ hand'[s] \in 0..Chunk /\ stored'[s] \in 0..Limit(s)
          /\ written[s] \in (stored'[s] + hand'[s] + pipe[s])..MostOf(s)
      BY <1>0, <2>1, <2>2, <2>4, <2>5 DEF TypeOK
    <3> QED BY <1>0, <2>3, <2>5, <3>1 DEF TypeOK
  <2>7. late' \cup exceeded' \cup closed' \subseteq Streams
    BY <1>0 DEF TypeOK
  <2> QED BY <1>0, <2>3, <2>6, <2>7 DEF TypeOK, Limit, Wanted
<1>2. AmountsPart'
  <2>1. hand[s] \in Nat /\ pipe[s] \in Nat /\ stored[s] \in Nat /\ written[s] \in Nat
    BY <1>0 DEF AmountsPart
  <2>2. Limit(s) \in Nat /\ MostOf(s) \in Nat /\ Chunk \in Nat /\ PipeSize \in Nat
    BY <1>0, LimitsAreNumbers DEF TypeOK, GitAssumption
  <2>3. /\ stored' = [stored EXCEPT ![s] = Smaller(stored[s] + hand[s], Limit(s))]
        /\ hand' = [hand EXCEPT ![s] = 0]
        /\ exceeded' = IF Fits(s) THEN exceeded ELSE exceeded \cup {s}
        /\ UNCHANGED <<call, written, pipe>>
    OBVIOUS
  <2>4. /\ Smaller(stored[s] + hand[s], Limit(s)) \in 0..Limit(s)
        /\ Smaller(stored[s] + hand[s], Limit(s)) <= stored[s] + hand[s]
        /\ Fits(s) => Smaller(stored[s] + hand[s], Limit(s)) = stored[s] + hand[s]
    BY <2>1, <2>2 DEF Smaller, Fits
  <2>5. ASSUME NEW t \in Streams
        PROVE  /\ t # s => stored'[t] = stored[t] /\ hand'[t] = hand[t]
               /\ stored'[s] = Smaller(stored[s] + hand[s], Limit(s)) /\ hand'[s] = 0
    BY <1>0, <2>3 DEF AmountsPart
  <2>6. hand' \in [Streams -> Nat] /\ stored' \in [Streams -> Nat]
    BY <1>0, <2>2, <2>3, <2>4 DEF AmountsPart
  <2>7. ASSUME NEW t \in Streams, t \notin exceeded'
        PROVE  written[t] = stored'[t] + hand'[t] + pipe[t]
    <3>1. t \notin exceeded /\ (t = s => Fits(s))
      BY <2>3, <2>7
    <3>2. written[t] = stored[t] + hand[t] + pipe[t]
      BY <1>0, <3>1 DEF AmountsPart
    <3> QED BY <2>1, <2>4, <2>5, <3>1, <3>2
  <2> QED BY <1>0, <2>3, <2>6, <2>7 DEF AmountsPart
<1>3. ProcessPart'
  BY <1>0 DEF ProcessPart, TypeOK, Awaited, TruncationAllowed, Wanted
<1>4. ReaderPart'
  BY <1>0 DEF ReaderPart, Whole, Joined, Awaited, PipesOpen, TruncationAllowed, Wanted
<1>5. ResultPart'
  BY <1>0 DEF ResultPart, HasBytes, TruncationAllowed, Wanted, ProcessPart, Awaited
<1> QED BY <1>1, <1>2, <1>3, <1>4, <1>5 DEF IInv

\* A reader that stops has seen its limit passed.
LEMMA KillGitKeeps ==
  ASSUME GitAssumption, IInv, NEW s \in Streams, KillGit(s)
  PROVE  IInv'
<1> USE DEF KillGit, Goto, callerVars, readerVars, gitVars
<1>0. TypeOK /\ AmountsPart /\ ProcessPart /\ ReaderPart /\ ResultPart
  BY DEF IInv
<1>1. TypeOK'
  BY <1>0 DEF TypeOK, Limit, Wanted, Signalled, Processes
<1>2. AmountsPart'
  BY <1>0 DEF AmountsPart
<1>3. ProcessPart'
  <2>1. /\ signal' = Signalled({"git"}, "kill") /\ s \in exceeded
        /\ UNCHANGED <<pc, state, returncode, exit, timedOut, exceeded, call>>
    BY <1>0 DEF ReaderPart
  <2>2. signal'["git"] # signal["git"] => state["git"] = "running"
    BY <1>0, <2>1 DEF Signalled, Running, TypeOK, Processes
  <2>3. reader'[s] # "ready" => state["git"] # "none"
    BY <1>0 DEF ProcessPart
  <2>4. \A t \in Streams : reader'[t] # "ready" => state["git"] # "none"
    BY <1>0, <2>3 DEF ProcessPart, TypeOK
  <2> QED BY <1>0, <2>1, <2>2, <2>4 DEF ProcessPart, Awaited, TruncationAllowed, Wanted
<1>4. ReaderPart'
  BY <1>0 DEF ReaderPart, Whole, Joined, Awaited, PipesOpen, TruncationAllowed, Wanted
<1>5. ResultPart'
  <2>1. pc = "returned" => signal'["git"] = signal["git"]
    BY <1>0 DEF ProcessPart, Awaited, Signalled, Running, Processes
  <2> QED BY <1>0, <2>1 DEF ResultPart, HasBytes, TruncationAllowed, Wanted
<1> QED BY <1>1, <1>2, <1>3, <1>4, <1>5 DEF IInv

\* git writes only while it runs.
LEMMA WriteKeeps ==
  ASSUME GitAssumption, IInv, NEW s \in Streams, Write(s)
  PROVE  IInv'
<1> USE DEF Write, Goto, callerVars, readerVars, gitVars
<1>0. TypeOK /\ AmountsPart /\ ProcessPart /\ ReaderPart /\ ResultPart
  BY DEF IInv
<1>1. TypeOK'
  <2>1. hand[s] \in Nat /\ pipe[s] \in Nat /\ stored[s] \in Nat /\ written[s] \in Nat
    BY <1>0 DEF AmountsPart
  <2>2. Limit(s) \in Nat /\ MostOf(s) \in Nat /\ Chunk \in Nat /\ PipeSize \in Nat
    BY <1>0, LimitsAreNumbers DEF TypeOK, GitAssumption
  <2>3. /\ written' = [written EXCEPT ![s] = written[s] + 1]
        /\ pipe' = [pipe EXCEPT ![s] = pipe[s] + 1]
        /\ UNCHANGED <<call, stored, hand>>
    OBVIOUS
  <2>4. \A t \in Streams :
          /\ hand'[t] \in 0..Chunk /\ pipe'[t] \in 0..PipeSize
          /\ stored'[t] \in 0..Limit(t)
          /\ written'[t] \in (stored'[t] + hand'[t] + pipe'[t])..MostOf(t)
    <3>1. ASSUME NEW t \in Streams, t # s
          PROVE  written'[t] = written[t] /\ pipe'[t] = pipe[t]
      BY <1>0, <2>3, <3>1 DEF AmountsPart
    <3>2. written'[s] = written[s] + 1 /\ pipe'[s] = pipe[s] + 1
      BY <1>0, <2>3 DEF AmountsPart
    <3>3. /\ pipe'[s] \in 0..PipeSize
          /\ written'[s] \in (stored[s] + hand[s] + pipe'[s])..MostOf(s)
      BY <1>0, <2>1, <2>2, <3>2 DEF TypeOK
    <3> QED BY <1>0, <2>3, <3>1, <3>3 DEF TypeOK
  <2> QED BY <1>0, <2>3, <2>4 DEF TypeOK, Limit, Wanted
<1>2. AmountsPart'
  BY <1>0 DEF AmountsPart
<1>3. ProcessPart'
  BY <1>0 DEF ProcessPart, TypeOK, Awaited, TruncationAllowed, Wanted
<1>4. ReaderPart'
  <2>1. \A t \in Streams : Whole(t) => Whole(t)'
    BY <1>0 DEF Whole, Running
  <2> QED BY <1>0, <2>1 DEF ReaderPart, Joined, Awaited, PipesOpen, TruncationAllowed, Wanted
<1>5. ResultPart'
  <2>1. pc \notin Awaited
    BY <1>0 DEF ProcessPart, Running
  <2> QED BY <1>0, <2>1 DEF ResultPart, HasBytes, Awaited, TruncationAllowed, Wanted
<1> QED BY <1>1, <1>2, <1>3, <1>4, <1>5 DEF IInv

\* A helper is started only by a git that runs.
LEMMA StartHelperKeeps ==
  ASSUME GitAssumption, IInv, StartHelper
  PROVE  IInv'
<1> USE DEF StartHelper, Goto, callerVars, readerVars, gitVars
<1>0. TypeOK /\ AmountsPart /\ ProcessPart /\ ReaderPart /\ ResultPart
  BY DEF IInv
<1>1. TypeOK'
  BY <1>0 DEF TypeOK, Limit, Wanted, Signalled, Processes
<1>2. AmountsPart'
  BY <1>0 DEF AmountsPart
<1>3. ProcessPart'
  BY <1>0 DEF ProcessPart, TypeOK, Awaited, TruncationAllowed, Wanted
<1>4. ReaderPart'
  <2>1. \A t \in Streams : Whole(t) => Whole(t)'
    BY <1>0 DEF Whole, Running, TypeOK, Processes
  <2> QED BY <1>0, <2>1 DEF ReaderPart, Joined, Awaited, PipesOpen, TruncationAllowed, Wanted
<1>5. ResultPart'
  BY <1>0 DEF ResultPart, HasBytes, TruncationAllowed, Wanted, ProcessPart, Awaited
<1> QED BY <1>1, <1>2, <1>3, <1>4, <1>5 DEF IInv

\* What ends writes no more.
LEMMA EndKeeps ==
  ASSUME GitAssumption, IInv, NEW p \in Processes, NEW code \in {"zero", "nonzero"}, End(p, code)
  PROVE  IInv'
<1> USE DEF End, Goto, callerVars, readerVars, gitVars
<1>0. TypeOK /\ AmountsPart /\ ProcessPart /\ ReaderPart /\ ResultPart
  BY DEF IInv
<1>1. TypeOK'
  BY <1>0 DEF TypeOK, Limit, Wanted, Signalled, Processes
<1>2. AmountsPart'
  BY <1>0 DEF AmountsPart
<1>3. ProcessPart'
  <2>1. p \in {"git", "helper"} /\ state \in [{"git", "helper"} -> {"none", "running", "ended"}]
    BY <1>0 DEF TypeOK, Processes
  <2> QED BY <1>0, <2>1 DEF ProcessPart, Awaited, Running, TruncationAllowed, Wanted
<1>4. ReaderPart'
  BY <1>0 DEF ReaderPart, Whole, Joined, Awaited, PipesOpen, TruncationAllowed, Wanted
<1>5. ResultPart'
  <2>1. pc \in Awaited => p # "git"
    BY <1>0 DEF ProcessPart, Running
  <2> QED BY <1>0, <2>1 DEF ResultPart, HasBytes, Awaited, TruncationAllowed, Wanted
<1> QED BY <1>1, <1>2, <1>3, <1>4, <1>5 DEF IInv

\* Every step keeps the invariant.
LEMMA NextIInv == ASSUME GitAssumption, IInv, [Next]_vars PROVE IInv'
<1>1. CASE Caller
  BY <1>1, LaunchKeeps, ReapKeeps, TimeOutKeeps, TerminateKeeps, GraceOverKeeps, JoinOutKeeps,
     JoinErrKeeps, CloseOutKeeps, CloseErrKeeps, CheckKeeps, TakeKeeps DEF Caller
<1>2. CASE Interrupt
  BY <1>2, InterruptKeeps
<1>3. ASSUME NEW s \in Streams, Reader(s) PROVE IInv'
  BY <1>3, StartReadKeeps, ReceiveKeeps, EndReadKeeps, FeedKeeps, KillGitKeeps DEF Reader
<1>4. CASE Git
  BY <1>4, WriteKeeps, StartHelperKeeps, EndKeeps DEF Git
<1>5. CASE UNCHANGED vars
  <2> USE DEF vars, callerVars, readerVars, gitVars
  <2>0. TypeOK /\ AmountsPart /\ ProcessPart /\ ReaderPart /\ ResultPart
    BY DEF IInv
  <2>1. TypeOK' /\ AmountsPart' /\ ProcessPart'
    BY <1>5, <2>0 DEF TypeOK, Limit, Wanted, AmountsPart, ProcessPart, TruncationAllowed
  <2>2. ReaderPart' /\ ResultPart'
    BY <1>5, <2>0 DEF ReaderPart, ResultPart, Whole, HasBytes, Joined, TruncationAllowed, Wanted
  <2> QED BY <2>1, <2>2 DEF IInv
<1> QED BY <1>1, <1>2, <1>3, <1>4, <1>5 DEF Next

-----------------------------------------------------------------------------
(* The theorems                                                            *)

\* The inductive invariant holds in every behaviour of a Git call.
THEOREM GitInvariant == Spec => []IInv
<1>1. Init => IInv
  BY GitAssumption, InitIInv
<1>2. IInv /\ [Next]_vars => IInv'
  BY GitAssumption, NextIInv
<1> QED BY <1>1, <1>2, PTL DEF Spec

\* The variables keep their types: no buffer passes its limit, no pipe its size,
\* and what was written covers what is in the pipe, in a hand or stored.
THEOREM GitTypes == Spec => []TypeOK
<1>1. IInv => TypeOK
  BY DEF IInv
<1> QED BY <1>1, GitInvariant, PTL

\* Output that is returned is all that a git wrote that nobody cut short and,
\* unless repository_display asked, that succeeded, or exactly the prefix asked for.
THEOREM WholeTheorem == Spec => []OutputIsWhole
<1>1. ASSUME IInv PROVE OutputIsWhole
  <2> SUFFICES ASSUME HasBytes, "out" \notin late \/ LengthIsKnown
               PROVE  IF TruncationAllowed
                        THEN result.size = Wanted
                        ELSE /\ result.size = written["out"]
                             /\ signal["git"] = "none"
                             /\ call.kind # "remote" => exit = "zero"
    BY DEF OutputIsWhole
  <2> QED BY <1>1 DEF IInv, ResultPart, LengthIsKnown
<1> QED BY <1>1, GitInvariant, PTL

=============================================================================
