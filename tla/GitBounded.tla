----------------------------- MODULE GitBounded -----------------------------
(***************************************************************************)
(* One Git command and the answer a GitRepo takes from it: the caller of   *)
(* _run_git_bounded (gitutils.py) starts git in a session of its own with  *)
(* a pipe for each output stream, two reader threads move what arrives     *)
(* into limited buffers and kill git when a limit is passed, and the       *)
(* caller waits for git, joins the readers for a while, closes the pipes   *)
(* and decides what the bytes are worth. POSIX hosts.                      *)
(*                                                                         *)
(* Only amounts are kept: a single reader empties a pipe in order, so what *)
(* is stored of a stream is always its beginning.                          *)
(*                                                                         *)
(* External: git writes its two streams in any interleaving and exits with *)
(* zero only when all is written; SIGKILL ends a process, SIGTERM may; git *)
(* may start one helper, which has git's standard error open and stays in  *)
(* its process group; a read of a pipe ends with a whole chunk or when     *)
(* nobody has the other end open; closing a pipe waits for a read of it.   *)
(***************************************************************************)
EXTENDS Naturals, FiniteSets, TLC

CONSTANTS
  MaxOutput, MaxError,  \* bounds on what git writes to either stream
  Chunk,                \* what one read asks for (64 KiB)
  PipeSize,             \* what a pipe holds (external)
  OutputLimit,          \* _MAX_GIT_OUTPUT_BYTES
  ErrorLimit,           \* _MAX_GIT_ERROR_BYTES
  MemberLimit,          \* _MAX_SNAPSHOT_MEMBER_BYTES
  PrefixLimit           \* what a blob is asked for to see whether it is binary

ASSUME GitAssumption ==
  /\ {MaxOutput, MaxError, OutputLimit, ErrorLimit, MemberLimit, PrefixLimit} \subseteq Nat
  /\ {Chunk, PipeSize} \subseteq Nat \ {0}

Streams   == {"out", "err"}
Processes == {"git", "helper"}

\* A call with check=True; file_bytes_at and the size query of _path_is_binary,
\* for which a failed git means that there is nothing; repository_display, which
\* does not look at the exit code; _read_blob; _read_git_blob_prefix. The last
\* two know the size of the blob they ask for.
Calls == [kind : {"run", "file", "remote"}, size : {0}]
           \cup [kind : {"blob", "prefix"}, size : 0..MaxOutput]

VARIABLES
  \* The caller
  call, pc, timedOut, returncode, result,
  late,         \* the streams whose reader was still at work after five seconds
  interrupted,  \* a KeyboardInterrupt reached the caller
  \* The readers
  reader, hand,
  stored, exceeded,  \* the limited buffers
  closed,            \* the pipes the caller has closed
  \* git and its helper
  written, pipe,
  state,    \* "none", "running" or "ended"
  signal,   \* the strongest signal each got
  exit      \* git's exit code, once it has ended

callerVars == <<call, pc, timedOut, returncode, result, late, interrupted>>
readerVars == <<reader, hand, stored, exceeded, closed>>
gitVars    == <<written, pipe, state, signal, exit>>
vars       == <<callerVars, readerVars, gitVars>>

Smaller(a, b) == IF a <= b THEN a ELSE b

\* How much of a blob _read_git_blob_prefix wants.
Wanted == Smaller(call.size, PrefixLimit)

Limit(s) ==
  IF s = "err" THEN ErrorLimit
  ELSE IF call.kind = "blob" THEN call.size
  ELSE IF call.kind = "prefix" THEN Wanted
  ELSE OutputLimit

TruncationAllowed == call.kind = "prefix" /\ call.size > Wanted

Init ==
  /\ call \in Calls
  /\ pc = "launch"
  /\ timedOut = FALSE
  /\ returncode = "none"
  /\ result = [kind |-> "none"]
  /\ late = {}
  /\ interrupted = FALSE
  /\ reader = [s \in Streams |-> "ready"]
  /\ hand = [s \in Streams |-> 0]
  /\ stored = [s \in Streams |-> 0]
  /\ exceeded = {}
  /\ closed = {}
  /\ written = [s \in Streams |-> 0]
  /\ pipe = [s \in Streams |-> 0]
  /\ state = [p \in Processes |-> "none"]
  /\ signal = [p \in Processes |-> "none"]
  /\ exit = "none"

Running(p) == state[p] = "running"

\* A process that has the other end of the pipe open.
Open(s) == Running("git") \/ (s = "err" /\ Running("helper"))

-----------------------------------------------------------------------------
(* The caller                                                              *)

Goto(from, to) == pc = from /\ pc' = to

\* A blob that is too large is not asked for; git may not be found.
Launch ==
  /\ \/ /\ call.kind = "blob" => call.size <= MemberLimit
        /\ Goto("launch", "wait")
        /\ state' = [state EXCEPT !["git"] = "running"]
     \/ Goto("launch", "raised") /\ UNCHANGED state
  /\ UNCHANGED <<call, timedOut, returncode, result, late, interrupted, readerVars,
                 written, pipe, signal, exit>>

\* git has ended, by itself or by a signal: the wait is over.
Reap ==
  /\ pc \in {"wait", "terminate", "grace", "reap"}
  /\ pc' = "join-out"
  /\ state["git"] = "ended"
  /\ returncode' = exit
  /\ UNCHANGED <<call, timedOut, result, late, interrupted, readerVars, gitVars>>

TimeOut ==
  /\ Goto("wait", "terminate")
  /\ Running("git")
  /\ timedOut' = TRUE
  /\ UNCHANGED <<call, returncode, result, late, interrupted, readerVars, gitVars>>

\* Nothing weakens a SIGKILL.
Signalled(ps, sig) ==
  [p \in Processes |-> IF p \in ps /\ Running(p) /\ signal[p] # "kill" THEN sig ELSE signal[p]]

\* killpg: the helper is in git's group.
Terminate ==
  /\ Goto("terminate", "grace")
  /\ Running("git")
  /\ signal' = Signalled(Processes, "term")
  /\ UNCHANGED <<call, timedOut, returncode, result, late, interrupted, readerVars,
                 written, pipe, state, exit>>

\* Mutant: a git that ignores SIGTERM is waited for.
GraceNeverOver ==
  /\ Goto("grace", "reap")
  /\ Running("git")
  /\ UNCHANGED <<call, timedOut, returncode, result, late, interrupted, readerVars, gitVars>>

GraceOver ==
  /\ Goto("grace", "reap")
  /\ Running("git")
  /\ signal' = Signalled(Processes, "kill")
  /\ UNCHANGED <<call, timedOut, returncode, result, late, interrupted, readerVars,
                 written, pipe, state, exit>>

\* Each reader is joined for five seconds, whether that is enough or not.
Join(s, from, to) ==
  /\ Goto(from, to)
  /\ late' = IF reader[s] = "done" THEN late ELSE late \cup {s}
  /\ UNCHANGED <<call, timedOut, returncode, result, interrupted, readerVars, gitVars>>

\* Closing a pipe waits for a read that is under way.
Close(s, from, to) ==
  /\ Goto(from, to)
  /\ reader[s] # "reading"
  /\ closed' = closed \cup {s}
  /\ UNCHANGED <<call, timedOut, returncode, result, late, interrupted,
                 reader, hand, stored, exceeded, gitVars>>

\* The time or a limit was exceeded. Only the caller that asked for a prefix
\* may have more standard output than it takes.
Refused ==
  \/ timedOut
  \/ "err" \in exceeded
  \/ "out" \in exceeded /\ ~TruncationAllowed

Check ==
  /\ Goto("check", IF Refused THEN "raised" ELSE "take")
  /\ UNCHANGED <<call, timedOut, returncode, result, late, interrupted, readerVars, gitVars>>

Bytes == [kind |-> "bytes", size |-> stored["out"]]

\* What the calling method makes of the bytes and the exit code.
AnswerOf ==
  LET Known   == returncode = "zero"
      Kept    == CASE call.kind = "blob"   -> Known /\ stored["out"] = call.size
                   [] call.kind = "prefix" -> /\ stored["out"] = Wanted
                                              /\ call.size <= Wanted => Known
                   [] call.kind = "remote" -> TRUE
                   [] OTHER                -> Known
  IN  IF Kept THEN Bytes
      ELSE [kind |-> IF call.kind = "file" THEN "absent" ELSE "error"]

Take ==
  /\ Goto("take", "returned")
  /\ result' = AnswerOf
  /\ UNCHANGED <<call, timedOut, returncode, late, interrupted, readerVars, gitVars>>

\* Nothing is stopped: git and the readers go on.
Interrupt ==
  /\ pc \notin {"launch", "returned", "raised"}
  /\ pc' = "raised"
  /\ interrupted' = TRUE
  /\ UNCHANGED <<call, timedOut, returncode, result, late, readerVars, gitVars>>

Caller ==
  \/ Launch \/ Reap \/ TimeOut \/ Terminate \/ GraceOver
  \/ Join("out", "join-out", "join-err") \/ Join("err", "join-err", "close-out")
  \/ Close("out", "close-out", "close-err") \/ Close("err", "close-err", "check")
  \/ Check \/ Take

-----------------------------------------------------------------------------
(* The readers                                                             *)

\* The next read of a stream, or the end of the thread if it was closed.
StartRead(s) ==
  /\ state["git"] # "none"
  /\ reader[s] = "ready"
  /\ reader' = [reader EXCEPT ![s] = IF s \in closed THEN "done" ELSE "reading"]
  /\ UNCHANGED <<callerVars, hand, stored, exceeded, closed, gitVars>>

\* Part of a chunk has arrived.
Receive(s) ==
  /\ reader[s] = "reading"
  /\ pipe[s] > 0 /\ hand[s] < Chunk
  /\ LET n == Smaller(pipe[s], Chunk - hand[s])
     IN  /\ hand' = [hand EXCEPT ![s] = @ + n]
         /\ pipe' = [pipe EXCEPT ![s] = @ - n]
  /\ UNCHANGED <<callerVars, reader, stored, exceeded, closed, written,
                 state, signal, exit>>

\* The chunk is full, or there is nothing more to come.
EndRead(s) ==
  /\ reader[s] = "reading"
  /\ hand[s] = Chunk \/ (pipe[s] = 0 /\ ~Open(s))
  /\ reader' = [reader EXCEPT ![s] = IF hand[s] = 0 THEN "done" ELSE "feed"]
  /\ UNCHANGED <<callerVars, hand, stored, exceeded, closed, gitVars>>

Fits(s) == hand[s] <= Limit(s) - stored[s]

\* Mutant: what does not fit is dropped and the reader goes on.
FeedQuietly(s) ==
  /\ reader[s] = "feed"
  /\ stored' = [stored EXCEPT ![s] = Smaller(@ + hand[s], Limit(s))]
  /\ hand' = [hand EXCEPT ![s] = 0]
  /\ reader' = [reader EXCEPT ![s] = "ready"]
  /\ UNCHANGED <<callerVars, exceeded, closed, gitVars>>

\* Mutant: a chunk is stored before its length is looked at.
FeedWhole(s) ==
  /\ reader[s] = "feed"
  /\ stored' = [stored EXCEPT ![s] = @ + hand[s]]
  /\ exceeded' = IF Fits(s) THEN exceeded ELSE exceeded \cup {s}
  /\ hand' = [hand EXCEPT ![s] = 0]
  /\ reader' = [reader EXCEPT ![s] = IF Fits(s) THEN "ready" ELSE "kill"]
  /\ UNCHANGED <<callerVars, closed, gitVars>>

\* _LimitedBuffer.feed, up to the release of its lock.
Feed(s) ==
  /\ reader[s] = "feed"
  /\ stored' = [stored EXCEPT ![s] = Smaller(@ + hand[s], Limit(s))]
  /\ exceeded' = IF Fits(s) THEN exceeded ELSE exceeded \cup {s}
  /\ hand' = [hand EXCEPT ![s] = 0]
  /\ reader' = [reader EXCEPT ![s] = IF Fits(s) THEN "ready" ELSE "kill"]
  /\ UNCHANGED <<callerVars, closed, gitVars>>

\* Mutant: the reader stops without killing git.
LeaveGit(s) ==
  /\ reader[s] = "kill"
  /\ reader' = [reader EXCEPT ![s] = "done"]
  /\ UNCHANGED <<callerVars, hand, stored, exceeded, closed, gitVars>>

\* process.kill: git alone. The reader stops.
KillGit(s) ==
  /\ reader[s] = "kill"
  /\ reader' = [reader EXCEPT ![s] = "done"]
  /\ signal' = Signalled({"git"}, "kill")
  /\ UNCHANGED <<callerVars, hand, stored, exceeded, closed, written, pipe,
                 state, exit>>

Reader(s) == StartRead(s) \/ Receive(s) \/ EndRead(s) \/ Feed(s) \/ KillGit(s)

-----------------------------------------------------------------------------
(* git                                                                     *)

MostOf(s) == IF s = "out" THEN MaxOutput ELSE MaxError

\* Nobody closes the read end of a pipe before git has ended.
Write(s) ==
  /\ Running("git") /\ signal["git"] # "kill"
  /\ written[s] < MostOf(s) /\ pipe[s] < PipeSize
  /\ written' = [written EXCEPT ![s] = @ + 1]
  /\ pipe' = [pipe EXCEPT ![s] = @ + 1]
  /\ UNCHANGED <<callerVars, readerVars, state, signal, exit>>

StartHelper ==
  /\ Running("git") /\ signal["git"] # "kill"
  /\ state["helper"] = "none"
  /\ state' = [state EXCEPT !["helper"] = "running"]
  /\ UNCHANGED <<callerVars, readerVars, written, pipe, signal, exit>>

\* What git has written when it exits with zero is all it had to say; it waits
\* for its helper then.
End(p, code) ==
  /\ Running(p)
  /\ p = "git" /\ code = "zero" => ~Running("helper") /\ signal[p] # "kill"
  /\ state' = [state EXCEPT ![p] = "ended"]
  /\ exit' = IF p = "git" THEN code ELSE exit
  /\ UNCHANGED <<callerVars, readerVars, written, pipe, signal>>

KilledEnds == \E p \in Processes : signal[p] = "kill" /\ End(p, "nonzero")

Git ==
  \/ \E s \in Streams : Write(s)
  \/ StartHelper
  \/ \E p \in Processes, code \in {"zero", "nonzero"} : End(p, code)

-----------------------------------------------------------------------------

Next == Caller \/ Interrupt \/ (\E s \in Streams : Reader(s)) \/ Git

\* The caller's thread and the readers are scheduled, the timeouts fire and
\* killed processes end. Nothing else is assumed of git and its helper. The
\* readers are daemon threads: after an interrupt they are scheduled for as
\* long as the interpreter lives, and fairness assumes that it does.
Spec ==
  /\ Init /\ [][Next]_vars
  /\ WF_vars(Caller)
  /\ \A s \in Streams : WF_vars(Reader(s))
  /\ WF_vars(KilledEnds)

-----------------------------------------------------------------------------
(* Properties                                                              *)

\* Every variable holds a value the program can store; no buffer passes its
\* limit, no pipe its size, and a byte is written, in the pipe, in a reader's
\* hand or stored.
TypeOK ==
  /\ call \in Calls
  /\ pc \in {"launch", "wait", "terminate", "grace", "reap", "join-out", "join-err",
             "close-out", "close-err", "check", "take", "returned", "raised"}
  /\ {timedOut, interrupted} \subseteq BOOLEAN
  /\ {returncode, exit} \subseteq {"none", "zero", "nonzero"}
  /\ result \in [kind : {"none", "absent", "error"}] \cup [kind : {"bytes"}, size : Nat]
  /\ late \cup exceeded \cup closed \subseteq Streams
  /\ reader \in [Streams -> {"ready", "reading", "feed", "kill", "done"}]
  /\ state \in [Processes -> {"none", "running", "ended"}]
  /\ signal \in [Processes -> {"none", "term", "kill"}]
  /\ \A s \in Streams :
       /\ hand[s] \in 0..Chunk /\ pipe[s] \in 0..PipeSize
       /\ stored[s] \in 0..Limit(s)
       /\ written[s] \in (stored[s] + hand[s] + pipe[s])..MostOf(s)

HasBytes == result.kind = "bytes"

\* A reader let go cannot make this answer short.
LengthIsKnown == call.kind = "blob" /\ written["out"] = call.size

\* What a method returns as Git's output is all of it, although two readers,
\* two limits, the timeout and git's own failure race: it returns every byte
\* that git wrote, of a git that was not signalled for its time or for a limit,
\* on either stream, and that succeeded. The exception are the caller that wants
\* a prefix, who gets exactly that, and repository_display, which takes what a
\* git that failed by itself wrote before. The code lets go of a reader after
\* five seconds, and then says nothing of it: only of a blob whose size Git told
\* correctly is nothing missing in this case too.
OutputIsWhole ==
  HasBytes /\ ("out" \notin late \/ LengthIsKnown) =>
    IF TruncationAllowed
      THEN result.size = Wanted
      ELSE /\ result.size = written["out"]
           /\ signal["git"] = "none"
           /\ call.kind # "remote" => exit = "zero"

\* Output beyond a limit ends git at once and not only at the timeout: also
\* when nobody waits for git any more because the caller was interrupted.
LimitStopsGit == exceeded # {} ~> state["git"] = "ended"

\* The call comes back, unless it is interrupted or a helper that survived git
\* keeps git's standard error open for ever.
CallReturns ==
  \/ <>(pc \in {"returned", "raised"})
  \/ <>[](state["helper"] = "running")

=============================================================================
