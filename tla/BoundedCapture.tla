--------------------------- MODULE BoundedCapture ---------------------------
(***************************************************************************)
(* The output capture of the command runner (class _BoundedCapture of      *)
(* runner.py) with the thread that feeds it (_drain_stream) and the        *)
(* coordinator that renders it.  A command writes a finite stream; the     *)
(* thread reads it in chunks of any size up to the read size and feeds     *)
(* every chunk; the capture keeps the first half of its limit from the     *)
(* front of the stream and the other half from its end.  The coordinator   *)
(* renders after its joins, which may time out: the thread may still be    *)
(* reading then, so a render can happen between any two feeds.             *)
(*                                                                         *)
(* A byte is modelled by its offset in the stream, so that the order, the  *)
(* duplication and the loss of bytes are visible; its value is not.        *)
(***************************************************************************)
EXTENDS Integers, Sequences

CONSTANTS
  Limits,     \* values of the constructor argument "limit" under study
  ReadSize,   \* largest chunk one read returns (64 * 1024 in the code)
  StreamLen,  \* number of bytes the command writes before end of file
  NotRendered \* the coordinator has not rendered the capture yet

ASSUME CaptureAssumption ==
  /\ Limits \subseteq Nat
  /\ ReadSize \in Nat
  /\ StreamLen \in Nat

VARIABLES
  limit,    \* self._limit, fixed by the constructor
  head,     \* self._head
  tail,     \* self._tail
  total,    \* self._total
  offset,   \* position of the reading thread in the stream
  reading,  \* the thread is still in its loop
  rendered  \* what render() returned, or NotRendered

vars == <<limit, head, tail, total, offset, reading, rendered>>

Offsets == 0 .. StreamLen - 1

\* The bytes of the stream from offset "from" up to, not including, "upto".
Window(from, upto) == [i \in 1 .. upto - from |-> from + i - 1]

AtMost(a, b) == IF a <= b THEN a ELSE b

HeadLimit == limit \div 2
TailLimit == limit - HeadLimit

-----------------------------------------------------------------------------

Init ==
  /\ limit \in Limits
  /\ head = <<>>
  /\ tail = <<>>
  /\ total = 0
  /\ offset = 0
  /\ reading = TRUE
  /\ rendered = NotRendered

\* Mutant: a chunk that starts in the head goes there as a whole.
WholeChunk(n) == IF Len(head) < HeadLimit THEN n ELSE 0

\* The part of a chunk of n bytes that goes to the head.
HeadShare(n) ==
  LET remaining == HeadLimit - Len(head)
  IN  IF remaining > 0 THEN AtMost(remaining, n) ELSE 0

\* Mutant: nothing is deleted.
KeepAll(s, keep) == s

\* Mutant: the wrong end is deleted.
KeepFirst(s, keep) == IF Len(s) > keep THEN SubSeq(s, 1, keep) ELSE s

\* The last "keep" elements of a sequence.
KeepLast(s, keep) ==
  IF Len(s) > keep THEN SubSeq(s, Len(s) - keep + 1, Len(s)) ELSE s

\* One turn of the loop of the thread: read a chunk, feed it under the lock.
Feed(n) ==
  LET chunk == Window(offset, offset + n)
      taken == HeadShare(n)
  IN  /\ reading
      /\ offset + n <= StreamLen
      /\ total' = total + n
      /\ head' = head \o SubSeq(chunk, 1, taken)
      /\ tail' = KeepLast(tail \o SubSeq(chunk, taken + 1, n), TailLimit)
      /\ offset' = offset + n
      /\ UNCHANGED <<limit, reading, rendered>>

\* The loop ends: an empty read at end of file, or the ValueError a read
\* raises because the coordinator closed the stream.
StopReading ==
  /\ reading
  /\ reading' = FALSE
  /\ UNCHANGED <<limit, head, tail, total, offset, rendered>>

\* The coordinator renders the capture.  "omitted" is the number printed in
\* the marker between head and tail, 0 when the text has no marker.
Render ==
  /\ rendered = NotRendered
  /\ rendered' = [upto    |-> offset,
                  head    |-> head,
                  tail    |-> tail,
                  omitted |-> IF total <= limit THEN 0
                              ELSE total - Len(head) - Len(tail)]
  /\ UNCHANGED <<limit, head, tail, total, offset, reading>>

Next ==
  \/ \E n \in 1 .. ReadSize : Feed(n)
  \/ StopReading
  \/ Render

Spec == Init /\ [][Next]_vars

-----------------------------------------------------------------------------

\* Every variable holds a value of its kind, and each buffer stays within its
\* share of the limit, however much the command writes.
TypeOK ==
  /\ limit \in Nat
  /\ head \in Seq(Nat) /\ Len(head) <= HeadLimit
  /\ tail \in Seq(Nat) /\ Len(tail) <= TailLimit
  /\ total \in Nat
  /\ offset \in 0 .. StreamLen
  /\ reading \in BOOLEAN

\* However the stream was cut into chunks, the two buffers hold the first
\* bytes and the last bytes of what was read: nothing is reordered or counted
\* twice, and the head never overlaps the tail.
WindowExact ==
  /\ total = offset
  /\ head = Window(0, AtMost(offset, HeadLimit))
  /\ tail = Window(offset - AtMost(offset - Len(head), TailLimit), offset)

\* The evidence a report shows accounts for every byte read before render():
\* without a marker it is the whole stream so far, with a marker the printed
\* number is exactly what is missing between the two parts, and the retained
\* evidence never exceeds the limit.
RenderHonest ==
  rendered # NotRendered =>
    LET front == Len(rendered.head)
        back  == Len(rendered.tail)
    IN  /\ front + back <= limit
        /\ front + rendered.omitted + back = rendered.upto
        /\ rendered.head = Window(0, front)
        /\ rendered.tail = Window(front + rendered.omitted, rendered.upto)

=============================================================================
