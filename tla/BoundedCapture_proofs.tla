----------------------- MODULE BoundedCapture_proofs -----------------------
(***************************************************************************)
(* Proofs about BoundedCapture for every limit, read size and stream.      *)
(* The argument: both buffers are windows of the stream, windows are       *)
(* closed under the two operations the capture uses (concatenation of      *)
(* adjacent windows and sub-sequence), so a feed maps windows to windows.  *)
(***************************************************************************)
EXTENDS BoundedCapture, SequenceTheorems, TLAPS

-----------------------------------------------------------------------------
(* Windows                                                                 *)

\* A window is a sequence of as many offsets as its bounds are apart.
LEMMA WindowIsSeq ==
  ASSUME NEW a \in Nat, NEW b \in Nat, a <= b
  PROVE  /\ Window(a, b) \in Seq(Nat)
         /\ Len(Window(a, b)) = b - a
         /\ \A i \in 1 .. b - a : Window(a, b)[i] = a + i - 1
<1>1. b - a \in Nat
  OBVIOUS
<1>2. Window(a, b) \in [1 .. b - a -> Nat]
  BY DEF Window
<1>3. Window(a, b) \in Seq(Nat)
  BY <1>1, <1>2, SeqDef
<1>4. DOMAIN Window(a, b) = 1 .. b - a
  BY DEF Window
<1>5. Len(Window(a, b)) = b - a
  BY <1>1, <1>3, <1>4, LenProperties
<1> QED
  BY <1>3, <1>5 DEF Window

\* Adjacent windows concatenate to a window.
LEMMA WindowConcat ==
  ASSUME NEW a \in Nat, NEW b \in Nat, NEW c \in Nat, a <= b, b <= c
  PROVE  Window(a, b) \o Window(b, c) = Window(a, c)
<1> DEFINE s == Window(a, b)
           t == Window(b, c)
           u == Window(a, c)
<1>0. a <= c
  OBVIOUS
<1>1. /\ s \in Seq(Nat) /\ Len(s) = b - a
      /\ \A i \in 1 .. b - a : s[i] = a + i - 1
  BY WindowIsSeq, Zenon
<1>2. /\ t \in Seq(Nat) /\ Len(t) = c - b
      /\ \A i \in 1 .. c - b : t[i] = b + i - 1
  BY WindowIsSeq, Zenon
<1>2a. /\ u \in Seq(Nat) /\ Len(u) = c - a
       /\ \A i \in 1 .. c - a : u[i] = a + i - 1
  BY <1>0, WindowIsSeq, Zenon
<1> HIDE DEF s, t, u
<1>3. /\ s \o t \in Seq(Nat)
      /\ Len(s \o t) = c - a
      /\ \A i \in 1 .. c - a :
           (s \o t)[i] = IF i <= b - a THEN s[i] ELSE t[i - (b - a)]
  <2>1. /\ s \o t \in Seq(Nat)
        /\ Len(s \o t) = Len(s) + Len(t)
        /\ \A i \in 1 .. Len(s) + Len(t) :
             (s \o t)[i] = IF i <= Len(s) THEN s[i] ELSE t[i - Len(s)]
    BY <1>1, <1>2, ConcatProperties
  <2>2. Len(s) + Len(t) = c - a
    BY <1>1, <1>2
  <2> QED BY <1>1, <2>1, <2>2
<1>4. ASSUME NEW i \in 1 .. c - a
      PROVE  (s \o t)[i] = u[i]
  <2>1. u[i] = a + i - 1
    BY <1>2a
  <2>2. CASE i <= b - a
    <3>1. s[i] = a + i - 1
      BY <1>1, <2>2
    <3> QED BY <1>3, <2>1, <2>2, <3>1
  <2>3. CASE ~(i <= b - a)
    <3>1. i - (b - a) \in 1 .. c - b
      BY <2>3
    <3>2. t[i - (b - a)] = b + (i - (b - a)) - 1
      BY <1>2, <3>1
    <3> QED BY <1>3, <2>1, <2>3, <3>2
  <2> QED BY <2>2, <2>3
<1>5. s \o t = u
  BY <1>2a, <1>3, <1>4, SeqEqual
<1> QED BY <1>5 DEF s, t, u

\* A sub-sequence of a window is a window.
LEMMA WindowSubSeq ==
  ASSUME NEW a \in Nat, NEW b \in Nat, a <= b
  PROVE  \A i, j \in Nat : 1 <= i /\ i <= j + 1 /\ j <= b - a
           => SubSeq(Window(a, b), i, j) = Window(a + i - 1, a + j)
<1> SUFFICES ASSUME NEW i \in Nat, NEW j \in Nat,
                    1 <= i, i <= j + 1, j <= b - a
             PROVE  SubSeq(Window(a, b), i, j) = Window(a + i - 1, a + j)
  OBVIOUS
<1> DEFINE w == Window(a, b)
           v == Window(a + i - 1, a + j)
<1>0. /\ a + i - 1 \in Nat
      /\ a + j \in Nat
      /\ a + i - 1 <= a + j
      /\ a + j - (a + i - 1) = j - i + 1
  OBVIOUS
<1>1. /\ v \in Seq(Nat)
      /\ Len(v) = j - i + 1
      /\ \A k \in 1 .. j - i + 1 : v[k] = (a + i - 1) + k - 1
  <2> DEFINE x == a + i - 1
             y == a + j
  <2>1. x \in Nat /\ y \in Nat /\ x <= y /\ y - x = j - i + 1
    BY <1>0
  <2> HIDE DEF x, y
  <2>2. /\ Window(x, y) \in Seq(Nat)
        /\ Len(Window(x, y)) = y - x
        /\ \A k \in 1 .. y - x : Window(x, y)[k] = x + k - 1
    BY <2>1, WindowIsSeq
  <2> QED BY <2>1, <2>2 DEF x, y
<1>2. \A k \in i .. j : w[k] = a + k - 1 /\ w[k] \in Nat
  <2> SUFFICES ASSUME NEW k \in i .. j
               PROVE  w[k] = a + k - 1 /\ w[k] \in Nat
    OBVIOUS
  <2>1. k \in 1 .. b - a
    OBVIOUS
  <2>2. w[k] = a + k - 1
    BY <2>1, WindowIsSeq
  <2> QED BY <2>1, <2>2
<1> HIDE DEF w, v
<1>3. /\ SubSeq(w, i, j) \in Seq(Nat)
      /\ Len(SubSeq(w, i, j)) = IF i <= j THEN j - i + 1 ELSE 0
      /\ \A k \in 1 .. j - i + 1 : SubSeq(w, i, j)[k] = w[i + k - 1]
  BY <1>2, SubSeqProperties
<1>4. Len(SubSeq(w, i, j)) = Len(v)
  BY <1>1, <1>3
<1>5. \A k \in 1 .. Len(v) : SubSeq(w, i, j)[k] = v[k]
  <2> SUFFICES ASSUME NEW k \in 1 .. j - i + 1
               PROVE  SubSeq(w, i, j)[k] = v[k]
    BY <1>1
  <2>1. i + k - 1 \in i .. j
    OBVIOUS
  <2>2. w[i + k - 1] = a + (i + k - 1) - 1
    BY <1>2, <2>1
  <2> QED BY <1>1, <1>3, <2>2
<1>6. SubSeq(w, i, j) = v
  BY <1>1, <1>3, <1>4, <1>5, SeqEqual
<1> QED BY <1>6 DEF w, v

\* Keeping the end of a window gives the window that ends at the same offset.
LEMMA WindowKeepLast ==
  ASSUME NEW a \in Nat, NEW b \in Nat, a <= b, NEW keep \in Nat
  PROVE  KeepLast(Window(a, b), keep) = Window(b - AtMost(b - a, keep), b)
<1>0. \A i, j \in Nat : 1 <= i /\ i <= j + 1 /\ j <= b - a
        => SubSeq(Window(a, b), i, j) = Window(a + i - 1, a + j)
  BY WindowSubSeq, Zenon
<1>1. Len(Window(a, b)) = b - a
  BY WindowIsSeq
<1>2. CASE b - a > keep
  <2>1. SubSeq(Window(a, b), (b - a) - keep + 1, b - a)
          = Window(a + ((b - a) - keep + 1) - 1, a + (b - a))
    <3> DEFINE i == (b - a) - keep + 1
               j == b - a
    <3>1. i \in Nat /\ j \in Nat /\ 1 <= i /\ i <= j + 1 /\ j <= b - a
      BY <1>2
    <3> HIDE DEF i, j
    <3>2. SubSeq(Window(a, b), i, j) = Window(a + i - 1, a + j)
      BY <1>0, <3>1, Zenon
    <3> QED BY <3>2 DEF i, j
  <2>2. /\ a + ((b - a) - keep + 1) - 1 = b - keep
        /\ a + (b - a) = b
        /\ AtMost(b - a, keep) = keep
    BY <1>2 DEF AtMost
  <2> QED BY <1>1, <1>2, <2>1, <2>2 DEF KeepLast
<1>3. CASE ~(b - a > keep)
  <2>1. b - AtMost(b - a, keep) = a
    BY <1>3 DEF AtMost
  <2> QED BY <1>1, <1>3, <2>1 DEF KeepLast
<1> QED BY <1>2, <1>3

\* The two halves of a limit: they are natural numbers that add up to it.
LEMMA Halves ==
  ASSUME limit \in Nat
  PROVE  /\ HeadLimit \in Nat
         /\ TailLimit \in Nat
         /\ HeadLimit + TailLimit = limit
BY DEF HeadLimit, TailLimit

-----------------------------------------------------------------------------
(* The invariant                                                           *)

\* The types alone; the bounds of the buffers follow from the windows.
Stored ==
  /\ limit \in Nat
  /\ head \in Seq(Nat)
  /\ tail \in Seq(Nat)
  /\ total \in Nat
  /\ offset \in 0 .. StreamLen
  /\ reading \in BOOLEAN

\* What the proofs carry: the types and the two windows.
IInv == Stored /\ WindowExact

\* The bounds the invariant gives for the two buffers.
LEMMA Bounds ==
  ASSUME IInv
  PROVE  /\ offset \in Nat
         /\ Len(head) = AtMost(offset, HeadLimit)
         /\ Len(tail) = AtMost(offset - Len(head), TailLimit)
         /\ Len(head) \in Nat
         /\ Len(head) <= offset
<1> USE DEF IInv, Stored, WindowExact
<1>1. offset \in Nat /\ HeadLimit \in Nat /\ TailLimit \in Nat
  BY CaptureAssumption, Halves
<1> DEFINE h == AtMost(offset, HeadLimit)
           k == AtMost(offset - h, TailLimit)
<1>2. h \in Nat /\ h <= offset
  BY <1>1 DEF AtMost
<1>3. Len(head) = h
  <2> HIDE DEF h
  <2>1. Len(Window(0, h)) = h - 0
    BY <1>2, WindowIsSeq
  <2> QED BY <1>2, <2>1 DEF h
<1>4. k \in Nat /\ k <= offset
  BY <1>1, <1>2 DEF AtMost
<1>5. tail = Window(offset - k, offset)
  BY <1>3
<1>6. Len(tail) = k
  <2> HIDE DEF k
  <2>1. offset - k \in Nat /\ offset - k <= offset /\ offset - (offset - k) = k
    BY <1>1, <1>4
  <2>2. Len(Window(offset - k, offset)) = offset - (offset - k)
    BY <1>1, <2>1, WindowIsSeq
  <2> QED BY <1>5, <2>1, <2>2
<1> QED BY <1>1, <1>2, <1>3, <1>6

LEMMA InitIInv == Init => IInv
<1> SUFFICES ASSUME Init PROVE IInv
  OBVIOUS
<1>1. Stored
  BY CaptureAssumption DEF Init, Stored
<1>2. HeadLimit \in Nat /\ TailLimit \in Nat
  BY <1>1, Halves DEF Stored
<1>3. Window(0, 0) = <<>>
  BY WindowIsSeq, EmptySeq
<1>4. WindowExact
  BY <1>2, <1>3 DEF Init, WindowExact, AtMost
<1> QED BY <1>1, <1>4 DEF IInv

\* A feed extends the head up to its limit and slides the tail.
LEMMA FeedWindows ==
  ASSUME IInv, NEW n \in 1 .. ReadSize, Feed(n)
  PROVE  IInv'
<1> DEFINE h     == Len(head)
           taken == HeadShare(n)
           chunk == Window(offset, offset + n)
           e     == offset + n
           k     == AtMost(offset - h, TailLimit)
           lo    == offset - k
<1>1. /\ offset \in Nat /\ n \in Nat /\ n > 0 /\ e \in Nat
      /\ HeadLimit \in Nat /\ TailLimit \in Nat
      /\ total = offset
  BY CaptureAssumption, Halves DEF IInv, Stored, WindowExact
<1>2. /\ h = AtMost(offset, HeadLimit)
      /\ h \in Nat
      /\ h <= offset
  BY Bounds
<1>3. /\ taken \in Nat
      /\ taken <= n
      /\ taken = IF h < HeadLimit THEN AtMost(HeadLimit - h, n) ELSE 0
      /\ taken > 0 => h = offset
      /\ h + taken = AtMost(e, HeadLimit)
  BY <1>1, <1>2 DEF HeadShare, AtMost
<1>4. /\ k \in Nat /\ k <= offset /\ lo \in Nat /\ lo <= offset
      /\ tail = Window(lo, offset)
  BY <1>1, <1>2 DEF IInv, WindowExact, AtMost
<1>5. head = Window(0, h)
  BY <1>2 DEF IInv, WindowExact
<1>6a. \A i, j \in Nat : 1 <= i /\ i <= j + 1 /\ j <= e - offset
         => SubSeq(Window(offset, e), i, j) = Window(offset + i - 1, offset + j)
  <2>1. offset \in Nat /\ e \in Nat /\ offset <= e
    BY <1>1
  <2> HIDE DEF e
  <2> QED BY <2>1, WindowSubSeq, Zenon
<1>6. /\ SubSeq(chunk, 1, taken) = Window(offset, offset + taken)
      /\ SubSeq(chunk, taken + 1, n) = Window(offset + taken, e)
  <2> HIDE DEF taken
  <2>1. offset <= e /\ e - offset = n
    BY <1>1
  <2>1a. /\ 1 \in Nat /\ 1 <= 1 /\ 1 <= taken + 1 /\ taken <= e - offset
         /\ taken \in Nat
    BY <1>1, <1>3
  <2>2. SubSeq(chunk, 1, taken) = Window(offset + 1 - 1, offset + taken)
    <3> HIDE DEF e
    <3>1. SubSeq(Window(offset, e), 1, taken)
            = Window(offset + 1 - 1, offset + taken)
      BY <1>6a, <2>1a, Zenon
    <3> QED BY <3>1 DEF e
  <2>3. SubSeq(chunk, taken + 1, n) = Window(offset + (taken + 1) - 1, offset + n)
    <3> DEFINE i == taken + 1
    <3>1. i \in Nat /\ n \in Nat /\ 1 <= i /\ i <= n + 1 /\ n <= e - offset
      BY <1>1, <1>3, <2>1
    <3> HIDE DEF i, e
    <3>2. SubSeq(Window(offset, e), i, n) = Window(offset + i - 1, offset + n)
      BY <1>6a, <3>1, Zenon
    <3> QED BY <3>2 DEF i, e
  <2>4. offset + 1 - 1 = offset /\ offset + (taken + 1) - 1 = offset + taken
    BY <1>1, <1>3
  <2> QED BY <2>2, <2>3, <2>4
<1>7. head' = Window(0, h + taken)
  <2>1. head' = Window(0, h) \o Window(offset, offset + taken)
    BY <1>5, <1>6 DEF Feed
  <2> HIDE DEF h, taken
  <2>2. CASE taken > 0
    <3>0. /\ 0 \in Nat /\ 0 <= offset /\ offset <= offset + taken
          /\ offset + taken \in Nat
      BY <1>1, <1>3
    <3>1. Window(0, offset) \o Window(offset, offset + taken)
            = Window(0, offset + taken)
      BY <1>1, <3>0, WindowConcat, Zenon
    <3> QED BY <1>3, <2>1, <2>2, <3>1
  <2>3. CASE taken = 0
    <3>1. Window(offset, offset) = <<>>
      BY <1>1, WindowIsSeq, EmptySeq
    <3>2. Window(0, h) \in Seq(Nat)
      BY <1>2, WindowIsSeq
    <3>3. Window(0, h) \o <<>> = Window(0, h)
      BY <3>2, ConcatEmptySeq
    <3>4. offset + taken = offset /\ h + taken = h
      BY <1>1, <1>2, <2>3
    <3> QED BY <2>1, <3>1, <3>3, <3>4
  <2> QED BY <1>3, <2>2, <2>3
<1>8. tail' = Window(e - AtMost(e - (h + taken), TailLimit), e)
  <2> DEFINE lo2 == IF taken > 0 THEN offset + taken ELSE lo
  <2>1. tail' = KeepLast(Window(lo, offset) \o Window(offset + taken, e), TailLimit)
    BY <1>4, <1>6 DEF Feed
  <2>2. Window(lo, offset) \o Window(offset + taken, e) = Window(lo2, e)
    <3>1. CASE taken > 0
      <4>1. lo = offset
        BY <1>1, <1>2, <1>3, <3>1 DEF AtMost
      <4>2. Window(offset, offset) = <<>>
        BY <1>1, WindowIsSeq, EmptySeq
      <4> HIDE DEF taken, lo
      <4>3. Window(offset + taken, e) \in Seq(Nat)
        <5>1. offset + taken \in Nat /\ offset + taken <= e
          BY <1>1, <1>3
        <5> QED BY <1>1, <5>1, WindowIsSeq, Zenon
      <4> QED BY <3>1, <4>1, <4>2, <4>3, ConcatEmptySeq
    <3>2. CASE taken = 0
      <4> HIDE DEF taken, lo
      <4>1. offset + taken = offset /\ offset <= e
        BY <1>1, <3>2
      <4>2. Window(lo, offset) \o Window(offset, e) = Window(lo, e)
        BY <1>1, <1>4, <4>1, WindowConcat
      <4> QED BY <3>2, <4>1, <4>2
    <3>3. taken > 0 \/ taken = 0
      <4> HIDE DEF taken
      <4> QED BY <1>3
    <3> QED BY <3>1, <3>2, <3>3, Zenon
  <2>3. lo2 \in Nat /\ lo2 <= e
    <3> HIDE DEF taken, lo
    <3> QED BY <1>1, <1>3, <1>4, SMTT(30)
  <2>4. KeepLast(Window(lo2, e), TailLimit)
          = Window(e - AtMost(e - lo2, TailLimit), e)
    <3> HIDE DEF lo2, e
    <3> QED BY <1>1, <2>3, WindowKeepLast
  <2>5. AtMost(e - lo2, TailLimit) = AtMost(e - (h + taken), TailLimit)
    <3> HIDE DEF taken, h
    <3> QED BY <1>1, <1>2, <1>3 DEF AtMost
  <2> QED BY <2>1, <2>2, <2>4, <2>5
<1>9. WindowExact'
  <2>1. /\ limit' = limit /\ offset' = e /\ total' = e
        /\ HeadLimit' = HeadLimit /\ TailLimit' = TailLimit
    BY <1>1 DEF Feed, HeadLimit, TailLimit
  <2>2. h + taken \in Nat /\ h + taken = AtMost(e, HeadLimit)
    BY <1>2, <1>3
  <2>3. Len(head') = h + taken
    <3> DEFINE m == h + taken
    <3> HIDE DEF m
    <3>1. m \in Nat /\ head' = Window(0, m)
      BY <1>7, <2>2 DEF m
    <3>2. Len(Window(0, m)) = m - 0
      BY <3>1, WindowIsSeq
    <3>3. Len(head') = m
      BY <3>1, <3>2
    <3> QED BY <3>3 DEF m
  <2> HIDE DEF h, taken, e
  <2> QED BY <1>7, <1>8, <2>1, <2>2, <2>3 DEF WindowExact
<1>10. Stored'
  <2>1. head' \in Seq(Nat)
    <3> HIDE DEF h, taken
    <3>1. h + taken \in Nat
      BY <1>2, <1>3
    <3> QED BY <1>7, <3>1, WindowIsSeq
  <2>2. tail' \in Seq(Nat)
    <3> DEFINE m == e - AtMost(e - (h + taken), TailLimit)
    <3>1. m \in Nat /\ m <= e
      <4> HIDE DEF h, taken
      <4> QED BY <1>1, <1>2, <1>3 DEF AtMost
    <3>2. tail' = Window(m, e)
      BY <1>8
    <3> HIDE DEF m, e
    <3> QED BY <1>1, <3>1, <3>2, WindowIsSeq
  <2>3. offset' \in 0 .. StreamLen /\ total' \in Nat
    BY <1>1, CaptureAssumption DEF Feed
  <2> QED BY <2>1, <2>2, <2>3 DEF Feed, IInv, Stored
<1> QED BY <1>9, <1>10 DEF IInv

LEMMA NextIInv == IInv /\ [Next]_vars => IInv'
<1> SUFFICES ASSUME IInv, [Next]_vars PROVE IInv'
  OBVIOUS
<1>1. ASSUME NEW n \in 1 .. ReadSize, Feed(n) PROVE IInv'
  BY <1>1, FeedWindows
<1>2. CASE StopReading
  BY <1>2 DEF StopReading, IInv, Stored, WindowExact, HeadLimit, TailLimit
<1>3. CASE Render
  BY <1>3 DEF Render, IInv, Stored, WindowExact, HeadLimit, TailLimit
<1>4. CASE UNCHANGED vars
  BY <1>4 DEF vars, IInv, Stored, WindowExact, HeadLimit, TailLimit
<1> QED BY <1>1, <1>2, <1>3, <1>4 DEF Next

\* The capture is type correct for every limit, read size and stream, and each
\* buffer keeps within its share of the limit.
THEOREM CaptureTypeOK == Spec => []TypeOK
<1>1. ASSUME IInv PROVE TypeOK
  <2>1. HeadLimit \in Nat /\ TailLimit \in Nat
    BY <1>1, Halves DEF IInv, Stored
  <2>2. Len(head) <= HeadLimit
    BY <1>1, <2>1, Bounds DEF AtMost
  <2>3. Len(tail) <= TailLimit
    BY <1>1, <2>1, Bounds DEF AtMost
  <2> QED BY <1>1, <2>2, <2>3 DEF IInv, Stored, TypeOK
<1> QED BY <1>1, InitIInv, NextIInv, PTL DEF Spec

\* The buffers are the first and the last bytes read, whatever the chunks.
THEOREM CaptureWindowExact == Spec => []WindowExact
<1>1. IInv => WindowExact
  BY DEF IInv
<1> QED BY <1>1, InitIInv, NextIInv, PTL DEF Spec

-----------------------------------------------------------------------------
(* What a render returns                                                   *)

\* Rendering in a state of the invariant gives an honest result.
LEMMA RenderIsHonest ==
  ASSUME IInv, Render
  PROVE  RenderHonest'
<1> DEFINE h == Len(head)
           k == Len(tail)
           o == IF total <= limit THEN 0 ELSE total - h - k
<1>1. /\ offset \in Nat /\ HeadLimit \in Nat /\ TailLimit \in Nat
      /\ limit \in Nat /\ HeadLimit + TailLimit = limit /\ total = offset
  BY CaptureAssumption, Halves DEF IInv, Stored, WindowExact
<1>2. /\ h = AtMost(offset, HeadLimit)
      /\ k = AtMost(offset - h, TailLimit)
  BY Bounds
<1>3. /\ head = Window(0, h)
      /\ tail = Window(offset - k, offset)
  BY <1>2 DEF IInv, WindowExact
<1>4. /\ h + k <= limit
      /\ h + o + k = offset
      /\ h + o = offset - k
  <2> HIDE DEF h, k
  <2> QED BY <1>1, <1>2 DEF AtMost
<1>5. rendered' = [upto |-> offset, head |-> head, tail |-> tail, omitted |-> o]
      /\ limit' = limit
  BY DEF Render
<1>6. /\ rendered'.upto = offset /\ rendered'.head = head
      /\ rendered'.tail = tail /\ rendered'.omitted = o
  BY <1>5
<1> HIDE DEF o
<1> QED BY <1>3, <1>4, <1>5, <1>6 DEF RenderHonest

\* Every report accounts for each byte read before it was rendered.
THEOREM CaptureRenderHonest == Spec => []RenderHonest
<1>1. Init => RenderHonest
  BY DEF Init, RenderHonest
<1>2. IInv /\ RenderHonest /\ [Next]_vars => RenderHonest'
  <2> SUFFICES ASSUME IInv, RenderHonest, [Next]_vars PROVE RenderHonest'
    OBVIOUS
  <2>1. CASE Render
    BY <2>1, RenderIsHonest
  <2>2. CASE UNCHANGED <<limit, rendered>>
    BY <2>2 DEF RenderHonest
  <2>3. ASSUME NEW n \in 1 .. ReadSize, Feed(n) PROVE RenderHonest'
    BY <2>2, <2>3 DEF Feed
  <2>4. CASE StopReading
    BY <2>2, <2>4 DEF StopReading
  <2>5. CASE UNCHANGED vars
    BY <2>2, <2>5 DEF vars
  <2> QED BY <2>1, <2>3, <2>4, <2>5 DEF Next
<1> QED BY <1>1, <1>2, InitIInv, NextIInv, PTL DEF Spec

=============================================================================
