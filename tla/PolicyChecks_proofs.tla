------------------------ MODULE PolicyChecks_proofs ------------------------
(***************************************************************************)
(* Proofs about DiffLines and PolicyChecks for every patch, whatever lines  *)
(* of it the parser mistakes for headers, and for all limits, kinds of path *)
(* and texts.  While the diff is read there is a place in it up to which    *)
(* the files have exactly the lines of their ordinary changes, or there are *)
(* more files than there will ever be changes for; the findings are then    *)
(* those the catalogue of rules has for the changes one by one, and Git's   *)
(* counts are what the sums add up to.                                      *)
(***************************************************************************)
EXTENDS PolicyChecks, FiniteSetTheorems, SequenceTheorems, TLAPS

-----------------------------------------------------------------------------
(* Induction over the naturals, with sets for predicates                    *)

\* Every set of naturals that is not empty has a least one.
LEMMA LeastNatural ==
  ASSUME NEW T, T \subseteq Nat, T # {}
  PROVE  \E x \in T : \A y \in T : x <= y
<1> DEFINE R == OpToRel(<, Nat)
<1>1. IsWellFoundedOn(R, Nat)
  BY NatLessThanWellFounded
<1>2. \A x, y \in Nat : x < y => <<x, y>> \in R
  BY DEF OpToRel
<1> HIDE DEF R
<1>3. PICK x \in T : \A y \in T : ~ (<<y, x>> \in R)
  BY <1>1, WFMin
<1>4. ASSUME NEW y \in T PROVE x <= y
  <2>1. x \in Nat /\ y \in Nat
    OBVIOUS
  <2>2. ~ (y < x)
    BY <1>2, <1>3, <2>1
  <2> QED BY <2>1, <2>2
<1> QED BY <1>4

\* Induction, for a set in the place of a predicate.
LEMMA NaturalsInSet ==
  ASSUME NEW S, 0 \in S, \A n \in Nat : n \in S => n + 1 \in S
  PROVE  Nat \subseteq S
<1> SUFFICES ASSUME Nat \ S # {} PROVE FALSE
  OBVIOUS
<1>1. PICK x \in Nat \ S : \A y \in Nat \ S : x <= y
  <2> DEFINE T == Nat \ S
  <2>1. T \subseteq Nat /\ T # {}
    OBVIOUS
  <2> HIDE DEF T
  <2>2. \E x \in T : \A y \in T : x <= y
    BY <2>1, LeastNatural
  <2> QED BY <2>2 DEF T
<1>2. x - 1 \in Nat
  BY <1>1
<1> QED BY <1>1, <1>2

\* The greatest position of a part of a sequence.
LEMMA GreatestPosition ==
  ASSUME NEW n \in Nat, NEW s \in SUBSET (1..n), s # {}
  PROVE  /\ Max(s) \in s
         /\ \A i \in s : i <= Max(s)
<1> DEFINE T == {n - i : i \in s}
<1>1. T \subseteq Nat /\ T # {}
  <2>1. \A i \in s : n - i \in Nat
    OBVIOUS
  <2> QED BY <2>1
<1> HIDE DEF T
<1>2. PICK x \in T : \A y \in T : x <= y
  BY <1>1, LeastNatural
<1>3. PICK i \in s : x = n - i
  BY <1>2 DEF T
<1>4. \A j \in s : i >= j
  <2> TAKE j \in s
  <2>1. n - j \in T
    BY DEF T
  <2> QED BY <1>2, <1>3, <2>1
<1>5. \E k \in s : \A j \in s : k >= j
  BY <1>4
<1>6. Max(s) \in s /\ \A j \in s : Max(s) >= j
  BY <1>5 DEF Max
<1> QED BY <1>6

-----------------------------------------------------------------------------
(* Flattened sequences                                                      *)

\* The equation of the recursive function in FlattenSeq.
FlattensTo(f, seqs, n) ==
  f = [i \in 1..n |-> IF i = 1 THEN seqs[i] ELSE f[i-1] \o seqs[i]]

\* The same as far as n, for a function whose domain may be larger.
Flattens(f, seqs, n) ==
  \A i \in 1..n : f[i] = IF i = 1 THEN seqs[i] ELSE f[i-1] \o seqs[i]

\* Two sequences with the same first n elements.
AgreeTo(a, b, n) == \A i \in 1..n : a[i] = b[i]

\* A function with this equation exists for every length ...
LEMMA FlattenExists ==
  ASSUME NEW seqs, NEW n \in Nat
  PROVE  \E f : FlattensTo(f, seqs, n)
<1> DEFINE S == {m \in Nat : \E f : FlattensTo(f, seqs, m)}
<1>1. 0 \in S
  <2> DEFINE f == [i \in 1..0 |-> seqs]
  <2>1. FlattensTo(f, seqs, 0)
    BY DEF FlattensTo
  <2> QED BY <2>1
<1>2. ASSUME NEW m \in Nat, m \in S PROVE m + 1 \in S
  <2>1. PICK f : FlattensTo(f, seqs, m)
    BY <1>2
  <2> DEFINE g == [i \in 1..(m + 1) |-> IF i = 1 THEN seqs[i]
                                        ELSE IF i = m + 1 THEN f[m] \o seqs[i] ELSE f[i]]
  <2>2. FlattensTo(g, seqs, m + 1)
    <3>1. \A i \in 1..m : f[i] = IF i = 1 THEN seqs[i] ELSE f[i-1] \o seqs[i]
      BY <2>1 DEF FlattensTo
    <3>2. \A i \in 1..m : g[i] = f[i]
      BY <3>1
    <3>3. \A i \in 1..(m + 1) : g[i] = IF i = 1 THEN seqs[i] ELSE g[i-1] \o seqs[i]
      BY <3>1, <3>2
    <3>4. g = [i \in 1..(m + 1) |-> g[i]]
      OBVIOUS
    <3> HIDE DEF g
    <3> QED BY <3>3, <3>4 DEF FlattensTo
  <2> QED BY <2>2
<1> HIDE DEF S
<1>3. n \in S
  BY <1>1, <1>2, NaturalsInSet
<1> QED BY <1>3 DEF S

\* ... and its values are determined by the sequences.
LEMMA FlattenUnique ==
  ASSUME NEW n \in Nat, NEW a, NEW b, NEW f, NEW g,
         AgreeTo(a, b, n), Flattens(f, a, n), Flattens(g, b, n)
  PROVE  AgreeTo(f, g, n)
<1> DEFINE S == {m \in Nat : m \in 1..n => f[m] = g[m]}
<1>1. 0 \in S
  OBVIOUS
<1>2. ASSUME NEW m \in Nat, m \in S PROVE m + 1 \in S
  <2> SUFFICES ASSUME m + 1 \in 1..n PROVE f[m + 1] = g[m + 1]
    OBVIOUS
  <2>1. CASE m = 0
    <3>1. f[1] = a[1] /\ g[1] = b[1] /\ a[1] = b[1]
      BY <2>1 DEF Flattens, AgreeTo
    <3> QED BY <2>1, <3>1
  <2>2. CASE m # 0
    <3>1. m \in 1..n /\ f[m] = g[m]
      BY <1>2, <2>2
    <3>2. m + 1 # 1 /\ (m + 1) - 1 = m
      BY <2>2
    <3>3. /\ f[m + 1] = IF m + 1 = 1 THEN a[m + 1] ELSE f[(m + 1) - 1] \o a[m + 1]
          /\ g[m + 1] = IF m + 1 = 1 THEN b[m + 1] ELSE g[(m + 1) - 1] \o b[m + 1]
      BY DEF Flattens
    <3>4. a[m + 1] = b[m + 1]
      BY DEF AgreeTo
    <3> QED BY <3>1, <3>2, <3>3, <3>4
  <2> QED BY <2>1, <2>2
<1> HIDE DEF S
<1>3. Nat \subseteq S
  BY <1>1, <1>2, NaturalsInSet
<1> QED BY <1>3 DEF S, AgreeTo

\* What FlattenSeq chooses has the equation it is chosen for.
LEMMA FlattenMeaning ==
  ASSUME NEW S, NEW seqs \in Seq(S), seqs # <<>>
  PROVE  \E f : Flattens(f, seqs, Len(seqs)) /\ FlattenSeq(seqs) = f[Len(seqs)]
<1>1. Len(seqs) \in Nat /\ Len(seqs) # 0
  OBVIOUS
<1>2. \E f : FlattensTo(f, seqs, Len(seqs))
  BY <1>1, FlattenExists
<1> DEFINE g == CHOOSE f : FlattensTo(f, seqs, Len(seqs))
<1>3. FlattensTo(g, seqs, Len(seqs))
  BY <1>2
<1>4. FlattenSeq(seqs) = g[Len(seqs)]
  BY <1>1 DEF FlattenSeq, FlattensTo
<1> HIDE DEF g
<1>5. Flattens(g, seqs, Len(seqs))
  BY <1>3 DEF FlattensTo, Flattens
<1> QED BY <1>4, <1>5

\* Nothing, flattened.
LEMMA FlattenNone == FlattenSeq(<<>>) = <<>>
<1>1. Len(<<>>) = 0
  OBVIOUS
<1> QED BY <1>1 DEF FlattenSeq

\* One more sequence at the end ...
LEMMA FlattenAppend ==
  ASSUME NEW S, NEW seqs \in Seq(Seq(S)), NEW last \in Seq(S)
  PROVE  FlattenSeq(Append(seqs, last)) = FlattenSeq(seqs) \o last
<1> DEFINE more == Append(seqs, last)
           n == Len(seqs)
<1>1. /\ more \in Seq(Seq(S)) /\ more # <<>> /\ Len(more) = n + 1 /\ n \in Nat
      /\ \A i \in 1..n : more[i] = seqs[i]
      /\ more[n + 1] = last
  BY AppendProperties
<1> HIDE DEF more
<1>2. PICK f : Flattens(f, more, Len(more)) /\ FlattenSeq(more) = f[Len(more)]
  BY <1>1, FlattenMeaning
<1>3. CASE seqs = <<>>
  <2>1. n = 0
    BY <1>3
  <2>2. FlattenSeq(more) = last
    BY <1>1, <1>2, <2>1 DEF Flattens
  <2>3. <<>> \o last = last
    BY ConcatEmptySeq
  <2> QED BY <1>3, <2>2, <2>3, FlattenNone DEF more
<1>4. CASE seqs # <<>>
  <2>1. PICK g : Flattens(g, seqs, n) /\ FlattenSeq(seqs) = g[n]
    BY <1>4, FlattenMeaning
  <2>2. Flattens(f, more, n)
    BY <1>1, <1>2 DEF Flattens
  <2>3. n \in 1..n /\ n + 1 \in 1..Len(more) /\ n + 1 # 1 /\ (n + 1) - 1 = n
    BY <1>1, <1>4
  <2>4. f[n] = g[n]
    <3>1. n \in Nat /\ AgreeTo(more, seqs, n)
      BY <1>1 DEF AgreeTo
    <3> HIDE DEF n
    <3>2. AgreeTo(f, g, n)
      BY <3>1, <2>1, <2>2, FlattenUnique
    <3> QED BY <3>2, <2>3 DEF AgreeTo
  <2>5. f[n + 1] = f[n] \o last
    <3>1. f[n + 1] = IF n + 1 = 1 THEN more[n + 1] ELSE f[(n + 1) - 1] \o more[n + 1]
      BY <1>2, <2>3 DEF Flattens
    <3> QED BY <1>1, <2>3, <3>1
  <2> QED BY <1>1, <1>2, <2>1, <2>4, <2>5 DEF more
<1> QED BY <1>3, <1>4

\* The result is a sequence of what the sequences are of.
LEMMA FlattenType ==
  ASSUME NEW S, NEW seqs \in Seq(Seq(S))
  PROVE  FlattenSeq(seqs) \in Seq(S)
<1> DEFINE T == {n \in Nat : \A s \in Seq(Seq(S)) : Len(s) = n => FlattenSeq(s) \in Seq(S)}
<1>1. 0 \in T
  <2>1. ASSUME NEW s \in Seq(Seq(S)), Len(s) = 0 PROVE FlattenSeq(s) \in Seq(S)
    <3>1. s = <<>>
      BY <2>1
    <3>2. <<>> \in Seq(S)
      OBVIOUS
    <3> QED BY <3>1, <3>2, FlattenNone
  <2> QED BY <2>1
<1>2. ASSUME NEW n \in Nat, n \in T PROVE n + 1 \in T
  <2> SUFFICES ASSUME NEW s \in Seq(Seq(S)), Len(s) = n + 1 PROVE FlattenSeq(s) \in Seq(S)
    OBVIOUS
  <2>1. s # <<>>
    OBVIOUS
  <2>2. PICK t \in Seq(Seq(S)), last \in Seq(S) : s = Append(t, last)
    BY <2>1, SequenceEmptyOrAppend
  <2>3. Len(t) = n
    BY <2>2
  <2>4. FlattenSeq(t) \in Seq(S)
    BY <1>2, <2>3
  <2>5. FlattenSeq(s) = FlattenSeq(t) \o last
    BY <2>2, FlattenAppend
  <2>6. FlattenSeq(t) \o last \in Seq(S)
    BY <2>4, ConcatProperties
  <2> QED BY <2>5, <2>6
<1> HIDE DEF T
<1>3. Nat \subseteq T
  BY <1>1, <1>2, NaturalsInSet
<1> QED BY <1>3 DEF T

\* ... and one more at the beginning.
LEMMA FlattenFirst ==
  ASSUME NEW S, NEW first \in Seq(S), NEW seqs \in Seq(Seq(S))
  PROVE  FlattenSeq(<<first>> \o seqs) = first \o FlattenSeq(seqs)
<1> DEFINE T == {n \in Nat : \A s \in Seq(Seq(S)) : Len(s) = n =>
                               FlattenSeq(<<first>> \o s) = first \o FlattenSeq(s)}
<1>0. <<>> \in Seq(Seq(S)) /\ <<first>> \in Seq(Seq(S))
  <2> DEFINE Q == Seq(S)
  <2>1. first \in Q
    OBVIOUS
  <2> HIDE DEF Q
  <2>2. <<>> \in Seq(Q) /\ <<first>> \in Seq(Q)
    BY <2>1
  <2> QED BY <2>2 DEF Q
<1>1. 0 \in T
  <2>1. ASSUME NEW s \in Seq(Seq(S)), Len(s) = 0
        PROVE  FlattenSeq(<<first>> \o s) = first \o FlattenSeq(s)
    <3>1. s = <<>>
      BY <2>1
    <3>2. <<first>> \o s = Append(<<>>, first)
      <4>1. <<first>> \o <<>> = <<first>>
        BY <1>0, ConcatEmptySeq
      <4>2. Append(<<>>, first) = <<first>>
        OBVIOUS
      <4> QED BY <3>1, <4>1, <4>2
    <3>3. first \o <<>> = first /\ <<>> \o first = first
      BY ConcatEmptySeq
    <3>4. FlattenSeq(Append(<<>>, first)) = FlattenSeq(<<>>) \o first
      BY <1>0, FlattenAppend
    <3> QED BY <3>1, <3>2, <3>3, <3>4, FlattenNone
  <2> QED BY <2>1
<1>2. ASSUME NEW n \in Nat, n \in T PROVE n + 1 \in T
  <2> SUFFICES ASSUME NEW s \in Seq(Seq(S)), Len(s) = n + 1
               PROVE  FlattenSeq(<<first>> \o s) = first \o FlattenSeq(s)
    <3>1. n + 1 \in Nat
      OBVIOUS
    <3> QED BY <3>1 DEF T
  <2>1. s # <<>>
    OBVIOUS
  <2>2. PICK t \in Seq(Seq(S)), last \in Seq(S) : s = Append(t, last)
    BY <2>1, SequenceEmptyOrAppend
  <2>3. Len(t) = n
    BY <2>2
  <2>4. FlattenSeq(<<first>> \o t) = first \o FlattenSeq(t)
    BY <1>2, <2>3
  <2>5. <<first>> \o t \in Seq(Seq(S))
    BY <1>0
  <2>6. <<first>> \o s = Append(<<first>> \o t, last)
    <3>1. s = t \o <<last>> /\ <<last>> \in Seq(Seq(S))
      BY <2>2, AppendIsConcat
    <3>2. (<<first>> \o t) \o <<last>> = <<first>> \o (t \o <<last>>)
      <4> DEFINE Q == Seq(S)
      <4>1. <<first>> \in Seq(Q) /\ t \in Seq(Q) /\ <<last>> \in Seq(Q)
        BY <1>0, <3>1
      <4> HIDE DEF Q
      <4> QED BY <4>1, ConcatAssociative
    <3>3. Append(<<first>> \o t, last) = (<<first>> \o t) \o <<last>>
      BY <2>5, AppendIsConcat
    <3> QED BY <3>1, <3>2, <3>3
  <2>7. FlattenSeq(<<first>> \o s) = (first \o FlattenSeq(t)) \o last
    BY <2>4, <2>5, <2>6, FlattenAppend
  <2>8. FlattenSeq(s) = FlattenSeq(t) \o last /\ FlattenSeq(t) \in Seq(S)
    BY <2>2, FlattenAppend, FlattenType
  <2>9. (first \o FlattenSeq(t)) \o last = first \o (FlattenSeq(t) \o last)
    BY <2>2, <2>8, ConcatAssociative, SMTT(30)
  <2> QED BY <2>7, <2>8, <2>9
<1> HIDE DEF T
<1>3. Nat \subseteq T
  BY <1>1, <1>2, NaturalsInSet
<1> QED BY <1>3, SMTT(30) DEF T

-----------------------------------------------------------------------------
(* The sequences before and after a place, flattened                        *)

\* The first sequences of a sequence of sequences, and those after them, flattened.
FirstOf(seqs, i) == FlattenSeq(SubSeq(seqs, 1, i))
RestOf(seqs, i)  == FlattenSeq(SubSeq(seqs, i + 1, Len(seqs)))

\* All or none of the sequences are the first ones.
LEMMA FirstAndRest ==
  ASSUME NEW S, NEW seqs \in Seq(Seq(S))
  PROVE  /\ FirstOf(seqs, 0) = <<>>
         /\ FirstOf(seqs, Len(seqs)) = FlattenSeq(seqs)
         /\ RestOf(seqs, 0) = FlattenSeq(seqs)
         /\ RestOf(seqs, Len(seqs)) = <<>>
<1> DEFINE Q == Seq(S)
<1>1. seqs \in Seq(Q) /\ Len(seqs) \in Nat
  OBVIOUS
<1> HIDE DEF Q
<1>2. SubSeq(seqs, 1, 0) = <<>>
  BY SubSeqEmpty
<1>3. SubSeq(seqs, Len(seqs) + 1, Len(seqs)) = <<>>
  BY <1>1, SubSeqEmpty
<1>4. SubSeq(seqs, 1, Len(seqs)) = seqs
  BY <1>1, SubSeqFull
<1>5. SubSeq(seqs, 0 + 1, Len(seqs)) = seqs
  BY <1>4
<1> QED BY <1>2, <1>3, <1>4, <1>5, FlattenNone DEF FirstOf, RestOf

\* A part of a sequence has elements of the same set.
LEMMA SubSeqType ==
  ASSUME NEW S, NEW seq \in Seq(S), NEW i \in 1..(Len(seq) + 1), NEW j \in 0..Len(seq)
  PROVE  SubSeq(seq, i, j) \in Seq(S)
<1>1. \A k \in i..j : seq[k] \in S
  OBVIOUS
<1> QED BY <1>1, SubSeqProperties

\* The first sequences and the rest, flattened, are sequences of what they are of.
LEMMA FirstAndRestTyped ==
  ASSUME NEW S, NEW seqs \in Seq(Seq(S)), NEW i \in 0..Len(seqs)
  PROVE  FirstOf(seqs, i) \in Seq(S) /\ RestOf(seqs, i) \in Seq(S)
<1> DEFINE Q == Seq(S)
<1>1. seqs \in Seq(Q) /\ Len(seqs) \in Nat
  OBVIOUS
<1> HIDE DEF Q
<1>2. i \in 0..Len(seqs) /\ i + 1 \in 1..(Len(seqs) + 1) /\ 1 \in 1..(Len(seqs) + 1)
      /\ Len(seqs) \in 0..Len(seqs)
  BY <1>1
<1>3. SubSeq(seqs, 1, i) \in Seq(Q) /\ SubSeq(seqs, i + 1, Len(seqs)) \in Seq(Q)
  BY <1>1, <1>2, SubSeqType
<1> QED BY <1>3, FlattenType DEF FirstOf, RestOf, Q

\* One more of the first sequences adds its elements at the end ...
LEMMA FirstOneMore ==
  ASSUME NEW S, NEW seqs \in Seq(Seq(S)), NEW i \in 0..(Len(seqs) - 1)
  PROVE  FirstOf(seqs, i + 1) = FirstOf(seqs, i) \o seqs[i + 1]
<1> DEFINE Q == Seq(S)
<1>1. seqs \in Seq(Q) /\ Len(seqs) \in Nat
  OBVIOUS
<1> HIDE DEF Q
<1>2. i \in 0..Len(seqs) /\ 1 \in 1..(Len(seqs) + 1) /\ i + 1 \in 1..Len(seqs)
      /\ (i + 1) - 1 = i /\ 1 \in 1..Len(seqs) /\ i + 1 \in 1..Len(seqs)
  BY <1>1
<1>3. SubSeq(seqs, 1, i) \in Seq(Q) /\ seqs[i + 1] \in Q
  BY <1>1, <1>2, SubSeqType, ElementOfSeq
<1>4. SubSeq(seqs, 1, i + 1) = SubSeq(seqs, 1, (i + 1) - 1) \o <<seqs[i + 1]>>
  BY <1>1, <1>2, SubSeqRecursiveSecond
<1>5. SubSeq(seqs, 1, i + 1) = Append(SubSeq(seqs, 1, i), seqs[i + 1])
  BY <1>2, <1>3, <1>4, AppendIsConcat
<1> QED BY <1>3, <1>5, FlattenAppend DEF FirstOf, Q

\* ... and takes them from the beginning of the rest.
LEMMA RestOneLess ==
  ASSUME NEW S, NEW seqs \in Seq(Seq(S)), NEW i \in 0..(Len(seqs) - 1)
  PROVE  RestOf(seqs, i) = seqs[i + 1] \o RestOf(seqs, i + 1)
<1> DEFINE Q == Seq(S)
           n == Len(seqs)
<1>1. seqs \in Seq(Q) /\ n \in Nat /\ n = Len(seqs)
  OBVIOUS
<1>2. /\ i + 1 \in 1..n /\ n \in (i + 1)..n /\ (i + 1) + 1 \in 1..(n + 1) /\ n \in 0..n
  BY <1>1
<1> HIDE DEF Q, n
<1>3. SubSeq(seqs, (i + 1) + 1, n) \in Seq(Q) /\ seqs[i + 1] \in Q
  BY <1>1, <1>2, SubSeqType, ElementOfSeq
<1>4. SubSeq(seqs, i + 1, n) = <<seqs[i + 1]>> \o SubSeq(seqs, (i + 1) + 1, n)
  BY <1>1, <1>2, SubSeqRecursiveFirst
<1>5. FlattenSeq(SubSeq(seqs, i + 1, n)) = seqs[i + 1] \o FlattenSeq(SubSeq(seqs, (i + 1) + 1, n))
  BY <1>3, <1>4, FlattenFirst DEF Q
<1> QED BY <1>1, <1>5 DEF RestOf

\* The head and the tail of two sequences in a row are those of the first.
LEMMA HeadOfConcat ==
  ASSUME NEW S, NEW s \in Seq(S), NEW t \in Seq(S), s # <<>>
  PROVE  /\ s \o t # <<>>
         /\ Head(s \o t) = Head(s)
         /\ Tail(s \o t) = Tail(s) \o t
<1>1. /\ s \o t \in Seq(S) /\ Len(s \o t) = Len(s) + Len(t)
      /\ Len(s) \in Nat \ {0} /\ Len(t) \in Nat
      /\ \A i \in 1..(Len(s) + Len(t)) : (s \o t)[i] = IF i <= Len(s) THEN s[i] ELSE t[i - Len(s)]
  BY ConcatProperties, EmptySeq
<1>2. s \o t # <<>>
  BY <1>1
<1>3. /\ Tail(s) \in Seq(S) /\ Len(Tail(s)) = Len(s) - 1
      /\ \A i \in 1..Len(Tail(s)) : Tail(s)[i] = s[i + 1]
  BY HeadTailProperties
<1>4. /\ Tail(s \o t) \in Seq(S) /\ Len(Tail(s \o t)) = Len(s \o t) - 1
      /\ \A i \in 1..Len(Tail(s \o t)) : Tail(s \o t)[i] = (s \o t)[i + 1]
  BY <1>1, <1>2, HeadTailProperties
<1>5. /\ Tail(s) \o t \in Seq(S) /\ Len(Tail(s) \o t) = Len(Tail(s)) + Len(t)
      /\ \A i \in 1..(Len(Tail(s)) + Len(t)) :
           (Tail(s) \o t)[i] = IF i <= Len(Tail(s)) THEN Tail(s)[i] ELSE t[i - Len(Tail(s))]
  BY <1>3, ConcatProperties
<1>6. Len(Tail(s \o t)) = Len(Tail(s) \o t)
  BY <1>1, <1>3, <1>4, <1>5
<1>7. ASSUME NEW i \in 1..Len(Tail(s \o t)) PROVE Tail(s \o t)[i] = (Tail(s) \o t)[i]
  <2>1. /\ i \in Nat /\ i >= 1 /\ i <= (Len(s) + Len(t)) - 1
        /\ i + 1 \in 1..(Len(s) + Len(t)) /\ i \in 1..(Len(Tail(s)) + Len(t))
    BY <1>1, <1>3, <1>4
  <2>2. Tail(s \o t)[i] = IF i + 1 <= Len(s) THEN s[i + 1] ELSE t[(i + 1) - Len(s)]
    BY <1>1, <1>4, <2>1
  <2>3. (Tail(s) \o t)[i] = IF i <= Len(Tail(s)) THEN Tail(s)[i] ELSE t[i - Len(Tail(s))]
    BY <1>5, <2>1
  <2>4. (i + 1) - Len(s) = i - Len(Tail(s)) /\ (i + 1 <= Len(s)) = (i <= Len(Tail(s)))
    BY <1>1, <1>3, <2>1
  <2>5. i <= Len(Tail(s)) => Tail(s)[i] = s[i + 1]
    BY <1>1, <1>3, <2>1
  <2> QED BY <2>2, <2>3, <2>4, <2>5
<1>8. Tail(s \o t) = Tail(s) \o t
  BY <1>4, <1>5, <1>6, <1>7, SeqEqual
<1>9. Head(s \o t) = Head(s)
  BY <1>1, <1>2
<1> QED BY <1>2, <1>8, <1>9

-----------------------------------------------------------------------------
(* What Git prints, as a sequence of lines                                  *)

\* The lines of a diff, those of a parsed file and the files.
ShownPaths  == Paths \cup {NoPath, Quoted, Other}
EditLines   == [start : Marks, text : Texts]
HunkLines   == [start : {"@@"}, old : Nat, new : Nat]
HeaderLines == [start : {"---", "+++"}, path : ShownPaths] \cup [start : {"other"}]
FileLines   == [start : {"diff"}, old : ShownPaths, new : ShownPaths]
AllLines    == EditLines \cup HunkLines \cup HeaderLines \cup FileLines

NumberedEdits ==
  {line \in [mark : Marks, text : Texts, old : Nat \cup {NoLine}, new : Nat \cup {NoLine}] :
     /\ (line.old = NoLine) = (line.mark = "+")
     /\ (line.new = NoLine) = (line.mark = "-")}

FileDiffs == [old : ShownPaths, new : ShownPaths, lines : Seq(NumberedEdits)]

\* A function on the first naturals is a sequence.
LEMMA FunctionIsSequence ==
  ASSUME NEW S, NEW n \in Nat, NEW f \in [1..n -> S]
  PROVE  f \in Seq(S) /\ Len(f) = n
  OBVIOUS

\* A change of the last element, which changes nothing where there is none.
LEMMA LastChanged ==
  ASSUME NEW S, NEW seq \in Seq(S), NEW last, seq # <<>> => last \in S
  PROVE  LET changed == [seq EXCEPT ![Len(seq)] = last]
         IN  /\ changed \in Seq(S) /\ Len(changed) = Len(seq)
             /\ \A i \in 1..(Len(seq) - 1) : changed[i] = seq[i]
             /\ seq # <<>> => changed[Len(seq)] = last
<1>1. CASE seq = <<>>
  <2>1. Len(seq) = 0 /\ Len(seq) \notin DOMAIN seq
    BY <1>1
  <2>2. [seq EXCEPT ![Len(seq)] = last] = seq
    BY <2>1
  <2> QED BY <1>1, <2>1, <2>2
<1>2. CASE seq # <<>>
  <2>1. Len(seq) \in 1..Len(seq) /\ last \in S
    BY <1>2
  <2> QED BY <1>2, <2>1, ExceptSeq
<1> QED BY <1>1, <1>2

\* A sequence is a suffix of itself ...
LEMMA AllIsSuffix ==
  ASSUME NEW s
  PROVE  IsSuffix(s, s)
<1>1. Len(Reverse(s)) <= Len(Reverse(s))
  OBVIOUS
<1> QED BY <1>1 DEF IsSuffix, IsPrefix

\* ... and without its head it is one of what it was a suffix of.
LEMMA TailIsSuffix ==
  ASSUME NEW S, NEW s \in Seq(S), NEW t \in Seq(S), s # <<>>, IsSuffix(s, t)
  PROVE  IsSuffix(Tail(s), t)
<1> DEFINE n == Len(s)
           r == Reverse(s)
           u == Reverse(t)
           v == Reverse(Tail(s))
<1>1. n \in Nat \ {0} /\ Len(t) \in Nat
  OBVIOUS
<1>2. /\ Tail(s) \in Seq(S) /\ Len(Tail(s)) = n - 1
      /\ \A i \in 1..(n - 1) : Tail(s)[i] = s[i + 1]
  BY HeadTailProperties
<1>3. r \in Seq(S) /\ Len(r) = n /\ \A i \in 1..n : r[i] = s[(n - i) + 1]
  <2>1. r \in [1..n -> S]
    BY <1>1 DEF Reverse
  <2>2. r \in Seq(S) /\ Len(r) = n
    <3> HIDE DEF r, n
    <3> QED BY <1>1, <2>1, FunctionIsSequence
  <2> QED BY <2>2 DEF Reverse
<1>4. u \in Seq(S) /\ Len(u) = Len(t)
  <2>1. u \in [1..Len(t) -> S]
    BY <1>1 DEF Reverse
  <2> HIDE DEF u
  <2> QED BY <1>1, <2>1, FunctionIsSequence
<1>5. /\ v \in Seq(S) /\ Len(v) = n - 1
      /\ \A i \in 1..(n - 1) : v[i] = Tail(s)[((n - 1) - i) + 1]
  <2>1. v \in [1..(n - 1) -> S]
    BY <1>1, <1>2 DEF Reverse
  <2>2. n - 1 \in Nat
    BY <1>1
  <2>3. v \in Seq(S) /\ Len(v) = n - 1
    <3> HIDE DEF v, n
    <3> QED BY <2>1, <2>2, FunctionIsSequence
  <2> QED BY <1>2, <2>3 DEF Reverse
<1>6. n <= Len(t) /\ SubSeq(r, 1, n) = SubSeq(u, 1, n)
  BY <1>3, <1>4 DEF IsSuffix, IsPrefix
<1> HIDE DEF r, u, v
<1>7. \A i \in 1..(n - 1) : v[i] = u[i]
  <2> SUFFICES ASSUME NEW i \in 1..(n - 1) PROVE v[i] = u[i]
    OBVIOUS
  <2>1. i \in 1..n /\ n - i \in 1..(n - 1) /\ ((n - 1) - i) + 1 = n - i
    BY <1>1
  <2>2. v[i] = r[i]
    <3>1. v[i] = Tail(s)[n - i]
      BY <1>5, <2>1
    <3>2. Tail(s)[n - i] = s[(n - i) + 1]
      BY <1>2, <2>1
    <3>3. r[i] = s[(n - i) + 1]
      BY <1>3, <2>1
    <3> QED BY <3>1, <3>2, <3>3
  <2>3. SubSeq(r, 1, n)[i] = r[i] /\ SubSeq(u, 1, n)[i] = u[i]
    BY <1>1, <1>3, <1>4, <1>6, <2>1
  <2> QED BY <1>6, <2>2, <2>3
<1>8. SubSeq(v, 1, n - 1) = SubSeq(u, 1, n - 1)
  <2>1. /\ SubSeq(v, 1, n - 1) \in Seq(S) /\ Len(SubSeq(v, 1, n - 1)) = n - 1
        /\ \A i \in 1..(n - 1) : SubSeq(v, 1, n - 1)[i] = v[i]
    BY <1>1, <1>5
  <2>2. /\ SubSeq(u, 1, n - 1) \in Seq(S) /\ Len(SubSeq(u, 1, n - 1)) = n - 1
        /\ \A i \in 1..(n - 1) : SubSeq(u, 1, n - 1)[i] = u[i]
    <3>1. \A i \in 1..(n - 1) : i \in 1..Len(u) /\ u[i] \in S
      BY <1>1, <1>4, <1>6
    <3>2. n - 1 \in Nat
      BY <1>1
    <3> HIDE DEF n
    <3> QED BY <3>1, <3>2
  <2> QED BY <1>7, <2>1, <2>2, SeqEqual
<1> QED BY <1>1, <1>4, <1>5, <1>6, <1>8 DEF IsSuffix, IsPrefix, v, u

\* One line of text is printed as one line or more (PrintedEdit).
LEMMA EditTyped ==
  ASSUME NEW edit \in [mark : Marks, text : Texts]
  PROVE  PrintedEdit(edit) \in Seq(AllLines) /\ PrintedEdit(edit) # <<>>
<1> DEFINE lookalike == IF edit.mark = "-" /\ edit.text = "dashes" THEN "---"
                        ELSE IF edit.mark = "+" /\ edit.text = "pluses" THEN "+++"
                        ELSE "no"
           first == IF lookalike = "no" THEN [start |-> edit.mark, text |-> edit.text]
                    ELSE [start |-> lookalike, path |-> Other]
           rest == IF edit.text = "break-add" THEN <<[start |-> "+", text |-> "plain"]>>
                   ELSE IF edit.text = "break-file"
                     THEN <<[start |-> "diff", old |-> Other, new |-> Other]>>
                   ELSE IF edit.text = "break-other" THEN <<[start |-> "other"]>>
                   ELSE <<>>
<1>1. edit.mark \in Marks /\ edit.text \in Texts /\ Other \in ShownPaths /\ "plain" \in Texts
  BY TextAssumption DEF ShownPaths
<1>2. first \in AllLines
  <2>1. CASE lookalike = "no"
    BY <1>1, <2>1 DEF AllLines, EditLines
  <2>2. CASE lookalike # "no"
    <3>1. [start |-> lookalike, path |-> Other] \in HeaderLines
      BY <1>1, <2>2 DEF HeaderLines
    <3> QED BY <2>2, <3>1 DEF AllLines
  <2> QED BY <2>1, <2>2
<1>3. rest \in Seq(AllLines)
  <2>1. [start |-> "+", text |-> "plain"] \in AllLines
    BY <1>1 DEF AllLines, EditLines, Marks
  <2>2. [start |-> "diff", old |-> Other, new |-> Other] \in AllLines
    BY <1>1 DEF AllLines, FileLines
  <2>3. [start |-> "other"] \in AllLines
    BY DEF AllLines, HeaderLines
  <2> QED BY <2>1, <2>2, <2>3
<1>4. PrintedEdit(edit) = <<first>> \o rest
  BY DEF PrintedEdit
<1> HIDE DEF first, rest
<1>5. <<first>> \in Seq(AllLines) /\ <<first>> # <<>>
  BY <1>2
<1> QED BY <1>3, <1>4, <1>5, ConcatProperties, HeadOfConcat

HunksPrinted(change) == [h \in 1..Len(change.hunks) |-> PrintedHunk(change.hunks[h])]
EditsPrinted(hunk)   == [e \in 1..Len(hunk.edits) |-> PrintedEdit(hunk.edits[e])]
Printed(changes)     == [i \in 1..Len(changes) |-> PrintedChange(changes[i])]

\* A hunk is printed as its header and its edits (PrintedHunk).
LEMMA HunkTyped ==
  ASSUME NEW hunk \in Hunks
  PROVE  /\ EditsPrinted(hunk) \in Seq(Seq(AllLines))
         /\ Len(EditsPrinted(hunk)) = Len(hunk.edits)
         /\ Len(hunk.edits) \in Nat
         /\ [start |-> "@@", old |-> hunk.old, new |-> hunk.new] \in AllLines
         /\ PrintedHunk(hunk) \in Seq(AllLines)
         /\ PrintedHunk(hunk) = <<[start |-> "@@", old |-> hunk.old, new |-> hunk.new]>>
                                  \o RestOf(EditsPrinted(hunk), 0)
<1> DEFINE Q == Seq(AllLines)
           n == Len(hunk.edits)
           all == EditsPrinted(hunk)
           first == [start |-> "@@", old |-> hunk.old, new |-> hunk.new]
<1>1. /\ hunk.edits \in Seq([mark : Marks, text : Texts])
      /\ hunk.old \in Nat /\ hunk.new \in Nat
  BY DEF Hunks
<1>2. n \in Nat /\ \A e \in 1..n : hunk.edits[e] \in [mark : Marks, text : Texts]
  <2> DEFINE E == [mark : Marks, text : Texts]
  <2>1. hunk.edits \in Seq(E)
    BY <1>1
  <2> HIDE DEF E
  <2>2. n \in Nat /\ \A e \in 1..n : hunk.edits[e] \in E
    BY <2>1, ElementOfSeq, LenProperties
  <2> QED BY <2>2 DEF E
<1>3. all \in [1..n -> Q]
  BY <1>2, EditTyped DEF EditsPrinted
<1>4. first \in AllLines
  BY <1>1 DEF AllLines, HunkLines
<1>5. all \in Seq(Q) /\ Len(all) = n
  <2> HIDE DEF Q, all, n
  <2> QED BY <1>2, <1>3, FunctionIsSequence
<1>6. PrintedHunk(hunk) = <<first>> \o FlattenSeq(all)
  BY DEF PrintedHunk, EditsPrinted
<1> HIDE DEF first, all, n
<1>7. FlattenSeq(all) \in Seq(AllLines) /\ RestOf(all, 0) = FlattenSeq(all)
  BY <1>5, FlattenType, FirstAndRest
<1>8. <<first>> \in Seq(AllLines)
  BY <1>4
<1>9. PrintedHunk(hunk) \in Seq(AllLines)
  BY <1>6, <1>7, <1>8, ConcatProperties
<1> QED BY <1>2, <1>4, <1>5, <1>6, <1>7, <1>9 DEF first, all, n

\* What stands before the hunks of a change, after its first line.
HeaderOf(change) ==
  <<[start |-> "other"]>>
    \o (IF change.hunks = <<>> THEN <<>>
        ELSE <<[start |-> "---", path |-> Shown(change, change.old)],
               [start |-> "+++", path |-> Shown(change, change.new)]>>)

FirstLineOf(change) ==
  [start |-> "diff", old |-> NameOf(change, "old"), new |-> NameOf(change, "new")]

\* The header of a change has no line that begins a file or a hunk.
LEMMA HeaderTyped ==
  ASSUME NEW change \in Changes
  PROVE  HeaderOf(change) \in Seq(HeaderLines) /\ FirstLineOf(change) \in FileLines
<1>1. /\ change.old \in Paths \cup {NoPath} /\ change.new \in Paths \cup {NoPath}
      /\ change["old"] \in Paths \cup {NoPath} /\ change["new"] \in Paths \cup {NoPath}
  BY DEF Changes
<1>2. \A path \in Paths \cup {NoPath} : Shown(change, path) \in ShownPaths
  BY DEF Shown, ShownPaths
<1>3. NameOf(change, "old") \in ShownPaths /\ NameOf(change, "new") \in ShownPaths
  BY <1>1, <1>2 DEF NameOf
<1>4. FirstLineOf(change) \in FileLines
  BY <1>3 DEF FirstLineOf, FileLines
<1>5. [start |-> "other"] \in HeaderLines
  BY DEF HeaderLines
<1>6. [start |-> "---", path |-> Shown(change, change.old)] \in HeaderLines
  BY <1>1, <1>2 DEF HeaderLines
<1>7. [start |-> "+++", path |-> Shown(change, change.new)] \in HeaderLines
  BY <1>1, <1>2 DEF HeaderLines
<1> DEFINE a == [start |-> "other"]
           b == [start |-> "---", path |-> Shown(change, change.old)]
           c == [start |-> "+++", path |-> Shown(change, change.new)]
<1>8. HeaderOf(change) = <<a>> \o (IF change.hunks = <<>> THEN <<>> ELSE <<b, c>>)
  BY DEF HeaderOf
<1> HIDE DEF a, b, c
<1>9. <<a>> \in Seq(HeaderLines) /\ <<b, c>> \in Seq(HeaderLines)
  BY <1>5, <1>6, <1>7 DEF a, b, c
<1> QED BY <1>4, <1>8, <1>9

\* A change is printed as its first line, its header and its hunks (PrintedChange).
LEMMA ChangeTyped ==
  ASSUME NEW change \in Changes
  PROVE  /\ HunksPrinted(change) \in Seq(Seq(AllLines))
         /\ Len(HunksPrinted(change)) = Len(change.hunks)
         /\ Len(change.hunks) \in Nat
         /\ \A h \in 1..Len(change.hunks) : change.hunks[h] \in Hunks
         /\ PrintedChange(change) \in Seq(AllLines)
         /\ PrintedChange(change) = <<FirstLineOf(change)>>
              \o (HeaderOf(change) \o RestOf(HunksPrinted(change), 0))
<1> DEFINE Q == Seq(AllLines)
           n == Len(change.hunks)
           all == HunksPrinted(change)
<1>1. /\ change.hunks \in Seq(Hunks) /\ n \in Nat
      /\ \A h \in 1..n : change.hunks[h] \in Hunks
  BY DEF Changes
<1>2. all \in [1..n -> Q]
  BY <1>1, HunkTyped DEF HunksPrinted
<1>3. all \in Seq(Q) /\ Len(all) = n
  <2> HIDE DEF Q, all, n
  <2> QED BY <1>1, <1>2, FunctionIsSequence
<1> DEFINE a == FirstLineOf(change)
           o == [start |-> "other"]
           header == IF change.hunks = <<>> THEN <<>>
                     ELSE <<[start |-> "---", path |-> Shown(change, change.old)],
                            [start |-> "+++", path |-> Shown(change, change.new)]>>
<1>4. PrintedChange(change) = <<a, o>> \o header \o FlattenSeq(all)
  BY DEF PrintedChange, HunksPrinted, FirstLineOf
<1>5. HeaderOf(change) = <<o>> \o header
  BY DEF HeaderOf
<1>6. header \in Seq(AllLines) /\ o \in AllLines /\ a \in AllLines
  <2>1. o \in HeaderLines
    BY DEF HeaderLines
  <2>2. \A path \in Paths \cup {NoPath} : Shown(change, path) \in ShownPaths
    BY DEF Shown, ShownPaths
  <2>3. /\ [start |-> "---", path |-> Shown(change, change.old)] \in HeaderLines
        /\ [start |-> "+++", path |-> Shown(change, change.new)] \in HeaderLines
    BY <2>2 DEF HeaderLines, Changes
  <2>4. a \in FileLines
    BY HeaderTyped
  <2> DEFINE b == [start |-> "---", path |-> Shown(change, change.old)]
             c == [start |-> "+++", path |-> Shown(change, change.new)]
  <2>5. b \in AllLines /\ c \in AllLines
    BY <2>3 DEF AllLines
  <2>6. header = IF change.hunks = <<>> THEN <<>> ELSE <<b, c>>
    OBVIOUS
  <2> HIDE DEF b, c, header
  <2>7. header \in Seq(AllLines)
    BY <2>5, <2>6
  <2> QED BY <2>1, <2>4, <2>7 DEF AllLines
<1> HIDE DEF a, o, header, all, n
<1>7. FlattenSeq(all) \in Seq(AllLines) /\ RestOf(all, 0) = FlattenSeq(all)
  BY <1>3, FlattenType, FirstAndRest
<1>8. <<a, o>> = <<a>> \o <<o>> /\ <<a>> \in Seq(AllLines) /\ <<o>> \in Seq(AllLines)
  <2>1. <<a>> \in Seq(AllLines) /\ <<o>> \in Seq(AllLines) /\ <<a, o>> \in Seq(AllLines)
    BY <1>6
  <2>2. Append(<<a>>, o) = <<a>> \o <<o>>
    BY <1>6, <2>1, AppendIsConcat
  <2>3. Append(<<a>>, o) = <<a, o>>
    <3>1. /\ Append(<<a>>, o) \in Seq(AllLines) /\ Len(Append(<<a>>, o)) = 2
          /\ Append(<<a>>, o)[1] = a /\ Append(<<a>>, o)[2] = o
      BY <1>6, <2>1, AppendProperties
    <3>2. Len(<<a, o>>) = 2 /\ <<a, o>>[1] = a /\ <<a, o>>[2] = o
      OBVIOUS
    <3>3. \A i \in 1..2 : i = 1 \/ i = 2
      OBVIOUS
    <3> QED BY <2>1, <3>1, <3>2, <3>3, SeqEqual
  <2> QED BY <2>1, <2>2, <2>3
<1>9. <<a, o>> \o header \o FlattenSeq(all) = <<a>> \o ((<<o>> \o header) \o FlattenSeq(all))
  <2>1. /\ (<<a>> \o <<o>>) \o header = <<a>> \o (<<o>> \o header)
        /\ <<o>> \o header \in Seq(AllLines)
    BY <1>6, <1>8, ConcatAssociative, ConcatProperties
  <2>2. (<<a>> \o (<<o>> \o header)) \o FlattenSeq(all)
          = <<a>> \o ((<<o>> \o header) \o FlattenSeq(all))
    BY <1>7, <1>8, <2>1, ConcatAssociative
  <2> QED BY <1>8, <2>1, <2>2
<1>10. <<a>> \o ((<<o>> \o header) \o FlattenSeq(all)) \in Seq(AllLines)
  <2>1. <<o>> \o header \in Seq(AllLines)
    BY <1>6, <1>8, ConcatProperties
  <2>2. (<<o>> \o header) \o FlattenSeq(all) \in Seq(AllLines)
    BY <2>1, <1>7, ConcatProperties
  <2> QED BY <1>8, <2>2, ConcatProperties
<1> QED BY <1>1, <1>3, <1>4, <1>5, <1>7, <1>9, <1>10 DEF a, all, n

\* A diff is its changes in a row (Diff).
LEMMA DiffTyped ==
  ASSUME NEW changes \in Seq(Changes)
  PROVE  /\ Printed(changes) \in Seq(Seq(AllLines))
         /\ Len(Printed(changes)) = Len(changes)
         /\ Diff(changes) \in Seq(AllLines)
         /\ Diff(changes) = RestOf(Printed(changes), 0)
<1> DEFINE Q == Seq(AllLines)
           n == Len(changes)
           all == Printed(changes)
<1>1. n \in Nat /\ \A i \in 1..n : changes[i] \in Changes
  OBVIOUS
<1>2. all \in [1..n -> Q]
  BY <1>1, ChangeTyped DEF Printed
<1>3. all \in Seq(Q) /\ Len(all) = n
  <2> HIDE DEF Q, all, n
  <2> QED BY <1>1, <1>2, FunctionIsSequence
<1>4. Diff(changes) = FlattenSeq(all)
  BY DEF Diff, Printed
<1> HIDE DEF all, n
<1> QED BY <1>3, <1>4, FlattenType, FirstAndRest DEF all, n

-----------------------------------------------------------------------------
(* The invariant of the parser and of the alignment                         *)

\* What the lines, the files and the numbers are.
TypedPart ==
  /\ unread \in Seq(AllLines) /\ IsSuffix(unread, Diff(patch))
  /\ files \in Seq(FileDiffs)
  /\ {oldLine, newLine} \subseteq Nat \cup {NoLine}
  /\ (oldLine = NoLine) = (newLine = NoLine)
  /\ mismatch \in BOOLEAN

\* What the engine knows of the number of files, and what the alignment did.
CountPart ==
  /\ pc = "align" => mismatch = (Len(files) # Len(patch))
  /\ pc \in {"done", "checked"} =>
       /\ mismatch = (Len(files) # Len(patch))
       /\ Len(files) = Len(patch) =>
            \A i \in 1..Len(patch) : files[i].old = patch[i].old /\ files[i].new = patch[i].new

\* The invariant of the parser and of the alignment.
IInv ==
  /\ patch \in Patches
  /\ pc \in {"parse", "reconcile", "align", "done", "checked"}
  /\ TypedPart
  /\ CountPart

\* What a change of the patch is.
LEMMA PatchTyped ==
  ASSUME patch \in Patches
  PROVE  /\ patch \in Seq(Changes) /\ Len(patch) \in Nat
         /\ \A i \in 1..Len(patch) : patch[i] \in Changes /\ StatusFits(patch[i])
<1>1. patch \in Seq(Changes)
  BY PatchAssumption
<1> DEFINE C == Changes
<1> HIDE DEF C
<1>2. patch \in Seq(C)
  BY <1>1 DEF C
<1>3. Len(patch) \in Nat /\ \A i \in 1..Len(patch) : patch[i] \in C
  BY <1>2, ElementOfSeq, LenProperties
<1> QED BY <1>1, <1>3, PatchAssumption DEF C

\* What every step of the parser that reads a line knows of it (Reading).
LEMMA LineRead ==
  ASSUME IInv, NEW starts, Reading(starts)
  PROVE  /\ unread \in Seq(AllLines) /\ unread # <<>>
         /\ Line \in AllLines /\ Line.start \in starts
         /\ unread' \in Seq(AllLines) /\ IsSuffix(unread', Diff(patch'))
         /\ pc = "parse" /\ pc' = pc /\ patch' = patch /\ mismatch' = mismatch
         /\ unread' = Tail(unread)
<1>1. /\ unread \in Seq(AllLines) /\ unread # <<>> /\ unread' = Tail(unread)
      /\ IsSuffix(unread, Diff(patch)) /\ Line.start \in starts
      /\ pc = "parse" /\ pc' = pc /\ patch' = patch /\ mismatch' = mismatch
  BY DEF Reading, IInv, TypedPart
<1>2. Diff(patch) \in Seq(AllLines)
  BY PatchTyped, DiffTyped DEF IInv
<1> DEFINE A == AllLines
<1> HIDE DEF A
<1>3. unread \in Seq(A)
  BY <1>1 DEF A
<1>4. Line \in A /\ unread' \in Seq(A)
  BY <1>1, <1>3, HeadTailProperties DEF Line
<1>5. IsSuffix(Tail(unread), Diff(patch))
  BY <1>1, <1>2, TailIsSuffix
<1> QED BY <1>1, <1>4, <1>5 DEF A

\* A line that begins with a certain mark has what the parser takes from it.
LEMMA LineKinds ==
  ASSUME NEW line \in AllLines
  PROVE  /\ line.start \in Marks => line.text \in Texts
         /\ line.start = "@@" => line.old \in Nat /\ line.new \in Nat
         /\ line.start \in {"---", "+++"} => line.path \in ShownPaths
         /\ line.start = "diff" => line.old \in ShownPaths /\ line.new \in ShownPaths
<1>1. CASE line \in EditLines
  BY <1>1 DEF EditLines, Marks
<1>2. CASE line \in HunkLines
  BY <1>2 DEF HunkLines, Marks
<1>3. CASE line \in HeaderLines
  <2>1. CASE line \in [start : {"other"}]
    BY <2>1 DEF Marks
  <2>2. CASE line \in [start : {"---", "+++"}, path : ShownPaths]
    BY <2>2 DEF Marks
  <2> QED BY <1>3, <2>1, <2>2 DEF HeaderLines
<1>4. CASE line \in FileLines
  BY <1>4 DEF FileLines, Marks
<1> QED BY <1>1, <1>2, <1>3, <1>4 DEF AllLines

\* A parsed file with another path or with other lines is one.
LEMMA FileTyped ==
  ASSUME NEW file \in FileDiffs
  PROVE  /\ \A path \in ShownPaths : /\ [file EXCEPT !.old = path] \in FileDiffs
                                     /\ [file EXCEPT !.new = path] \in FileDiffs
         /\ \A lines \in Seq(NumberedEdits) : [file EXCEPT !.lines = lines] \in FileDiffs
  BY DEF FileDiffs

\* A file is begun, with no lines.
LEMMA ReadFileMeaning ==
  ASSUME IInv, ReadFile
  PROVE  /\ files' \in Seq(FileDiffs) /\ Len(files') = Len(files) + 1 /\ Len(files) \in Nat
         /\ \A i \in 1..Len(files) : files'[i] = files[i]
         /\ files'[Len(files) + 1].lines = <<>>
         /\ oldLine' = NoLine /\ newLine' = NoLine
<1> DEFINE file == [old |-> Line.old, new |-> Line.new, lines |-> <<>>]
           F == FileDiffs
<1>1. Line.old \in ShownPaths /\ Line.new \in ShownPaths
  <2>1. Line \in AllLines /\ Line.start = "diff"
    BY LineRead DEF ReadFile
  <2> QED BY <2>1, LineKinds
<1>2. <<>> \in Seq(NumberedEdits)
  OBVIOUS
<1>3. file \in F
  BY <1>1, <1>2 DEF FileDiffs
<1>4. files' = Append(files, file) /\ files \in Seq(F)
  BY DEF ReadFile, IInv, TypedPart
<1>5. file.lines = <<>>
  OBVIOUS
<1> HIDE DEF file, F
<1>6. /\ files' \in Seq(F) /\ Len(files') = Len(files) + 1 /\ Len(files) \in Nat
      /\ \A i \in 1..Len(files) : files'[i] = files[i]
      /\ files'[Len(files) + 1] = file
  BY <1>3, <1>4, AppendProperties, LenProperties
<1> QED BY <1>5, <1>6 DEF ReadFile, F

\* The last file, if there is one, is changed.
LEMMA LastFileChanged ==
  ASSUME IInv, NEW file, files # <<>> => file \in FileDiffs,
         files' = [files EXCEPT ![Len(files)] = file]
  PROVE  /\ files' \in Seq(FileDiffs) /\ Len(files') = Len(files) /\ Len(files) \in Nat
         /\ \A i \in 1..(Len(files) - 1) : files'[i] = files[i]
         /\ files # <<>> => /\ Len(files) \in 1..Len(files)
                            /\ files[Len(files)] \in FileDiffs
                            /\ files'[Len(files)] = file
<1> DEFINE F == FileDiffs
<1>1. files \in Seq(F) /\ (files # <<>> => file \in F)
  BY DEF IInv, TypedPart
<1> HIDE DEF F
<1>2. /\ files' \in Seq(F) /\ Len(files') = Len(files)
      /\ \A i \in 1..(Len(files) - 1) : files'[i] = files[i]
      /\ files # <<>> => files'[Len(files)] = file
  BY <1>1, LastChanged
<1>3. /\ Len(files) \in Nat
      /\ files # <<>> => Len(files) \in 1..Len(files) /\ files[Len(files)] \in F
  BY <1>1
<1> QED BY <1>2, <1>3 DEF F

\* The last file that there is.
LEMMA LastFileTyped ==
  ASSUME IInv, files # <<>>
  PROVE  files[Len(files)] \in FileDiffs /\ Len(files) \in 1..Len(files)
<1> DEFINE F == FileDiffs
<1>1. files \in Seq(F)
  BY DEF IInv, TypedPart
<1> HIDE DEF F
<1>2. Len(files) \in 1..Len(files) /\ files[Len(files)] \in F
  BY <1>1
<1> QED BY <1>2 DEF F

\* A path header changes no lines, of whichever file.
LEMMA ReadPathMeaning ==
  ASSUME IInv, ReadPath
  PROVE  /\ files' \in Seq(FileDiffs) /\ Len(files') = Len(files) /\ Len(files) \in Nat
         /\ \A i \in 1..(Len(files) - 1) : files'[i] = files[i]
         /\ files # <<>> => files'[Len(files)].lines = files[Len(files)].lines
         /\ oldLine' = oldLine /\ newLine' = newLine
<1> DEFINE last == files[Len(files)]
<1>1. Line.path \in ShownPaths
  <2>1. Line \in AllLines /\ Line.start \in {"---", "+++"}
    BY LineRead DEF ReadPath
  <2> QED BY <2>1, LineKinds
<1>2. PICK field \in {"old", "new"} :
        files' = [files EXCEPT ![Len(files)] = [last EXCEPT ![field] = Line.path]]
  <2>1. \/ files' = [files EXCEPT ![Len(files)].old = Line.path]
        \/ files' = [files EXCEPT ![Len(files)].new = Line.path]
    BY DEF ReadPath
  <2>2. \/ files' = [files EXCEPT ![Len(files)] = [files[Len(files)] EXCEPT !["old"] = Line.path]]
        \/ files' = [files EXCEPT ![Len(files)] = [files[Len(files)] EXCEPT !["new"] = Line.path]]
    BY <2>1
  <2> QED BY <2>2
<1> DEFINE file == [last EXCEPT ![field] = Line.path]
<1>3. files # <<>> => file \in FileDiffs /\ file.lines = last.lines
  BY <1>1, LastFileTyped DEF FileDiffs
<1>4. oldLine' = oldLine /\ newLine' = newLine
  BY DEF ReadPath
<1>5. files' = [files EXCEPT ![Len(files)] = file]
  BY <1>2
<1> HIDE DEF file
<1> QED BY <1>3, <1>4, <1>5, LastFileChanged

\* The line as the parser numbers it.
NumberedLine ==
  [mark |-> Line.start, text |-> Line.text,
   old  |-> IF Line.start = "+" THEN NoLine ELSE oldLine,
   new  |-> IF Line.start = "-" THEN NoLine ELSE newLine]

\* An edit is one more line of the last file, and moves the line numbers.
LEMMA ReadEditMeaning ==
  ASSUME IInv, ReadEdit
  PROVE  /\ files' \in Seq(FileDiffs) /\ Len(files') = Len(files) /\ Len(files) \in Nat
         /\ \A i \in 1..(Len(files) - 1) : files'[i] = files[i]
         /\ files # <<>> => files'[Len(files)].lines = Append(files[Len(files)].lines, NumberedLine)
         /\ oldLine \in Nat /\ newLine \in Nat /\ NumberedLine \in NumberedEdits
         /\ oldLine' = IF Line.start = "+" THEN oldLine ELSE oldLine + 1
         /\ newLine' = IF Line.start = "-" THEN newLine ELSE newLine + 1
<1>1. /\ Line.start \in Marks /\ Line.text \in Texts
      /\ oldLine \in Nat /\ newLine \in Nat
  <2>1. Line \in AllLines /\ Line.start \in Marks
    BY LineRead DEF ReadEdit
  <2> QED BY <2>1, LineKinds DEF ReadEdit, InHunk, IInv, TypedPart
<1>2. NoLine \notin Nat
  BY PatchAssumption
<1>3. NumberedLine \in NumberedEdits
  BY <1>1, <1>2 DEF NumberedLine, NumberedEdits, Marks
<1> DEFINE last == files[Len(files)]
           lines == Append(last.lines, NumberedLine)
           file == [last EXCEPT !.lines = lines]
<1>4. files' = [files EXCEPT ![Len(files)] = file]
  BY DEF ReadEdit, NumberedLine
<1>5. files # <<>> => file \in FileDiffs /\ file.lines = lines
  <2> SUFFICES ASSUME files # <<>> PROVE file \in FileDiffs /\ file.lines = lines
    OBVIOUS
  <2>1. last \in FileDiffs
    BY LastFileTyped
  <2>2. last.lines \in Seq(NumberedEdits)
    BY <2>1 DEF FileDiffs
  <2>3. lines \in Seq(NumberedEdits)
    BY <1>3, <2>2, AppendProperties
  <2> HIDE DEF lines
  <2> QED BY <2>1, <2>3 DEF FileDiffs
<1> HIDE DEF file
<1>6. /\ oldLine' = IF Line.start = "+" THEN oldLine ELSE oldLine + 1
      /\ newLine' = IF Line.start = "-" THEN newLine ELSE newLine + 1
  BY DEF ReadEdit
<1> QED BY <1>1, <1>3, <1>4, <1>5, <1>6, LastFileChanged

ReadingAny == ReadFile \/ ReadPath \/ ReadHunk \/ ReadEdit \/ SkipLine

\* Reading a line keeps the invariant.
LEMMA ReadIInv ==
  ASSUME IInv, ReadingAny
  PROVE  IInv'
<1>1. /\ unread' \in Seq(AllLines) /\ IsSuffix(unread', Diff(patch'))
      /\ pc = "parse" /\ pc' = pc /\ patch' = patch /\ mismatch' = mismatch
  BY LineRead DEF ReadingAny, ReadFile, ReadPath, ReadHunk, ReadEdit, SkipLine
<1>2. /\ files' \in Seq(FileDiffs)
      /\ {oldLine', newLine'} \subseteq Nat \cup {NoLine}
      /\ (oldLine' = NoLine) = (newLine' = NoLine)
  <2>0. /\ files \in Seq(FileDiffs) /\ {oldLine, newLine} \subseteq Nat \cup {NoLine}
        /\ (oldLine = NoLine) = (newLine = NoLine) /\ NoLine \notin Nat
    BY PatchAssumption DEF IInv, TypedPart
  <2>1. CASE ReadFile
    BY <2>1, ReadFileMeaning
  <2>2. CASE ReadPath
    BY <2>0, <2>2, ReadPathMeaning
  <2>3. CASE ReadHunk
    <3>1. Line \in AllLines /\ Line.start = "@@"
      BY <2>3, LineRead DEF ReadHunk
    <3>2. Line.old \in Nat /\ Line.new \in Nat
      BY <3>1, LineKinds
    <3> QED BY <2>0, <2>3, <3>2 DEF ReadHunk
  <2>4. CASE ReadEdit
    <3>1. /\ files' \in Seq(FileDiffs) /\ oldLine \in Nat /\ newLine \in Nat
          /\ oldLine' = IF Line.start = "+" THEN oldLine ELSE oldLine + 1
          /\ newLine' = IF Line.start = "-" THEN newLine ELSE newLine + 1
      BY <2>4, ReadEditMeaning
    <3>2. oldLine' \in Nat /\ newLine' \in Nat
      BY <3>1
    <3> QED BY <2>0, <3>1, <3>2
  <2>5. CASE SkipLine
    BY <2>0, <2>5 DEF SkipLine
  <2> QED BY <2>1, <2>2, <2>3, <2>4, <2>5 DEF ReadingAny
<1> QED BY <1>1, <1>2 DEF IInv, TypedPart, CountPart

\* An entry of Git's list gives a file both paths of its change, and no other lines.
LEMMA AlignedMeaning ==
  ASSUME NEW file \in FileDiffs, NEW change \in Changes, StatusFits(change)
  PROVE  /\ Aligned(file, ChangedFile(change)).old = change.old
         /\ Aligned(file, ChangedFile(change)).new = change.new
         /\ Aligned(file, ChangedFile(change)).lines = file.lines
         /\ Aligned(file, ChangedFile(change)) \in FileDiffs
<1>1. /\ ChangedFile(change).status = change.status
      /\ ChangedFile(change).path = IF change.status = "D" THEN change.old ELSE change.new
      /\ ChangedFile(change).oldPath = IF change.status = "R" THEN change.old ELSE NoPath
  BY DEF ChangedFile
<1>2. /\ file.lines \in Seq(NumberedEdits) /\ file.old \in ShownPaths /\ file.new \in ShownPaths
      /\ file = [old |-> file.old, new |-> file.new, lines |-> file.lines]
      /\ change.old \in ShownPaths /\ change.new \in ShownPaths
  BY DEF FileDiffs, Changes, ShownPaths
<1>3. Aligned(file, ChangedFile(change))
        = [file EXCEPT !.old = change.old, !.new = change.new]
  <2>1. CASE change.status = "A"
    BY <1>1, <2>1 DEF Aligned, StatusFits
  <2>2. CASE change.status = "D"
    BY <1>1, <2>2 DEF Aligned, StatusFits
  <2>3. CASE change.status \notin {"A", "D"}
    BY <1>1, <2>3 DEF Aligned, StatusFits
  <2> QED BY <2>1, <2>2, <2>3
<1>4. \A old, new \in ShownPaths :
        LET aligned == [file EXCEPT !.old = old, !.new = new]
        IN  /\ aligned \in FileDiffs /\ aligned.old = old /\ aligned.new = new
            /\ aligned.lines = file.lines
  BY DEF FileDiffs
<1> DEFINE aligned == [file EXCEPT !.old = change.old, !.new = change.new]
<1>5. /\ aligned \in FileDiffs /\ aligned.old = change.old /\ aligned.new = change.new
      /\ aligned.lines = file.lines
  BY <1>2, <1>4
<1>6. Aligned(file, ChangedFile(change)) = aligned
  BY <1>3
<1> HIDE DEF aligned
<1> QED BY <1>5, <1>6

\* The alignment, file by file: Git's paths and the lines that were parsed.
LEMMA AlignMeaning ==
  ASSUME IInv, Align
  PROVE  /\ pc = "align" /\ pc' = "done" /\ patch' = patch /\ mismatch' = mismatch
         /\ mismatch = (Len(files) # Len(patch))
         /\ files' \in Seq(FileDiffs) /\ Len(files') = Len(files)
         /\ Len(files) = Len(patch) =>
              \A i \in 1..Len(patch) : /\ files'[i].old = patch[i].old
                                       /\ files'[i].new = patch[i].new
                                       /\ files'[i].lines = files[i].lines
<1> DEFINE F == FileDiffs
<1>1. /\ pc = "align" /\ pc' = "done" /\ patch' = patch /\ mismatch' = mismatch
      /\ mismatch = (Len(files) # Len(patch))
      /\ files' = IF Len(files) # Len(patch) THEN files
                  ELSE [i \in 1..Len(files) |-> Aligned(files[i], ChangedFile(patch[i]))]
      /\ files \in Seq(F)
  BY DEF Align, IInv, CountPart, TypedPart
<1>2. Len(files) \in Nat /\ \A i \in 1..Len(files) : files[i] \in F
  <2> HIDE DEF F
  <2> QED BY <1>1, ElementOfSeq, LenProperties
<1>3. CASE Len(files) # Len(patch)
  BY <1>1, <1>3
<1>4. CASE Len(files) = Len(patch)
  <2> DEFINE aligned == [i \in 1..Len(files) |-> Aligned(files[i], ChangedFile(patch[i]))]
  <2>1. \A i \in 1..Len(files) :
          /\ aligned[i].old = patch[i].old
          /\ aligned[i].new = patch[i].new
          /\ aligned[i].lines = files[i].lines
          /\ aligned[i] \in F
    <3> SUFFICES ASSUME NEW i \in 1..Len(files)
                 PROVE  /\ aligned[i].old = patch[i].old
                        /\ aligned[i].new = patch[i].new
                        /\ aligned[i].lines = files[i].lines
                        /\ aligned[i] \in F
      OBVIOUS
    <3>1. StatusFits(patch[i]) /\ patch[i] \in Changes
      BY <1>4, PatchTyped DEF IInv
    <3> QED BY <1>2, <3>1, AlignedMeaning
  <2>2. aligned \in [1..Len(files) -> F]
    BY <2>1
  <2>3. files' = aligned
    BY <1>1, <1>4
  <2> HIDE DEF aligned, F
  <2>4. aligned \in Seq(F) /\ Len(aligned) = Len(files)
    BY <1>2, <2>2, FunctionIsSequence
  <2> QED BY <1>1, <1>4, <2>1, <2>3, <2>4 DEF F
<1> QED BY <1>3, <1>4

\* The alignment keeps the invariant.
LEMMA AlignIInv ==
  ASSUME IInv, Align
  PROVE  IInv'
<1>1. unread' = unread /\ oldLine' = oldLine /\ newLine' = newLine
  BY DEF Align
<1> QED BY <1>1, AlignMeaning DEF IInv, TypedPart, CountPart

\* Every step preserves the inductive invariant.
LEMMA NextIInv ==
  ASSUME IInv, [Next]_vars
  PROVE  IInv'
<1>1. CASE ReadingAny
  BY <1>1, ReadIInv
<1>2. CASE EndOfDiff
  BY <1>2 DEF EndOfDiff, IInv, TypedPart, CountPart
<1>3. CASE Reconcile
  BY <1>3 DEF Reconcile, IInv, TypedPart, CountPart
<1>4. CASE Align
  BY <1>4, AlignIInv
<1>5. CASE UNCHANGED vars
  BY <1>5 DEF vars, IInv, TypedPart, CountPart
<1> QED BY <1>1, <1>2, <1>3, <1>4, <1>5 DEF Next, ReadingAny

\* The invariant holds at the beginning.
LEMMA InitIInv == Init => IInv
<1> SUFFICES ASSUME Init PROVE IInv
  OBVIOUS
<1>1. patch \in Patches
  BY DEF Init
<1>2. Diff(patch) \in Seq(AllLines) /\ IsSuffix(Diff(patch), Diff(patch))
  BY <1>1, PatchTyped, DiffTyped, AllIsSuffix
<1>3. <<>> \in Seq(FileDiffs)
  OBVIOUS
<1> QED BY <1>1, <1>2, <1>3 DEF Init, IInv, TypedPart, CountPart

\* The invariant gives every variable its type.
LEMMA IInvTypes == IInv => TypeOK
<1> SUFFICES ASSUME IInv PROVE TypeOK
  OBVIOUS
<1> DEFINE F == FileDiffs
           N == NumberedEdits
<1>1. files \in Seq(F)
  BY DEF IInv, TypedPart
<1>2. \A i \in 1..Len(files) : files[i] \in F
  <2> HIDE DEF F
  <2> QED BY <1>1, ElementOfSeq
<1>3. \A i \in 1..Len(files) : files[i].lines \in Seq(N)
  BY <1>2 DEF FileDiffs
<1>4. \A i \in 1..Len(files) : \A k \in 1..Len(files[i].lines) : files[i].lines[k] \in N
  <2> HIDE DEF N
  <2> QED BY <1>3, ElementOfSeq
<1>5. \A i \in 1..Len(files) : \A k \in 1..Len(files[i].lines) :
        LET line == files[i].lines[k]
        IN  /\ line.mark \in Marks /\ line.text \in Texts
            /\ (line.old = NoLine) = (line.mark = "+")
            /\ (line.new = NoLine) = (line.mark = "-")
  BY <1>4 DEF NumberedEdits
<1> QED BY <1>5 DEF IInv, TypedPart, TypeOK

\* The invariant gives the files the paths of Git's list.
LEMMA IInvPaths == IInv => PathsAreGits
  BY DEF IInv, CountPart, PathsAreGits

-----------------------------------------------------------------------------
(* The place in the diff: numbered lines, gathered so far                   *)

\* The hunks of a change as their reader numbers them.
NumberedHunks(change) == [h \in 1..Len(change.hunks) |-> NumberedHunk(change.hunks[h])]

\* The edits of a hunk before one, without those of a mark.
Skipped(hunk, e, mark) == Cardinality({k \in 1..(e - 1) : hunk.edits[k].mark # mark})

\* A file has the lines of its change.
Exact(i) == files[i].lines = FlattenSeq(NumberedHunks(patch[i]))

\* As far as the i-th, every ordinary change has its lines in its own file.
ExactTo(i) == \A k \in 1..i : Ordinary(patch[k]) => Exact(k)

\* The diff has been read as far as the end of a change, with a file for each.
Between(i) ==
  /\ i \in 0..Len(patch)
  /\ unread = RestOf(Printed(patch), i)
  /\ Len(files) = i
  /\ ExactTo(i)

\* What is left of a hunk after some of its edits.
RemainingEdits(change, h, e) ==
  IF h = 0 THEN <<>> ELSE RestOf(EditsPrinted(change.hunks[h]), e)

\* What a file has of its change at a place in it.
Gathered(change, h, e) ==
  IF h = 0 THEN <<>>
  ELSE FirstOf(NumberedHunks(change), h - 1) \o SubSeq(NumberedHunk(change.hunks[h]), 1, e)

\* Within an ordinary change, all of whose header but the end, or all of whose
\* header and some hunks and edits, have been read.
Within(i, end, h, e) ==
  /\ i \in 1..Len(patch) /\ Ordinary(patch[i])
  /\ end \in Seq(HeaderLines) /\ (h # 0 => end = <<>>)
  /\ h \in 0..Len(patch[i].hunks)
  /\ e \in 0..(IF h = 0 THEN 0 ELSE Len(patch[i].hunks[h].edits))
  /\ unread = end \o (RemainingEdits(patch[i], h, e)
                        \o (RestOf(HunksPrinted(patch[i]), h) \o RestOf(Printed(patch), i)))
  /\ Len(files) = i
  /\ ExactTo(i - 1)
  /\ files[i].lines = Gathered(patch[i], h, e)
  /\ h # 0 => /\ oldLine = patch[i].hunks[h].old + Skipped(patch[i].hunks[h], e + 1, "+")
              /\ newLine = patch[i].hunks[h].new + Skipped(patch[i].hunks[h], e + 1, "-")

\* Within a change with odd text, or with a file too many: from then on there are
\* always more files than changes that have begun.
Strayed(i) ==
  /\ i \in 1..Len(patch)
  /\ \E rest \in Seq(AllLines) : unread = rest \o RestOf(Printed(patch), i)
  /\ \/ Len(files) > i
     \/ Len(files) = i /\ ~Ordinary(patch[i]) /\ ExactTo(i - 1)

\* While the diff is read there is a place in it; afterwards, when there are as
\* many files as changes, the ordinary changes are exact.
ExactPart ==
  /\ pc = "parse" =>
       \/ \E i \in Nat : Strayed(i)
       \/ \E i \in Nat : Between(i)
       \/ \E i, h, e \in Nat, end \in Seq(HeaderLines) : Within(i, end, h, e)
  /\ pc # "parse" /\ Len(files) = Len(patch) => ExactTo(Len(patch))

\* A count of the naturals up to a limit, from that for one less.
LEMMA CountNext ==
  ASSUME NEW n \in Nat, NEW S
  PROVE  /\ Cardinality({k \in 1..n : k \in S}) \in Nat
         /\ Cardinality({k \in 1..(n + 1) : k \in S})
              = Cardinality({k \in 1..n : k \in S}) + (IF n + 1 \in S THEN 1 ELSE 0)
<1> DEFINE T == {k \in 1..n : k \in S}
<1>1. IsFiniteSet(T)
  <2>1. IsFiniteSet(1..n)
    BY FS_Interval
  <2> QED BY <2>1, FS_Subset
<1>2. Cardinality(T) \in Nat
  BY <1>1, FS_CardinalityType
<1>3. CASE n + 1 \in S
  <2>1. {k \in 1..(n + 1) : k \in S} = T \cup {n + 1} /\ n + 1 \notin T
    BY <1>3
  <2>2. Cardinality(T \cup {n + 1}) = Cardinality(T) + 1
    BY <1>1, <2>1, FS_AddElement
  <2> QED BY <1>2, <1>3, <2>1, <2>2
<1>4. CASE n + 1 \notin S
  <2>1. {k \in 1..(n + 1) : k \in S} = T
    BY <1>4
  <2> QED BY <1>2, <1>4, <2>1
<1> QED BY <1>3, <1>4, <1>2

\* One edit further, one more has been skipped or not.
LEMMA SkippedNext ==
  ASSUME NEW hunk, NEW mark, NEW e \in Nat
  PROVE  /\ Skipped(hunk, 1, mark) = 0
         /\ Skipped(hunk, e + 1, mark) \in Nat
         /\ Skipped(hunk, (e + 1) + 1, mark) = Skipped(hunk, e + 1, mark)
              + (IF hunk.edits[e + 1].mark # mark THEN 1 ELSE 0)
<1>1. Skipped(hunk, 1, mark) = 0
  <2>1. {k \in 1..(1 - 1) : hunk.edits[k].mark # mark} = {}
    OBVIOUS
  <2> QED BY <2>1, FS_EmptySet DEF Skipped
<1> DEFINE S == {k \in 1..(e + 1) : hunk.edits[k].mark # mark}
<1>2. /\ {k \in 1..((e + 1) - 1) : hunk.edits[k].mark # mark} = {k \in 1..e : k \in S}
      /\ {k \in 1..(((e + 1) + 1) - 1) : hunk.edits[k].mark # mark} = {k \in 1..(e + 1) : k \in S}
      /\ (e + 1 \in S) = (hunk.edits[e + 1].mark # mark)
  OBVIOUS
<1> HIDE DEF S
<1>3. /\ Skipped(hunk, e + 1, mark) = Cardinality({k \in 1..e : k \in S})
      /\ Skipped(hunk, (e + 1) + 1, mark) = Cardinality({k \in 1..(e + 1) : k \in S})
  BY <1>2 DEF Skipped
<1> QED BY <1>1, <1>2, <1>3, CountNext

\* The lines a reader of a hunk numbers.
LEMMA NumberedTyped ==
  ASSUME NEW hunk \in Hunks
  PROVE  /\ NumberedHunk(hunk) \in Seq(NumberedEdits)
         /\ Len(NumberedHunk(hunk)) = Len(hunk.edits)
         /\ \A e \in 1..Len(hunk.edits) :
              /\ hunk.edits[e] \in [mark : Marks, text : Texts]
              /\ NumberedHunk(hunk)[e] =
                   [mark |-> hunk.edits[e].mark, text |-> hunk.edits[e].text,
                    old |-> IF hunk.edits[e].mark = "+" THEN NoLine
                            ELSE hunk.old + Skipped(hunk, e, "+"),
                    new |-> IF hunk.edits[e].mark = "-" THEN NoLine
                            ELSE hunk.new + Skipped(hunk, e, "-")]
<1> DEFINE n == Len(hunk.edits)
           E == [mark : Marks, text : Texts]
<1>1. hunk.edits \in Seq(E) /\ hunk.old \in Nat /\ hunk.new \in Nat
  BY DEF Hunks
<1>2. n \in Nat /\ \A e \in 1..n : hunk.edits[e] \in E
  <2> HIDE DEF E
  <2> QED BY <1>1, ElementOfSeq, LenProperties
<1>3. \A e \in 1..n :
        NumberedHunk(hunk)[e] =
          [mark |-> hunk.edits[e].mark, text |-> hunk.edits[e].text,
           old |-> IF hunk.edits[e].mark = "+" THEN NoLine ELSE hunk.old + Skipped(hunk, e, "+"),
           new |-> IF hunk.edits[e].mark = "-" THEN NoLine ELSE hunk.new + Skipped(hunk, e, "-")]
  BY DEF NumberedHunk, Skipped
<1>4. \A e \in 1..n : NumberedHunk(hunk)[e] \in NumberedEdits
  <2> SUFFICES ASSUME NEW e \in 1..n PROVE NumberedHunk(hunk)[e] \in NumberedEdits
    OBVIOUS
  <2>1. Skipped(hunk, e, "+") \in Nat /\ Skipped(hunk, e, "-") \in Nat
    <3>1. e - 1 \in Nat /\ (e - 1) + 1 = e
      BY <1>2
    <3> QED BY <3>1, SkippedNext
  <2> DEFINE old == hunk.old + Skipped(hunk, e, "+")
             new == hunk.new + Skipped(hunk, e, "-")
  <2>2. old \in Nat /\ new \in Nat /\ NoLine \notin Nat
    BY <1>1, <2>1, PatchAssumption
  <2>3. NumberedHunk(hunk)[e] =
          [mark |-> hunk.edits[e].mark, text |-> hunk.edits[e].text,
           old |-> IF hunk.edits[e].mark = "+" THEN NoLine ELSE old,
           new |-> IF hunk.edits[e].mark = "-" THEN NoLine ELSE new]
    BY <1>3
  <2>4. hunk.edits[e].mark \in Marks /\ hunk.edits[e].text \in Texts
    BY <1>2
  <2> HIDE DEF old, new
  <2> QED BY <2>2, <2>3, <2>4 DEF NumberedEdits
<1>5. NumberedHunk(hunk) = [e \in 1..n |-> NumberedHunk(hunk)[e]]
  BY DEF NumberedHunk
<1>6. NumberedHunk(hunk) \in [1..n -> NumberedEdits]
  BY <1>4, <1>5
<1> HIDE DEF n
<1>7. NumberedHunk(hunk) \in Seq(NumberedEdits) /\ Len(NumberedHunk(hunk)) = n
  BY <1>2, <1>6, FunctionIsSequence
<1> QED BY <1>2, <1>3, <1>7 DEF n

\* The hunks of a change, numbered one by one.
LEMMA NumberedHunksTyped ==
  ASSUME NEW change \in Changes
  PROVE  /\ NumberedHunks(change) \in Seq(Seq(NumberedEdits))
         /\ Len(NumberedHunks(change)) = Len(change.hunks)
         /\ \A h \in 1..Len(change.hunks) : NumberedHunks(change)[h] = NumberedHunk(change.hunks[h])
<1> DEFINE Q == Seq(NumberedEdits)
           n == Len(change.hunks)
<1>1. n \in Nat /\ \A h \in 1..n : change.hunks[h] \in Hunks
  BY ChangeTyped
<1>2. NumberedHunks(change) \in [1..n -> Q]
  BY <1>1, NumberedTyped DEF NumberedHunks
<1>3. NumberedHunks(change) \in Seq(Q) /\ Len(NumberedHunks(change)) = n
  <2> HIDE DEF Q, n
  <2> QED BY <1>1, <1>2, FunctionIsSequence
<1> QED BY <1>3 DEF NumberedHunks

\* What has been gathered at the end of a hunk and at the beginning of the next.
LEMMA GatheredHunks ==
  ASSUME NEW change \in Changes, NEW h \in 0..Len(change.hunks)
  PROVE  /\ Gathered(change, h, IF h = 0 THEN 0 ELSE Len(change.hunks[h].edits))
              = FirstOf(NumberedHunks(change), h)
         /\ h < Len(change.hunks) =>
              Gathered(change, h + 1, 0) = FirstOf(NumberedHunks(change), h)
<1> DEFINE all == NumberedHunks(change)
           Q == Seq(NumberedEdits)
<1>1. /\ all \in Seq(Q) /\ Len(all) = Len(change.hunks)
      /\ Len(change.hunks) \in Nat
      /\ \A k \in 1..Len(change.hunks) : /\ all[k] = NumberedHunk(change.hunks[k])
                                         /\ change.hunks[k] \in Hunks
  BY NumberedHunksTyped, ChangeTyped
<1> HIDE DEF all
<1>2. ASSUME h = 0 PROVE Gathered(change, h, IF h = 0 THEN 0 ELSE Len(change.hunks[h].edits))
                             = FirstOf(all, h)
  <2>1. FirstOf(all, 0) = <<>>
    BY <1>1, FirstAndRest
  <2>2. (IF h = 0 THEN 0 ELSE Len(change.hunks[h].edits)) = 0
    BY <1>2
  <2>3. Gathered(change, 0, 0) = <<>>
    BY DEF Gathered
  <2> QED BY <1>2, <2>1, <2>2, <2>3
<1>3. ASSUME h # 0 PROVE Gathered(change, h, IF h = 0 THEN 0 ELSE Len(change.hunks[h].edits))
                             = FirstOf(all, h)
  <2>1. h \in 1..Len(change.hunks) /\ h - 1 \in 0..(Len(all) - 1) /\ (h - 1) + 1 = h
    BY <1>1, <1>3
  <2>2. FirstOf(all, h) = FirstOf(all, h - 1) \o all[h]
    BY <1>1, <2>1, FirstOneMore
  <2>3. /\ NumberedHunk(change.hunks[h]) \in Q
        /\ Len(NumberedHunk(change.hunks[h])) = Len(change.hunks[h].edits)
    BY <1>1, <2>1, NumberedTyped
  <2>4. SubSeq(NumberedHunk(change.hunks[h]), 1, Len(change.hunks[h].edits))
          = NumberedHunk(change.hunks[h])
    BY <2>3, SubSeqFull
  <2>5. Gathered(change, h, Len(change.hunks[h].edits)) = FirstOf(all, h)
    BY <1>1, <1>3, <2>1, <2>2, <2>4 DEF Gathered, all
  <2>6. (IF h = 0 THEN 0 ELSE Len(change.hunks[h].edits)) = Len(change.hunks[h].edits)
    BY <1>3
  <2> QED BY <2>5, <2>6
<1>4. h < Len(change.hunks) => Gathered(change, h + 1, 0) = FirstOf(all, h)
  <2>1. SubSeq(NumberedHunk(change.hunks[h + 1]), 1, 0) = <<>>
    BY SubSeqEmpty
  <2>2. FirstOf(all, h) \in Seq(NumberedEdits)
    BY <1>1, FirstAndRestTyped
  <2>3. FirstOf(all, h) \o <<>> = FirstOf(all, h)
    BY <2>2, ConcatEmptySeq
  <2>4. h + 1 # 0 /\ (h + 1) - 1 = h
    BY <1>1
  <2> QED BY <2>1, <2>3, <2>4 DEF Gathered, all
<1> QED BY <1>2, <1>3, <1>4 DEF all

\* One more edit.
LEMMA GatheredEdits ==
  ASSUME NEW change \in Changes, NEW h \in 1..Len(change.hunks),
         NEW e \in 0..(Len(change.hunks[h].edits) - 1)
  PROVE  Gathered(change, h, e + 1)
           = Append(Gathered(change, h, e), NumberedHunk(change.hunks[h])[e + 1])
<1> DEFINE all == NumberedHunks(change)
           lines == NumberedHunk(change.hunks[h])
           N == NumberedEdits
<1>1. /\ all \in Seq(Seq(N)) /\ Len(all) = Len(change.hunks)
      /\ Len(change.hunks) \in Nat
      /\ change.hunks[h] \in Hunks
  BY NumberedHunksTyped, ChangeTyped
<1>2. lines \in Seq(N) /\ Len(lines) = Len(change.hunks[h].edits) /\ Len(lines) \in Nat
  BY <1>1, NumberedTyped
<1> HIDE DEF all, lines, N
<1>3. /\ e \in 0..Len(lines) /\ e + 1 \in 1..Len(lines) /\ 1 \in 1..Len(lines) /\ (e + 1) - 1 = e
      /\ 1 \in 1..(Len(lines) + 1) /\ h - 1 \in 0..Len(all) /\ h # 0
  BY <1>1, <1>2, SMTT(30)
<1>4. SubSeq(lines, 1, e + 1) = SubSeq(lines, 1, e) \o <<lines[e + 1]>>
  <2>1. SubSeq(lines, 1, e + 1) = SubSeq(lines, 1, (e + 1) - 1) \o <<lines[e + 1]>>
    BY <1>2, <1>3, SubSeqRecursiveSecond
  <2> QED BY <1>3, <2>1
<1>5. SubSeq(lines, 1, e) \in Seq(N) /\ lines[e + 1] \in N
  BY <1>2, <1>3, SubSeqType, ElementOfSeq
<1>6. FirstOf(all, h - 1) \in Seq(N)
  BY <1>1, <1>3, FirstAndRestTyped
<1>7. <<lines[e + 1]>> \in Seq(N)
  BY <1>5
<1>8. FirstOf(all, h - 1) \o SubSeq(lines, 1, e) \in Seq(N)
  BY <1>5, <1>6, ConcatProperties
<1>9. FirstOf(all, h - 1) \o (SubSeq(lines, 1, e) \o <<lines[e + 1]>>)
        = (FirstOf(all, h - 1) \o SubSeq(lines, 1, e)) \o <<lines[e + 1]>>
  <2> DEFINE a == FirstOf(all, h - 1)
             b == SubSeq(lines, 1, e)
             c == <<lines[e + 1]>>
  <2>1. a \in Seq(N) /\ b \in Seq(N) /\ c \in Seq(N)
    BY <1>5, <1>6, <1>7
  <2> HIDE DEF a, b, c
  <2>2. (a \o b) \o c = a \o (b \o c)
    BY <2>1, ConcatAssociative, SMTT(60)
  <2> QED BY <2>2 DEF a, b, c
<1>10. (FirstOf(all, h - 1) \o SubSeq(lines, 1, e)) \o <<lines[e + 1]>>
         = Append(FirstOf(all, h - 1) \o SubSeq(lines, 1, e), lines[e + 1])
  BY <1>5, <1>8, AppendIsConcat
<1> QED BY <1>3, <1>4, <1>9, <1>10 DEF Gathered, all, lines

-----------------------------------------------------------------------------
(* The place in the diff: the next line                                     *)

\* A sequence that begins with an element, taken apart.
LEMMA StartsWith ==
  ASSUME NEW S, NEW x \in S, NEW t \in Seq(S)
  PROVE  <<x>> \o t # <<>> /\ Head(<<x>> \o t) = x /\ Tail(<<x>> \o t) = t
<1>1. <<x>> \in Seq(S) /\ <<x>> # <<>> /\ Head(<<x>>) = x /\ Tail(<<x>>) = <<>>
  OBVIOUS
<1>2. /\ <<x>> \o t # <<>> /\ Head(<<x>> \o t) = Head(<<x>>)
      /\ Tail(<<x>> \o t) = Tail(<<x>>) \o t
  BY <1>1, HeadOfConcat
<1>3. <<>> \o t = t
  BY ConcatEmptySeq
<1> QED BY <1>1, <1>2, <1>3

\* One of several sequences in a row, taken apart.
LEMMA TakenApart ==
  ASSUME NEW S, NEW x \in S, NEW r \in Seq(S), NEW t \in Seq(S)
  PROVE  /\ (<<x>> \o r) \o t = <<x>> \o (r \o t)
         /\ r \o t \in Seq(S)
         /\ <<>> \o t = t /\ t \o <<>> = t
<1>1. <<x>> \in Seq(S)
  OBVIOUS
<1> QED BY <1>1, ConcatAssociative, ConcatProperties, ConcatEmptySeq

\* What follows a place in the diff is made of lines.
LEMMA RemainingTyped ==
  ASSUME patch \in Patches, NEW i \in 1..Len(patch), NEW h \in 0..Len(patch[i].hunks),
         NEW e \in 0..(IF h = 0 THEN 0 ELSE Len(patch[i].hunks[h].edits))
  PROVE  /\ patch[i] \in Changes /\ Len(patch) \in Nat /\ Len(patch[i].hunks) \in Nat
         /\ h # 0 => /\ patch[i].hunks[h] \in Hunks
                     /\ Len(patch[i].hunks[h].edits) \in Nat
         /\ RemainingEdits(patch[i], h, e) \in Seq(AllLines)
         /\ RestOf(HunksPrinted(patch[i]), h) \in Seq(AllLines)
         /\ RestOf(Printed(patch), i) \in Seq(AllLines)
         /\ RestOf(HunksPrinted(patch[i]), h) \o RestOf(Printed(patch), i) \in Seq(AllLines)
         /\ RemainingEdits(patch[i], h, e)
              \o (RestOf(HunksPrinted(patch[i]), h) \o RestOf(Printed(patch), i)) \in Seq(AllLines)
<1>1. /\ patch \in Seq(Changes) /\ patch[i] \in Changes /\ Len(patch) \in Nat
  BY PatchTyped
<1>2. /\ HunksPrinted(patch[i]) \in Seq(Seq(AllLines))
      /\ Len(HunksPrinted(patch[i])) = Len(patch[i].hunks) /\ Len(patch[i].hunks) \in Nat
      /\ \A k \in 1..Len(patch[i].hunks) : patch[i].hunks[k] \in Hunks
  BY <1>1, ChangeTyped
<1>3. /\ Printed(patch) \in Seq(Seq(AllLines)) /\ Len(Printed(patch)) = Len(patch)
  BY <1>1, DiffTyped
<1>4. RestOf(HunksPrinted(patch[i]), h) \in Seq(AllLines)
  BY <1>2, FirstAndRestTyped
<1>5. RestOf(Printed(patch), i) \in Seq(AllLines)
  <2>1. i \in 0..Len(Printed(patch))
    BY <1>1, <1>3
  <2> QED BY <1>3, <2>1, FirstAndRestTyped
<1>6. /\ h # 0 => patch[i].hunks[h] \in Hunks /\ Len(patch[i].hunks[h].edits) \in Nat
      /\ RemainingEdits(patch[i], h, e) \in Seq(AllLines)
  <2>1. CASE h = 0
    BY <2>1 DEF RemainingEdits
  <2>2. CASE h # 0
    <3>1. patch[i].hunks[h] \in Hunks
      BY <1>2, <2>2
    <3>2. /\ EditsPrinted(patch[i].hunks[h]) \in Seq(Seq(AllLines))
          /\ Len(EditsPrinted(patch[i].hunks[h])) = Len(patch[i].hunks[h].edits)
          /\ Len(patch[i].hunks[h].edits) \in Nat
      BY <3>1, HunkTyped
    <3>3. e \in 0..Len(EditsPrinted(patch[i].hunks[h]))
      BY <2>2, <3>2
    <3>4. RestOf(EditsPrinted(patch[i].hunks[h]), e) \in Seq(AllLines)
      BY <3>2, <3>3, FirstAndRestTyped
    <3> QED BY <2>2, <3>1, <3>2, <3>4 DEF RemainingEdits
  <2> QED BY <2>1, <2>2
<1>7. RestOf(HunksPrinted(patch[i]), h) \o RestOf(Printed(patch), i) \in Seq(AllLines)
  BY <1>4, <1>5, ConcatProperties
<1>8. RemainingEdits(patch[i], h, e)
        \o (RestOf(HunksPrinted(patch[i]), h) \o RestOf(Printed(patch), i)) \in Seq(AllLines)
  BY <1>6, <1>7, ConcatProperties
<1> QED BY <1>1, <1>2, <1>4, <1>5, <1>6, <1>7, <1>8

\* The next line within the header of a change ...
LEMMA HeaderNext ==
  ASSUME patch \in Patches, NEW i, NEW end, NEW h, NEW e, Within(i, end, h, e), end # <<>>
  PROVE  /\ unread # <<>> /\ Line \in HeaderLines
         /\ Tail(end) \in Seq(HeaderLines)
         /\ Tail(unread) = Tail(end) \o (RemainingEdits(patch[i], h, e)
              \o (RestOf(HunksPrinted(patch[i]), h) \o RestOf(Printed(patch), i)))
<1> DEFINE more == RemainingEdits(patch[i], h, e)
                     \o (RestOf(HunksPrinted(patch[i]), h) \o RestOf(Printed(patch), i))
<1>1. more \in Seq(AllLines)
  BY RemainingTyped DEF Within
<1>2. end \in Seq(HeaderLines) /\ unread = end \o more
  BY DEF Within
<1>3. end \in Seq(AllLines)
  BY <1>2, SeqMonotonic DEF AllLines
<1> DEFINE H == HeaderLines
<1> HIDE DEF more, H
<1>4. Head(end) \in H /\ Tail(end) \in Seq(H)
  <2>1. end \in Seq(H)
    BY <1>2 DEF H
  <2> QED BY <2>1, HeadTailProperties
<1>5. unread # <<>> /\ Head(unread) = Head(end) /\ Tail(unread) = Tail(end) \o more
  BY <1>1, <1>2, <1>3, HeadOfConcat
<1> QED BY <1>4, <1>5 DEF Line, H, more

\* ... and within a hunk, ...
LEMMA EditNext ==
  ASSUME patch \in Patches, NEW i, NEW h, NEW e, Within(i, <<>>, h, e),
         h # 0, e # Len(patch[i].hunks[h].edits)
  PROVE  LET edit == patch[i].hunks[h].edits[e + 1]
         IN  /\ e \in 0..(Len(patch[i].hunks[h].edits) - 1)
             /\ edit \in [mark : Marks, text : Texts]
             /\ unread # <<>> /\ Line = [start |-> edit.mark, text |-> edit.text]
             /\ Tail(unread) = RemainingEdits(patch[i], h, e + 1)
                  \o (RestOf(HunksPrinted(patch[i]), h) \o RestOf(Printed(patch), i))
<1> DEFINE hunk == patch[i].hunks[h]
           edit == hunk.edits[e + 1]
           all == EditsPrinted(hunk)
           x == [start |-> edit.mark, text |-> edit.text]
           r == RestOf(all, e + 1)
           t == RestOf(HunksPrinted(patch[i]), h) \o RestOf(Printed(patch), i)
<1>1. /\ i \in 1..Len(patch) /\ h \in 0..Len(patch[i].hunks)
      /\ e \in 0..(IF h = 0 THEN 0 ELSE Len(hunk.edits))
      /\ unread = <<>> \o (RemainingEdits(patch[i], h, e) \o t)
      /\ Ordinary(patch[i])
  BY DEF Within
<1>2. /\ hunk \in Hunks /\ Len(hunk.edits) \in Nat /\ t \in Seq(AllLines)
      /\ Len(patch[i].hunks) \in Nat /\ Len(patch) \in Nat
      /\ RemainingEdits(patch[i], h, e) \o t \in Seq(AllLines)
  BY <1>1, RemainingTyped
<1>3. e \in Nat /\ e \in 0..(Len(hunk.edits) - 1) /\ e + 1 \in 1..Len(hunk.edits)
  <2> DEFINE n == Len(hunk.edits)
  <2>1. n \in Nat /\ e # n /\ e \in 0..n
    BY <1>1, <1>2
  <2> HIDE DEF n
  <2>2. e \in Nat /\ e \in 0..(n - 1) /\ e + 1 \in 1..n
    BY <2>1, SMTT(30)
  <2> QED BY <2>2 DEF n
<1>4. edit \in [mark : Marks, text : Texts]
  BY <1>2, <1>3, NumberedTyped
<1>5. edit.text \notin Oddities
  <2>1. h \in 1..Len(patch[i].hunks)
    BY <1>1, <1>2
  <2> QED BY <1>1, <1>3, <2>1 DEF Ordinary
<1>6. PrintedEdit(edit) = <<x>> /\ x \in AllLines
  <2>1. PrintedEdit(edit) = <<x>> \o <<>>
    BY <1>5 DEF PrintedEdit, Oddities
  <2>2. x \in EditLines
    BY <1>4 DEF EditLines
  <2>3. x \in AllLines
    BY <2>2 DEF AllLines
  <2> HIDE DEF x
  <2> QED BY <2>1, <2>3, TakenApart
<1>7. /\ all \in Seq(Seq(AllLines)) /\ Len(all) = Len(hunk.edits)
      /\ all[e + 1] = <<x>>
  BY <1>2, <1>3, <1>6, HunkTyped DEF EditsPrinted
<1>8. RestOf(all, e) = <<x>> \o r /\ r \in Seq(AllLines)
  <2>1. e \in 0..(Len(all) - 1) /\ e + 1 \in 0..Len(all)
    BY <1>3, <1>7
  <2> HIDE DEF all, x
  <2> QED BY <1>7, <2>1, RestOneLess, FirstAndRestTyped
<1>9. RemainingEdits(patch[i], h, e) = RestOf(all, e) /\ RemainingEdits(patch[i], h, e + 1) = r
  BY DEF RemainingEdits
<1> HIDE DEF x, r, t, all, hunk, edit
<1>10. unread = <<x>> \o (r \o t) /\ r \o t \in Seq(AllLines)
  <2>1. unread = (<<x>> \o r) \o t
    BY <1>1, <1>2, <1>8, <1>9, ConcatEmptySeq
  <2> QED BY <1>2, <1>6, <1>8, <2>1, TakenApart, SMTT(30)
<1>11. unread # <<>> /\ Head(unread) = x /\ Tail(unread) = r \o t
  BY <1>6, <1>10, StartsWith
<1> QED BY <1>3, <1>4, <1>9, <1>11 DEF Line, x, t, edit, hunk

\* ... where a hunk ends and another begins, ...
LEMMA HunkNext ==
  ASSUME patch \in Patches, NEW i, NEW h, NEW e, Within(i, <<>>, h, e),
         h # 0 => e = Len(patch[i].hunks[h].edits), h # Len(patch[i].hunks)
  PROVE  LET hunk == patch[i].hunks[h + 1]
         IN  /\ h + 1 \in 1..Len(patch[i].hunks) /\ hunk \in Hunks
             /\ unread # <<>> /\ Line = [start |-> "@@", old |-> hunk.old, new |-> hunk.new]
             /\ Tail(unread) = RemainingEdits(patch[i], h + 1, 0)
                  \o (RestOf(HunksPrinted(patch[i]), h + 1) \o RestOf(Printed(patch), i))
<1> DEFINE hunk == patch[i].hunks[h + 1]
           all == HunksPrinted(patch[i])
           x == [start |-> "@@", old |-> hunk.old, new |-> hunk.new]
           edits == RestOf(EditsPrinted(hunk), 0)
           r == RestOf(all, h + 1)
           t == RestOf(Printed(patch), i)
<1>1. /\ i \in 1..Len(patch) /\ h \in 0..Len(patch[i].hunks)
      /\ e \in 0..(IF h = 0 THEN 0 ELSE Len(patch[i].hunks[h].edits))
      /\ unread = <<>> \o (RemainingEdits(patch[i], h, e) \o (RestOf(all, h) \o t))
  BY DEF Within
<1>2. /\ patch[i] \in Changes /\ t \in Seq(AllLines) /\ Len(patch[i].hunks) \in Nat
      /\ RestOf(all, h) \o t \in Seq(AllLines)
      /\ h # 0 => patch[i].hunks[h] \in Hunks
  BY <1>1, RemainingTyped
<1>3. RemainingEdits(patch[i], h, e) = <<>>
  <2>1. CASE h = 0
    BY <2>1 DEF RemainingEdits
  <2>2. CASE h # 0
    <3>1. /\ EditsPrinted(patch[i].hunks[h]) \in Seq(Seq(AllLines))
          /\ Len(EditsPrinted(patch[i].hunks[h])) = e
      BY <1>2, <2>2, HunkTyped
    <3>2. RestOf(EditsPrinted(patch[i].hunks[h]), e) = <<>>
      BY <3>1, FirstAndRest
    <3> QED BY <2>2, <3>2 DEF RemainingEdits
  <2> QED BY <2>1, <2>2
<1>4. h + 1 \in 1..Len(patch[i].hunks) /\ h + 1 # 0
  BY <1>1, <1>2
<1>5. hunk \in Hunks
  BY <1>2, <1>4, ChangeTyped
<1>6. /\ all \in Seq(Seq(AllLines)) /\ Len(all) = Len(patch[i].hunks)
      /\ all[h + 1] = PrintedHunk(hunk)
  BY <1>2, <1>4, ChangeTyped DEF HunksPrinted
<1>7. /\ PrintedHunk(hunk) = <<x>> \o edits /\ x \in AllLines
      /\ edits \in Seq(AllLines)
  <2>1. /\ EditsPrinted(hunk) \in Seq(Seq(AllLines)) /\ Len(EditsPrinted(hunk)) \in Nat
        /\ PrintedHunk(hunk) = <<x>> \o edits /\ x \in AllLines
    BY <1>5, HunkTyped
  <2>2. 0 \in 0..Len(EditsPrinted(hunk))
    BY <2>1
  <2> QED BY <2>1, <2>2, FirstAndRestTyped
<1>8. RestOf(all, h) = PrintedHunk(hunk) \o r /\ r \in Seq(AllLines)
  <2>1. h \in 0..(Len(all) - 1) /\ h + 1 \in 0..Len(all)
    BY <1>1, <1>4, <1>6, <1>2
  <2> HIDE DEF all
  <2> QED BY <1>6, <2>1, RestOneLess, FirstAndRestTyped
<1>9. RemainingEdits(patch[i], h + 1, 0) = edits
  BY <1>4 DEF RemainingEdits
<1> HIDE DEF x, edits, r, t, all, hunk
<1>10. /\ unread = <<x>> \o (edits \o (r \o t)) /\ edits \o (r \o t) \in Seq(AllLines)
  <2>1. unread = RestOf(all, h) \o t
    BY <1>1, <1>2, <1>3, ConcatEmptySeq
  <2>2. RestOf(all, h) = (<<x>> \o edits) \o r
    BY <1>7, <1>8
  <2>3. /\ (<<x>> \o edits) \o r = <<x>> \o (edits \o r)
        /\ edits \o r \in Seq(AllLines)
    BY <1>7, <1>8, TakenApart
  <2>4. (<<x>> \o (edits \o r)) \o t = <<x>> \o ((edits \o r) \o t)
    BY <1>2, <1>7, <2>3, TakenApart, SMTT(60)
  <2>5. (edits \o r) \o t = edits \o (r \o t)
    BY <1>2, <1>7, <1>8, ConcatAssociative, SMTT(30)
  <2>6. r \o t \in Seq(AllLines) /\ edits \o (r \o t) \in Seq(AllLines)
    BY <1>2, <1>7, <1>8, ConcatProperties
  <2> QED BY <2>1, <2>2, <2>3, <2>4, <2>5, <2>6
<1>11. unread # <<>> /\ Head(unread) = x /\ Tail(unread) = edits \o (r \o t)
  BY <1>7, <1>10, StartsWith
<1> QED BY <1>4, <1>5, <1>9, <1>11 DEF Line, x, r, t, all, hunk

\* ... and between two changes.
LEMMA ChangeNext ==
  ASSUME patch \in Patches, NEW i \in 0..Len(patch), unread = RestOf(Printed(patch), i),
         i # Len(patch)
  PROVE  LET change == patch[i + 1]
         IN  /\ i + 1 \in 1..Len(patch) /\ change \in Changes
             /\ unread # <<>> /\ Line = FirstLineOf(change)
             /\ Tail(unread) = HeaderOf(change) \o (RemainingEdits(change, 0, 0)
                  \o (RestOf(HunksPrinted(change), 0) \o RestOf(Printed(patch), i + 1)))
             /\ \E rest \in Seq(AllLines) : Tail(unread) = rest \o RestOf(Printed(patch), i + 1)
<1> DEFINE change == patch[i + 1]
           all == Printed(patch)
           x == FirstLineOf(change)
           header == HeaderOf(change)
           hunks == RestOf(HunksPrinted(change), 0)
           t == RestOf(all, i + 1)
<1>1. i \in 0..Len(patch) /\ unread = RestOf(all, i)
  OBVIOUS
<1>2. /\ patch \in Seq(Changes) /\ Len(patch) \in Nat
      /\ \A k \in 1..Len(patch) : patch[k] \in Changes
  BY PatchTyped
<1>3. i + 1 \in 1..Len(patch)
  BY <1>1, <1>2
<1>4. change \in Changes
  BY <1>2, <1>3
<1>5. /\ all \in Seq(Seq(AllLines)) /\ Len(all) = Len(patch)
      /\ all[i + 1] = PrintedChange(change)
  BY <1>2, <1>3, DiffTyped DEF Printed
<1>6. RestOf(all, i) = PrintedChange(change) \o t /\ t \in Seq(AllLines)
  <2>1. i \in 0..(Len(all) - 1) /\ i + 1 \in 0..Len(all)
    BY <1>1, <1>2, <1>3, <1>5
  <2> HIDE DEF all
  <2> QED BY <1>5, <2>1, RestOneLess, FirstAndRestTyped
<1>7. /\ PrintedChange(change) = <<x>> \o (header \o hunks)
      /\ x \in AllLines /\ header \in Seq(AllLines) /\ hunks \in Seq(AllLines)
  <2>1. /\ PrintedChange(change) = <<x>> \o (header \o hunks)
        /\ HunksPrinted(change) \in Seq(Seq(AllLines))
        /\ Len(HunksPrinted(change)) \in Nat
    BY <1>4, ChangeTyped
  <2>2. x \in FileLines /\ header \in Seq(HeaderLines)
    BY <1>4, HeaderTyped
  <2>3. x \in AllLines /\ header \in Seq(AllLines)
    BY <2>2, SeqMonotonic DEF AllLines
  <2>4. 0 \in 0..Len(HunksPrinted(change))
    BY <2>1
  <2> QED BY <2>1, <2>3, <2>4, FirstAndRestTyped
<1>8. RemainingEdits(change, 0, 0) = <<>>
  BY DEF RemainingEdits
<1> HIDE DEF x, header, hunks, t, all, change
<1>9. unread = <<x>> \o (header \o (hunks \o t)) /\ header \o (hunks \o t) \in Seq(AllLines)
      /\ hunks \o t \in Seq(AllLines) /\ header \o hunks \in Seq(AllLines)
      /\ (header \o hunks) \o t = header \o (hunks \o t)
  <2>1. header \o hunks \in Seq(AllLines) /\ hunks \o t \in Seq(AllLines)
    BY <1>6, <1>7, ConcatProperties
  <2>2. (<<x>> \o (header \o hunks)) \o t = <<x>> \o ((header \o hunks) \o t)
    <3>1. x \in AllLines /\ t \in Seq(AllLines) /\ header \o hunks \in Seq(AllLines)
      BY <1>6, <1>7, <2>1
    <3>2. \A r \in Seq(AllLines) : (<<x>> \o r) \o t = <<x>> \o (r \o t)
      BY <3>1, TakenApart
    <3> QED BY <3>1, <3>2, Zenon
  <2>3. (header \o hunks) \o t = header \o (hunks \o t)
    BY <1>6, <1>7, ConcatAssociative, SMTT(60)
  <2>4. header \o (hunks \o t) \in Seq(AllLines)
    BY <1>7, <2>1, ConcatProperties
  <2> QED BY <1>1, <1>6, <1>7, <2>1, <2>2, <2>3, <2>4
<1>10. unread # <<>> /\ Head(unread) = x /\ Tail(unread) = header \o (hunks \o t)
  BY <1>7, <1>9, StartsWith
<1>11. <<>> \o (hunks \o t) = hunks \o t
  BY <1>9, ConcatEmptySeq
<1>12. \E rest \in Seq(AllLines) : Tail(unread) = rest \o t
  BY <1>9, <1>10
<1> QED BY <1>3, <1>4, <1>8, <1>10, <1>11, <1>12 DEF Line, x, header, hunks, t, all, change

\* A change has been read to its end.
LEMMA ChangeRead ==
  ASSUME patch \in Patches, NEW i, NEW h, NEW e, Within(i, <<>>, h, e),
         h # 0 => e = Len(patch[i].hunks[h].edits), h = Len(patch[i].hunks)
  PROVE  Between(i)
<1> DEFINE all == HunksPrinted(patch[i])
           t == RestOf(Printed(patch), i)
<1>1. /\ i \in 1..Len(patch) /\ h \in 0..Len(patch[i].hunks)
      /\ e \in 0..(IF h = 0 THEN 0 ELSE Len(patch[i].hunks[h].edits))
      /\ unread = <<>> \o (RemainingEdits(patch[i], h, e) \o (RestOf(all, h) \o t))
      /\ Len(files) = i /\ ExactTo(i - 1)
      /\ files[i].lines = Gathered(patch[i], h, e)
  BY DEF Within
<1>2. /\ patch[i] \in Changes /\ t \in Seq(AllLines) /\ Len(patch[i].hunks) \in Nat
      /\ h # 0 => patch[i].hunks[h] \in Hunks
      /\ Len(patch) \in Nat
  BY <1>1, RemainingTyped
<1>3. RemainingEdits(patch[i], h, e) = <<>>
  <2>1. CASE h = 0
    BY <2>1 DEF RemainingEdits
  <2>2. CASE h # 0
    <3>1. /\ EditsPrinted(patch[i].hunks[h]) \in Seq(Seq(AllLines))
          /\ Len(EditsPrinted(patch[i].hunks[h])) = e
      BY <1>2, <2>2, HunkTyped
    <3>2. RestOf(EditsPrinted(patch[i].hunks[h]), e) = <<>>
      BY <3>1, FirstAndRest
    <3> QED BY <2>2, <3>2 DEF RemainingEdits
  <2> QED BY <2>1, <2>2
<1>4. RestOf(all, h) = <<>>
  <2>1. all \in Seq(Seq(AllLines)) /\ Len(all) = h
    BY <1>2, ChangeTyped
  <2> HIDE DEF all
  <2> QED BY <2>1, FirstAndRest
<1>5. unread = t
  BY <1>1, <1>2, <1>3, <1>4, ConcatEmptySeq
<1>6. Exact(i)
  <2>1. Gathered(patch[i], h, IF h = 0 THEN 0 ELSE Len(patch[i].hunks[h].edits))
          = FirstOf(NumberedHunks(patch[i]), h)
    BY <1>1, <1>2, GatheredHunks
  <2>2. e = IF h = 0 THEN 0 ELSE Len(patch[i].hunks[h].edits)
    <3>1. CASE h = 0
      BY <1>1, <3>1
    <3> QED BY <3>1
  <2>3. FirstOf(NumberedHunks(patch[i]), h) = FlattenSeq(NumberedHunks(patch[i]))
    <3>1. /\ NumberedHunks(patch[i]) \in Seq(Seq(NumberedEdits))
          /\ Len(NumberedHunks(patch[i])) = h
      BY <1>2, NumberedHunksTyped
    <3> QED BY <3>1, FirstAndRest
  <2> QED BY <1>1, <2>1, <2>2, <2>3 DEF Exact
<1>7. i \in 0..Len(patch) /\ \A k \in 1..i : k = i \/ k \in 1..(i - 1)
  BY <1>1, <1>2
<1>8. ExactTo(i)
  BY <1>1, <1>6, <1>7 DEF ExactTo
<1> QED BY <1>1, <1>5, <1>7, <1>8 DEF Between

-----------------------------------------------------------------------------
(* The place in the diff: the steps                                         *)

\* A step of the parser reads a line and leaves all files but the last as they are.
LEMMA ReadingKeeps ==
  ASSUME IInv, ReadingAny
  PROVE  /\ patch' = patch /\ patch \in Patches /\ pc = "parse" /\ pc' = "parse"
         /\ unread # <<>> /\ unread' = Tail(unread)
         /\ Len(files) \in Nat /\ Len(files') \in Nat /\ Len(files') >= Len(files)
         /\ \A k \in 1..(Len(files) - 1) : files'[k] = files[k]
<1>1. /\ patch' = patch /\ pc = "parse" /\ pc' = "parse"
      /\ unread # <<>> /\ unread' = Tail(unread)
  BY LineRead DEF ReadingAny, ReadFile, ReadPath, ReadHunk, ReadEdit, SkipLine
<1>2. Len(files) \in Nat /\ patch \in Patches
  BY DEF IInv, TypedPart
<1>3. CASE ReadFile
  BY <1>1, <1>2, <1>3, ReadFileMeaning
<1>4. CASE ReadPath
  BY <1>1, <1>2, <1>4, ReadPathMeaning
<1>5. CASE ReadEdit
  BY <1>1, <1>2, <1>5, ReadEditMeaning
<1>6. CASE ReadHunk \/ SkipLine
  BY <1>1, <1>2, <1>6 DEF ReadHunk, SkipLine
<1> QED BY <1>3, <1>4, <1>5, <1>6 DEF ReadingAny

\* A file that does not change stays exact.
LEMMA ExactKept ==
  ASSUME IInv, ReadingAny, NEW k \in 1..Len(patch), Exact(k),
         files'[k].lines = files[k].lines
  PROVE  Exact(k)'
<1>1. patch' = patch
  BY ReadingKeeps
<1> QED BY <1>1 DEF Exact

\* Files before the last one stay as exact as they are.
LEMMA ExactToKept ==
  ASSUME IInv, ReadingAny, NEW i \in Nat, i <= Len(patch), i < Len(files), ExactTo(i)
  PROVE  ExactTo(i)'
<1>1. /\ patch' = patch /\ patch \in Patches /\ Len(files) \in Nat
      /\ \A k \in 1..(Len(files) - 1) : files'[k] = files[k]
  BY ReadingKeeps
<1>2. Len(patch) \in Nat
  BY <1>1, PatchTyped
<1> SUFFICES ASSUME NEW k \in 1..i, Ordinary(patch[k]) PROVE Exact(k)'
  BY <1>1 DEF ExactTo
<1>3. k \in 1..Len(patch) /\ k \in 1..(Len(files) - 1)
  BY <1>1, <1>2
<1>4. Exact(k)
  BY DEF ExactTo
<1> QED BY <1>1, <1>3, <1>4, ExactKept

\* Within a change with odd text, or with a file too many, the next line leads on
\* in the change or begins the next one.
LEMMA StrayedStep ==
  ASSUME IInv, ReadingAny, NEW i, Strayed(i)
  PROVE  Strayed(i)' \/ Strayed(i + 1)' \/ Between(i)
<1>1. /\ patch' = patch /\ patch \in Patches /\ unread # <<>> /\ unread' = Tail(unread)
      /\ Len(files) \in Nat /\ Len(files') \in Nat /\ Len(files') >= Len(files)
  BY ReadingKeeps
<1>2. patch \in Seq(Changes) /\ Len(patch) \in Nat
  BY <1>1, PatchTyped
<1>3. /\ i \in 1..Len(patch) /\ i \in Nat /\ i - 1 \in Nat /\ i \in 0..Len(patch)
      /\ \/ Len(files) > i
         \/ Len(files) = i /\ ~Ordinary(patch[i]) /\ ExactTo(i - 1)
  BY <1>2 DEF Strayed
<1> DEFINE t == RestOf(Printed(patch), i)
<1>4. PICK rest \in Seq(AllLines) : unread = rest \o t
  BY DEF Strayed
<1>5. t \in Seq(AllLines)
  <2>1. Printed(patch) \in Seq(Seq(AllLines)) /\ Len(Printed(patch)) = Len(patch)
    BY <1>2, DiffTyped
  <2> QED BY <1>3, <2>1, FirstAndRestTyped
<1> HIDE DEF t
<1>6. CASE rest # <<>>
  <2>1. unread' = Tail(rest) \o t
    BY <1>1, <1>4, <1>5, <1>6, HeadOfConcat
  <2>2. Tail(rest) \in Seq(AllLines)
    BY <1>6, HeadTailProperties
  <2>3. (\E more \in Seq(AllLines) : unread = more \o RestOf(Printed(patch), i))'
    BY <1>1, <2>1, <2>2 DEF t
  <2>4. CASE Len(files') > i
    BY <1>1, <1>3, <2>3, <2>4 DEF Strayed
  <2>5. CASE ~(Len(files') > i)
    <3>1. Len(files) = i /\ Len(files') = i /\ ~Ordinary(patch[i]) /\ ExactTo(i - 1)
      BY <1>1, <1>3, <2>5
    <3>2. i - 1 <= Len(patch) /\ i - 1 < Len(files)
      BY <1>2, <1>3, <3>1
    <3>3. ExactTo(i - 1)'
      BY <1>3, <3>1, <3>2, ExactToKept
    <3> QED BY <1>1, <1>3, <2>3, <3>1, <3>3 DEF Strayed
  <2> QED BY <2>4, <2>5
<1>7. CASE rest = <<>> /\ Len(files) = i
  <2>1. ~Ordinary(patch[i]) /\ ExactTo(i - 1)
    BY <1>3, <1>7
  <2>2. \A k \in 1..i : k = i \/ k \in 1..(i - 1)
    BY <1>3
  <2>3. ExactTo(i)
    BY <2>1, <2>2 DEF ExactTo
  <2>4. unread = t
    BY <1>4, <1>5, <1>7, ConcatEmptySeq
  <2> QED BY <1>3, <1>7, <2>3, <2>4 DEF Between, t
<1>8. CASE rest = <<>> /\ Len(files) > i
  <2>1. unread = RestOf(Printed(patch), i)
    BY <1>4, <1>5, <1>8, ConcatEmptySeq DEF t
  <2>2. i # Len(patch)
    <3>1. /\ Printed(patch) \in Seq(Seq(AllLines)) /\ Len(Printed(patch)) = Len(patch)
      BY <1>2, DiffTyped
    <3>2. RestOf(Printed(patch), Len(patch)) = <<>>
      BY <3>1, FirstAndRest
    <3> QED BY <1>1, <2>1, <3>2
  <2>3. /\ i + 1 \in 1..Len(patch) /\ Line = FirstLineOf(patch[i + 1])
        /\ \E more \in Seq(AllLines) : Tail(unread) = more \o RestOf(Printed(patch), i + 1)
    BY <1>1, <1>3, <2>1, <2>2, ChangeNext
  <2>4. ReadFile
    <3>1. Line.start = "diff"
      BY <2>3 DEF FirstLineOf
    <3> QED BY <3>1 DEF ReadingAny, ReadHunk, ReadPath, ReadEdit, SkipLine, Reading, Marks
  <2>5. Len(files') = Len(files) + 1
    BY <2>4, ReadFileMeaning
  <2>6. Len(files') > i + 1
    BY <1>1, <1>3, <1>8, <2>5
  <2>7. Strayed(i + 1)'
    BY <1>1, <2>3, <2>6 DEF Strayed
  <2> QED BY <2>7
<1> QED BY <1>1, <1>3, <1>6, <1>7, <1>8

\* A line of the header leaves nothing but the end of the header.
LEMMA HeaderStep ==
  ASSUME IInv, ReadingAny, NEW i, NEW end, NEW h, NEW e, Within(i, end, h, e), end # <<>>
  PROVE  Within(i, Tail(end), h, e)'
<1>1. /\ patch' = patch /\ patch \in Patches /\ unread' = Tail(unread)
      /\ Len(files) \in Nat
      /\ \A k \in 1..(Len(files) - 1) : files'[k] = files[k]
  BY ReadingKeeps
<1>2. /\ Line \in HeaderLines /\ Tail(end) \in Seq(HeaderLines)
      /\ Tail(unread) = Tail(end) \o (RemainingEdits(patch[i], h, e)
           \o (RestOf(HunksPrinted(patch[i]), h) \o RestOf(Printed(patch), i)))
  BY <1>1, HeaderNext
<1>3. Line.start \in {"---", "+++", "other"}
  BY <1>2 DEF HeaderLines
<1>4. ReadPath \/ SkipLine
  BY <1>3 DEF ReadingAny, ReadFile, ReadHunk, ReadEdit, Reading, Marks
<1>5. /\ Len(files) = i /\ i \in 1..Len(patch) /\ h = 0 /\ Len(patch) \in Nat
      /\ files # <<>>
  <2>1. Len(files) = i /\ i \in 1..Len(patch) /\ h = 0
    BY DEF Within
  <2>2. i # 0
    BY <2>1
  <2> QED BY <1>1, <2>1, <2>2, PatchTyped
<1>6. /\ Len(files') = Len(files) /\ files'[Len(files)].lines = files[Len(files)].lines
  <2>1. CASE ReadPath
    BY <1>5, <2>1, ReadPathMeaning
  <2>2. CASE SkipLine
    BY <2>2 DEF SkipLine
  <2> QED BY <1>4, <2>1, <2>2
<1>7. ExactTo(i - 1)'
  <2>1. i - 1 \in Nat /\ i - 1 <= Len(patch) /\ i - 1 < Len(files)
    BY <1>5
  <2>2. ExactTo(i - 1)
    BY DEF Within
  <2> QED BY <2>1, <2>2, ExactToKept
<1>8. /\ i \in 1..Len(patch) /\ Ordinary(patch[i]) /\ h \in 0..Len(patch[i].hunks)
      /\ e \in 0..(IF h = 0 THEN 0 ELSE Len(patch[i].hunks[h].edits))
      /\ files[i].lines = Gathered(patch[i], h, e)
  BY DEF Within
<1>9. Ordinary(patch[i])' /\ files'[i].lines = Gathered(patch[i], h, e)
  BY <1>1, <1>5, <1>6, <1>8 DEF Ordinary
<1> QED BY <1>1, <1>2, <1>5, <1>6, <1>7, <1>8, <1>9 DEF Within

\* The next edit of a hunk goes into the file with its own numbers (ReadEdit).
LEMMA EditStep ==
  ASSUME IInv, ReadingAny, NEW i, NEW h, NEW e, Within(i, <<>>, h, e),
         h # 0, e # Len(patch[i].hunks[h].edits)
  PROVE  Within(i, <<>>, h, e + 1)'
<1> DEFINE hunk == patch[i].hunks[h]
           edit == hunk.edits[e + 1]
<1>1. /\ patch' = patch /\ patch \in Patches /\ unread' = Tail(unread)
      /\ Len(files) \in Nat
      /\ \A k \in 1..(Len(files) - 1) : files'[k] = files[k]
  BY ReadingKeeps
<1>2. /\ e \in 0..(Len(hunk.edits) - 1)
      /\ edit \in [mark : Marks, text : Texts]
      /\ Line = [start |-> edit.mark, text |-> edit.text]
      /\ Tail(unread) = RemainingEdits(patch[i], h, e + 1)
           \o (RestOf(HunksPrinted(patch[i]), h) \o RestOf(Printed(patch), i))
  <2>1. LET next == patch[i].hunks[h].edits[e + 1]
        IN  /\ e \in 0..(Len(patch[i].hunks[h].edits) - 1)
            /\ next \in [mark : Marks, text : Texts]
            /\ unread # <<>> /\ Line = [start |-> next.mark, text |-> next.text]
            /\ Tail(unread) = RemainingEdits(patch[i], h, e + 1)
                 \o (RestOf(HunksPrinted(patch[i]), h) \o RestOf(Printed(patch), i))
    BY <1>1, EditNext, ZenonT(30)
  <2> QED BY <2>1, ZenonT(30)
<1>3. /\ i \in 1..Len(patch) /\ Ordinary(patch[i]) /\ h \in 0..Len(patch[i].hunks)
      /\ Len(files) = i /\ ExactTo(i - 1)
      /\ files[i].lines = Gathered(patch[i], h, e)
      /\ oldLine = hunk.old + Skipped(hunk, e + 1, "+")
      /\ newLine = hunk.new + Skipped(hunk, e + 1, "-")
      /\ e \in 0..(IF h = 0 THEN 0 ELSE Len(hunk.edits))
  BY DEF Within
<1>4. /\ patch[i] \in Changes /\ hunk \in Hunks /\ Len(hunk.edits) \in Nat
      /\ Len(patch) \in Nat /\ Len(patch[i].hunks) \in Nat
      /\ RestOf(HunksPrinted(patch[i]), h) \o RestOf(Printed(patch), i) \in Seq(AllLines)
  BY <1>1, <1>3, RemainingTyped
<1>5. /\ e \in Nat /\ e + 1 \in 1..Len(hunk.edits) /\ h \in 1..Len(patch[i].hunks)
      /\ e + 1 \in 0..(IF h = 0 THEN 0 ELSE Len(hunk.edits))
      /\ i # 0 /\ files # <<>>
  <2> HIDE DEF hunk, edit
  <2>1. /\ e \in Nat /\ e + 1 \in 1..Len(hunk.edits) /\ h \in 1..Len(patch[i].hunks) /\ i # 0
    <3>1. e \in Nat /\ e + 1 \in 1..Len(hunk.edits)
      BY <1>2, <1>4
    <3>2. h \in 1..Len(patch[i].hunks) /\ i # 0
      BY <1>3, <1>4
    <3> QED BY <3>1, <3>2
  <2>2. files # <<>>
    BY <1>3, <2>1
  <2>3. e + 1 \in 0..(IF h = 0 THEN 0 ELSE Len(hunk.edits))
    BY <1>4, <2>1
  <2> QED BY <2>1, <2>2, <2>3
<1>6. /\ Skipped(hunk, e + 1, "+") \in Nat /\ Skipped(hunk, e + 1, "-") \in Nat
      /\ Skipped(hunk, (e + 1) + 1, "+") = Skipped(hunk, e + 1, "+")
           + (IF edit.mark # "+" THEN 1 ELSE 0)
      /\ Skipped(hunk, (e + 1) + 1, "-") = Skipped(hunk, e + 1, "-")
           + (IF edit.mark # "-" THEN 1 ELSE 0)
  <2>1. e \in Nat
    BY <1>5
  <2> HIDE DEF hunk
  <2> QED BY ONLY <2>1, SkippedNext, SMTT(30)
<1>7. Line.start = edit.mark /\ Line.text = edit.text /\ Line.start \in Marks
  BY <1>2
<1>8. hunk.old \in Nat /\ hunk.new \in Nat
  BY <1>4 DEF Hunks
<1>9. oldLine \in Nat /\ newLine \in Nat
  <2> DEFINE a == hunk.old
             b == hunk.new
             c == Skipped(hunk, e + 1, "+")
             d == Skipped(hunk, e + 1, "-")
  <2>1. a \in Nat /\ b \in Nat /\ c \in Nat /\ d \in Nat
    BY <1>6, <1>8
  <2>2. oldLine = a + c /\ newLine = b + d
    BY <1>3
  <2> HIDE DEF a, b, c, d
  <2> QED BY <2>1, <2>2
<1>10. ReadEdit
  <2>1. InHunk
    BY <1>9, PatchAssumption DEF InHunk
  <2> QED BY <1>7, <2>1 DEF ReadingAny, ReadFile, ReadPath, ReadHunk, SkipLine, Reading, Marks
<1>11. /\ Len(files') = Len(files)
       /\ files'[i].lines = Append(files[i].lines, NumberedLine)
       /\ oldLine' = IF Line.start = "+" THEN oldLine ELSE oldLine + 1
       /\ newLine' = IF Line.start = "-" THEN newLine ELSE newLine + 1
  BY <1>3, <1>5, <1>10, ReadEditMeaning
<1>12. NumberedLine = NumberedHunk(hunk)[e + 1]
  <2>1. NumberedHunk(hunk)[e + 1] =
          [mark |-> edit.mark, text |-> edit.text,
           old |-> IF edit.mark = "+" THEN NoLine ELSE hunk.old + Skipped(hunk, e + 1, "+"),
           new |-> IF edit.mark = "-" THEN NoLine ELSE hunk.new + Skipped(hunk, e + 1, "-")]
    BY <1>4, <1>5, NumberedTyped
  <2> QED BY <1>3, <1>7, <2>1 DEF NumberedLine
<1>13. files'[i].lines = Gathered(patch[i], h, e + 1)
  BY <1>2, <1>3, <1>4, <1>5, <1>11, <1>12, GatheredEdits
<1>14. /\ oldLine' = hunk.old + Skipped(hunk, (e + 1) + 1, "+")
       /\ newLine' = hunk.new + Skipped(hunk, (e + 1) + 1, "-")
  <2> DEFINE a == hunk.old
             b == hunk.new
             c == Skipped(hunk, e + 1, "+")
             d == Skipped(hunk, e + 1, "-")
             cc == Skipped(hunk, (e + 1) + 1, "+")
             dd == Skipped(hunk, (e + 1) + 1, "-")
  <2>1. a \in Nat /\ b \in Nat /\ c \in Nat /\ d \in Nat
    BY <1>6, <1>8
  <2>2. oldLine = a + c /\ newLine = b + d
    BY <1>3
  <2>3. /\ cc = c + (IF edit.mark # "+" THEN 1 ELSE 0)
        /\ dd = d + (IF edit.mark # "-" THEN 1 ELSE 0)
    BY <1>6
  <2>4. /\ oldLine' = IF edit.mark = "+" THEN oldLine ELSE oldLine + 1
        /\ newLine' = IF edit.mark = "-" THEN newLine ELSE newLine + 1
    BY <1>7, <1>11
  <2> HIDE DEF a, b, c, d, cc, dd, edit
  <2>5. oldLine' = a + cc /\ newLine' = b + dd
    BY <2>1, <2>2, <2>3, <2>4
  <2> QED BY <2>5 DEF a, b, cc, dd
<1>15. ExactTo(i - 1)'
  <2>1. i - 1 \in Nat /\ i - 1 <= Len(patch) /\ i - 1 < Len(files)
    <3>1. i \in 1..Len(patch) /\ Len(files) = i /\ Len(patch) \in Nat
      BY <1>3, <1>4
    <3> QED BY ONLY <3>1, SMTT(30)
  <2> QED BY <1>3, <2>1, ExactToKept
<1>16. unread' = <<>> \o (RemainingEdits(patch[i], h, e + 1)
           \o (RestOf(HunksPrinted(patch[i]), h) \o RestOf(Printed(patch), i)))
  <2>1. RemainingEdits(patch[i], h, e + 1)
           \o (RestOf(HunksPrinted(patch[i]), h) \o RestOf(Printed(patch), i)) \in Seq(AllLines)
    BY <1>1, <1>3, <1>5, RemainingTyped
  <2> QED BY <1>1, <1>2, <2>1, ConcatEmptySeq
<1>17. Ordinary(patch[i])' /\ <<>> \in Seq(HeaderLines)
  <2>1. patch' = patch /\ Ordinary(patch[i])
    BY <1>1, <1>3
  <2> QED BY ONLY <2>1 DEF Ordinary
<1> QED BY <1>1, <1>3, <1>5, <1>11, <1>13, <1>14, <1>15, <1>16, <1>17 DEF Within

\* The header of the next hunk sets the line numbers (ReadHunk).
LEMMA HunkStep ==
  ASSUME IInv, ReadingAny, NEW i, NEW h, NEW e, Within(i, <<>>, h, e),
         h # 0 => e = Len(patch[i].hunks[h].edits), h # Len(patch[i].hunks)
  PROVE  Within(i, <<>>, h + 1, 0)'
<1> DEFINE hunk == patch[i].hunks[h + 1]
<1>1. /\ patch' = patch /\ patch \in Patches /\ unread' = Tail(unread)
      /\ Len(files) \in Nat
      /\ \A k \in 1..(Len(files) - 1) : files'[k] = files[k]
  BY ReadingKeeps
<1>2. /\ h + 1 \in 1..Len(patch[i].hunks) /\ hunk \in Hunks
      /\ Line = [start |-> "@@", old |-> hunk.old, new |-> hunk.new]
      /\ Tail(unread) = RemainingEdits(patch[i], h + 1, 0)
           \o (RestOf(HunksPrinted(patch[i]), h + 1) \o RestOf(Printed(patch), i))
  BY <1>1, HunkNext
<1>3. /\ i \in 1..Len(patch) /\ Ordinary(patch[i]) /\ h \in 0..Len(patch[i].hunks)
      /\ Len(files) = i /\ ExactTo(i - 1)
      /\ files[i].lines = Gathered(patch[i], h, e)
      /\ e \in 0..(IF h = 0 THEN 0 ELSE Len(patch[i].hunks[h].edits))
  BY DEF Within
<1>4. /\ patch[i] \in Changes /\ Len(patch) \in Nat /\ Len(patch[i].hunks) \in Nat
  BY <1>1, <1>3, RemainingTyped
<1>5. /\ h < Len(patch[i].hunks) /\ h + 1 # 0 /\ h + 1 \in 0..Len(patch[i].hunks)
      /\ 0 \in 0..(IF h + 1 = 0 THEN 0 ELSE Len(hunk.edits))
  <2>1. Len(hunk.edits) \in Nat
    BY <1>2, HunkTyped
  <2> QED BY <1>2, <1>3, <1>4, <2>1
<1>6. ReadHunk
  <2>1. Line.start = "@@"
    BY <1>2
  <2> QED BY <2>1 DEF ReadingAny, ReadFile, ReadPath, ReadEdit, SkipLine, Reading, Marks
<1>7. files' = files /\ oldLine' = hunk.old /\ newLine' = hunk.new
  BY <1>2, <1>6 DEF ReadHunk
<1>8. files'[i].lines = Gathered(patch[i], h + 1, 0)
  <2>1. e = IF h = 0 THEN 0 ELSE Len(patch[i].hunks[h].edits)
    <3>1. CASE h = 0
      BY <1>3, <3>1
    <3> QED BY <3>1
  <2>2. /\ Gathered(patch[i], h, IF h = 0 THEN 0 ELSE Len(patch[i].hunks[h].edits))
             = FirstOf(NumberedHunks(patch[i]), h)
        /\ Gathered(patch[i], h + 1, 0) = FirstOf(NumberedHunks(patch[i]), h)
    BY <1>3, <1>4, <1>5, GatheredHunks
  <2> QED BY <1>3, <1>7, <2>1, <2>2
<1>9. /\ hunk.old = hunk.old + Skipped(hunk, 0 + 1, "+")
      /\ hunk.new = hunk.new + Skipped(hunk, 0 + 1, "-")
  <2>1. hunk.old \in Nat /\ hunk.new \in Nat
    BY <1>2 DEF Hunks
  <2>2. Skipped(hunk, 1, "+") = 0 /\ Skipped(hunk, 1, "-") = 0
    <3>1. 0 \in Nat
      OBVIOUS
    <3> QED BY <3>1, SkippedNext
  <2>3. 0 + 1 = 1
    OBVIOUS
  <2> QED BY <2>1, <2>2, <2>3
<1>10. ExactTo(i - 1)'
  BY <1>1, <1>3, <1>7 DEF ExactTo, Exact
<1>11. unread' = <<>> \o (RemainingEdits(patch[i], h + 1, 0)
           \o (RestOf(HunksPrinted(patch[i]), h + 1) \o RestOf(Printed(patch), i)))
  <2>1. RemainingEdits(patch[i], h + 1, 0)
          \o (RestOf(HunksPrinted(patch[i]), h + 1) \o RestOf(Printed(patch), i)) \in Seq(AllLines)
    BY <1>1, <1>3, <1>5, RemainingTyped
  <2> QED BY <1>1, <1>2, <2>1, ConcatEmptySeq
<1>12. Ordinary(patch[i])' /\ <<>> \in Seq(HeaderLines)
  BY <1>1, <1>3 DEF Ordinary
<1> QED BY <1>1, <1>3, <1>5, <1>7, <1>8, <1>9, <1>10, <1>11, <1>12 DEF Within

\* After a change comes the next one, ordinary or not (ReadFile).
LEMMA ChangeStep ==
  ASSUME IInv, ReadingAny, NEW i, Between(i)
  PROVE  Strayed(i + 1)' \/ \E end \in Seq(HeaderLines) : Within(i + 1, end, 0, 0)'
<1>1. /\ patch' = patch /\ patch \in Patches /\ unread' = Tail(unread) /\ unread # <<>>
      /\ Len(files) \in Nat
  BY ReadingKeeps
<1>2. /\ i \in 0..Len(patch) /\ unread = RestOf(Printed(patch), i)
      /\ Len(files) = i /\ ExactTo(i)
  BY DEF Between
<1>3. patch \in Seq(Changes) /\ Len(patch) \in Nat
  BY <1>1, PatchTyped
<1>4. i # Len(patch)
  <2>1. /\ Printed(patch) \in Seq(Seq(AllLines)) /\ Len(Printed(patch)) = Len(patch)
    BY <1>3, DiffTyped
  <2>2. RestOf(Printed(patch), Len(patch)) = <<>>
    BY <2>1, FirstAndRest
  <2> QED BY <1>1, <1>2, <2>2
<1> DEFINE change == patch[i + 1]
<1>5. /\ i + 1 \in 1..Len(patch) /\ change \in Changes /\ Line = FirstLineOf(change)
      /\ Tail(unread) = HeaderOf(change) \o (RemainingEdits(change, 0, 0)
           \o (RestOf(HunksPrinted(change), 0) \o RestOf(Printed(patch), i + 1)))
      /\ \E rest \in Seq(AllLines) : Tail(unread) = rest \o RestOf(Printed(patch), i + 1)
  BY <1>1, <1>2, <1>4, ChangeNext
<1>6. ReadFile
  <2>1. Line.start = "diff"
    BY <1>5 DEF FirstLineOf
  <2> QED BY <2>1 DEF ReadingAny, ReadHunk, ReadPath, ReadEdit, SkipLine, Reading, Marks
<1>7. /\ Len(files') = i + 1 /\ \A k \in 1..i : files'[k] = files[k]
      /\ files'[i + 1].lines = <<>>
  BY <1>2, <1>6, ReadFileMeaning
<1>8. ExactTo((i + 1) - 1)'
  <2>1. (i + 1) - 1 = i
    BY <1>2
  <2> QED BY <1>1, <1>2, <1>7, <2>1 DEF ExactTo, Exact
<1>9. CASE ~Ordinary(change)
  <2>1. ~Ordinary(patch[i + 1])'
    BY <1>1, <1>9
  <2>2. Strayed(i + 1)'
    BY <1>1, <1>5, <1>7, <1>8, <2>1 DEF Strayed
  <2> QED BY <2>2
<1>10. CASE Ordinary(change)
  <2>1. PICK end : end = HeaderOf(change)
    OBVIOUS
  <2>2. end \in Seq(HeaderLines)
    BY <1>5, <2>1, HeaderTyped
  <2>3. Ordinary(patch[i + 1])'
    BY <1>1, <1>10
  <2>4. Gathered(change, 0, 0) = <<>>
    BY DEF Gathered
  <2>5. Len(change.hunks) \in Nat /\ 0 \in 0..Len(change.hunks)
    BY <1>5, ChangeTyped
  <2>6. 0 \in 0..(IF 0 = 0 THEN 0 ELSE Len(change.hunks[0].edits))
    OBVIOUS
  <2>7. Within(i + 1, end, 0, 0)'
    BY <1>1, <1>5, <1>7, <1>8, <2>1, <2>2, <2>3, <2>4, <2>5, <2>6 DEF Within
  <2> QED BY <2>2, <2>7
<1> QED BY <1>9, <1>10

\* A step of the parser goes from a place in the diff to the next one.
LEMMA ReadExact ==
  ASSUME IInv, ReadingAny, ExactPart
  PROVE  ExactPart'
<1>1. /\ patch' = patch /\ patch \in Patches /\ pc = "parse" /\ pc' = "parse"
  BY ReadingKeeps
<1>2. ASSUME NEW i \in Nat, Between(i) PROVE ExactPart'
  <2>1. Strayed(i + 1)' \/ \E end \in Seq(HeaderLines) : Within(i + 1, end, 0, 0)'
    BY <1>2, ChangeStep
  <2>2. i + 1 \in Nat /\ 0 \in Nat
    OBVIOUS
  <2> QED BY <1>1, <2>1, <2>2 DEF ExactPart
<1>3. ASSUME NEW i \in Nat, Strayed(i) PROVE ExactPart'
  <2>1. Strayed(i)' \/ Strayed(i + 1)' \/ Between(i)
    BY <1>3, StrayedStep
  <2>2. i + 1 \in Nat
    OBVIOUS
  <2> QED BY <1>1, <1>2, <2>1, <2>2 DEF ExactPart
<1>4. ASSUME NEW i \in Nat, NEW h \in Nat, NEW e \in Nat, NEW end \in Seq(HeaderLines),
             Within(i, end, h, e)
      PROVE  ExactPart'
  <2>1. CASE end # <<>>
    <3>1. Within(i, Tail(end), h, e)'
      BY <1>4, <2>1, HeaderStep
    <3>2. Tail(end) \in Seq(HeaderLines)
      BY <1>1, <1>4, <2>1, HeaderNext
    <3> QED BY <1>1, <3>1, <3>2 DEF ExactPart
  <2>2. CASE end = <<>> /\ h # 0 /\ e # Len(patch[i].hunks[h].edits)
    <3>1. Within(i, <<>>, h, e + 1)'
      BY <1>4, <2>2, EditStep
    <3>2. e + 1 \in Nat /\ <<>> \in Seq(HeaderLines)
      OBVIOUS
    <3> QED BY <1>1, <3>1, <3>2 DEF ExactPart
  <2>3. CASE /\ end = <<>> /\ (h # 0 => e = Len(patch[i].hunks[h].edits))
             /\ h # Len(patch[i].hunks)
    <3>1. Within(i, <<>>, h + 1, 0)'
      BY <1>4, <2>3, HunkStep
    <3>2. h + 1 \in Nat /\ 0 \in Nat /\ <<>> \in Seq(HeaderLines)
      OBVIOUS
    <3> QED BY <1>1, <3>1, <3>2 DEF ExactPart
  <2>4. CASE /\ end = <<>> /\ (h # 0 => e = Len(patch[i].hunks[h].edits))
             /\ h = Len(patch[i].hunks)
    <3>1. Between(i)
      BY <1>1, <1>4, <2>4, ChangeRead
    <3> QED BY <1>2, <3>1
  <2> QED BY <2>1, <2>2, <2>3, <2>4
<1> QED BY <1>1, <1>2, <1>3, <1>4 DEF ExactPart

\* At the end of the diff there is no further change.
LEMMA EndExact ==
  ASSUME IInv, EndOfDiff, ExactPart
  PROVE  ExactPart'
<1>1. /\ patch' = patch /\ patch \in Patches /\ pc = "parse" /\ pc' = "reconcile"
      /\ unread = <<>> /\ files' = files
  BY DEF EndOfDiff, IInv
<1>2. ASSUME NEW i \in Nat, Between(i) PROVE ExactPart'
  <2>1. Len(files) = i /\ ExactTo(i)
    BY <1>2 DEF Between
  <2>2. (Len(files) = Len(patch))' => ExactTo(Len(patch))'
    BY <1>1, <2>1 DEF ExactTo, Exact
  <2> QED BY <1>1, <2>2 DEF ExactPart
<1>3. ASSUME NEW i \in Nat, Strayed(i) PROVE ExactPart'
  <2>1. /\ i \in 1..Len(patch) /\ Len(files) \in Nat /\ Len(patch) \in Nat
        /\ patch \in Seq(Changes) /\ i - 1 \in Nat /\ i \in 0..Len(patch)
        /\ \/ Len(files) > i
           \/ Len(files) = i /\ ~Ordinary(patch[i]) /\ ExactTo(i - 1)
    BY <1>1, <1>3, PatchTyped DEF Strayed, IInv, TypedPart
  <2> DEFINE t == RestOf(Printed(patch), i)
  <2>2. PICK rest \in Seq(AllLines) : unread = rest \o t
    BY <1>3 DEF Strayed
  <2>3. t \in Seq(AllLines)
    <3>1. Printed(patch) \in Seq(Seq(AllLines)) /\ Len(Printed(patch)) = Len(patch)
      BY <2>1, DiffTyped
    <3> QED BY <2>1, <3>1, FirstAndRestTyped
  <2> HIDE DEF t
  <2>4. rest = <<>>
    BY <1>1, <2>2, <2>3, HeadOfConcat
  <2>5. unread = RestOf(Printed(patch), i)
    BY <2>2, <2>3, <2>4, ConcatEmptySeq DEF t
  <2>6. i = Len(patch)
    BY <1>1, <2>1, <2>5, ChangeNext
  <2>7. CASE Len(files) > i
    <3>1. Len(files) # Len(patch)
      BY <2>1, <2>6, <2>7
    <3> QED BY <1>1, <3>1 DEF ExactPart
  <2>8. CASE Len(files) = i
    <3>1. ~Ordinary(patch[i]) /\ ExactTo(i - 1)
      BY <2>1, <2>8
    <3>2. \A k \in 1..i : k = i \/ k \in 1..(i - 1)
      BY <2>1
    <3>3. ExactTo(Len(patch))
      BY <2>6, <3>1, <3>2 DEF ExactTo
    <3> QED BY <1>1, <3>3 DEF ExactPart, ExactTo, Exact
  <2> QED BY <2>1, <2>7, <2>8
<1>4. ASSUME NEW i \in Nat, NEW h \in Nat, NEW e \in Nat, NEW end \in Seq(HeaderLines),
             Within(i, end, h, e)
      PROVE  ExactPart'
  <2>1. end = <<>>
    BY <1>1, <1>4, HeaderNext
  <2>2. h # 0 => e = Len(patch[i].hunks[h].edits)
    BY <1>1, <1>4, <2>1, EditNext
  <2>3. h = Len(patch[i].hunks)
    BY <1>1, <1>4, <2>1, <2>2, HunkNext
  <2>4. Between(i)
    BY <1>1, <1>4, <2>1, <2>2, <2>3, ChangeRead
  <2> QED BY <1>2, <2>4
<1> QED BY <1>1, <1>2, <1>3, <1>4 DEF ExactPart

\* Every step of the parser and of the alignment keeps the place in the diff.
LEMMA NextExact ==
  ASSUME IInv, [Next]_vars, ExactPart
  PROVE  ExactPart'
<1>1. CASE ReadingAny
  BY <1>1, ReadExact
<1>2. CASE EndOfDiff
  BY <1>2, EndExact
<1>3. CASE Reconcile
  <2>1. pc # "parse" /\ pc' # "parse" /\ patch' = patch /\ files' = files
    BY <1>3 DEF Reconcile
  <2> QED BY <2>1 DEF ExactPart, Exact, ExactTo
<1>4. CASE Align
  <2>1. /\ pc # "parse" /\ pc' # "parse" /\ patch' = patch /\ Len(files') = Len(files)
    BY <1>4, AlignMeaning
  <2>2. \A i \in 1..Len(patch) : files'[i].lines = files[i].lines
    <3>1. CASE Len(files) = Len(patch)
      BY <1>4, <3>1, AlignMeaning
    <3>2. CASE Len(files) # Len(patch)
      BY <1>4, <3>2 DEF Align
    <3> QED BY <3>1, <3>2
  <2>3. (Len(files) = Len(patch))' => ExactTo(Len(patch))'
    BY <2>1, <2>2 DEF ExactPart, Exact, ExactTo
  <2> QED BY <2>1, <2>3 DEF ExactPart
<1>5. CASE UNCHANGED vars
  <2>1. /\ patch' = patch /\ pc' = pc /\ unread' = unread /\ files' = files
        /\ oldLine' = oldLine /\ newLine' = newLine
    BY <1>5 DEF vars
  <2>2. \A i : ExactTo(i)' = ExactTo(i) /\ Ordinary(patch[i])' = Ordinary(patch[i])
    BY <2>1 DEF ExactTo, Exact, Ordinary
  <2>3. \A i : (Strayed(i) => Strayed(i)') /\ (Between(i) => Between(i)')
    BY <2>1, <2>2 DEF Strayed, Between
  <2>4. \A i, h, e : \A end \in Seq(HeaderLines) : Within(i, end, h, e) => Within(i, end, h, e)'
    BY <2>1, <2>2 DEF Within
  <2> QED BY <2>1, <2>2, <2>3, <2>4 DEF ExactPart
<1> QED BY <1>1, <1>2, <1>3, <1>4, <1>5 DEF Next, ReadingAny

\* The place in the diff is its beginning at first.
LEMMA InitExact ==
  ASSUME Init
  PROVE  ExactPart
<1>1. patch \in Seq(Changes) /\ Len(patch) \in Nat /\ unread = Diff(patch) /\ files = <<>>
  BY PatchTyped DEF Init
<1>2. unread = RestOf(Printed(patch), 0)
  BY <1>1, DiffTyped
<1>3. Len(files) = 0 /\ 0 \in 0..Len(patch) /\ 1..0 = {}
  BY <1>1
<1>4. Between(0)
  BY <1>2, <1>3 DEF Between, ExactTo
<1> QED BY <1>4 DEF ExactPart, Init

\* At the end every ordinary change is exact.
LEMMA ExactEnd ==
  ASSUME IInv, ExactPart
  PROVE  OrdinaryChangeIsExact
<1> SUFFICES ASSUME pc = "done", ~mismatch,
                    NEW i \in 1..Len(patch), Ordinary(patch[i])
             PROVE  Exact(i)
  BY DEF OrdinaryChangeIsExact, Exact, NumberedHunks, NumberedLines
<1>1. Len(files) = Len(patch)
  BY DEF IInv, CountPart
<1> QED BY <1>1 DEF ExactPart, ExactTo

\* The place in the diff is an invariant of the parser, whatever lines it
\* mistakes for headers (parse_unified_diff, align_file_diffs).
THEOREM DiffInvariant == Spec => [](IInv /\ ExactPart)
<1>1. Init => IInv /\ ExactPart
  BY InitIInv, InitExact
<1>2. (IInv /\ ExactPart) /\ [Next]_vars => (IInv /\ ExactPart)'
  BY NextIInv, NextExact
<1> QED BY <1>1, <1>2, PTL DEF Spec

\* Without the checks: every line is kept with the numbers its mark says it has,
\* the paths are Git's and an ordinary change is exact, line for line.
THEOREM DiffTheorem == Spec => [](TypeOK /\ PathsAreGits /\ OrdinaryChangeIsExact)
BY DiffInvariant, IInvTypes, IInvPaths, ExactEnd, PTL

-----------------------------------------------------------------------------
(* Sums over the changes: the fold of the module                            *)

\* Its step.
Step(count, sum, change) == sum + ChangedFile(change)[count]

\* f[s] is what the elements at the positions s make.
FoldsTo(f, count, seq) ==
  f = [s \in SUBSET (DOMAIN seq) |->
         IF s = {} THEN 0 ELSE Step(count, f[s \ {Max(s)}], seq[Max(s)])]

\* There is such a function for every sequence.
LEMMA FoldExists ==
  ASSUME NEW count, NEW seq, NEW n \in Nat, DOMAIN seq = 1..n
  PROVE  \E f : FoldsTo(f, count, seq)
<1> DEFINE Upto(f, m) == f = [s \in SUBSET (1..m) |->
                                IF s = {} THEN 0
                                ELSE Step(count, f[s \ {Max(s)}], seq[Max(s)])]
           S == {m \in Nat : \E f : Upto(f, m)}
<1>1. 0 \in S
  <2> DEFINE f == [s \in SUBSET (1..0) |-> 0]
  <2>1. \A s \in SUBSET (1..0) : s = {}
    OBVIOUS
  <2>2. Upto(f, 0)
    BY <2>1
  <2> QED BY <2>2
<1>2. ASSUME NEW m \in Nat, m \in S PROVE m + 1 \in S
  <2>1. PICK f : Upto(f, m)
    BY <1>2
  <2> DEFINE g == [s \in SUBSET (1..(m + 1)) |->
                     IF m + 1 \in s THEN Step(count, f[s \ {m + 1}], seq[m + 1]) ELSE f[s]]
  <2>2. ASSUME NEW s \in SUBSET (1..(m + 1))
        PROVE  g[s] = IF s = {} THEN 0
                      ELSE Step(count, g[s \ {Max(s)}], seq[Max(s)])
    <3>1. CASE m + 1 \in s
      <4>1. Max(s) = m + 1
        <5>1. m + 1 \in Nat /\ s # {}
          BY <3>1
        <5>2. Max(s) \in s /\ \A i \in s : i <= Max(s)
          BY <5>1, GreatestPosition
        <5>3. Max(s) \in 1..(m + 1) /\ m + 1 <= Max(s)
          BY <3>1, <5>2
        <5> QED BY <5>3
      <4>2. s \ {m + 1} \in SUBSET (1..(m + 1)) /\ m + 1 \notin s \ {m + 1}
        OBVIOUS
      <4>3. g[s \ {m + 1}] = f[s \ {m + 1}]
        BY <4>2
      <4>4. g[s] = Step(count, f[s \ {m + 1}], seq[m + 1])
        BY <3>1
      <4> QED BY <3>1, <4>1, <4>3, <4>4
    <3>2. CASE m + 1 \notin s
      <4>1. s \in SUBSET (1..m)
        BY <3>2
      <4>2. f[s] = IF s = {} THEN 0 ELSE Step(count, f[s \ {Max(s)}], seq[Max(s)])
        BY <2>1, <4>1
      <4>3. g[s] = f[s]
        BY <3>2
      <4>4. s \ {Max(s)} \in SUBSET (1..(m + 1)) /\ m + 1 \notin s \ {Max(s)}
        BY <3>2
      <4>5. g[s \ {Max(s)}] = f[s \ {Max(s)}]
        BY <4>4
      <4> QED BY <4>2, <4>3, <4>5
    <3> QED BY <3>1, <3>2
  <2>3. g = [s \in SUBSET (1..(m + 1)) |-> g[s]]
    OBVIOUS
  <2> HIDE DEF g
  <2>4. Upto(g, m + 1)
    BY <2>2, <2>3
  <2> HIDE DEF Upto
  <2> QED BY <2>4
<1> HIDE DEF S
<1>3. n \in S
  BY <1>1, <1>2, NaturalsInSet
<1>4. PICK f : Upto(f, n)
  BY <1>3 DEF S
<1> QED BY <1>4 DEF FoldsTo

\* The result for the first m elements, from that for one less.
LEMMA FoldSteps ==
  ASSUME NEW count, NEW seq, NEW n \in Nat, DOMAIN seq = 1..n,
         NEW f, FoldsTo(f, count, seq)
  PROVE  /\ f[1..0] = 0
         /\ \A m \in 1..n : f[1..m] = Step(count, f[1..(m - 1)], seq[m])
<1>1. f[1..0] = 0
  <2>1. 1..0 \in SUBSET DOMAIN seq /\ 1..0 = {}
    OBVIOUS
  <2> QED BY <2>1 DEF FoldsTo
<1>2. ASSUME NEW m \in 1..n PROVE f[1..m] = Step(count, f[1..(m - 1)], seq[m])
  <2>1. 1..m \in SUBSET (1..m) /\ 1..m # {} /\ m \in Nat
    OBVIOUS
  <2>2. Max(1..m) \in 1..m /\ \A i \in 1..m : i <= Max(1..m)
    BY <2>1, GreatestPosition
  <2>3. Max(1..m) = m
    BY <2>2
  <2>4. (1..m) \ {m} = 1..(m - 1) /\ 1..m \in SUBSET DOMAIN seq
    OBVIOUS
  <2> QED BY <2>1, <2>3, <2>4 DEF FoldsTo
<1> QED BY <1>1, <1>2

\* Total is such a fold over the changes.
LEMMA TotalUnfolded ==
  ASSUME NEW count \in {"added", "deleted"}, NEW n \in Nat, DOMAIN patch = 1..n
  PROVE  \E f : FoldsTo(f, count, patch) /\ Total(count) = f[1..n]
<1> DEFINE Sums(f) == f = [s \in SUBSET (DOMAIN patch) |->
                             IF s = {} THEN 0
                             ELSE f[s \ {Max(s)}] + ChangedFile(patch[Max(s)])[count]]
           g == CHOOSE f : Sums(f)
<1>1. Total(count) = g[DOMAIN patch]
  BY DEF Total, FoldLeft, MapThenFoldSet
<1>2. \A f : FoldsTo(f, count, patch) <=> Sums(f)
  <2>1. \A result, x : Step(count, result, x) = result + ChangedFile(x)[count]
    BY DEF Step
  <2> QED BY <2>1 DEF FoldsTo
<1>3. \E f : Sums(f)
  BY <1>2, FoldExists
<1>4. Sums(g)
  BY <1>3
<1> HIDE DEF g, Sums
<1>5. FoldsTo(g, count, patch)
  BY <1>2, <1>4
<1> QED BY <1>1, <1>5

\* The edits with a mark, as pairs of the number of their change and their place
\* in it, in the first changes that are not binary.
MarkedEdits(i, mark) == {k \in 1..Len(EditsOf(patch[i])) : EditsOf(patch[i])[k].mark = mark}

MarkedUpto(n, mark) ==
  UNION {{<<i, k>> : k \in MarkedEdits(i, mark)} : i \in {i \in 1..n : ~patch[i].binary}}

\* As many pairs as there are second elements.
LEMMA PairsCounted ==
  ASSUME NEW i, NEW K, IsFiniteSet(K)
  PROVE  /\ IsFiniteSet({<<i, k>> : k \in K})
         /\ Cardinality({<<i, k>> : k \in K}) = Cardinality(K)
<1> DEFINE T == {<<i, k>> : k \in K}
           f == [k \in K |-> <<i, k>>]
<1>1. f \in Bijection(K, T)
  BY DEF Bijection, Injection, Surjection, IsInjective
<1>2. ExistsBijection(K, T)
  BY <1>1 DEF ExistsBijection
<1> HIDE DEF T
<1>3. IsFiniteSet(T) /\ Cardinality(T) = Cardinality(K)
  BY <1>2, FS_Bijection
<1> QED BY <1>3 DEF T

\* The edits of a change are edits.
LEMMA EditsTyped ==
  ASSUME NEW change \in Changes
  PROVE  EditsOf(change) \in Seq([mark : Marks, text : Texts]) /\ Len(EditsOf(change)) \in Nat
<1> DEFINE E == [mark : Marks, text : Texts]
           Q == Seq(E)
           n == Len(change.hunks)
           all == [h \in 1..n |-> change.hunks[h].edits]
<1>1. n \in Nat /\ \A h \in 1..n : change.hunks[h] \in Hunks
  BY ChangeTyped
<1>2. all \in [1..n -> Q]
  BY <1>1 DEF Hunks
<1>3. EditsOf(change) = FlattenSeq(all)
  BY DEF EditsOf
<1>4. all \in Seq(Q)
  <2> HIDE DEF Q, n, all
  <2> QED BY <1>1, <1>2, FunctionIsSequence
<1> HIDE DEF E, all, n
<1>5. FlattenSeq(all) \in Seq(E)
  BY <1>4, FlattenType
<1>6. EditsOf(change) \in Seq(E) /\ Len(EditsOf(change)) \in Nat
  BY <1>3, <1>5, LenProperties
<1> QED BY <1>6 DEF E

\* What Git counts in a change.
LEMMA ChangeCounts ==
  ASSUME patch \in Patches, NEW i \in 1..Len(patch),
         NEW count, NEW mark, (count = "added" /\ mark = "+") \/ (count = "deleted" /\ mark = "-")
  PROVE  /\ IsFiniteSet(MarkedEdits(i, mark))
         /\ Cardinality(MarkedEdits(i, mark)) \in Nat
         /\ ChangedFile(patch[i])[count] =
              IF patch[i].binary THEN 0 ELSE Cardinality(MarkedEdits(i, mark))
<1>1. patch[i] \in Changes
  BY PatchTyped
<1>2. Len(EditsOf(patch[i])) \in Nat
  BY <1>1, EditsTyped
<1>3. IsFiniteSet(MarkedEdits(i, mark))
  <2>1. IsFiniteSet(1..Len(EditsOf(patch[i])))
    BY <1>2, FS_Interval
  <2> QED BY <2>1, FS_Subset DEF MarkedEdits
<1>4. Cardinality(MarkedEdits(i, mark)) \in Nat
  BY <1>3, FS_CardinalityType
<1>5. CASE count = "added" /\ mark = "+"
  <2>1. ChangedFile(patch[i]).added =
          IF patch[i].binary THEN 0 ELSE Cardinality(MarkedEdits(i, "+"))
    BY DEF ChangedFile, MarkedEdits
  <2> QED BY <1>3, <1>4, <1>5, <2>1
<1>6. CASE count = "deleted" /\ mark = "-"
  <2>1. ChangedFile(patch[i]).deleted =
          IF patch[i].binary THEN 0 ELSE Cardinality(MarkedEdits(i, "-"))
    BY DEF ChangedFile, MarkedEdits
  <2> QED BY <1>3, <1>4, <1>6, <2>1
<1>7. (count = "added" /\ mark = "+") \/ (count = "deleted" /\ mark = "-")
  OBVIOUS
<1> QED BY <1>3, <1>4, <1>5, <1>6, <1>7

\* The sum over the changes is the number of edits.
LEMMA TotalIsCount ==
  ASSUME patch \in Patches,
         NEW count, NEW mark, (count = "added" /\ mark = "+") \/ (count = "deleted" /\ mark = "-")
  PROVE  Total(count) = Cardinality(MarkedUpto(Len(patch), mark))
<1> DEFINE n == Len(patch)
<1>1. n \in Nat /\ DOMAIN patch = 1..n
  <2>1. patch \in Seq(Changes)
    BY PatchTyped
  <2> DEFINE C == Changes
  <2> HIDE DEF C
  <2>2. patch \in Seq(C)
    BY <2>1 DEF C
  <2> QED BY <2>2, LenProperties
<1> HIDE DEF n
<1>2. count \in {"added", "deleted"}
  OBVIOUS
<1>3. PICK f : FoldsTo(f, count, patch) /\ Total(count) = f[1..n]
  BY <1>1, <1>2, TotalUnfolded
<1>4. /\ f[1..0] = 0
      /\ \A m \in 1..n : f[1..m] = f[1..(m - 1)] + ChangedFile(patch[m])[count]
  <2>1. /\ f[1..0] = 0
        /\ \A m \in 1..n : f[1..m] = Step(count, f[1..(m - 1)], patch[m])
    BY <1>1, <1>3, FoldSteps
  <2>2. \A result, x : Step(count, result, x) = result + ChangedFile(x)[count]
    BY DEF Step
  <2> QED BY <2>1, <2>2
<1> DEFINE Counted(m) == /\ IsFiniteSet(MarkedUpto(m, mark))
                         /\ Cardinality(MarkedUpto(m, mark)) \in Nat
                         /\ f[1..m] = Cardinality(MarkedUpto(m, mark))
           S == {m \in Nat : m <= n => Counted(m)}
<1>5. 0 \in S
  <2>1. MarkedUpto(0, mark) = {}
    BY DEF MarkedUpto
  <2>2. /\ IsFiniteSet(MarkedUpto(0, mark)) /\ Cardinality(MarkedUpto(0, mark)) = 0
    BY <2>1, FS_EmptySet
  <2>3. Counted(0)
    BY <1>4, <2>2
  <2> HIDE DEF Counted
  <2> QED BY <2>3
<1>6. ASSUME NEW m \in Nat, m \in S PROVE m + 1 \in S
  <2> SUFFICES ASSUME m + 1 <= n PROVE Counted(m + 1)
    OBVIOUS
  <2>1. Counted(m) /\ m + 1 \in 1..n /\ (m + 1) - 1 = m
    BY <1>1, <1>6
  <2> DEFINE T == MarkedUpto(m, mark)
             K == MarkedEdits(m + 1, mark)
             P == {<<m + 1, k>> : k \in K}
  <2>2. /\ IsFiniteSet(K) /\ Cardinality(K) \in Nat
        /\ ChangedFile(patch[m + 1])[count] =
             IF patch[m + 1].binary THEN 0 ELSE Cardinality(K)
    <3>1. m + 1 \in 1..Len(patch)
      BY <2>1 DEF n
    <3>2. \A i \in 1..Len(patch) :
            /\ IsFiniteSet(MarkedEdits(i, mark))
            /\ Cardinality(MarkedEdits(i, mark)) \in Nat
            /\ ChangedFile(patch[i])[count] =
                 IF patch[i].binary THEN 0 ELSE Cardinality(MarkedEdits(i, mark))
      BY ChangeCounts
    <3> QED BY <3>1, <3>2
  <2>3. f[1..(m + 1)] = f[1..m] + ChangedFile(patch[m + 1])[count]
    BY <1>4, <2>1
  <2>4. MarkedUpto(m + 1, mark) = IF patch[m + 1].binary THEN T ELSE T \cup P
    <3>1. \A i : i \in 1..(m + 1) <=> i \in 1..m \/ i = m + 1
      OBVIOUS
    <3> QED BY <3>1 DEF MarkedUpto
  <2>5. T \cap P = {}
    <3>1. \A i \in 1..m : i # m + 1
      OBVIOUS
    <3> QED BY <3>1 DEF MarkedUpto
  <2>6. CASE patch[m + 1].binary
    <3> HIDE DEF T
    <3> QED BY <2>1, <2>2, <2>3, <2>4, <2>6 DEF T
  <2>7. CASE ~patch[m + 1].binary
    <3>1. IsFiniteSet(P) /\ Cardinality(P) = Cardinality(K)
      BY <2>2, PairsCounted
    <3> HIDE DEF T, P, K
    <3>2. IsFiniteSet(T) /\ Cardinality(T) \in Nat /\ f[1..m] = Cardinality(T)
      BY <2>1 DEF T
    <3>3. /\ IsFiniteSet(T \cup P)
          /\ Cardinality(T \cup P) = Cardinality(T) + Cardinality(P) - Cardinality(T \cap P)
      BY <3>1, <3>2, FS_Union
    <3>4. Cardinality(T \cup P) = Cardinality(T) + Cardinality(K)
      <4>1. Cardinality(T \cap P) = 0
        BY <2>5, FS_EmptySet
      <4> QED BY <2>2, <3>1, <3>2, <3>3, <4>1
    <3>5. f[1..(m + 1)] = Cardinality(T) + Cardinality(K)
      BY <2>2, <2>3, <2>7, <3>2
    <3>6. MarkedUpto(m + 1, mark) = T \cup P
      BY <2>4, <2>7
    <3>7. Cardinality(T) + Cardinality(K) \in Nat
      BY <2>2, <3>2
    <3> QED BY <3>3, <3>4, <3>5, <3>6, <3>7
  <2> QED BY <2>6, <2>7
<1> HIDE DEF S
<1>7. n \in S
  BY <1>1, <1>5, <1>6, NaturalsInSet
<1>8. Counted(n)
  BY <1>1, <1>7 DEF S
<1> QED BY <1>3, <1>8 DEF n

-----------------------------------------------------------------------------
(* Findings, by rule                                                        *)

\* What the checks find, before duplicates are removed.
AllFindings == ScopeFindings \cup DependencyFindings \cup WorkflowFindings
                 \cup SecretFindings \cup NetworkFindings \cup TestFindings

\* What the engine keeps of the checks.
CheckPart ==
  /\ limits \in Limits
  /\ pc = "checked" => findings = AllFindings

\* A finding has nothing but what its key has.
IsFinding(f) == f = [rule |-> f.rule, file |-> f.file, line |-> f.line, message |-> f.message]

\* Nothing is lost where a finding has nothing but what its key has (Deduplicated).
LEMMA DeduplicatedAll ==
  ASSUME NEW found, \A f \in found : IsFinding(f)
  PROVE  Deduplicated(found) = found
<1>1. ASSUME NEW f \in found, NEW g \in found, KeyOf(f) = KeyOf(g) PROVE f = g
  <2>1. f.rule = g.rule /\ f.file = g.file /\ f.line = g.line /\ f.message = g.message
    BY <1>1 DEF KeyOf
  <2>2. IsFinding(f) /\ IsFinding(g)
    OBVIOUS
  <2> QED BY <2>1, <2>2 DEF IsFinding
<1>2. ASSUME NEW f \in found PROVE (CHOOSE g \in found : KeyOf(g) = KeyOf(f)) = f
  <2> DEFINE chosen == CHOOSE g \in found : KeyOf(g) = KeyOf(f)
  <2>1. chosen \in found /\ KeyOf(chosen) = KeyOf(f)
    OBVIOUS
  <2> HIDE DEF chosen
  <2>2. chosen = f
    BY <1>1, <2>1
  <2> QED BY <2>2 DEF chosen
<1>3. Deduplicated(found) = {CHOOSE g \in found : KeyOf(g) = KeyOf(f) : f \in found}
  BY DEF Deduplicated
<1>4. {CHOOSE g \in found : KeyOf(g) = KeyOf(f) : f \in found} = found
  BY <1>2
<1> QED BY <1>3, <1>4

\* The kinds of findings, by what made them.
LEMMA FindingKinds ==
  /\ \A rule, changes : \A f \in FileFindings(rule, changes) :
       IsFinding(f) /\ f.rule = rule /\ f.line = NoLine
  /\ \A rule, lines : \A f \in LineFindings(rule, lines) :
       IsFinding(f) /\ f.rule = rule /\ f.message = NoText
  /\ \A rule, lines : \A f \in QuotedFindings(rule, lines) :
       IsFinding(f) /\ f.rule = rule
<1>1. \A rule, changes : \A f \in FileFindings(rule, changes) :
        IsFinding(f) /\ f.rule = rule /\ f.line = NoLine
  BY DEF FileFindings, IsFinding
<1>2. \A rule, lines : \A f \in LineFindings(rule, lines) :
        IsFinding(f) /\ f.rule = rule /\ f.message = NoText
  BY DEF LineFindings, IsFinding
<1>3. \A rule, lines : \A f \in QuotedFindings(rule, lines) :
        IsFinding(f) /\ f.rule = rule
  BY DEF QuotedFindings, IsFinding
<1> QED BY <1>1, <1>2, <1>3

\* A finding about the patch as a whole.
LEMMA PatchFindings ==
  ASSUME NEW rule, NEW found \in BOOLEAN
  PROVE  /\ \A f \in PatchFinding(rule, found) :
              IsFinding(f) /\ f.line = NoLine /\ f.rule = rule
         /\ (\E f \in PatchFinding(rule, found) : f.rule = rule) <=> found
<1> DEFINE about == [rule |-> rule, file |-> NoPath, line |-> NoLine, message |-> NoText]
<1>1. about.rule = rule /\ about.line = NoLine /\ IsFinding(about)
  BY DEF IsFinding
<1>2. found => PatchFinding(rule, found) = {about}
  BY DEF PatchFinding
<1>3. ~found => PatchFinding(rule, found) = {}
  BY DEF PatchFinding
<1> HIDE DEF about
<1>4. CASE found
  BY <1>1, <1>2, <1>4
<1>5. CASE ~found
  BY <1>3, <1>5
<1> QED BY <1>4, <1>5

\* Which limits are found to be exceeded, and that no line is named (ScopeFindings).
LEMMA ScopeRules ==
  /\ \A f \in ScopeFindings : IsFinding(f) /\ f.line = NoLine
  /\ (\E f \in ScopeFindings : f.rule = "PL-SCOPE-001") <=> Len(patch) > limits.files
  /\ (\E f \in ScopeFindings : f.rule = "PL-SCOPE-002") <=> Total("added") > limits.added
  /\ (\E f \in ScopeFindings : f.rule = "PL-SCOPE-003") <=> Total("deleted") > limits.deleted
  /\ \A f \in ScopeFindings : f.rule # "PL-GHA-004"
<1> DEFINE a == PatchFinding("PL-SCOPE-001", Len(patch) > limits.files)
           b == PatchFinding("PL-SCOPE-002", Total("added") > limits.added)
           c == PatchFinding("PL-SCOPE-003", Total("deleted") > limits.deleted)
           d == FileFindings("PL-SCOPE-004", {x \in Changed : x.path \notin limits.allowed})
           e == FileFindings("PL-SCOPE-005", {x \in Changed : x.binary})
           g == FileFindings("PL-SCOPE-006", {x \in Changed : Is(x.path, "generated")})
<1>1. ScopeFindings = a \cup b \cup c \cup d \cup e \cup g
  BY DEF ScopeFindings
<1>2. /\ \A f \in a : IsFinding(f) /\ f.line = NoLine /\ f.rule = "PL-SCOPE-001"
      /\ (\E f \in a : f.rule = "PL-SCOPE-001") <=> Len(patch) > limits.files
  <2> DEFINE found == Len(patch) > limits.files
  <2>1. found \in BOOLEAN
    OBVIOUS
  <2>2. a = PatchFinding("PL-SCOPE-001", found)
    OBVIOUS
  <2> HIDE DEF found, a
  <2>3. /\ \A f \in a : IsFinding(f) /\ f.line = NoLine /\ f.rule = "PL-SCOPE-001"
        /\ (\E f \in a : f.rule = "PL-SCOPE-001") <=> found
    BY <2>1, <2>2, PatchFindings
  <2> QED BY <2>3 DEF found
<1>3. /\ \A f \in b : IsFinding(f) /\ f.line = NoLine /\ f.rule = "PL-SCOPE-002"
      /\ (\E f \in b : f.rule = "PL-SCOPE-002") <=> Total("added") > limits.added
  <2> DEFINE found == Total("added") > limits.added
  <2>1. found \in BOOLEAN
    OBVIOUS
  <2>2. b = PatchFinding("PL-SCOPE-002", found)
    OBVIOUS
  <2> HIDE DEF found, b
  <2>3. /\ \A f \in b : IsFinding(f) /\ f.line = NoLine /\ f.rule = "PL-SCOPE-002"
        /\ (\E f \in b : f.rule = "PL-SCOPE-002") <=> found
    BY <2>1, <2>2, PatchFindings
  <2> QED BY <2>3 DEF found
<1>4. /\ \A f \in c : IsFinding(f) /\ f.line = NoLine /\ f.rule = "PL-SCOPE-003"
      /\ (\E f \in c : f.rule = "PL-SCOPE-003") <=> Total("deleted") > limits.deleted
  <2> DEFINE found == Total("deleted") > limits.deleted
  <2>1. found \in BOOLEAN
    OBVIOUS
  <2>2. c = PatchFinding("PL-SCOPE-003", found)
    OBVIOUS
  <2> HIDE DEF found, c
  <2>3. /\ \A f \in c : IsFinding(f) /\ f.line = NoLine /\ f.rule = "PL-SCOPE-003"
        /\ (\E f \in c : f.rule = "PL-SCOPE-003") <=> found
    BY <2>1, <2>2, PatchFindings
  <2> QED BY <2>3 DEF found
<1>5. /\ \A f \in d : IsFinding(f) /\ f.line = NoLine /\ f.rule = "PL-SCOPE-004"
      /\ \A f \in e : IsFinding(f) /\ f.line = NoLine /\ f.rule = "PL-SCOPE-005"
      /\ \A f \in g : IsFinding(f) /\ f.line = NoLine /\ f.rule = "PL-SCOPE-006"
  BY FindingKinds
<1> HIDE DEF a, b, c, d, e, g
<1> QED BY <1>1, <1>2, <1>3, <1>4, <1>5

\* The lines that a rule of the catalogue catches.
Caught(rule, mark, kind, pattern) ==
  {l \in IF mark = "+" THEN Additions ELSE Deletions :
     /\ kind = "any" \/ Is(l.file, kind)
     /\ pattern \in ShownBy[l.text] /\ ~Exempt(rule, l.text)}

CaughtBy(r) == Caught(r[1], r[2], r[3], r[4])

\* Checkouts that are to be reported.
Defaults == QuotedFindings("PL-GHA-004", Unset(Showing(InWorkflows, "checkout")))

\* The name of an added line's file is a path of Git's list, when the files are.
FilesAreGits == \A l \in Additions : l.file \in {c.path : c \in Changed}

\* The lines in the workflows of Git's list are the added lines in workflows.
LEMMA WorkflowLines ==
  ASSUME FilesAreGits
  PROVE  InWorkflows = InFiles(Additions, "workflow")
<1>1. ASSUME NEW l \in Additions
      PROVE  l.file \in {c.path : c \in Workflows} <=> Is(l.file, "workflow")
  <2>1. PICK c \in Changed : l.file = c.path
    BY DEF FilesAreGits
  <2> QED BY <2>1 DEF Workflows
<1> QED BY <1>1 DEF InWorkflows, InFiles

\* The lines the rules for workflows look at are those the catalogue gives them.
LEMMA RuleLines ==
  ASSUME FilesAreGits
  PROVE  \A p : \A rule \in {"PL-GHA-002", "PL-GHA-003", "PL-GHA-004", "PL-GHA-005",
                            "PL-GHA-006", "PL-GHA-007"} :
           Showing(InWorkflows, p) = Caught(rule, "+", "workflow", p)
<1> SUFFICES ASSUME NEW p, NEW rule \in {"PL-GHA-002", "PL-GHA-003", "PL-GHA-004", "PL-GHA-005",
                                        "PL-GHA-006", "PL-GHA-007"}
             PROVE  Showing(InWorkflows, p) = Caught(rule, "+", "workflow", p)
  OBVIOUS
<1>1. \A text : ~Exempt(rule, text)
  BY DEF Exempt
<1> QED BY <1>1, WorkflowLines DEF Showing, InFiles, Caught

\* So are those of the rules for secrets, network access and tests.
LEMMA OtherLines ==
  /\ \A p : \A rule \in {"PL-SECRET-002", "PL-SECRET-003", "PL-TEST-004"} :
       Showing(Additions, p) = Caught(rule, "+", "any", p)
  /\ \A p : /\ Showing(InFiles(Additions, "test"), p) = Caught("PL-TEST-003", "+", "test", p)
            /\ Showing(InFiles(Deletions, "test"), p) = Caught("PL-TEST-002", "-", "test", p)
  /\ Showing(Additions, "token") \ Showing(Additions, "placeholder")
       = Caught("PL-SECRET-004", "+", "any", "token")
  /\ Showing(InFiles(Additions, "source") \ Showing(Additions, "comment"), "network")
       = Caught("PL-NET-001", "+", "source", "network")
<1>1. \A rule, text : rule \notin {"PL-SECRET-004", "PL-NET-001"} => ~Exempt(rule, text)
  BY DEF Exempt
<1>2. \A text : /\ Exempt("PL-SECRET-004", text) <=> "placeholder" \in ShownBy[text]
                /\ Exempt("PL-NET-001", text) <=> "comment" \in ShownBy[text]
  BY DEF Exempt
<1>3. ASSUME NEW p, NEW rule \in {"PL-SECRET-002", "PL-SECRET-003", "PL-TEST-004"}
      PROVE  Showing(Additions, p) = Caught(rule, "+", "any", p)
  <2>1. \A text : ~Exempt(rule, text)
    BY <1>1
  <2> QED BY <2>1 DEF Showing, Caught
<1>4. ASSUME NEW p
      PROVE  /\ Showing(InFiles(Additions, "test"), p) = Caught("PL-TEST-003", "+", "test", p)
             /\ Showing(InFiles(Deletions, "test"), p) = Caught("PL-TEST-002", "-", "test", p)
  <2>1. \A text : ~Exempt("PL-TEST-003", text) /\ ~Exempt("PL-TEST-002", text)
    BY <1>1
  <2> QED BY <2>1 DEF Showing, InFiles, Caught
<1>5. Showing(Additions, "token") \ Showing(Additions, "placeholder")
        = Caught("PL-SECRET-004", "+", "any", "token")
  BY <1>2 DEF Showing, Caught
<1>6. Showing(InFiles(Additions, "source") \ Showing(Additions, "comment"), "network")
        = Caught("PL-NET-001", "+", "source", "network")
  BY <1>2 DEF Showing, InFiles, Caught
<1> QED BY <1>3, <1>4, <1>5, <1>6

\* What of a finding the catalogue speaks of, and of which findings it does.
Place(f) == <<f.rule, f.file, f.line>>

Places(rule, lines) == {<<rule, l.file, l.line>> : l \in lines}

Told(found) == {Place(f) : f \in {g \in found : g.line # NoLine /\ ~IsDefault(g)}}

\* What two sets of findings tell together.
LEMMA ShownTogether ==
  ASSUME NEW a, NEW b
  PROVE  Told(a \cup b) = Told(a) \cup Told(b)
  BY DEF Told

\* The lines have numbers, and texts that are not the lack of one.
LinesNumbered == \A l \in Additions \cup Deletions : l.line # NoLine /\ l.text # NoText

\* A finding without a line tells nothing.
LEMMA ShownNever ==
  ASSUME NEW found, \A f \in found : f.line = NoLine
  PROVE  Told(found) = {}
  BY DEF Told

\* Findings of lines tell where the lines are.
LEMMA ShownLines ==
  ASSUME NEW rule, NEW lines, \A l \in lines : l.line # NoLine
  PROVE  /\ Told(LineFindings(rule, lines)) = Places(rule, lines)
         /\ rule # "PL-GHA-004" => Told(QuotedFindings(rule, lines)) = Places(rule, lines)
<1>1. Told(LineFindings(rule, lines)) = Places(rule, lines)
  <2>1. \A f \in LineFindings(rule, lines) : f.line # NoLine /\ ~IsDefault(f)
    BY DEF LineFindings, IsDefault
  <2>2. Told(LineFindings(rule, lines)) = {Place(f) : f \in LineFindings(rule, lines)}
    BY <2>1 DEF Told
  <2>3. \A l : Place([rule |-> rule, file |-> l.file, line |-> l.line, message |-> NoText])
                  = <<rule, l.file, l.line>>
    BY DEF Place
  <2>4. {Place(f) : f \in LineFindings(rule, lines)} = Places(rule, lines)
    BY <2>3 DEF LineFindings, Places
  <2> QED BY <2>2, <2>4
<1>2. ASSUME rule # "PL-GHA-004"
      PROVE  Told(QuotedFindings(rule, lines)) = Places(rule, lines)
  <2>1. \A f \in QuotedFindings(rule, lines) : f.line # NoLine /\ ~IsDefault(f)
    BY <1>2 DEF QuotedFindings, IsDefault
  <2>2. Told(QuotedFindings(rule, lines)) = {Place(f) : f \in QuotedFindings(rule, lines)}
    BY <2>1 DEF Told
  <2>3. \A l : Place([rule |-> rule, file |-> l.file, line |-> l.line, message |-> l.text])
                  = <<rule, l.file, l.line>>
    BY DEF Place
  <2>4. {Place(f) : f \in QuotedFindings(rule, lines)} = Places(rule, lines)
    BY <2>3 DEF QuotedFindings, Places
  <2> QED BY <2>2, <2>4
<1> QED BY <1>1, <1>2

-----------------------------------------------------------------------------
(* What the findings depend on                                              *)

\* The sums and the head revisions, of any patch.
TotalOf(count, changes) ==
  FoldLeft(LAMBDA sum, change : sum + ChangedFile(change)[count], 0, changes)

HeadOf(path, changes) ==
  LET head == (CHOOSE c \in ToSet(changes) : c.new = path).head
  IN  FlattenSeq([k \in 1..Len(head) |->
                    IF head[k] \in Breaks THEN <<head[k], "plain">> ELSE <<head[k]>>])

\* They depend on nothing but the patch.
LEMMA HeadsUnchanged ==
  patch' = patch =>
    /\ \A count : Total(count)' = Total(count)
    /\ \A path : HeadFile(path)' = HeadFile(path)
<1>1. \A count : Total(count) = TotalOf(count, patch)
  BY DEF Total, TotalOf
<1>2. \A path : HeadFile(path) = HeadOf(path, patch)
  BY DEF HeadFile, HeadOf
<1>3. (\A count : Total(count) = TotalOf(count, patch))'
  BY <1>1, PTL
<1>4. (\A path : HeadFile(path) = HeadOf(path, patch))'
  BY <1>2, PTL
<1>5. ASSUME patch' = patch, NEW count PROVE Total(count)' = Total(count)
  BY <1>1, <1>3, <1>5
<1>6. ASSUME patch' = patch, NEW path PROVE HeadFile(path)' = HeadFile(path)
  BY <1>2, <1>4, <1>6
<1> QED BY <1>5, <1>6

\* The lines the checks see depend on the patch and its files ...
LEMMA LinesUnchanged ==
  ASSUME patch' = patch, files' = files
  PROVE  /\ Additions' = Additions /\ Deletions' = Deletions /\ Changed' = Changed
         /\ Workflows' = Workflows /\ InWorkflows' = InWorkflows
<1>1. Additions' = Additions /\ Deletions' = Deletions
  BY DEF Additions, Deletions, LinesWith
<1>2. Changed' = Changed
  BY DEF Changed
<1>3. Workflows' = Workflows
  BY <1>2 DEF Workflows
<1>4. InWorkflows' = InWorkflows
  BY <1>1, <1>3 DEF InWorkflows
<1> QED BY <1>1, <1>2, <1>3, <1>4

\* ... and what they find on nothing but those and the limits.
LEMMA FindingsUnchanged ==
  ASSUME patch' = patch, files' = files, limits' = limits
  PROVE  AllFindings' = AllFindings
<1>1. ScopeFindings' = ScopeFindings
  BY HeadsUnchanged, LinesUnchanged DEF ScopeFindings
<1>2. DependencyFindings' = DependencyFindings
  BY LinesUnchanged DEF DependencyFindings
<1>3. Unset(Showing(InWorkflows, "checkout"))' = Unset(Showing(InWorkflows, "checkout"))
  <2>1. Showing(InWorkflows, "checkout")' = Showing(InWorkflows, "checkout")
    BY LinesUnchanged DEF Showing
  <2> QED BY <2>1, HeadsUnchanged DEF Unset, InHead
<1>4. WorkflowFindings' = WorkflowFindings
  BY <1>3, LinesUnchanged DEF WorkflowFindings
<1>5. SecretFindings' = SecretFindings
  BY LinesUnchanged DEF SecretFindings
<1>6. NetworkFindings' = NetworkFindings
  BY LinesUnchanged DEF NetworkFindings
<1>7. TestFindings' = TestFindings
  BY LinesUnchanged DEF TestFindings
<1> QED BY <1>1, <1>2, <1>4, <1>5, <1>6, <1>7 DEF AllFindings

\* Kinds and rules of what the checks find.
LEMMA AllAreFindings ==
  /\ \A f \in AllFindings : IsFinding(f)
  /\ \A f \in DependencyFindings \cup WorkflowFindings \cup SecretFindings
                \cup NetworkFindings \cup TestFindings :
       f.rule \notin {"PL-SCOPE-001", "PL-SCOPE-002", "PL-SCOPE-003"}
<1> DEFINE scope == {"PL-SCOPE-001", "PL-SCOPE-002", "PL-SCOPE-003"}
<1>1. \A f \in DependencyFindings : IsFinding(f) /\ f.rule \notin scope
  BY FindingKinds DEF DependencyFindings
<1>2. \A f \in WorkflowFindings : IsFinding(f) /\ f.rule \notin scope
  BY FindingKinds DEF WorkflowFindings
<1>3. \A f \in SecretFindings : IsFinding(f) /\ f.rule \notin scope
  BY FindingKinds DEF SecretFindings
<1>4. \A f \in NetworkFindings : IsFinding(f) /\ f.rule \notin scope
  BY FindingKinds DEF NetworkFindings
<1>5. \A f \in TestFindings : IsFinding(f) /\ f.rule \notin scope
  BY FindingKinds DEF TestFindings
<1>6. \A f \in ScopeFindings : IsFinding(f)
  BY ScopeRules
<1> HIDE DEF scope
<1>7. \A f \in DependencyFindings \cup WorkflowFindings \cup SecretFindings
                 \cup NetworkFindings \cup TestFindings : f.rule \notin scope
  BY <1>1, <1>2, <1>3, <1>4, <1>5
<1>8. \A f \in AllFindings : IsFinding(f)
  BY <1>1, <1>2, <1>3, <1>4, <1>5, <1>6 DEF AllFindings
<1> QED BY <1>7, <1>8 DEF scope

-----------------------------------------------------------------------------
(* The invariant of the checks                                              *)

\* run_checks keeps the invariant: nothing it has found is a duplicate.
LEMMA RunChecksInv ==
  ASSUME IInv, ExactPart, CheckPart, RunChecks
  PROVE  (IInv /\ ExactPart /\ CheckPart)'
<1>1. /\ pc = "done" /\ pc' = "checked" /\ patch' = patch /\ unread' = unread /\ files' = files
      /\ oldLine' = oldLine /\ newLine' = newLine /\ mismatch' = mismatch /\ limits' = limits
  BY DEF RunChecks
<1>2. IInv'
  BY <1>1 DEF IInv, TypedPart, CountPart
<1>3. ExactPart'
  BY <1>1 DEF ExactPart, Exact, ExactTo
<1>4. findings' = AllFindings
  <2>1. findings' = Deduplicated(AllFindings)
    BY DEF RunChecks, AllFindings
  <2>2. Deduplicated(AllFindings) = AllFindings
    BY AllAreFindings, DeduplicatedAll
  <2> QED BY <2>1, <2>2
<1>5. AllFindings' = AllFindings
  BY <1>1, FindingsUnchanged
<1>6. CheckPart'
  BY <1>1, <1>4, <1>5 DEF CheckPart
<1> QED BY <1>2, <1>3, <1>6

\* Every step keeps the invariant of the checks.
LEMMA CheckNextInv ==
  ASSUME IInv, ExactPart, CheckPart, [CheckNext]_checkVars
  PROVE  (IInv /\ ExactPart /\ CheckPart)'
<1>1. CASE RunChecks
  BY <1>1, RunChecksInv
<1>2. CASE Next /\ UNCHANGED <<limits, findings>>
  <2>1. IInv' /\ ExactPart'
    BY <1>2, NextIInv, NextExact
  <2>2. pc' # "checked"
    BY <1>2 DEF Next, ReadFile, ReadPath, ReadHunk, ReadEdit, SkipLine, Reading,
                EndOfDiff, Reconcile, Align
  <2> QED BY <1>2, <2>1, <2>2 DEF CheckPart
<1>3. CASE UNCHANGED checkVars
  <2>1. /\ UNCHANGED vars /\ limits' = limits /\ findings' = findings
        /\ patch' = patch /\ files' = files /\ pc' = pc
    BY <1>3 DEF checkVars, vars
  <2>2. IInv' /\ ExactPart'
    BY <2>1, NextIInv, NextExact
  <2>3. AllFindings' = AllFindings
    BY <2>1, FindingsUnchanged
  <2> QED BY <2>1, <2>2, <2>3 DEF CheckPart
<1> QED BY <1>1, <1>2, <1>3 DEF CheckNext

\* The place in the diff, what the alignment did and that the findings are all
\* that the checks make of the files hold in every reachable state (run_checks).
THEOREM CheckInvariant == CheckSpec => [](IInv /\ ExactPart /\ CheckPart)
<1>1. CheckInit => IInv /\ ExactPart /\ CheckPart
  BY InitIInv, InitExact DEF CheckInit, CheckPart, Init
<1>2. IInv /\ ExactPart /\ CheckPart /\ [CheckNext]_checkVars
        => (IInv /\ ExactPart /\ CheckPart)'
  BY CheckNextInv
<1> QED BY <1>1, <1>2, PTL DEF CheckSpec

-----------------------------------------------------------------------------

\* The invariant keeps the limits for Git's counts.
LEMMA LimitsKept ==
  ASSUME IInv, CheckPart
  PROVE  LimitsAreGits
<1> SUFFICES ASSUME pc = "checked" PROVE LimitsAreGits
  BY DEF LimitsAreGits
<1> DEFINE Edits(mark) ==
             UNION {{<<i, k>> : k \in {k \in 1..Len(EditsOf(patch[i])) :
                                        EditsOf(patch[i])[k].mark = mark}} :
                      i \in {i \in 1..Len(patch) : ~patch[i].binary}}
           Denied(rule) == \E f \in findings : f.rule = rule
<1>1. \A mark : Edits(mark) = MarkedUpto(Len(patch), mark)
  BY DEF MarkedUpto, MarkedEdits
<1>2. /\ Total("added") = Cardinality(MarkedUpto(Len(patch), "+"))
      /\ Total("deleted") = Cardinality(MarkedUpto(Len(patch), "-"))
  BY TotalIsCount DEF IInv
<1>3. findings = AllFindings
  BY DEF CheckPart
<1>4. \A rule \in {"PL-SCOPE-001", "PL-SCOPE-002", "PL-SCOPE-003"} :
        Denied(rule) <=> \E f \in ScopeFindings : f.rule = rule
  BY <1>3, AllAreFindings DEF AllFindings
<1>5. /\ Denied("PL-SCOPE-001") <=> Len(patch) > limits.files
      /\ Denied("PL-SCOPE-002") <=> Cardinality(Edits("+")) > limits.added
      /\ Denied("PL-SCOPE-003") <=> Cardinality(Edits("-")) > limits.deleted
  <2> HIDE DEF Edits, Denied
  <2> QED BY <1>1, <1>2, <1>4, ScopeRules
<1> DEFINE a == Denied("PL-SCOPE-001")
           b == Denied("PL-SCOPE-002")
           c == Denied("PL-SCOPE-003")
           x == Len(patch) > limits.files
           y == Cardinality(Edits("+")) > limits.added
           z == Cardinality(Edits("-")) > limits.deleted
<1>6. /\ a \in BOOLEAN /\ b \in BOOLEAN /\ c \in BOOLEAN
      /\ x \in BOOLEAN /\ y \in BOOLEAN /\ z \in BOOLEAN
      /\ (a <=> x) /\ (b <=> y) /\ (c <=> z)
  <2> HIDE DEF Edits
  <2> QED BY <1>5
<1>7. a = x /\ b = y /\ c = z
  <2> HIDE DEF a, b, c, x, y, z
  <2> QED BY <1>6
<1> QED BY <1>7 DEF LimitsAreGits

\* The limits on files, added and removed lines are those of Git's counts in
\* every reachable state: the sum over the list of changes is the number of
\* edits with the mark (scope.py).
THEOREM LimitsTheorem == CheckSpec => []LimitsAreGits
BY CheckInvariant, LimitsKept, PTL

-----------------------------------------------------------------------------
(* The lines of an ordinary patch                                           *)

\* The name of a change is its path in Git's list.
LEMMA NamesAreGits ==
  ASSUME patch \in Patches
  PROVE  \A i \in 1..Len(patch) : NameOfChange(patch[i]) = ChangedFile(patch[i]).path
<1> SUFFICES ASSUME NEW i \in 1..Len(patch)
             PROVE  NameOfChange(patch[i]) = ChangedFile(patch[i]).path
  OBVIOUS
<1>1. StatusFits(patch[i])
  BY PatchTyped
<1>2. ChangedFile(patch[i]).path = IF patch[i].status = "D" THEN patch[i].old ELSE patch[i].new
  BY DEF ChangedFile
<1>3. CASE patch[i].status = "D"
  BY <1>1, <1>2, <1>3 DEF StatusFits, NameOfChange
<1>4. CASE patch[i].status # "D"
  BY <1>1, <1>2, <1>4 DEF StatusFits, NameOfChange
<1> QED BY <1>3, <1>4

\* The lines of the changes, as they come to the checks.
LEMMA FilesRead ==
  ASSUME IInv, ExactPart, pc = "checked", ~mismatch
  PROVE  /\ DOMAIN files = 1..Len(patch)
         /\ \A i \in 1..Len(patch) :
              /\ Ordinary(patch[i]) => ToSet(files[i].lines) = ToSet(NumberedLines(patch[i]))
              /\ ToSet(files[i].lines) \subseteq NumberedEdits
              /\ Path(files[i]) = NameOfChange(patch[i])
<1>1. Len(files) = Len(patch)
  BY DEF IInv, CountPart
<1>2. files \in Seq(FileDiffs)
  BY DEF IInv, TypedPart
<1>3. DOMAIN files = 1..Len(patch) /\ \A i \in 1..Len(patch) : files[i] \in FileDiffs
  <2> DEFINE F == FileDiffs
  <2>1. files \in Seq(F)
    BY <1>2
  <2> HIDE DEF F
  <2>2. DOMAIN files = 1..Len(patch) /\ \A i \in 1..Len(patch) : files[i] \in F
    BY <1>1, <2>1, LenProperties, ElementOfSeq
  <2> QED BY <2>2 DEF F
<1> SUFFICES ASSUME NEW i \in 1..Len(patch)
             PROVE  /\ Ordinary(patch[i]) => ToSet(files[i].lines) = ToSet(NumberedLines(patch[i]))
                    /\ ToSet(files[i].lines) \subseteq NumberedEdits
                    /\ Path(files[i]) = NameOfChange(patch[i])
  BY <1>3
<1>4. Ordinary(patch[i]) => Exact(i)
  BY <1>1 DEF ExactPart, ExactTo
<1>5. Ordinary(patch[i]) => files[i].lines = NumberedLines(patch[i])
  BY <1>4 DEF Exact, NumberedLines, NumberedHunks
<1>6. ToSet(files[i].lines) \subseteq NumberedEdits
  <2> DEFINE lines == files[i].lines
             E == NumberedEdits
  <2>1. lines \in Seq(E)
    BY <1>3 DEF FileDiffs
  <2> HIDE DEF lines, E
  <2>2. ToSet(lines) \subseteq E
    BY <2>1 DEF ToSet
  <2> QED BY <2>2 DEF lines, E
<1>7. Path(files[i]) = NameOfChange(patch[i])
  <2>1. files[i].old = patch[i].old /\ files[i].new = patch[i].new
    BY <1>1 DEF IInv, CountPart
  <2> QED BY <2>1 DEF Path, NameOfChange
<1> QED BY <1>5, <1>6, <1>7

\* The added and the removed lines.
LEMMA LinesSeen ==
  ASSUME IInv, ExactPart, pc = "checked", ~mismatch, AllOrdinary
  PROVE  /\ \A x : x \in Additions <=>
              \E i \in 1..Len(patch) : \E l \in ToSet(NumberedLines(patch[i])) :
                l.mark = "+" /\ x = [file |-> NameOfChange(patch[i]), line |-> l.new,
                                     text |-> l.text]
         /\ \A x : x \in Deletions <=>
              \E i \in 1..Len(patch) : \E l \in ToSet(NumberedLines(patch[i])) :
                l.mark = "-" /\ x = [file |-> NameOfChange(patch[i]), line |-> l.old,
                                     text |-> l.text]
         /\ \A i \in 1..Len(patch) : \A l \in ToSet(NumberedLines(patch[i])) :
              l \in NumberedEdits
<1>1. /\ DOMAIN files = 1..Len(patch)
      /\ \A i \in 1..Len(patch) :
           /\ ToSet(files[i].lines) = ToSet(NumberedLines(patch[i]))
           /\ ToSet(files[i].lines) \subseteq NumberedEdits
           /\ Path(files[i]) = NameOfChange(patch[i])
  BY FilesRead DEF AllOrdinary
<1>2. \A file : file \in ToSet(files) <=> \E i \in 1..Len(patch) : file = files[i]
  BY <1>1 DEF ToSet
<1>3. ASSUME NEW mark, NEW numbered, NEW x
      PROVE  x \in LinesWith(mark, numbered) <=>
               \E i \in 1..Len(patch) : \E l \in ToSet(NumberedLines(patch[i])) :
                 l.mark = mark /\ x = [file |-> NameOfChange(patch[i]), line |-> l[numbered],
                                       text |-> l.text]
  <2>1. x \in LinesWith(mark, numbered) <=>
          \E file \in ToSet(files) : \E l \in ToSet(file.lines) :
            l.mark = mark /\ x = [file |-> Path(file), line |-> l[numbered], text |-> l.text]
    BY DEF LinesWith
  <2>2. (\E file \in ToSet(files) : \E l \in ToSet(file.lines) :
            l.mark = mark /\ x = [file |-> Path(file), line |-> l[numbered], text |-> l.text])
          <=> \E i \in 1..Len(patch) : \E l \in ToSet(files[i].lines) :
            l.mark = mark /\ x = [file |-> Path(files[i]), line |-> l[numbered], text |-> l.text]
    BY <1>2
  <2> QED BY <1>1, <2>1, <2>2
<1>4. \A x : x \in Additions <=>
        \E i \in 1..Len(patch) : \E l \in ToSet(NumberedLines(patch[i])) :
          l.mark = "+" /\ x = [file |-> NameOfChange(patch[i]), line |-> l.new, text |-> l.text]
  BY <1>3 DEF Additions
<1>5. \A x : x \in Deletions <=>
        \E i \in 1..Len(patch) : \E l \in ToSet(NumberedLines(patch[i])) :
          l.mark = "-" /\ x = [file |-> NameOfChange(patch[i]), line |-> l.old, text |-> l.text]
  BY <1>3 DEF Deletions
<1> QED BY <1>1, <1>4, <1>5

\* The lines that the checks see have numbers and texts, and files of Git's
\* list, whatever the parser has made of them.
LEMMA LinesAreFit ==
  ASSUME IInv, ExactPart, pc = "checked", ~mismatch
  PROVE  LinesNumbered /\ FilesAreGits
<1>1. /\ DOMAIN files = 1..Len(patch)
      /\ \A i \in 1..Len(patch) : /\ ToSet(files[i].lines) \subseteq NumberedEdits
                                  /\ Path(files[i]) = NameOfChange(patch[i])
  BY FilesRead
<1>2. ASSUME NEW mark, NEW numbered, NEW x \in LinesWith(mark, numbered)
      PROVE  \E i \in 1..Len(patch) : \E l \in NumberedEdits :
               l.mark = mark /\ x = [file |-> NameOfChange(patch[i]), line |-> l[numbered],
                                     text |-> l.text]
  <2>1. PICK file \in ToSet(files) : \E l \in ToSet(file.lines) :
          l.mark = mark /\ x = [file |-> Path(file), line |-> l[numbered], text |-> l.text]
    BY <1>2 DEF LinesWith
  <2>2. PICK i \in 1..Len(patch) : file = files[i]
    BY <1>1 DEF ToSet
  <2>3. Path(file) = NameOfChange(patch[i]) /\ ToSet(file.lines) \subseteq NumberedEdits
    BY <1>1, <2>2
  <2> QED BY <2>1, <2>3
<1>3. \A l \in NumberedEdits : /\ l.mark = "+" => l.new # NoLine
                               /\ l.mark = "-" => l.old # NoLine
                               /\ l.text # NoText
  BY CheckAssumption DEF NumberedEdits
<1>4. LinesNumbered
  <2>1. ASSUME NEW x \in Additions PROVE x.line # NoLine /\ x.text # NoText
    <3>1. \E i \in 1..Len(patch) : \E l \in NumberedEdits :
            l.mark = "+" /\ x = [file |-> NameOfChange(patch[i]), line |-> l["new"],
                                 text |-> l.text]
      BY <1>2 DEF Additions
    <3> QED BY <1>3, <3>1
  <2>2. ASSUME NEW x \in Deletions PROVE x.line # NoLine /\ x.text # NoText
    <3>1. \E i \in 1..Len(patch) : \E l \in NumberedEdits :
            l.mark = "-" /\ x = [file |-> NameOfChange(patch[i]), line |-> l["old"],
                                 text |-> l.text]
      BY <1>2 DEF Deletions
    <3> QED BY <1>3, <3>1
  <2> QED BY <2>1, <2>2 DEF LinesNumbered
<1>5. FilesAreGits
  <2> SUFFICES ASSUME NEW x \in Additions PROVE x.file \in {c.path : c \in Changed}
    BY DEF FilesAreGits
  <2>1. PICK i \in 1..Len(patch) : \E l \in NumberedEdits :
          l.mark = "+" /\ x = [file |-> NameOfChange(patch[i]), line |-> l["new"],
                               text |-> l.text]
    BY <1>2 DEF Additions
  <2>2. x.file = NameOfChange(patch[i])
    BY <2>1
  <2>3. x.file = ChangedFile(patch[i]).path
    BY <2>1, <2>2, NamesAreGits DEF IInv
  <2>4. ChangedFile(patch[i]) \in Changed
    BY <2>1 DEF Changed
  <2> QED BY <2>3, <2>4
<1> QED BY <1>4, <1>5

-----------------------------------------------------------------------------
(* What the findings tell                                                   *)

\* What the catalogue has caught.
AllCaught == UNION {Places(r[1], CaughtBy(r)) : r \in Catalogue}

\* What the findings in workflows tell (workflows.py).
LEMMA ToldOfWorkflows ==
  ASSUME LinesNumbered, FilesAreGits
  PROVE  Told(WorkflowFindings) =
           UNION {Places(r[1], CaughtBy(r)) :
                    r \in {r \in Catalogue : r[1] \in {"PL-GHA-002", "PL-GHA-003", "PL-GHA-004",
                                              "PL-GHA-005", "PL-GHA-006", "PL-GHA-007"}}}
<1> DEFINE Of(rule, p) == Caught(rule, "+", "workflow", p)
           a == FileFindings("PL-GHA-001", Workflows)
           b == QuotedFindings("PL-GHA-002", Of("PL-GHA-002", "write-permission"))
           c == LineFindings("PL-GHA-003", Of("PL-GHA-003", "privileged-trigger"))
           d == LineFindings("PL-GHA-004", Of("PL-GHA-004", "persist-true"))
           e == LineFindings("PL-GHA-005", Of("PL-GHA-005", "continue-on-error"))
           f == LineFindings("PL-GHA-006", Of("PL-GHA-006", "remote-script"))
           g == QuotedFindings("PL-GHA-007", Of("PL-GHA-007", "mutable-action"))
<1>1. WorkflowFindings = a \cup b \cup c \cup d \cup e \cup f \cup Defaults \cup g
  <2>1. /\ Showing(InWorkflows, "write-permission") = Of("PL-GHA-002", "write-permission")
        /\ Showing(InWorkflows, "privileged-trigger") = Of("PL-GHA-003", "privileged-trigger")
        /\ Showing(InWorkflows, "persist-true") = Of("PL-GHA-004", "persist-true")
        /\ Showing(InWorkflows, "continue-on-error") = Of("PL-GHA-005", "continue-on-error")
        /\ Showing(InWorkflows, "remote-script") = Of("PL-GHA-006", "remote-script")
        /\ Showing(InWorkflows, "mutable-action") = Of("PL-GHA-007", "mutable-action")
    BY RuleLines
  <2> HIDE DEF Of
  <2> QED BY <2>1 DEF WorkflowFindings, Defaults
<1>2. \A rule, p : \A l \in Of(rule, p) : l.line # NoLine
  BY DEF Caught, LinesNumbered
<1>3. Told(a) = {}
  BY FindingKinds, ShownNever
<1>4. Told(Defaults) = {}
  <2>1. \A l \in InWorkflows : l.text # NoText
    BY DEF InWorkflows, LinesNumbered
  <2>2. \A l \in Unset(Showing(InWorkflows, "checkout")) : l.text # NoText
    BY <2>1 DEF Unset, Showing
  <2>3. \A x \in Defaults : IsDefault(x)
    BY <2>2 DEF Defaults, QuotedFindings, IsDefault
  <2> QED BY <2>3 DEF Told
<1> DEFINE A(rule, p) == Places(rule, Of(rule, p))
<1>5. /\ Told(b) = A("PL-GHA-002", "write-permission")
      /\ Told(c) = A("PL-GHA-003", "privileged-trigger")
      /\ Told(d) = A("PL-GHA-004", "persist-true")
      /\ Told(e) = A("PL-GHA-005", "continue-on-error")
      /\ Told(f) = A("PL-GHA-006", "remote-script")
      /\ Told(g) = A("PL-GHA-007", "mutable-action")
  <2> HIDE DEF Of
  <2> QED BY <1>2, ShownLines
<1>6. Told(WorkflowFindings)
        = Told(b) \cup Told(c) \cup Told(d) \cup Told(e) \cup Told(f) \cup Told(g)
  <2> HIDE DEF a, b, c, d, e, f, g
  <2>1. Told(WorkflowFindings) = Told(a) \cup Told(b) \cup Told(c) \cup Told(d) \cup Told(e)
                                   \cup Told(f) \cup Told(Defaults) \cup Told(g)
    BY <1>1 DEF Told
  <2> QED BY <1>3, <1>4, <2>1
<1> DEFINE R == {r \in Catalogue : r[1] \in {"PL-GHA-002", "PL-GHA-003", "PL-GHA-004",
                                             "PL-GHA-005", "PL-GHA-006", "PL-GHA-007"}}
<1>7. R = {<<"PL-GHA-002", "+", "workflow", "write-permission">>,
           <<"PL-GHA-003", "+", "workflow", "privileged-trigger">>,
           <<"PL-GHA-004", "+", "workflow", "persist-true">>,
           <<"PL-GHA-005", "+", "workflow", "continue-on-error">>,
           <<"PL-GHA-006", "+", "workflow", "remote-script">>,
           <<"PL-GHA-007", "+", "workflow", "mutable-action">>}
  BY DEF Catalogue
<1>8. UNION {Places(r[1], CaughtBy(r)) : r \in R}
        = A("PL-GHA-002", "write-permission") \cup A("PL-GHA-003", "privileged-trigger")
            \cup A("PL-GHA-004", "persist-true") \cup A("PL-GHA-005", "continue-on-error")
            \cup A("PL-GHA-006", "remote-script") \cup A("PL-GHA-007", "mutable-action")
  <2>1. \A rule, p : CaughtBy(<<rule, "+", "workflow", p>>) = Of(rule, p)
    BY DEF CaughtBy
  <2> HIDE DEF Of, R
  <2> QED BY <1>7, <2>1
<1> HIDE DEF A, R
<1> QED BY <1>5, <1>6, <1>8 DEF R

\* What the other findings tell (scope.py, dependencies.py, secrets.py, network.py, tests.py).
LEMMA ToldOfOthers ==
  ASSUME LinesNumbered
  PROVE  /\ Told(ScopeFindings) = {} /\ Told(DependencyFindings) = {}
         /\ Told(SecretFindings) \cup Told(NetworkFindings) \cup Told(TestFindings) =
              UNION {Places(r[1], CaughtBy(r)) :
                       r \in {r \in Catalogue : r[1] \in {"PL-SECRET-002", "PL-SECRET-003",
                                "PL-SECRET-004", "PL-NET-001", "PL-TEST-002", "PL-TEST-003",
                                "PL-TEST-004"}}}
<1> DEFINE a == FileFindings("PL-SECRET-001", {c \in Changed : Is(c.path, "sensitive")})
           b == LineFindings("PL-SECRET-002", Caught("PL-SECRET-002", "+", "any", "private-key"))
           c == LineFindings("PL-SECRET-003", Caught("PL-SECRET-003", "+", "any", "secret-log"))
           d == LineFindings("PL-SECRET-004", Caught("PL-SECRET-004", "+", "any", "token"))
           e == FileFindings("PL-TEST-001",
                             {x \in Changed : x.status = "D" /\ Is(x.path, "test")})
           f == LineFindings("PL-TEST-002", Caught("PL-TEST-002", "-", "test", "assertion"))
           g == LineFindings("PL-TEST-003", Caught("PL-TEST-003", "+", "test", "skip"))
           h == LineFindings("PL-TEST-004", Caught("PL-TEST-004", "+", "any", "suppression"))
           n == QuotedFindings("PL-NET-001", Caught("PL-NET-001", "+", "source", "network"))
<1>1. SecretFindings = a \cup b \cup c \cup d
  BY OtherLines DEF SecretFindings
<1>2. NetworkFindings = n
  BY OtherLines DEF NetworkFindings
<1>3. TestFindings = e \cup f \cup g \cup h
  BY OtherLines DEF TestFindings
<1>4. Told(ScopeFindings) = {} /\ Told(DependencyFindings) = {}
  <2>1. \A x \in DependencyFindings : x.line = NoLine
    BY FindingKinds DEF DependencyFindings
  <2> QED BY <2>1, ScopeRules, ShownNever
<1>5. Told(a) = {} /\ Told(e) = {}
  BY FindingKinds, ShownNever
<1>6. \A rule, mark, kind, p : \A l \in Caught(rule, mark, kind, p) : l.line # NoLine
  BY DEF Caught, LinesNumbered
<1> DEFINE A(rule, mark, kind, p) == Places(rule, Caught(rule, mark, kind, p))
<1>7. /\ Told(b) = A("PL-SECRET-002", "+", "any", "private-key")
      /\ Told(c) = A("PL-SECRET-003", "+", "any", "secret-log")
      /\ Told(d) = A("PL-SECRET-004", "+", "any", "token")
      /\ Told(f) = A("PL-TEST-002", "-", "test", "assertion")
      /\ Told(g) = A("PL-TEST-003", "+", "test", "skip")
      /\ Told(h) = A("PL-TEST-004", "+", "any", "suppression")
      /\ Told(n) = A("PL-NET-001", "+", "source", "network")
  BY <1>6, ShownLines
<1>8. Told(SecretFindings) \cup Told(NetworkFindings) \cup Told(TestFindings)
        = Told(b) \cup Told(c) \cup Told(d) \cup Told(f) \cup Told(g) \cup Told(h) \cup Told(n)
  <2> HIDE DEF a, b, c, d, e, f, g, h, n
  <2>1. Told(SecretFindings) = Told(a) \cup Told(b) \cup Told(c) \cup Told(d)
    BY <1>1 DEF Told
  <2>2. Told(TestFindings) = Told(e) \cup Told(f) \cup Told(g) \cup Told(h)
    BY <1>3 DEF Told
  <2> QED BY <1>2, <1>5, <2>1, <2>2
<1> DEFINE R == {r \in Catalogue : r[1] \in {"PL-SECRET-002", "PL-SECRET-003", "PL-SECRET-004",
                                             "PL-NET-001", "PL-TEST-002", "PL-TEST-003",
                                             "PL-TEST-004"}}
<1>9. R = {<<"PL-SECRET-002", "+", "any", "private-key">>,
           <<"PL-SECRET-003", "+", "any", "secret-log">>,
           <<"PL-SECRET-004", "+", "any", "token">>,
           <<"PL-NET-001", "+", "source", "network">>,
           <<"PL-TEST-002", "-", "test", "assertion">>,
           <<"PL-TEST-003", "+", "test", "skip">>,
           <<"PL-TEST-004", "+", "any", "suppression">>}
  BY DEF Catalogue
<1>10. UNION {Places(r[1], CaughtBy(r)) : r \in R}
         = A("PL-SECRET-002", "+", "any", "private-key")
             \cup A("PL-SECRET-003", "+", "any", "secret-log")
             \cup A("PL-SECRET-004", "+", "any", "token")
             \cup A("PL-TEST-002", "-", "test", "assertion")
             \cup A("PL-TEST-003", "+", "test", "skip")
             \cup A("PL-TEST-004", "+", "any", "suppression")
             \cup A("PL-NET-001", "+", "source", "network")
  <2>1. \A rule, mark, kind, p :
          Places(rule, CaughtBy(<<rule, mark, kind, p>>)) = A(rule, mark, kind, p)
    BY DEF CaughtBy
  <2> HIDE DEF R, A
  <2> QED BY <1>9, <2>1
<1> HIDE DEF A, R
<1> QED BY <1>4, <1>7, <1>8, <1>10 DEF R

\* All findings tell what the catalogue has caught.
LEMMA ToldOfAll ==
  ASSUME LinesNumbered, FilesAreGits
  PROVE  Told(AllFindings) = AllCaught
<1> DEFINE W == {"PL-GHA-002", "PL-GHA-003", "PL-GHA-004", "PL-GHA-005", "PL-GHA-006",
                 "PL-GHA-007"}
           O == {"PL-SECRET-002", "PL-SECRET-003", "PL-SECRET-004", "PL-NET-001",
                 "PL-TEST-002", "PL-TEST-003", "PL-TEST-004"}
           P(r) == Places(r[1], CaughtBy(r))
<1>1. \A r \in Catalogue : r[1] \in W \/ r[1] \in O
  BY DEF Catalogue
<1>2. Told(AllFindings) = Told(ScopeFindings) \cup Told(DependencyFindings)
        \cup Told(WorkflowFindings) \cup Told(SecretFindings) \cup Told(NetworkFindings)
        \cup Told(TestFindings)
  BY DEF AllFindings, Told
<1>3. Told(AllFindings) = (UNION {P(r) : r \in {r \in Catalogue : r[1] \in W}})
                            \cup (UNION {P(r) : r \in {r \in Catalogue : r[1] \in O}})
  <2>1. Told(WorkflowFindings) = UNION {P(r) : r \in {r \in Catalogue : r[1] \in W}}
    BY ToldOfWorkflows
  <2>2. /\ Told(SecretFindings) \cup Told(NetworkFindings) \cup Told(TestFindings)
             = UNION {P(r) : r \in {r \in Catalogue : r[1] \in O}}
        /\ Told(ScopeFindings) = {} /\ Told(DependencyFindings) = {}
    BY ToldOfOthers
  <2> HIDE DEF W, O, P
  <2> QED BY <1>2, <2>1, <2>2
<1>4. (UNION {P(r) : r \in {r \in Catalogue : r[1] \in W}})
        \cup (UNION {P(r) : r \in {r \in Catalogue : r[1] \in O}})
        = UNION {P(r) : r \in Catalogue}
  <2> HIDE DEF W, O, P
  <2> QED BY <1>1
<1> QED BY <1>3, <1>4 DEF AllCaught

\* What is caught is what the catalogue says of the changes one by one.
LEMMA CaughtIsExpected ==
  ASSUME IInv, ExactPart, pc = "checked", ~mismatch, AllOrdinary
  PROVE  AllCaught = UNION {Expected(patch[i]) : i \in 1..Len(patch)}
<1> DEFINE Fits(r, name, text) == /\ r[3] = "any" \/ Is(name, r[3])
                                  /\ r[4] \in ShownBy[text] /\ ~Exempt(r[1], text)
           Of(r, i, l) == <<r[1], NameOfChange(patch[i]), IF r[2] = "+" THEN l.new ELSE l.old>>
           Told1(x) == \E i \in 1..Len(patch) : \E l \in ToSet(NumberedLines(patch[i])) :
                         \E r \in Catalogue :
                           /\ r[2] = l.mark /\ Fits(r, NameOfChange(patch[i]), l.text)
                           /\ x = Of(r, i, l)
<1>1. \A x : x \in UNION {Expected(patch[i]) : i \in 1..Len(patch)} <=> Told1(x)
  <2>1. \A i, x : x \in Expected(patch[i]) <=>
          \E l \in ToSet(NumberedLines(patch[i])) : \E r \in Catalogue :
            /\ r[2] = l.mark /\ Fits(r, NameOfChange(patch[i]), l.text)
            /\ x = Of(r, i, l)
    BY DEF Expected
  <2>2. \A x : x \in UNION {Expected(patch[i]) : i \in 1..Len(patch)}
              <=> \E i \in 1..Len(patch) : x \in Expected(patch[i])
    OBVIOUS
  <2> DEFINE Here(i, x) == \E l \in ToSet(NumberedLines(patch[i])) : \E r \in Catalogue :
                             /\ r[2] = l.mark /\ Fits(r, NameOfChange(patch[i]), l.text)
                             /\ x = Of(r, i, l)
  <2>3. \A x : Told1(x) <=> \E i \in 1..Len(patch) : Here(i, x)
    OBVIOUS
  <2>4. \A i, x : x \in Expected(patch[i]) <=> Here(i, x)
    BY <2>1
  <2> HIDE DEF Here, Told1
  <2> QED BY <2>2, <2>3, <2>4
<1>2. \A x : x \in AllCaught <=>
        \E r \in Catalogue : \E m \in IF r[2] = "+" THEN Additions ELSE Deletions :
          Fits(r, m.file, m.text) /\ x = <<r[1], m.file, m.line>>
  BY DEF AllCaught, Places, CaughtBy, Caught
<1>3. \A r \in Catalogue : r[2] = "+" \/ r[2] = "-"
  BY DEF Catalogue
<1>4. ASSUME NEW x, NEW r \in Catalogue, r[2] = "+"
      PROVE  (\E m \in Additions : Fits(r, m.file, m.text) /\ x = <<r[1], m.file, m.line>>)
               <=> \E i \in 1..Len(patch) : \E l \in ToSet(NumberedLines(patch[i])) :
                     /\ r[2] = l.mark /\ Fits(r, NameOfChange(patch[i]), l.text)
                     /\ x = Of(r, i, l)
  <2>1. \A m : m \in Additions <=>
          \E i \in 1..Len(patch) : \E l \in ToSet(NumberedLines(patch[i])) :
            l.mark = "+" /\ m = [file |-> NameOfChange(patch[i]), line |-> l.new,
                                 text |-> l.text]
    BY LinesSeen
  <2>2. \A i, l : Of(r, i, l) = <<r[1], NameOfChange(patch[i]), l.new>>
    BY <1>4
  <2> HIDE DEF Fits, Of
  <2>3. ASSUME NEW m \in Additions, Fits(r, m.file, m.text), x = <<r[1], m.file, m.line>>
        PROVE  \E i \in 1..Len(patch) : \E l \in ToSet(NumberedLines(patch[i])) :
                 /\ r[2] = l.mark /\ Fits(r, NameOfChange(patch[i]), l.text)
                 /\ x = Of(r, i, l)
    <3>1. PICK i \in 1..Len(patch) : \E l \in ToSet(NumberedLines(patch[i])) :
            l.mark = "+" /\ m = [file |-> NameOfChange(patch[i]), line |-> l.new,
                                 text |-> l.text]
      BY <2>1
    <3>2. PICK l \in ToSet(NumberedLines(patch[i])) :
            l.mark = "+" /\ m = [file |-> NameOfChange(patch[i]), line |-> l.new,
                                 text |-> l.text]
      BY <3>1
    <3>3. m.file = NameOfChange(patch[i]) /\ m.line = l.new /\ m.text = l.text
      BY <3>2
    <3>4. Fits(r, NameOfChange(patch[i]), l.text) /\ x = Of(r, i, l)
      BY <2>2, <2>3, <3>3
    <3> QED BY <1>4, <3>2, <3>4
  <2>4. ASSUME NEW i \in 1..Len(patch), NEW l \in ToSet(NumberedLines(patch[i])),
               r[2] = l.mark, Fits(r, NameOfChange(patch[i]), l.text), x = Of(r, i, l)
        PROVE  \E m \in Additions : Fits(r, m.file, m.text) /\ x = <<r[1], m.file, m.line>>
    <3> DEFINE m == [file |-> NameOfChange(patch[i]), line |-> l.new, text |-> l.text]
    <3>1. m.file = NameOfChange(patch[i]) /\ m.line = l.new /\ m.text = l.text
      OBVIOUS
    <3>2. m \in Additions
      BY <1>4, <2>1, <2>4
    <3> HIDE DEF m
    <3>3. Fits(r, m.file, m.text) /\ x = <<r[1], m.file, m.line>>
      BY <2>2, <2>4, <3>1
    <3> QED BY <3>2, <3>3
  <2> QED BY <2>3, <2>4
<1>5. ASSUME NEW x, NEW r \in Catalogue, r[2] = "-"
      PROVE  (\E m \in Deletions : Fits(r, m.file, m.text) /\ x = <<r[1], m.file, m.line>>)
               <=> \E i \in 1..Len(patch) : \E l \in ToSet(NumberedLines(patch[i])) :
                     /\ r[2] = l.mark /\ Fits(r, NameOfChange(patch[i]), l.text)
                     /\ x = Of(r, i, l)
  <2>1. \A m : m \in Deletions <=>
          \E i \in 1..Len(patch) : \E l \in ToSet(NumberedLines(patch[i])) :
            l.mark = "-" /\ m = [file |-> NameOfChange(patch[i]), line |-> l.old,
                                 text |-> l.text]
    BY LinesSeen
  <2>2. \A i, l : Of(r, i, l) = <<r[1], NameOfChange(patch[i]), l.old>>
    BY <1>5
  <2> HIDE DEF Fits, Of
  <2>3. ASSUME NEW m \in Deletions, Fits(r, m.file, m.text), x = <<r[1], m.file, m.line>>
        PROVE  \E i \in 1..Len(patch) : \E l \in ToSet(NumberedLines(patch[i])) :
                 /\ r[2] = l.mark /\ Fits(r, NameOfChange(patch[i]), l.text)
                 /\ x = Of(r, i, l)
    <3>1. PICK i \in 1..Len(patch) : \E l \in ToSet(NumberedLines(patch[i])) :
            l.mark = "-" /\ m = [file |-> NameOfChange(patch[i]), line |-> l.old,
                                 text |-> l.text]
      BY <2>1
    <3>2. PICK l \in ToSet(NumberedLines(patch[i])) :
            l.mark = "-" /\ m = [file |-> NameOfChange(patch[i]), line |-> l.old,
                                 text |-> l.text]
      BY <3>1
    <3>3. m.file = NameOfChange(patch[i]) /\ m.line = l.old /\ m.text = l.text
      BY <3>2
    <3>4. Fits(r, NameOfChange(patch[i]), l.text) /\ x = Of(r, i, l)
      BY <2>2, <2>3, <3>3
    <3> QED BY <1>5, <3>2, <3>4
  <2>4. ASSUME NEW i \in 1..Len(patch), NEW l \in ToSet(NumberedLines(patch[i])),
               r[2] = l.mark, Fits(r, NameOfChange(patch[i]), l.text), x = Of(r, i, l)
        PROVE  \E m \in Deletions : Fits(r, m.file, m.text) /\ x = <<r[1], m.file, m.line>>
    <3> DEFINE m == [file |-> NameOfChange(patch[i]), line |-> l.old, text |-> l.text]
    <3>1. m.file = NameOfChange(patch[i]) /\ m.line = l.old /\ m.text = l.text
      OBVIOUS
    <3>2. m \in Deletions
      BY <1>5, <2>1, <2>4
    <3> HIDE DEF m
    <3>3. Fits(r, m.file, m.text) /\ x = <<r[1], m.file, m.line>>
      BY <2>2, <2>4, <3>1
    <3> QED BY <3>2, <3>3
  <2> QED BY <2>3, <2>4
<1>6. \A x : x \in AllCaught <=> Told1(x)
  <2> HIDE DEF Fits, Of
  <2> QED BY <1>2, <1>3, <1>4, <1>5
<1> HIDE DEF Told1
<1> QED BY <1>1, <1>6

\* The invariant makes the findings those the catalogue expects.
LEMMA FindingsExact ==
  ASSUME IInv, ExactPart, CheckPart
  PROVE  FindingsAreExact
<1> SUFFICES ASSUME pc = "checked", ~mismatch, AllOrdinary
             PROVE  Told(findings) = UNION {Expected(patch[i]) : i \in 1..Len(patch)}
  BY DEF FindingsAreExact, Told, Place
<1>1. findings = AllFindings
  BY DEF CheckPart
<1> QED BY <1>1, LinesAreFit, ToldOfAll, CaughtIsExpected

\* For every patch of ordinary changes that is not denied for its file count, the
\* findings name the lines the catalogue of rules speaks of, under their files
\* and numbers, and no others (parse_unified_diff, align_file_diffs, run_checks).
THEOREM FindingsTheorem == CheckSpec => []FindingsAreExact
BY CheckInvariant, FindingsExact, PTL

\* Every variable holds a value the program can store, and every line the
\* parser keeps has the numbers its mark says it has (parse_unified_diff).
THEOREM TypesTheorem == CheckSpec => []TypeOK
BY CheckInvariant, IInvTypes, PTL

\* Unless the patch is denied for its number of files, every file the checks
\* see has the paths of its change, whatever the diff shows (align_file_diffs).
THEOREM PathsTheorem == CheckSpec => []PathsAreGits
BY CheckInvariant, IInvPaths, PTL

\* The checks see an ordinary change exactly, line for line and number for
\* number, whatever the changes before it have, unless the patch is denied for
\* its number of files (parse_unified_diff).
THEOREM ExactTheorem == CheckSpec => []OrdinaryChangeIsExact
BY CheckInvariant, ExactEnd, PTL

-----------------------------------------------------------------------------
(* The head revision of a workflow                                          *)

\* Sequences of one element each, flattened.
LEMMA SinglesFlattened ==
  ASSUME NEW S, NEW seq \in Seq(S)
  PROVE  FlattenSeq([k \in 1..Len(seq) |-> <<seq[k]>>]) = seq
<1> DEFINE n == Len(seq)
           all == [k \in 1..n |-> <<seq[k]>>]
           Q == Seq(S)
           T == {m \in Nat : m <= n => FirstOf(all, m) = SubSeq(seq, 1, m)}
<1>1. n \in Nat /\ seq \in Seq(S) /\ n = Len(seq) /\ \A k \in 1..n : seq[k] \in S
  BY ElementOfSeq
<1>2. all \in [1..n -> Q] /\ \A k \in 1..n : all[k] = <<seq[k]>>
  BY <1>1
<1>3. all \in Seq(Q) /\ Len(all) = n
  <2> HIDE DEF all, Q, n
  <2> QED BY <1>1, <1>2, FunctionIsSequence
<1> HIDE DEF all, n
<1>4. 0 \in T
  <2>1. FirstOf(all, 0) = <<>>
    BY <1>3, FirstAndRest
  <2>2. SubSeq(seq, 1, 0) = <<>>
    BY SubSeqEmpty
  <2> QED BY <2>1, <2>2
<1>5. ASSUME NEW m \in Nat, m \in T PROVE m + 1 \in T
  <2> SUFFICES ASSUME m + 1 <= n PROVE FirstOf(all, m + 1) = SubSeq(seq, 1, m + 1)
    OBVIOUS
  <2>1. /\ m \in 0..(Len(all) - 1) /\ m + 1 \in 1..n /\ (m + 1) - 1 = m /\ m <= n
        /\ 1 \in 1..n
    BY <1>1, <1>3
  <2>2. FirstOf(all, m) = SubSeq(seq, 1, m)
    BY <1>5, <2>1
  <2>3. FirstOf(all, m + 1) = FirstOf(all, m) \o all[m + 1]
    BY <1>3, <2>1, FirstOneMore
  <2>4. SubSeq(seq, 1, m + 1) = SubSeq(seq, 1, (m + 1) - 1) \o <<seq[m + 1]>>
    BY <1>1, <2>1, SubSeqRecursiveSecond
  <2> QED BY <1>2, <2>1, <2>2, <2>3, <2>4
<1> HIDE DEF T
<1>6. n \in T
  BY <1>1, <1>4, <1>5, NaturalsInSet
<1>7. FirstOf(all, n) = SubSeq(seq, 1, n)
  BY <1>1, <1>6 DEF T
<1>8. FirstOf(all, n) = FlattenSeq(all)
  BY <1>3, FirstAndRest
<1>9. SubSeq(seq, 1, n) = seq
  BY <1>1, SubSeqFull
<1> QED BY <1>7, <1>8, <1>9 DEF all, n

\* A line that a change adds to a workflow without odd line ends is in the head
\* revision, under its number.
LEMMA HeadShows ==
  ASSUME patch \in Patches, NEW i \in 1..Len(patch), Is(patch[i].new, "workflow"),
         EvenHead(patch[i]), NEW l \in ToSet(NumberedLines(patch[i])), l.mark = "+"
  PROVE  /\ HeadFile(patch[i].new) = patch[i].head
         /\ patch[i].head \in Seq(Texts)
         /\ l.new \in 1..Len(patch[i].head)
         /\ patch[i].head[l.new] = l.text
<1> DEFINE path == patch[i].new
           change == CHOOSE c \in ToSet(patch) : c.new = path
           lines == patch[i].head
<1>1. DOMAIN patch = 1..Len(patch)
  <2> DEFINE C == Changes
  <2>1. patch \in Seq(C)
    BY PatchTyped
  <2> HIDE DEF C
  <2> QED BY <2>1, LenProperties
<1>2. path # NoPath
  BY CheckAssumption, PatchAssumption DEF Is
<1>3. change \in ToSet(patch) /\ change.new = path
  <2>1. patch[i] \in ToSet(patch)
    BY <1>1 DEF ToSet
  <2> QED BY <2>1
<1>4. PICK j \in 1..Len(patch) : change = patch[j]
  BY <1>1, <1>3 DEF ToSet
<1>5. change.head = lines
  BY <1>2, <1>3, <1>4, HeadAssumption
<1>6. lines \in Seq(Texts)
  BY PatchTyped DEF Changes
<1>7. l.new \in 1..Len(lines) /\ lines[l.new] = l.text
  BY HeadAssumption
<1> DEFINE Broken(h) == [k \in 1..Len(h) |->
                          IF h[k] \in Breaks THEN <<h[k], "plain">> ELSE <<h[k]>>]
<1>8. HeadFile(path) = FlattenSeq(Broken(lines))
  <2>1. HeadFile(path) = FlattenSeq(Broken(change.head))
    BY DEF HeadFile
  <2> HIDE DEF change, Broken, lines, path
  <2> QED BY <1>5, <2>1
<1>9. \A k \in 1..Len(lines) : lines[k] \notin Breaks
  BY DEF EvenHead
<1>10. Broken(lines) = [k \in 1..Len(lines) |-> <<lines[k]>>]
  <2> HIDE DEF lines
  <2> QED BY <1>9
<1> HIDE DEF change, path, Broken, lines
<1>11. HeadFile(path) = lines
  BY <1>6, <1>8, <1>10, SinglesFlattened
<1> QED BY <1>6, <1>7, <1>11 DEF lines, path

-----------------------------------------------------------------------------
(* Checkouts                                                                *)

\* No finding but those of checkouts is one.
LEMMA DefaultFindings ==
  \A f : IsDefault(f) => (f \in AllFindings <=> f \in Defaults)
<1> SUFFICES ASSUME NEW f, IsDefault(f) PROVE f \in AllFindings <=> f \in Defaults
  OBVIOUS
<1>1. f.rule = "PL-GHA-004" /\ f.message # NoText
  BY DEF IsDefault
<1>2. \A lines : f \notin QuotedFindings("PL-GHA-002", lines)
                 /\ f \notin QuotedFindings("PL-GHA-007", lines)
                 /\ f \notin QuotedFindings("PL-NET-001", lines)
  BY <1>1, FindingKinds
<1>3. \A rule, lines : f \notin LineFindings(rule, lines)
  BY <1>1, FindingKinds
<1>4. \A changes : f \notin FileFindings("PL-GHA-001", changes)
                   /\ f \notin FileFindings("PL-DEPS-001", changes)
                   /\ f \notin FileFindings("PL-SECRET-001", changes)
                   /\ f \notin FileFindings("PL-TEST-001", changes)
  BY <1>1, FindingKinds
<1>5. f \notin ScopeFindings
  BY <1>1, ScopeRules
<1>6. f \notin DependencyFindings
  BY <1>4 DEF DependencyFindings
<1>7. f \in WorkflowFindings <=> f \in Defaults
  BY <1>2, <1>3, <1>4 DEF WorkflowFindings, Defaults
<1>8. f \notin SecretFindings
  BY <1>3, <1>4 DEF SecretFindings
<1>9. f \notin NetworkFindings
  BY <1>2 DEF NetworkFindings
<1>10. f \notin TestFindings
  BY <1>3, <1>4 DEF TestFindings
<1> QED BY <1>5, <1>6, <1>7, <1>8, <1>9, <1>10 DEF AllFindings

\* A checkout is reported when no setting is found for it.
LEMMA CheckoutReported ==
  ASSUME IInv, ExactPart, CheckPart, pc = "checked", ~mismatch,
         NEW i \in 1..Len(patch), Is(patch[i].new, "workflow"), Ordinary(patch[i]),
         NEW l \in ToSet(NumberedLines(patch[i])), l.mark = "+", "checkout" \in ShownBy[l.text]
  PROVE  (\E f \in findings : IsDefault(f) /\ f.file = patch[i].new /\ f.line = l.new)
           <=> ~CheckoutSetting(HeadFile(patch[i].new), l.new)
<1> DEFINE path == patch[i].new
<1>1. \A f : IsDefault(f) => (f \in findings <=> f \in Defaults)
  BY DefaultFindings DEF CheckPart
<1>2. LinesNumbered /\ FilesAreGits
  BY LinesAreFit
<1>3. InWorkflows = InFiles(Additions, "workflow")
  BY <1>2, WorkflowLines
<1>4. path # NoPath
  BY CheckAssumption, PatchAssumption DEF Is
<1>5. ASSUME NEW f \in findings, IsDefault(f), f.file = path, f.line = l.new
      PROVE  ~CheckoutSetting(HeadFile(path), l.new)
  <2>1. f \in Defaults
    BY <1>1, <1>5
  <2>2. PICK m \in Unset(Showing(InWorkflows, "checkout")) :
          f = [rule |-> "PL-GHA-004", file |-> m.file, line |-> m.line, message |-> m.text]
    BY <2>1 DEF Defaults, QuotedFindings
  <2>3. m.file = path /\ m.line = l.new
    BY <1>5, <2>2
  <2>4. ~CheckoutSetting(HeadFile(m.file), m.line)
    BY <2>2 DEF Unset
  <2> HIDE DEF path
  <2> QED BY <2>3, <2>4
<1>6. ASSUME ~CheckoutSetting(HeadFile(path), l.new)
      PROVE  \E f \in findings : IsDefault(f) /\ f.file = path /\ f.line = l.new
  <2> DEFINE m == [file |-> path, line |-> l.new, text |-> l.text]
             f == [rule |-> "PL-GHA-004", file |-> path, line |-> l.new, message |-> l.text]
  <2>1. m \in Additions
    <3>1. NameOfChange(patch[i]) = path
      BY <1>4 DEF NameOfChange
    <3>2. /\ DOMAIN files = 1..Len(patch) /\ Path(files[i]) = NameOfChange(patch[i])
          /\ l \in ToSet(files[i].lines)
      BY FilesRead
    <3>3. files[i] \in ToSet(files)
      BY <3>2 DEF ToSet
    <3>4. m = [file |-> Path(files[i]), line |-> l["new"], text |-> l.text]
      BY <3>1, <3>2
    <3> HIDE DEF m
    <3> QED BY <3>2, <3>3, <3>4 DEF Additions, LinesWith
  <2>2. m.file = path /\ m.line = l.new /\ m.text = l.text
    OBVIOUS
  <2>3. f = [rule |-> "PL-GHA-004", file |-> m.file, line |-> m.line, message |-> m.text]
    OBVIOUS
  <2>4. InHead(path)
    BY DEF InHead
  <2>5. f.rule = "PL-GHA-004" /\ f.message = l.text /\ f.file = path /\ f.line = l.new
    OBVIOUS
  <2> HIDE DEF m, f
  <2>6. m \in InWorkflows
    BY <1>3, <2>1, <2>2 DEF InFiles
  <2>7. m \in Unset(Showing(InWorkflows, "checkout"))
    <3> HIDE DEF path
    <3> QED BY <1>6, <2>2, <2>4, <2>6 DEF Unset, Showing
  <2>8. f \in Defaults
    BY <2>3, <2>7 DEF Defaults, QuotedFindings
  <2>9. IsDefault(f)
    BY <1>2, <2>1, <2>2, <2>5 DEF IsDefault, LinesNumbered
  <2> QED BY <1>1, <2>5, <2>8, <2>9
<1> QED BY <1>5, <1>6

\* A setting is found for an added checkout where there is one in the rest of its
\* step.
LEMMA SettingFound ==
  ASSUME NEW lines \in Seq(Texts), NEW number \in 1..Len(lines),
         "checkout" \in ShownBy[lines[number]]
  PROVE  CheckoutSetting(lines, number) <=>
           \E k \in StepOf(lines, number) :
             k > number /\ ShownBy[lines[k]] \cap {"persist-true", "persist-false"} # {}
<1> DEFINE n == Len(lines)
           Item(j) == "list-item" \in ShownBy[lines[j]] /\ Indent[lines[j]] = 0
           Ends(j) == /\ Indent[lines[j]] <= Indent[lines[number]]
                      /\ "list-item" \in ShownBy[lines[j]]
           Set(k)  == ShownBy[lines[k]] \cap {"persist-true", "persist-false"} # {}
<1>1. n \in Nat /\ \A j \in 1..n : lines[j] \in Texts /\ Indent[lines[j]] \in Nat
  BY CheckAssumption
<1>2. \A j \in 1..n : Ends(j) <=> Item(j)
  <2> SUFFICES ASSUME NEW j \in 1..n PROVE Ends(j) <=> Item(j)
    OBVIOUS
  <2> DEFINE a == Indent[lines[j]]
             b == Indent[lines[number]]
  <2>1. a \in Nat /\ b \in Nat
    BY <1>1
  <2>2. "list-item" \in ShownBy[lines[j]] /\ a # 0 => b < a
    BY <1>1, WorkflowAssumption
  <2>3. a <= b /\ "list-item" \in ShownBy[lines[j]]
          <=> "list-item" \in ShownBy[lines[j]] /\ a = 0
    <3> HIDE DEF a, b
    <3> QED BY <2>1, <2>2
  <2> QED BY <2>3
<1>3. \A k \in 1..n : k > number =>
        (k \in StepOf(lines, number) <=> \A i \in (number + 1)..k : ~Item(i))
  BY <1>1, SMTT(30) DEF StepOf
<1>4. CheckoutSetting(lines, number) <=>
        \E k \in (number + 1)..n : Set(k) /\ \A j \in (number + 1)..k : ~Ends(j)
  BY DEF CheckoutSetting
<1>5. StepOf(lines, number) \subseteq 1..n
  BY DEF StepOf
<1> HIDE DEF n, Item, Ends, Set
<1>6. \A k \in 1..n :
        (\A j \in (number + 1)..k : ~Ends(j)) <=> (\A j \in (number + 1)..k : ~Item(j))
  <2> SUFFICES ASSUME NEW k \in 1..n, NEW j \in (number + 1)..k PROVE Ends(j) <=> Item(j)
    OBVIOUS
  <2>1. j \in 1..n
    BY <1>1 DEF n
  <2> QED BY <1>2, <2>1
<1>7. \A k : k \in (number + 1)..n <=> k \in 1..n /\ k > number
  BY <1>1 DEF n
<1>8. CheckoutSetting(lines, number) <=>
        \E k \in 1..n : k > number /\ Set(k) /\ \A j \in (number + 1)..k : ~Item(j)
  BY <1>4, <1>6, <1>7
<1>9. CheckoutSetting(lines, number) <=>
        \E k \in StepOf(lines, number) : k > number /\ Set(k)
  BY <1>3, <1>5, <1>8
<1> QED BY <1>9 DEF Set

\* The invariant lets every checkout be judged by its step.
LEMMA CheckoutsJudged ==
  ASSUME IInv, ExactPart, CheckPart
  PROVE  CheckoutIsJudgedByItsStep
<1> DEFINE Lines(i) == patch[i].head
           Set(i, k) == ShownBy[Lines(i)[k]] \cap {"persist-true", "persist-false"} # {}
           Reported(i, k) == \E f \in findings : /\ IsDefault(f) /\ f.file = patch[i].new
                                                 /\ f.line = k
<1> SUFFICES ASSUME pc = "checked", ~mismatch,
                    NEW i \in 1..Len(patch), Is(patch[i].new, "workflow"),
                    Ordinary(patch[i]), EvenHead(patch[i]),
                    NEW l \in ToSet(NumberedLines(patch[i])),
                    l.mark = "+", "checkout" \in ShownBy[l.text]
             PROVE  /\ (\A k \in StepOf(Lines(i), l.new) : ~Set(i, k)) => Reported(i, l.new)
                    /\ (\E k \in StepOf(Lines(i), l.new) : k > l.new /\ Set(i, k))
                         => ~Reported(i, l.new)
  BY DEF CheckoutIsJudgedByItsStep
<1>1. /\ Lines(i) \in Seq(Texts) /\ l.new \in 1..Len(Lines(i))
      /\ Lines(i)[l.new] = l.text /\ HeadFile(patch[i].new) = Lines(i)
  BY HeadShows DEF IInv
<1>2. Reported(i, l.new) <=> ~CheckoutSetting(Lines(i), l.new)
  BY <1>1, CheckoutReported
<1>3. CheckoutSetting(Lines(i), l.new) <=>
        \E k \in StepOf(Lines(i), l.new) : k > l.new /\ Set(i, k)
  <2> DEFINE lines == Lines(i)
             number == l.new
  <2>1. lines \in Seq(Texts) /\ number \in 1..Len(lines) /\ "checkout" \in ShownBy[lines[number]]
    BY <1>1
  <2> HIDE DEF lines, number
  <2>2. CheckoutSetting(lines, number) <=>
          \E k \in StepOf(lines, number) :
            k > number /\ ShownBy[lines[k]] \cap {"persist-true", "persist-false"} # {}
    BY <2>1, SettingFound
  <2> QED BY <2>2 DEF lines, number
<1> HIDE DEF Lines, Set, Reported
<1> QED BY <1>2, <1>3

\* A checkout that an ordinary change adds to a workflow, in whatever hunk, is
\* reported when its step has no setting and not when one follows in the step,
\* be it in the diff or not (_checkout_setting).
THEOREM CheckoutTheorem == CheckSpec => []CheckoutIsJudgedByItsStep
BY CheckInvariant, CheckoutsJudged, PTL

=============================================================================
