--------------------------- MODULE Snapshot_proofs ---------------------------
(***************************************************************************)
(* Proofs about Snapshot for every tree, limit, folding of names and umask: *)
(* what has been written of a tree is exactly what the tree says, entry by  *)
(* entry and with no two entries in one place, until a native command       *)
(* writes; and every node has the permissions of its root.                  *)
(***************************************************************************)
EXTENDS Snapshot, FiniteSetTheorems, WellFoundedInduction, TLAPS

\* The root of the directory is there, whatever commands do.
RootPart == <<>> \in DOMAIN fs /\ fs[<<>>] = Directory

\* What the position in the life of a snapshot tells.
StagePart ==
  /\ pc # "write" => todo = {}
  /\ pc = "list" => fs = Empty
  /\ pc \in {"list", "write"} => ran = 0
  /\ pc = "running" => ran > 0
  /\ pc \in {"write", "open", "running"} => Listable(tree)
  /\ pc = "running" /\ mode = "container" => RootReadable

\* No command can have written to the directory yet.
Pristine ==
  \/ pc = "write"
  \/ pc = "open" /\ ran = 0
  \/ pc = "running" /\ ran = 1
  \/ pc \in {"open", "running"} /\ mode = "container"

Written == DOMAIN tree \ todo

\* What has been written is what the tree says, each entry in its own place.
WrittenPart ==
  Pristine =>
    /\ \A i \in Written :
         /\ At(tree[i].path) \in DOMAIN fs
         /\ fs[At(tree[i].path)] = NodeOf(tree[i], tree[i].object)
    /\ \A i, j \in Written : At(tree[i].path) = At(tree[j].path) => i = j
    /\ \A p \in DOMAIN fs :
         \/ p = <<>>
         \/ \E i \in Written : p = At(tree[i].path)
         \/ fs[p] = Directory /\ \E i \in Written : \E q \in Parents(tree[i].path) : p = At(q)

IInv == TypeOK /\ RootPart /\ StagePart /\ WrittenPart

-----------------------------------------------------------------------------
(* Paths                                                                    *)

\* The entries of a tree.
LEMMA EntryTyped ==
  ASSUME tree \in Trees, NEW i \in DOMAIN tree
  PROVE  /\ tree[i].path \in Seq(DOMAIN FoldOf)
         /\ tree[i].object \in DOMAIN SizeOf
         /\ tree[i].mode \in STRING
<1>1. tree \in Seq([mode : STRING, path : Seq(DOMAIN FoldOf), object : DOMAIN SizeOf])
  BY SnapshotAssumption
<1> DEFINE Entry == [mode : STRING, path : Seq(DOMAIN FoldOf), object : DOMAIN SizeOf]
<1>2. tree \in Seq(Entry)
  BY <1>1
<1>3. \A e \in Entry : e.path \in Seq(DOMAIN FoldOf) /\ e.object \in DOMAIN SizeOf /\ e.mode \in STRING
  OBVIOUS
<1> HIDE DEF Entry
<1>4. tree[i] \in Entry
  BY <1>2
<1> QED BY <1>3, <1>4

\* Folding keeps the length of a path, name by name.
LEMMA AtTyped ==
  ASSUME NEW path \in Seq(DOMAIN FoldOf)
  PROVE  /\ At(path) \in Seq(DOMAIN FoldOf)
         /\ Len(At(path)) = Len(path)
         /\ \A n \in 1..Len(path) : At(path)[n] = IF folds THEN FoldOf[path[n]] ELSE path[n]
<1>1. \A name \in DOMAIN FoldOf : FoldOf[name] \in DOMAIN FoldOf
  BY SnapshotAssumption
<1> DEFINE Names == DOMAIN FoldOf
<1>2. path \in Seq(Names) /\ \A name \in Names : FoldOf[name] \in Names
  BY <1>1
<1> HIDE DEF Names
<1>3. \A n \in 1..Len(path) : path[n] \in Names
  BY <1>2
<1>4. [n \in 1..Len(path) |-> FoldOf[path[n]]] \in Seq(Names)
  BY <1>2, <1>3
<1>5. PathFolded(path) \in Seq(Names) /\ Len(PathFolded(path)) = Len(path)
  BY <1>2, <1>4 DEF PathFolded
<1> QED BY <1>2, <1>5 DEF At, PathFolded, Names

\* The first elements of a sequence.
LEMMA FirstNames ==
  ASSUME NEW S, NEW s \in Seq(S), NEW n \in 0..Len(s)
  PROVE  /\ SubSeq(s, 1, n) \in Seq(S)
         /\ Len(SubSeq(s, 1, n)) = n
         /\ \A k \in 1..n : SubSeq(s, 1, n)[k] = s[k]
OBVIOUS

\* A parent is shorter than its path and not empty.
LEMMA ParentsTyped ==
  ASSUME NEW path \in Seq(DOMAIN FoldOf), NEW q \in Parents(path)
  PROVE  /\ q \in Seq(DOMAIN FoldOf)
         /\ Len(q) \in 1..(Len(path) - 1)
         /\ q = SubSeq(path, 1, Len(q))
<1> DEFINE Names == DOMAIN FoldOf
<1>1. path \in Seq(Names)
  OBVIOUS
<1> HIDE DEF Names
<1>2. PICK n \in 1..(Len(path) - 1) : q = SubSeq(path, 1, n)
  BY DEF Parents
<1>3. q \in Seq(Names) /\ Len(q) = n
  BY <1>1, <1>2
<1> QED BY <1>2, <1>3 DEF Names

\* Folding and going up commute.
LEMMA ParentAt ==
  ASSUME NEW path \in Seq(DOMAIN FoldOf), path # <<>>
  PROVE  /\ Parent(path) \in Seq(DOMAIN FoldOf)
         /\ Len(Parent(path)) = Len(path) - 1
         /\ Parent(At(path)) = At(Parent(path))
<1> DEFINE Names == DOMAIN FoldOf
<1>1. path \in Seq(Names) /\ Len(path) \in Nat \ {0}
  OBVIOUS
<1>2. At(path) \in Seq(Names) /\ Len(At(path)) = Len(path)
  BY AtTyped
<1>3. \A n \in 1..Len(path) : At(path)[n] = IF folds THEN FoldOf[path[n]] ELSE path[n]
  BY AtTyped
<1> HIDE DEF Names
<1>0. Len(path) - 1 \in 0..Len(path) /\ Len(path) - 1 \in Nat
  BY <1>1
<1>4. /\ Parent(path) \in Seq(Names) /\ Len(Parent(path)) = Len(path) - 1
      /\ \A n \in 1..(Len(path) - 1) : Parent(path)[n] = path[n]
  <2> DEFINE last == Len(path) - 1
  <2>1. last \in 0..Len(path)
    BY <1>0
  <2> HIDE DEF last
  <2>2. /\ SubSeq(path, 1, last) \in Seq(Names) /\ Len(SubSeq(path, 1, last)) = last
        /\ \A n \in 1..last : SubSeq(path, 1, last)[n] = path[n]
    BY <1>1, <2>1, FirstNames
  <2> QED BY <2>2 DEF Parent, last
<1>5. /\ Parent(At(path)) \in Seq(Names) /\ Len(Parent(At(path))) = Len(path) - 1
      /\ \A n \in 1..(Len(path) - 1) : Parent(At(path))[n] = At(path)[n]
  BY <1>1, <1>2 DEF Parent
<1>6. /\ At(Parent(path)) \in Seq(Names) /\ Len(At(Parent(path))) = Len(path) - 1
      /\ \A n \in 1..(Len(path) - 1) :
           At(Parent(path))[n] = IF folds THEN FoldOf[Parent(path)[n]] ELSE Parent(path)[n]
  BY <1>4, AtTyped DEF Names
<1>7. \A n \in 1..(Len(path) - 1) : Parent(At(path))[n] = At(Parent(path))[n]
  <2> SUFFICES ASSUME NEW n \in 1..(Len(path) - 1)
               PROVE  Parent(At(path))[n] = At(Parent(path))[n]
    OBVIOUS
  <2>1. n \in 1..Len(path)
    BY <1>1
  <2> QED BY <2>1, <1>3, <1>4, <1>5, <1>6
<1>8. Parent(At(path)) = At(Parent(path))
  BY <1>5, <1>6, <1>7
<1> QED BY <1>4, <1>8 DEF Names

\* The root is the path with no name.
LEMMA EmptyPath ==
  /\ <<>> \in Seq(DOMAIN FoldOf) /\ Len(<<>>) = 0
  /\ At(<<>>) = <<>>
  /\ \A path \in Seq(DOMAIN FoldOf) : Len(path) = 0 <=> path = <<>>
  /\ \A path \in Seq(DOMAIN FoldOf) : At(path) = <<>> <=> path = <<>>
<1>1. <<>> \in Seq(DOMAIN FoldOf) /\ Len(<<>>) = 0
  OBVIOUS
<1>2. \A path \in Seq(DOMAIN FoldOf) : Len(path) = 0 <=> path = <<>>
  OBVIOUS
<1>3. \A path \in Seq(DOMAIN FoldOf) : At(path) \in Seq(DOMAIN FoldOf) /\ Len(At(path)) = Len(path)
  BY AtTyped
<1> QED BY <1>1, <1>2, <1>3

\* The directory above a parent is the root or a parent too.
LEMMA ParentOfParent ==
  ASSUME NEW path \in Seq(DOMAIN FoldOf), path # <<>>
  PROVE  /\ Parent(path) = <<>> \/ Parent(path) \in Parents(path)
         /\ \A q \in Parents(path) : Parent(q) = <<>> \/ Parent(q) \in Parents(path)
<1> DEFINE Names == DOMAIN FoldOf
<1>1. path \in Seq(Names) /\ Len(path) \in Nat \ {0}
  OBVIOUS
<1>2. Parent(path) \in Seq(Names) /\ Len(Parent(path)) = Len(path) - 1
  BY ParentAt
<1>0. Len(path) \in Nat /\ Len(path) >= 1
  BY <1>1
<1>3. Parent(path) = <<>> \/ Parent(path) \in Parents(path)
  <2>1. CASE Len(path) = 1
    BY <2>1, <1>2
  <2>2. CASE Len(path) # 1
    <3> DEFINE length == Len(path)
    <3>0. length \in Nat /\ length >= 1 /\ length # 1
      BY <2>2, <1>0
    <3> HIDE DEF length
    <3>1. length - 1 \in 1..(length - 1)
      BY <3>0
    <3> USE DEF length
    <3> QED BY <3>1 DEF Parent, Parents
  <2> QED BY <2>1, <2>2
<1>4. ASSUME NEW q \in Parents(path) PROVE Parent(q) = <<>> \/ Parent(q) \in Parents(path)
  <2>1. q \in Seq(Names) /\ Len(q) \in 1..(Len(path) - 1) /\ q = SubSeq(path, 1, Len(q))
    BY <1>4, ParentsTyped
  <2>2. CASE Len(q) = 1
    BY <2>1, <2>2 DEF Parent
  <2>3. CASE Len(q) # 1
    <3> HIDE DEF Names
    <3>1. Len(q) - 1 \in 1..(Len(path) - 1)
      BY <2>1, <2>3, <1>1
    <3>2. Parent(q) = SubSeq(path, 1, Len(q) - 1)
      <4>1. /\ Parent(q) \in Seq(Names) /\ Len(Parent(q)) = Len(q) - 1
            /\ \A n \in 1..(Len(q) - 1) : Parent(q)[n] = q[n]
        BY <2>1 DEF Parent
      <4>2. \A n \in 1..Len(q) : q[n] = path[n]
        BY <2>1, <1>1
      <4>3. /\ SubSeq(path, 1, Len(q) - 1) \in Seq(Names)
            /\ Len(SubSeq(path, 1, Len(q) - 1)) = Len(q) - 1
            /\ \A n \in 1..(Len(q) - 1) : SubSeq(path, 1, Len(q) - 1)[n] = path[n]
        BY <1>1, <3>1
      <4> QED BY <2>1, <4>1, <4>2, <4>3
    <3> QED BY <3>1, <3>2 DEF Parents
  <2> QED BY <2>2, <2>3
<1> QED BY <1>3, <1>4

-----------------------------------------------------------------------------
(* The directory                                                            *)

\* A tree of nodes: what is in a directory is in one that exists.
Shape ==
  \A p \in DOMAIN fs :
    /\ fs[p] \in Nodes
    /\ p # <<>> => (Parent(p) \in DOMAIN fs /\ fs[Parent(p)].kind = "dir")

LEMMA DirectoryTyped == Directory \in Nodes /\ Directory.kind = "dir"
BY DEF Directory, Nodes

\* The directory before anything is written to it.
LEMMA EmptyMeaning == DOMAIN Empty = {<<>>} /\ Empty[<<>>] = Directory
BY DEF Empty

LEMMA EmptyShape ==
  ASSUME fs = Empty
  PROVE  Shape /\ RootPart
BY EmptyMeaning, DirectoryTyped DEF Shape, RootPart

LEMMA InitIInv == Init => IInv
<1> SUFFICES ASSUME Init PROVE IInv
  OBVIOUS
<1>1. Shape /\ RootPart
  BY EmptyShape DEF Init
<1>2. TypeOK
  <2>1. MaxCommands \in Nat
    BY SnapshotAssumption
  <2>2. /\ tree \in Trees /\ folds \in BOOLEAN /\ umask \subseteq {"r", "x"}
        /\ mode \in {"native", "container"} /\ pc = "list" /\ todo = {}
        /\ trouble = FALSE /\ ran = 0
    BY DEF Init
  <2>3. ran \in 0..MaxCommands
    BY <2>1, <2>2
  <2>4. todo \subseteq DOMAIN tree
    BY <2>2
  <2>5. pc \in {"list", "write", "open", "running", "closed", "refused"} /\ trouble \in BOOLEAN
    BY <2>2
  <2> QED BY <1>1, <2>2, <2>3, <2>4, <2>5 DEF TypeOK, Shape
<1>3. StagePart /\ WrittenPart
  BY DEF Init, StagePart, WrittenPart, Pristine
<1> QED BY <1>1, <1>2, <1>3 DEF IInv

\* A refusal or the end of a snapshot removes the directory.
LEMMA RemovedIInv ==
  ASSUME IInv, UNCHANGED environment, pc' \in {"refused", "closed"}, todo' = {}, fs' = Empty,
         trouble' \in BOOLEAN, ran' = ran
  PROVE  IInv'
<1>1. UNCHANGED <<tree, folds, umask, mode>>
  BY DEF environment
<1>2. Empty' = Empty /\ Directory' = Directory
  BY <1>1 DEF Empty, Directory
<1>3. Shape' /\ RootPart'
  BY <1>2, EmptyMeaning, DirectoryTyped DEF Shape, RootPart
<1>4. TypeOK'
  BY <1>1, <1>3 DEF IInv, TypeOK, Shape
<1>5. StagePart' /\ WrittenPart'
  BY DEF StagePart, WrittenPart, Pristine
<1> QED BY <1>3, <1>4, <1>5 DEF IInv

\* Steps that leave the directory alone.
LEMMA SameDirectory ==
  ASSUME IInv, UNCHANGED environment, UNCHANGED fs
  PROVE  /\ UNCHANGED <<tree, folds, umask, mode>>
         /\ Shape' /\ RootPart'
         /\ Directory' = Directory
         /\ \A path : At(path)' = At(path)
         /\ \A entry, content : NodeOf(entry, content)' = NodeOf(entry, content)
<1>1. UNCHANGED <<tree, folds, umask, mode>>
  BY DEF environment
<1>2. Directory' = Directory
  BY <1>1 DEF Directory
<1>3. Shape' /\ RootPart'
  BY <1>2 DEF IInv, TypeOK, Shape, RootPart
<1>4. \A path : At(path)' = At(path)
  BY <1>1 DEF At
<1>5. \A entry, content : NodeOf(entry, content)' = NodeOf(entry, content)
  BY <1>1 DEF NodeOf
<1> QED BY <1>1, <1>2, <1>3, <1>4, <1>5

LEMMA ListIInv ==
  ASSUME IInv, List
  PROVE  IInv'
<1>1. /\ pc = "list" /\ Listable(tree) /\ pc' = "write" /\ todo' = DOMAIN tree
      /\ UNCHANGED environment /\ UNCHANGED fs /\ trouble' = trouble /\ ran' = ran
  BY DEF List
<1>2. UNCHANGED <<tree, folds, umask, mode>> /\ Shape' /\ RootPart'
  BY <1>1, SameDirectory
<1>3. TypeOK'
  BY <1>1, <1>2 DEF IInv, TypeOK, Shape
<1>4. StagePart'
  BY <1>1, <1>2 DEF IInv, StagePart, Listable
<1>5. DOMAIN fs' = {<<>>}
  BY <1>1, EmptyMeaning DEF IInv, StagePart
<1>6. Written' = {}
  BY <1>1, <1>2 DEF Written
<1>7. WrittenPart'
  BY <1>5, <1>6 DEF WrittenPart
<1> QED BY <1>2, <1>3, <1>4, <1>7 DEF IInv

\* Between writing and running, and from one command to the next.
LEMMA QuietIInv ==
  ASSUME IInv, UNCHANGED environment, UNCHANGED <<fs, trouble, todo>>,
         \/ pc = "write" /\ todo = {} /\ pc' = "open" /\ ran' = ran
         \/ /\ pc = "open" /\ pc' = "running" /\ ran' = ran + 1 /\ ran < MaxCommands
            /\ mode = "container" => RootReadable
         \/ pc = "running" /\ pc' = "open" /\ ran' = ran
         \/ pc' = pc /\ ran' = ran
  PROVE  IInv'
<1>1. /\ UNCHANGED <<tree, folds, umask, mode>> /\ Shape' /\ RootPart'
      /\ Directory' = Directory
      /\ \A path : At(path)' = At(path)
      /\ \A entry, content : NodeOf(entry, content)' = NodeOf(entry, content)
  BY SameDirectory
<1>2. MaxCommands \in Nat /\ ran \in 0..MaxCommands
  BY SnapshotAssumption DEF IInv, TypeOK
<1>3. ran' \in 0..MaxCommands
  BY <1>2
<1>4. TypeOK'
  BY <1>1, <1>3 DEF IInv, TypeOK, Shape
<1>5. StagePart'
  <2>1. Empty' = Empty /\ (Listable(tree) => Listable(tree)') /\ (RootReadable => RootReadable')
    BY <1>1 DEF Empty, Listable, RootReadable
  <2> QED BY <1>1, <1>2, <2>1 DEF IInv, StagePart
<1>6. Pristine' => Pristine
  BY <1>1, <1>2 DEF IInv, StagePart, Pristine
<1>7. Written' = Written
  BY <1>1 DEF Written
<1>8. WrittenPart'
  <2> SUFFICES ASSUME Pristine'
               PROVE  /\ \A i \in Written :
                           /\ At(tree[i].path) \in DOMAIN fs
                           /\ fs[At(tree[i].path)] = NodeOf(tree[i], tree[i].object)
                      /\ \A i, j \in Written : At(tree[i].path) = At(tree[j].path) => i = j
                      /\ \A p \in DOMAIN fs :
                           \/ p = <<>>
                           \/ \E i \in Written : p = At(tree[i].path)
                           \/ /\ fs[p] = Directory
                              /\ \E i \in Written : \E q \in Parents(tree[i].path) : p = At(q)
    BY <1>1, <1>7 DEF WrittenPart
  <2> QED BY <1>6 DEF IInv, WrittenPart
<1> QED BY <1>1, <1>4, <1>5, <1>8 DEF IInv

\* A native command changes a file or removes one; then nothing is promised of
\* the contents, but the directory is still a tree.
LEMMA ScribbleIInv ==
  ASSUME IInv, UNCHANGED environment, UNCHANGED <<todo, trouble, ran>>,
         pc = "running", pc' = "open", MayWrite,
         NEW p \in DOMAIN fs, fs[p].kind = "file",
         \/ fs' = [fs EXCEPT ![p].content = Scribble]
         \/ fs' = [q \in DOMAIN fs \ {p} |-> fs[q]]
  PROVE  IInv'
<1>1. UNCHANGED <<tree, folds, umask, mode>>
  BY DEF environment
<1>2. \A q \in DOMAIN fs : /\ fs[q] \in Nodes
                           /\ q # <<>> => (Parent(q) \in DOMAIN fs /\ fs[Parent(q)].kind = "dir")
  BY DEF IInv, TypeOK
<1>3. Directory' = Directory /\ Directory.kind = "dir"
  BY <1>1, DirectoryTyped DEF Directory
<1>4. p # <<>>
  BY <1>3 DEF IInv, RootPart
<1>5. /\ \A q \in DOMAIN fs : q # p => q \in DOMAIN fs' /\ fs'[q] = fs[q]
      /\ DOMAIN fs' \subseteq DOMAIN fs
  OBVIOUS
<1>6. \A q \in DOMAIN fs : fs[q].kind = "dir" => q \in DOMAIN fs' /\ fs'[q] = fs[q]
  BY <1>5
<1>7. p \in DOMAIN fs' => fs'[p] \in Nodes
  <2> SUFFICES ASSUME p \in DOMAIN fs' PROVE fs'[p] \in Nodes
    OBVIOUS
  <2>1. fs'[p] = [fs[p] EXCEPT !.content = Scribble]
    OBVIOUS
  <2>2. fs[p] \in [kind : {"file"}, content : DOMAIN SizeOf \cup {Scribble}, others : SUBSET {"r", "x"}]
    BY <1>2 DEF Nodes
  <2>3. fs'[p] \in [kind : {"file"}, content : DOMAIN SizeOf \cup {Scribble}, others : SUBSET {"r", "x"}]
    BY <2>1, <2>2
  <2> QED BY <2>3 DEF Nodes
<1>8. Shape'
  BY <1>2, <1>5, <1>6, <1>7 DEF Shape
<1>9. RootPart'
  BY <1>3, <1>4, <1>5 DEF IInv, RootPart
<1>10. TypeOK'
  BY <1>1, <1>8 DEF IInv, TypeOK, Shape
<1>11. StagePart'
  BY <1>1 DEF IInv, StagePart, Listable
<1>12. ~Pristine'
  BY <1>1, SnapshotAssumption DEF IInv, TypeOK, StagePart, Pristine, MayWrite
<1> QED BY <1>9, <1>10, <1>11, <1>12 DEF IInv, WrittenPart

-----------------------------------------------------------------------------
(* Writing one entry                                                        *)

\* What is there stays; the entry and the directories it needs are new.
LEMMA WriteMeaning ==
  ASSUME IInv, NEW i \in todo, NEW content, Write(i, content)
  PROVE  LET path == tree[i].path
         IN  /\ path \in Seq(DOMAIN FoldOf) /\ path # <<>>
             /\ content = tree[i].object /\ content \in DOMAIN SizeOf
             /\ At(path) \notin DOMAIN fs
             /\ \A q \in Parents(path) : At(q) \in DOMAIN fs => fs[At(q)].kind = "dir"
             /\ DOMAIN fs' = DOMAIN fs \cup {At(q) : q \in Parents(path)} \cup {At(path)}
             /\ \A p \in DOMAIN fs : fs'[p] = fs[p]
             /\ fs'[At(path)] = NodeOf(tree[i], tree[i].object)
             /\ \A q \in Parents(path) : At(q) \notin DOMAIN fs => fs'[At(q)] = Directory
<1> DEFINE path == tree[i].path
           parents == {At(q) : q \in Parents(path)}
           node == [p \in {At(path)} |-> NodeOf(tree[i], content)]
<1>1. i \in DOMAIN tree /\ tree \in Trees /\ Listable(tree)
  BY DEF IInv, TypeOK, StagePart, Write
<1>2. path \in Seq(DOMAIN FoldOf) /\ tree[i].object \in DOMAIN SizeOf
  BY <1>1, EntryTyped
<1>3. path # <<>>
  <2>1. DOMAIN tree = 1..Len(tree)
    BY <1>1, SnapshotAssumption
  <2> QED BY <1>1, <2>1 DEF Listable, Portable
<1>4. Writable(tree[i], content) /\ fs' = Besides(fs, Besides(NewParents(path), node))
  BY DEF Write
<1>5. content = tree[i].object /\ HasPlace(tree[i])
  BY <1>4 DEF Writable, ReadAccepted
<1>6. /\ At(path) \notin DOMAIN fs
      /\ \A q \in Parents(path) : At(q) \in DOMAIN fs => fs[At(q)].kind = "dir"
  BY <1>5 DEF HasPlace
<1>7. At(path) \notin parents
  <2> SUFFICES ASSUME NEW q \in Parents(path) PROVE At(q) # At(path)
    OBVIOUS
  <2>1. q \in Seq(DOMAIN FoldOf) /\ Len(q) \in 1..(Len(path) - 1)
    BY <1>2, ParentsTyped
  <2>2. Len(At(q)) = Len(q) /\ Len(At(path)) = Len(path) /\ Len(path) \in Nat
    BY <1>2, <2>1, AtTyped
  <2>3. Len(q) # Len(path)
    BY <2>1, <2>2
  <2> QED BY <2>2, <2>3
<1>8. DOMAIN NewParents(path) = parents /\ \A p \in parents : NewParents(path)[p] = Directory
  BY DEF NewParents
<1>9. DOMAIN node = {At(path)} /\ node[At(path)] = NodeOf(tree[i], content)
  OBVIOUS
<1> HIDE DEF node, parents, path
<1>10. /\ DOMAIN fs' = DOMAIN fs \cup (parents \cup {At(path)})
       /\ \A p \in DOMAIN fs : fs'[p] = fs[p]
       /\ \A p \in parents \cup {At(path)} :
            p \notin DOMAIN fs => fs'[p] = IF p \in parents THEN Directory ELSE node[p]
  BY <1>4, <1>8, <1>9 DEF Besides
<1>11. fs'[At(path)] = NodeOf(tree[i], tree[i].object)
  BY <1>5, <1>6, <1>7, <1>9, <1>10
<1>12. \A q \in Parents(path) : At(q) \notin DOMAIN fs => fs'[At(q)] = Directory
  BY <1>10 DEF parents
<1>13. DOMAIN fs' = DOMAIN fs \cup {At(q) : q \in Parents(path)} \cup {At(path)}
  BY <1>10 DEF parents
<1> QED BY <1>2, <1>3, <1>5, <1>6, <1>10, <1>11, <1>12, <1>13 DEF path

LEMMA WriteIInv ==
  ASSUME IInv, NEW i \in todo, NEW content, Write(i, content)
  PROVE  IInv'
<1> DEFINE path == tree[i].path
<1>1. /\ pc = "write" /\ pc' = pc /\ todo' = todo \ {i} /\ trouble' = trouble /\ ran' = ran
      /\ UNCHANGED <<tree, folds, umask, mode>>
  BY DEF Write, environment
<1>2. /\ path \in Seq(DOMAIN FoldOf) /\ path # <<>> /\ tree[i].object \in DOMAIN SizeOf
      /\ At(path) \notin DOMAIN fs
      /\ \A q \in Parents(path) : At(q) \in DOMAIN fs => fs[At(q)].kind = "dir"
      /\ DOMAIN fs' = DOMAIN fs \cup {At(q) : q \in Parents(path)} \cup {At(path)}
      /\ \A p \in DOMAIN fs : fs'[p] = fs[p]
      /\ fs'[At(path)] = NodeOf(tree[i], tree[i].object)
      /\ \A q \in Parents(path) : At(q) \notin DOMAIN fs => fs'[At(q)] = Directory
  BY WriteMeaning
<1>3. /\ Directory' = Directory
      /\ \A p : At(p)' = At(p)
      /\ \A entry, bytes : NodeOf(entry, bytes)' = NodeOf(entry, bytes)
  BY <1>1 DEF Directory, At, NodeOf
<1> HIDE DEF path
<1>4. \A q \in Parents(path) :
        At(q) \in DOMAIN fs' /\ fs'[At(q)].kind = "dir" /\ fs'[At(q)] \in Nodes
  <2> SUFFICES ASSUME NEW q \in Parents(path)
               PROVE  At(q) \in DOMAIN fs' /\ fs'[At(q)].kind = "dir" /\ fs'[At(q)] \in Nodes
    OBVIOUS
  <2>1. CASE At(q) \in DOMAIN fs
    BY <2>1, <1>2 DEF IInv, TypeOK
  <2>2. CASE At(q) \notin DOMAIN fs
    BY <2>2, <1>2, DirectoryTyped
  <2> QED BY <2>1, <2>2
<1>5. RootPart'
  BY <1>2, <1>3 DEF IInv, RootPart
<1>6. ASSUME NEW p, p = <<>> \/ p \in Parents(path)
      PROVE  At(p) \in DOMAIN fs' /\ fs'[At(p)].kind = "dir"
  <2>1. CASE p = <<>>
    BY <2>1, <1>3, <1>5, EmptyPath, DirectoryTyped DEF RootPart
  <2>2. CASE p \in Parents(path)
    BY <2>2, <1>4
  <2> QED BY <1>6, <2>1, <2>2
<1>7. NodeOf(tree[i], tree[i].object) \in Nodes
  <2>1. umask \subseteq {"r", "x"}
    BY DEF IInv, TypeOK
  <2>2. CASE IsLink(tree[i])
    BY <1>2, <2>2 DEF NodeOf, Nodes
  <2>3. CASE ~IsLink(tree[i])
    <3> DEFINE others == (IF tree[i].mode = "100755" THEN {"r", "x"} ELSE {"r"}) \ umask
    <3>1. others \in SUBSET {"r", "x"}
      OBVIOUS
    <3>2. NodeOf(tree[i], tree[i].object)
            = [kind |-> "file", content |-> tree[i].object, others |-> others]
      BY <2>3 DEF NodeOf
    <3> HIDE DEF others
    <3> QED BY <1>2, <3>1, <3>2 DEF Nodes
  <2> QED BY <2>2, <2>3
<1>8. Shape'
  <2> SUFFICES ASSUME NEW p \in DOMAIN fs'
               PROVE  /\ fs'[p] \in Nodes
                      /\ p # <<>> => (Parent(p) \in DOMAIN fs' /\ fs'[Parent(p)].kind = "dir")
    BY DEF Shape
  <2>1. CASE p \in DOMAIN fs
    BY <2>1, <1>2 DEF IInv, TypeOK
  <2>2. ASSUME NEW q \in Parents(path), p = At(q)
        PROVE  fs'[p] \in Nodes /\ Parent(p) \in DOMAIN fs' /\ fs'[Parent(p)].kind = "dir"
    <3>1. q \in Seq(DOMAIN FoldOf) /\ q # <<>>
      BY <1>2, ParentsTyped, EmptyPath
    <3>2. Parent(p) = At(Parent(q))
      BY <2>2, <3>1, ParentAt
    <3>3. Parent(q) = <<>> \/ Parent(q) \in Parents(path)
      BY <1>2, ParentOfParent
    <3> QED BY <1>4, <1>6, <2>2, <3>2, <3>3
  <2>3. CASE p = At(path)
    <3>1. Parent(p) = At(Parent(path))
      BY <1>2, <2>3, ParentAt
    <3>2. Parent(path) = <<>> \/ Parent(path) \in Parents(path)
      BY <1>2, ParentOfParent
    <3> QED BY <1>2, <1>6, <1>7, <2>3, <3>1, <3>2
  <2> QED BY <1>2, <2>1, <2>2, <2>3
<1>9. TypeOK'
  BY <1>1, <1>8 DEF IInv, TypeOK, Shape
<1>10. StagePart'
  BY <1>1 DEF IInv, StagePart, Listable
<1>11. Written' = Written \cup {i}
  BY <1>1 DEF IInv, TypeOK, Written
<1>12. /\ \A j \in Written :
            At(tree[j].path) \in DOMAIN fs /\ fs[At(tree[j].path)] = NodeOf(tree[j], tree[j].object)
       /\ \A j, k \in Written : At(tree[j].path) = At(tree[k].path) => j = k
       /\ \A p \in DOMAIN fs :
            \/ p = <<>>
            \/ \E j \in Written : p = At(tree[j].path)
            \/ fs[p] = Directory /\ \E j \in Written : \E q \in Parents(tree[j].path) : p = At(q)
  BY <1>1 DEF IInv, WrittenPart, Pristine
<1>13. \A j \in Written \cup {i} :
         At(tree[j].path) \in DOMAIN fs' /\ fs'[At(tree[j].path)] = NodeOf(tree[j], tree[j].object)
  BY <1>2, <1>12 DEF path
<1>14. \A j, k \in Written \cup {i} : At(tree[j].path) = At(tree[k].path) => j = k
  BY <1>2, <1>12 DEF path
<1>15. ASSUME NEW p \in DOMAIN fs'
       PROVE  \/ p = <<>>
              \/ \E j \in Written \cup {i} : p = At(tree[j].path)
              \/ /\ fs'[p] = Directory
                 /\ \E j \in Written \cup {i} : \E q \in Parents(tree[j].path) : p = At(q)
  <2>1. CASE p \in DOMAIN fs
    BY <2>1, <1>2, <1>12
  <2>2. CASE p = At(path)
    BY <2>2 DEF path
  <2>3. CASE p \notin DOMAIN fs /\ p \in {At(q) : q \in Parents(path)}
    BY <2>3, <1>2 DEF path
  <2> QED BY <1>2, <2>1, <2>2, <2>3
<1>16. WrittenPart'
  BY <1>1, <1>3, <1>11, <1>13, <1>14, <1>15 DEF WrittenPart
<1> QED BY <1>5, <1>9, <1>10, <1>16 DEF IInv

\* Every step preserves the inductive invariant.
LEMMA NextIInv ==
  ASSUME IInv, [Next]_vars
  PROVE  IInv'
<1>1. CASE List
  BY <1>1, ListIInv
<1>2. CASE RefuseTree \/ GitFails
  BY <1>2, RemovedIInv DEF RefuseTree, GitFails, Refuse, IInv, TypeOK
<1>3. CASE Close
  BY <1>3, RemovedIInv DEF Close, IInv, TypeOK, StagePart
<1>4. CASE Yield
  BY <1>4, QuietIInv DEF Yield
<1>5. CASE Begin
  BY <1>5, QuietIInv DEF Begin
<1>6. CASE End
  <2>1. CASE UNCHANGED fs
    BY <1>6, <2>1, QuietIInv DEF End
  <2>2. CASE ~UNCHANGED fs
    <3>1. MayWrite /\ pc = "running" /\ pc' = "open" /\ UNCHANGED <<environment, todo, trouble, ran>>
      BY <1>6, <2>2 DEF End
    <3>2. PICK p \in {p \in DOMAIN fs : fs[p].kind = "file"} :
            \/ fs' = [fs EXCEPT ![p].content = Scribble]
            \/ fs' = [q \in DOMAIN fs \ {p} |-> fs[q]]
      BY <1>6, <2>2 DEF End
    <3> QED BY <3>1, <3>2, ScribbleIInv
  <2> QED BY <2>1, <2>2
<1>7. ASSUME NEW i \in todo, NEW content \in DOMAIN SizeOf \cup {Cut}, Write(i, content)
      PROVE  IInv'
  BY <1>7, WriteIInv
<1>8. ASSUME NEW i \in todo, NEW content \in DOMAIN SizeOf \cup {Cut}, RefuseEntry(i, content)
      PROVE  IInv'
  <2>1. trouble' \in BOOLEAN
    BY <1>8 DEF RefuseEntry, IInv, TypeOK
  <2> QED BY <1>8, <2>1, RemovedIInv DEF RefuseEntry, Refuse
<1>9. CASE UNCHANGED vars
  BY <1>9, QuietIInv DEF vars
<1> QED BY <1>1, <1>2, <1>3, <1>4, <1>5, <1>6, <1>7, <1>8, <1>9 DEF Next

-----------------------------------------------------------------------------
(* Theorems                                                                 *)

\* The inductive invariant holds in every reachable state (GitRepo.snapshot and
\* the commands that run in it).
THEOREM SnapshotInvariant == Spec => []IInv
<1>1. Init => IInv
  BY InitIInv
<1>2. IInv /\ [Next]_vars => IInv'
  BY NextIInv
<1> QED BY <1>1, <1>2, PTL DEF Spec

\* The snapshot is a tree of directories, files and links at any time: nothing
\* is ever in a link, in a file or in a directory that is gone
\* (_ensure_parent_directories).
THEOREM SnapshotTypes == Spec => []TypeOK
<1>1. IInv => TypeOK
  BY DEF IInv
<1> QED BY <1>1, SnapshotInvariant, PTL

\* Positions stand for entries.
LEMMA EntriesMeaning ==
  ASSUME tree \in Trees
  PROVE  Len(tree) \in Nat /\ DOMAIN tree = 1..Len(tree) /\ Entries = {tree[i] : i \in DOMAIN tree}
BY SnapshotAssumption DEF Entries, ToSet

\* As many places as entries, when no two entries share one.
LEMMA PlacesCounted ==
  ASSUME tree \in Trees,
         \A i, j \in DOMAIN tree : At(tree[i].path) = At(tree[j].path) => i = j
  PROVE  Cardinality({At(e.path) : e \in Entries}) = Len(tree)
<1> DEFINE places == {At(e.path) : e \in Entries}
           place  == [i \in 1..Len(tree) |-> At(tree[i].path)]
<1>1. Len(tree) \in Nat /\ DOMAIN tree = 1..Len(tree) /\ Entries = {tree[i] : i \in DOMAIN tree}
  BY EntriesMeaning
<1>2. \A i \in 1..Len(tree) : place[i] \in places
  BY <1>1
<1>3. \A p \in places : \E i \in 1..Len(tree) : place[i] = p
  BY <1>1
<1>4. \A i, j \in 1..Len(tree) : place[i] = place[j] => i = j
  BY <1>1
<1>5. place \in [1..Len(tree) -> places]
  BY <1>2
<1> HIDE DEF place, places
<1>6. place \in Bijection(1..Len(tree), places)
  BY <1>3, <1>4, <1>5 DEF Bijection, Injection, Surjection, IsInjective
<1>7. Cardinality(places) = Len(tree)
  BY <1>1, <1>6, FS_CountingElements DEF ExistsBijection
<1> QED BY <1>7 DEF places

\* What commands are given is the whole tree of the commit and nothing else,
\* each entry with its own content and mode, although names collide and reads
\* end early; every container finds it so (gitutils.py snapshot, engine.py
\* _run_commands, runner.py _container_command).
THEOREM TreeTheorem == Spec => []SnapshotIsTree
<1>1. ASSUME IInv PROVE SnapshotIsTree
  <2> SUFFICES ASSUME \/ (pc = "open" /\ ran = 0)
                      \/ (pc = "running" /\ ran = 1)
                      \/ (pc \in {"open", "running"} /\ mode = "container")
               PROVE  IsTheTree
    BY DEF SnapshotIsTree
  <2>1. Pristine /\ Written = DOMAIN tree /\ tree \in Trees /\ Listable(tree)
    BY <1>1 DEF IInv, TypeOK, StagePart, Pristine, Written
  <2>2. /\ \A i \in DOMAIN tree :
             At(tree[i].path) \in DOMAIN fs /\ fs[At(tree[i].path)] = NodeOf(tree[i], tree[i].object)
        /\ \A i, j \in DOMAIN tree : At(tree[i].path) = At(tree[j].path) => i = j
        /\ \A p \in DOMAIN fs :
             \/ p = <<>>
             \/ \E i \in DOMAIN tree : p = At(tree[i].path)
             \/ fs[p] = Directory /\ \E i \in DOMAIN tree : \E q \in Parents(tree[i].path) : p = At(q)
    BY <1>1, <2>1 DEF IInv, WrittenPart
  <2>3. Entries = {tree[i] : i \in DOMAIN tree}
    BY <2>1, EntriesMeaning
  <2>4. Cardinality({At(e.path) : e \in Entries}) = Len(tree)
    BY <2>1, <2>2, PlacesCounted
  <2>5. \A e \in Entries : At(e.path) \in DOMAIN fs /\ fs[At(e.path)] = NodeOf(e, e.object)
    BY <2>2, <2>3
  <2>6. ASSUME NEW p \in DOMAIN fs \ {At(e.path) : e \in Entries}
        PROVE  /\ fs[p].kind = "dir"
               /\ p # <<>> => \E e \in Entries : p \in {At(q) : q \in Parents(e.path)}
    <3>1. ~ \E i \in DOMAIN tree : p = At(tree[i].path)
      BY <2>3
    <3>2. CASE p = <<>>
      BY <1>1, <3>2, DirectoryTyped DEF IInv, RootPart
    <3>3. CASE p # <<>>
      BY <2>2, <2>3, <3>1, <3>3, DirectoryTyped
    <3> QED BY <3>2, <3>3
  <2> QED BY <2>4, <2>5, <2>6 DEF IsTheTree
<1>2. IInv => SnapshotIsTree
  BY <1>1
<1> QED BY <1>2, SnapshotInvariant, PTL

\* The look at the root's permissions stands for the whole snapshot: a container
\* that is started can read every file, enter every directory and execute what
\* the commit says is executable (runner.py _container_command, gitutils.py
\* mkdir and open with fixed modes under any umask).
THEOREM ReadableTheorem == Spec => []ContainerCanRead
<1>1. ASSUME IInv PROVE ContainerCanRead
  <2> SUFFICES ASSUME pc = "running", mode = "container"
               PROVE  /\ \A p \in DOMAIN fs : fs[p].kind # "link" => "r" \in fs[p].others
                      /\ \A p \in DOMAIN fs : fs[p].kind = "dir" => "x" \in fs[p].others
                      /\ \A e \in Entries : e.mode = "100755" => "x" \in fs[At(e.path)].others
    BY DEF ContainerCanRead
  <2>1. umask \cap {"r", "x"} = {}
    BY <1>1 DEF IInv, StagePart, RootPart, RootReadable, Directory
  <2>2. Pristine /\ Written = DOMAIN tree /\ tree \in Trees
    BY <1>1 DEF IInv, TypeOK, StagePart, Pristine, Written
  <2>3. /\ \A i \in DOMAIN tree :
             At(tree[i].path) \in DOMAIN fs /\ fs[At(tree[i].path)] = NodeOf(tree[i], tree[i].object)
        /\ \A p \in DOMAIN fs :
             p = <<>> \/ (\E i \in DOMAIN tree : p = At(tree[i].path)) \/ fs[p] = Directory
    BY <1>1, <2>2 DEF IInv, WrittenPart
  <2>4. Directory.kind = "dir" /\ "r" \in Directory.others /\ "x" \in Directory.others
    BY <2>1 DEF Directory
  <2>5. \A entry, content :
          /\ NodeOf(entry, content).kind # "dir"
          /\ NodeOf(entry, content).kind # "link" => "r" \in NodeOf(entry, content).others
          /\ entry.mode = "100755" => "x" \in NodeOf(entry, content).others
    <3> SUFFICES ASSUME NEW entry, NEW content
                 PROVE  /\ NodeOf(entry, content).kind # "dir"
                        /\ NodeOf(entry, content).kind # "link" => "r" \in NodeOf(entry, content).others
                        /\ entry.mode = "100755" => "x" \in NodeOf(entry, content).others
      OBVIOUS
    <3>1. CASE IsLink(entry)
      BY <3>1 DEF NodeOf, IsLink
    <3>2. CASE ~IsLink(entry)
      BY <2>1, <3>2 DEF NodeOf
    <3> QED BY <3>1, <3>2
  <2>6. fs[<<>>] = Directory
    BY <1>1 DEF IInv, RootPart
  <2>7. \A p \in DOMAIN fs :
          /\ fs[p].kind # "link" => "r" \in fs[p].others
          /\ fs[p].kind = "dir" => "x" \in fs[p].others
    BY <2>3, <2>4, <2>5, <2>6
  <2>8. \A e \in Entries : e.mode = "100755" => "x" \in fs[At(e.path)].others
    BY <2>2, <2>3, <2>5, EntriesMeaning
  <2> QED BY <2>7, <2>8
<1>2. IInv => ContainerCanRead
  BY <1>1
<1> QED BY <1>2, SnapshotInvariant, PTL

-----------------------------------------------------------------------------
(* Induction over the naturals, with sets for predicates                    *)

\* Every set of naturals that is not empty has a least one.
LEMMA LeastNatural ==
  ASSUME NEW T, T \subseteq Nat, T # {}
  PROVE  \E x \in T : \A y \in T : x <= y
<1> DEFINE R == OpToRel(<, Nat)
<1>1. IsWellFoundedOn(R, Nat)
  BY NatLessThanWellFounded
<1>2. \A x, y \in Nat : x < y => <<x, y>> \in R
  BY DEF OpToRel
<1> HIDE DEF R
<1>3. PICK x \in T : \A y \in T : ~ (<<y, x>> \in R)
  BY <1>1, WFMin
<1>4. ASSUME NEW y \in T PROVE x <= y
  <2>1. x \in Nat /\ y \in Nat
    OBVIOUS
  <2>2. ~ (y < x)
    BY <1>2, <1>3, <2>1
  <2> QED BY <2>1, <2>2
<1> QED BY <1>4

\* Induction, for a set in the place of a predicate.
LEMMA NaturalsInSet ==
  ASSUME NEW S, 0 \in S, \A n \in Nat : n \in S => n + 1 \in S
  PROVE  Nat \subseteq S
<1> SUFFICES ASSUME Nat \ S # {} PROVE FALSE
  OBVIOUS
<1>1. PICK x \in Nat \ S : \A y \in Nat \ S : x <= y
  <2> DEFINE T == Nat \ S
  <2>1. T \subseteq Nat /\ T # {}
    OBVIOUS
  <2> HIDE DEF T
  <2>2. \E x \in T : \A y \in T : x <= y
    BY <2>1, LeastNatural
  <2> QED BY <2>2 DEF T
<1>2. x - 1 \in Nat
  BY <1>1
<1> QED BY <1>1, <1>2

\* The greatest position of a part of a sequence.
LEMMA GreatestPosition ==
  ASSUME NEW n \in Nat, NEW s \in SUBSET (1..n), s # {}
  PROVE  /\ Max(s) \in s
         /\ \A i \in s : i <= Max(s)
<1> DEFINE T == {n - i : i \in s}
<1>1. T \subseteq Nat /\ T # {}
  <2>1. \A i \in s : n - i \in Nat
    OBVIOUS
  <2> QED BY <2>1
<1> HIDE DEF T
<1>2. PICK x \in T : \A y \in T : x <= y
  BY <1>1, LeastNatural
<1>3. PICK i \in s : x = n - i
  BY <1>2 DEF T
<1>4. \A j \in s : i >= j
  <2> TAKE j \in s
  <2>1. n - j \in T
    BY DEF T
  <2> QED BY <1>2, <1>3, <2>1
<1>5. \E k \in s : \A j \in s : k >= j
  BY <1>4
<1>6. Max(s) \in s /\ \A j \in s : Max(s) >= j
  BY <1>5 DEF Max
<1> QED BY <1>6

-----------------------------------------------------------------------------
(* The walk along a link's target: a fold over the names                    *)

\* One name of the walk, as in LinkEscapes.
Followed(at, name) ==
  IF at.escaped \/ name = "." THEN at
  ELSE IF name # ".." THEN [at EXCEPT !.depth = @ + 1]
  ELSE IF at.depth = 0 THEN [at EXCEPT !.escaped = TRUE]
  ELSE [at EXCEPT !.depth = @ - 1]

\* f[s] is the end of the walk along the names of way at the positions s.
Walks(f, way) ==
  f = [s \in SUBSET (DOMAIN way) |->
         IF s = {} THEN [depth |-> 0, escaped |-> FALSE]
         ELSE Followed(f[s \ {Max(s)}], way[Max(s)])]

LEMMA WalkUnfolded ==
  ASSUME NEW parent, NEW target
  PROVE  LET way == parent \o target
         IN  LinkEscapes(parent, target) = (CHOOSE f : Walks(f, way))[DOMAIN way].escaped
BY DEF LinkEscapes, FoldLeft, MapThenFoldSet, Walks, Followed

\* There is a walk along every sequence of names.
LEMMA WalkExists ==
  ASSUME NEW way, NEW n \in Nat, DOMAIN way = 1..n
  PROVE  \E f : Walks(f, way)
<1> DEFINE Start   == [depth |-> 0, escaped |-> FALSE]
           Upto(f, m) == f = [s \in SUBSET (1..m) |->
                                IF s = {} THEN Start
                                ELSE Followed(f[s \ {Max(s)}], way[Max(s)])]
           S == {m \in Nat : \E f : Upto(f, m)}
<1>1. 0 \in S
  <2> DEFINE f == [s \in SUBSET (1..0) |-> Start]
  <2>1. \A s \in SUBSET (1..0) : s = {}
    OBVIOUS
  <2>2. Upto(f, 0)
    BY <2>1
  <2> QED BY <2>2
<1>2. ASSUME NEW m \in Nat, m \in S PROVE m + 1 \in S
  <2>1. PICK f : Upto(f, m)
    BY <1>2
  <2> DEFINE g == [s \in SUBSET (1..(m + 1)) |->
                     IF m + 1 \in s THEN Followed(f[s \ {m + 1}], way[m + 1]) ELSE f[s]]
  <2>2. ASSUME NEW s \in SUBSET (1..(m + 1))
        PROVE  g[s] = IF s = {} THEN Start ELSE Followed(g[s \ {Max(s)}], way[Max(s)])
    <3>1. CASE m + 1 \in s
      <4>1. Max(s) = m + 1
        <5>1. m + 1 \in Nat /\ s # {}
          BY <3>1
        <5>2. Max(s) \in s /\ \A i \in s : i <= Max(s)
          BY <5>1, GreatestPosition
        <5>3. Max(s) \in 1..(m + 1) /\ m + 1 <= Max(s)
          BY <3>1, <5>2
        <5> QED BY <5>3
      <4>2. s \ {m + 1} \in SUBSET (1..(m + 1)) /\ m + 1 \notin s \ {m + 1}
        OBVIOUS
      <4>3. g[s \ {m + 1}] = f[s \ {m + 1}]
        BY <4>2
      <4>4. g[s] = Followed(f[s \ {m + 1}], way[m + 1])
        BY <3>1
      <4> QED BY <3>1, <4>1, <4>3, <4>4
    <3>2. CASE m + 1 \notin s
      <4>1. s \in SUBSET (1..m)
        BY <3>2
      <4>2. f[s] = IF s = {} THEN Start ELSE Followed(f[s \ {Max(s)}], way[Max(s)])
        BY <2>1, <4>1
      <4>3. g[s] = f[s]
        BY <3>2
      <4>4. s \ {Max(s)} \in SUBSET (1..(m + 1)) /\ m + 1 \notin s \ {Max(s)}
        BY <3>2
      <4>5. g[s \ {Max(s)}] = f[s \ {Max(s)}]
        BY <4>4
      <4> QED BY <4>2, <4>3, <4>5
    <3> QED BY <3>1, <3>2
  <2>3. g = [s \in SUBSET (1..(m + 1)) |-> g[s]]
    OBVIOUS
  <2> HIDE DEF g
  <2>4. Upto(g, m + 1)
    BY <2>2, <2>3
  <2> HIDE DEF Upto
  <2> QED BY <2>4
<1> HIDE DEF S
<1>3. n \in S
  BY <1>1, <1>2, NaturalsInSet
<1>4. PICK f : Upto(f, n)
  BY <1>3 DEF S
<1> QED BY <1>4 DEF Walks

\* How many of the first n names go up, and how many go down.
Ups(way, n)   == Cardinality({k \in 1..n : (way[k] = "..") = TRUE /\ way[k] # "."})
Downs(way, n) == Cardinality({k \in 1..n : (way[k] = "..") = FALSE /\ way[k] # "."})

LEMMA CountOneMore ==
  ASSUME NEW way, NEW n \in Nat
  PROVE  /\ Ups(way, n) \in Nat /\ Downs(way, n) \in Nat
         /\ Ups(way, 0) = 0 /\ Downs(way, 0) = 0
         /\ Ups(way, n + 1) = IF way[n + 1] = ".." THEN Ups(way, n) + 1 ELSE Ups(way, n)
         /\ Downs(way, n + 1) = IF way[n + 1] \in {".", ".."} THEN Downs(way, n)
                                ELSE Downs(way, n) + 1
<1> DEFINE U(m) == {k \in 1..m : (way[k] = "..") = TRUE /\ way[k] # "."}
           D(m) == {k \in 1..m : (way[k] = "..") = FALSE /\ way[k] # "."}
<1>1. IsFiniteSet(1..n)
  BY FS_Interval
<1>2. IsFiniteSet(U(n)) /\ IsFiniteSet(D(n))
  BY <1>1, FS_Subset
<1>3. Cardinality(U(n)) \in Nat /\ Cardinality(D(n)) \in Nat
  BY <1>2, FS_CardinalityType
<1>4. U(n + 1) = IF way[n + 1] = ".." THEN U(n) \cup {n + 1} ELSE U(n)
  OBVIOUS
<1>5. D(n + 1) = IF way[n + 1] \in {".", ".."} THEN D(n) ELSE D(n) \cup {n + 1}
  OBVIOUS
<1>6. n + 1 \notin U(n) /\ n + 1 \notin D(n)
  OBVIOUS
<1>7. U(0) = {} /\ D(0) = {}
  OBVIOUS
<1>8. Cardinality({}) = 0
  BY FS_EmptySet
<1>9. /\ Cardinality(U(n) \cup {n + 1}) = Cardinality(U(n)) + 1
      /\ Cardinality(D(n) \cup {n + 1}) = Cardinality(D(n)) + 1
  <2> HIDE DEF U, D
  <2> QED BY <1>2, <1>6, FS_AddElement
<1>10. /\ \A m : Ups(way, m) = Cardinality(U(m))
       /\ \A m : Downs(way, m) = Cardinality(D(m))
  BY DEF Ups, Downs
<1> HIDE DEF U, D
<1> QED BY <1>3, <1>4, <1>5, <1>7, <1>8, <1>9, <1>10

\* Following a target name by name is counting: the walk leaves the root as soon
\* as more names have gone up than down, and until then its depth is the rest.
LEMMA WalkIsCount ==
  ASSUME NEW parent \in Seq(DOMAIN FoldOf), NEW target \in Seq(DOMAIN FoldOf)
  PROVE  LinkEscapes(parent, target) <=> ~StaysInside(parent \o target)
<1> DEFINE way == parent \o target
<1>1. way \in Seq(DOMAIN FoldOf) /\ Len(way) \in Nat /\ DOMAIN way = 1..Len(way)
  OBVIOUS
<1> DEFINE f == CHOOSE f : Walks(f, way)
           n == Len(way)
<1>2. LinkEscapes(parent, target) = f[1..n].escaped
  BY <1>1, WalkUnfolded
<1>3. Walks(f, way)
  BY <1>1, WalkExists
<1> HIDE DEF f, way
<1>4. f[1..0] = [depth |-> 0, escaped |-> FALSE]
  <2>1. 1..0 \in SUBSET DOMAIN way /\ 1..0 = {}
    OBVIOUS
  <2> QED BY <1>3, <2>1 DEF Walks
<1>5. ASSUME NEW m \in 1..n PROVE f[1..m] = Followed(f[1..(m - 1)], way[m])
  <2>1. 1..m \in SUBSET (1..m) /\ 1..m # {} /\ m \in Nat
    OBVIOUS
  <2>2. Max(1..m) \in 1..m /\ \A i \in 1..m : i <= Max(1..m)
    BY <2>1, GreatestPosition
  <2>3. Max(1..m) = m
    BY <2>2
  <2>4. (1..m) \ {m} = 1..(m - 1) /\ 1..m \in SUBSET DOMAIN way
    BY <1>1
  <2> QED BY <1>3, <2>1, <2>3, <2>4 DEF Walks
<1> DEFINE Inside(m) == \A k \in 1..m : Ups(way, k) <= Downs(way, k)
           Agrees(m) ==
             /\ f[1..m].escaped \in BOOLEAN
             /\ f[1..m].escaped <=> ~Inside(m)
             /\ ~f[1..m].escaped =>
                  f[1..m] = [depth |-> Downs(way, m) - Ups(way, m), escaped |-> FALSE]
           S == {m \in Nat : m <= n => Agrees(m)}
<1>6. 0 \in S
  <2>1. Ups(way, 0) = 0 /\ Downs(way, 0) = 0
    BY CountOneMore
  <2>2. Inside(0)
    OBVIOUS
  <2> HIDE DEF Inside
  <2>3. f[1..0].escaped = FALSE /\ f[1..0].depth = 0
    BY <1>4
  <2>4. Downs(way, 0) - Ups(way, 0) = 0
    BY <2>1
  <2> QED BY <1>4, <2>2, <2>3, <2>4
<1>7. ASSUME NEW m \in Nat, m \in S PROVE m + 1 \in S
  <2> SUFFICES ASSUME m + 1 <= n PROVE Agrees(m + 1)
    OBVIOUS
  <2>1. Agrees(m)
    BY <1>1, <1>7
  <2>2. f[1..(m + 1)] = Followed(f[1..m], way[m + 1])
    BY <1>1, <1>5
  <2>3. /\ Ups(way, m) \in Nat /\ Downs(way, m) \in Nat
        /\ Ups(way, m + 1) = IF way[m + 1] = ".." THEN Ups(way, m) + 1 ELSE Ups(way, m)
        /\ Downs(way, m + 1) = IF way[m + 1] \in {".", ".."} THEN Downs(way, m)
                               ELSE Downs(way, m) + 1
    BY CountOneMore
  <2>4. Inside(m + 1) <=> Inside(m) /\ Ups(way, m + 1) <= Downs(way, m + 1)
    OBVIOUS
  <2>5. Inside(m) => Ups(way, m) <= Downs(way, m)
    BY CountOneMore
  <2> DEFINE at == f[1..m]
  <2>6. CASE at.escaped
    BY <2>1, <2>2, <2>4, <2>6 DEF Followed
  <2>7. CASE ~at.escaped
    <3>1. at = [depth |-> Downs(way, m) - Ups(way, m), escaped |-> FALSE] /\ Inside(m)
      BY <2>1, <2>7
    <3> HIDE DEF Inside, at
    <3>2. f[1..(m + 1)] = Followed(at, way[m + 1])
      BY <2>2 DEF at
    <3>3. CASE way[m + 1] = "."
      <4>1. f[1..(m + 1)] = at
        BY <3>2, <3>3 DEF Followed
      <4>2. Inside(m + 1)
        BY <2>3, <2>4, <2>5, <3>1, <3>3
      <4>3. f[1..(m + 1)] = [depth |-> Downs(way, m + 1) - Ups(way, m + 1), escaped |-> FALSE]
        BY <2>3, <3>1, <3>3, <4>1
      <4> QED BY <4>2, <4>3
    <3>4. CASE way[m + 1] \notin {".", ".."}
      <4>1. f[1..(m + 1)] = [depth |-> Downs(way, m) - Ups(way, m) + 1, escaped |-> FALSE]
        BY <3>1, <3>2, <3>4 DEF Followed
      <4>2. Inside(m + 1)
        BY <2>3, <2>4, <2>5, <3>1, <3>4
      <4>3. f[1..(m + 1)] = [depth |-> Downs(way, m + 1) - Ups(way, m + 1), escaped |-> FALSE]
        <5>1. Downs(way, m + 1) - Ups(way, m + 1) = Downs(way, m) - Ups(way, m) + 1
          BY <2>3, <3>4
        <5> QED BY <4>1, <5>1
      <4> QED BY <4>2, <4>3
    <3>5. CASE way[m + 1] = ".." /\ Downs(way, m) - Ups(way, m) = 0
      <4>1. f[1..(m + 1)] = [depth |-> 0, escaped |-> TRUE]
        BY <3>1, <3>2, <3>5 DEF Followed
      <4> QED BY <2>3, <2>4, <2>5, <3>1, <3>5, <4>1
    <3>6. CASE way[m + 1] = ".." /\ Downs(way, m) - Ups(way, m) # 0
      <4>1. f[1..(m + 1)] = [depth |-> Downs(way, m) - Ups(way, m) - 1, escaped |-> FALSE]
        BY <3>1, <3>2, <3>6 DEF Followed
      <4>2. Inside(m + 1)
        BY <2>3, <2>4, <2>5, <3>1, <3>6
      <4>3. f[1..(m + 1)] = [depth |-> Downs(way, m + 1) - Ups(way, m + 1), escaped |-> FALSE]
        <5>1. Downs(way, m + 1) - Ups(way, m + 1) = Downs(way, m) - Ups(way, m) - 1
          BY <2>3, <3>6
        <5> QED BY <4>1, <5>1
      <4> QED BY <4>2, <4>3
    <3> QED BY <3>3, <3>4, <3>5, <3>6
  <2> QED BY <2>6, <2>7
<1> HIDE DEF S, n
<1>8. n \in S
  BY <1>1, <1>6, <1>7, NaturalsInSet DEF n
<1>9. Agrees(n)
  BY <1>1, <1>8 DEF S, n
<1>10. StaysInside(way) <=> Inside(n)
  BY DEF StaysInside, Ups, Downs, n
<1> QED BY <1>2, <1>9, <1>10 DEF way

-----------------------------------------------------------------------------
(* Refused exactly when the tree is not clean                               *)

\* What reading, checking and placing the entries so far has shown of the tree.
CleanPart ==
  /\ pc = "write" =>
       /\ WithinLimits(tree)
       /\ \A i \in Written :
            /\ SizeOf[tree[i].object] <= MaxMember
            /\ IsLink(tree[i]) => LinkAllowed(tree[i].path, TargetOf[tree[i].object])
            /\ \A q \in Parents(tree[i].path) : At(q) \in DOMAIN fs /\ fs[At(q)].kind = "dir"
  /\ pc \in {"open", "running"} => Clean
  /\ pc = "refused" /\ ~trouble => ~Clean

\* Cleanliness is of the tree and the host, not of what has been done.
LEMMA CleanKept ==
  ASSUME UNCHANGED environment
  PROVE  Clean' = Clean
BY DEF environment, Clean, Entries, At

\* A link the code allows is one a clean tree may have, and the reverse.
LEMMA LinkMeaning ==
  ASSUME NEW path \in Seq(DOMAIN FoldOf), path # <<>>,
         NEW object \in DOMAIN SizeOf
  PROVE  LET target == TargetOf[object]
         IN  LinkAllowed(path, target) <=>
               /\ target # NoTarget /\ target # <<>>
               /\ ToSet(target) \subseteq PortableNames \cup {".", ".."}
               /\ StaysInside(Parent(path) \o target)
<1> DEFINE target == TargetOf[object]
<1>1. CASE target = NoTarget
  BY <1>1 DEF LinkAllowed
<1>2. CASE target # NoTarget
  <2>1. target \in Seq(DOMAIN FoldOf)
    BY <1>2, SnapshotAssumption
  <2>2. Parent(path) \in Seq(DOMAIN FoldOf)
    BY ParentAt
  <2>3. LinkEscapes(Parent(path), target) <=> ~StaysInside(Parent(path) \o target)
    BY <2>1, <2>2, WalkIsCount
  <2> QED BY <1>2, <2>3 DEF LinkAllowed
<1> QED BY <1>1, <1>2

\* A tree that is listed, within the limits and has been written is clean.
LEMMA WrittenIsClean ==
  ASSUME IInv, CleanPart, pc = "write", todo = {}
  PROVE  Clean
<1>1. /\ tree \in Trees /\ Listable(tree) /\ WithinLimits(tree) /\ Written = DOMAIN tree
      /\ \A i \in DOMAIN tree :
            /\ SizeOf[tree[i].object] <= MaxMember
            /\ IsLink(tree[i]) => LinkAllowed(tree[i].path, TargetOf[tree[i].object])
            /\ \A q \in Parents(tree[i].path) : At(q) \in DOMAIN fs /\ fs[At(q)].kind = "dir"
  BY DEF IInv, TypeOK, StagePart, CleanPart, Written
<1>2. Len(tree) \in Nat /\ DOMAIN tree = 1..Len(tree) /\ Entries = {tree[i] : i \in DOMAIN tree}
  BY <1>1, EntriesMeaning
<1>3. ASSUME NEW i \in DOMAIN tree
      PROVE  /\ tree[i].mode \in Blobs /\ Portable(tree[i].path)
             /\ SizeOf[tree[i].object] <= MaxMember
             /\ IsLink(tree[i]) =>
                  LET target == TargetOf[tree[i].object]
                  IN  /\ target # NoTarget /\ target # <<>>
                      /\ ToSet(target) \subseteq PortableNames \cup {".", ".."}
                      /\ StaysInside(Parent(tree[i].path) \o target)
  <2>1. tree[i].mode \in Blobs /\ Portable(tree[i].path) /\ tree[i].path # <<>>
    BY <1>1, <1>2 DEF Listable, Portable
  <2>2. tree[i].path \in Seq(DOMAIN FoldOf) /\ tree[i].object \in DOMAIN SizeOf
    BY <1>1, EntryTyped
  <2> QED BY <1>1, <2>1, <2>2, LinkMeaning
<1>4. ASSUME NEW i \in DOMAIN tree, NEW j \in DOMAIN tree, i # j
      PROVE  /\ PathFolded(tree[i].path) # PathFolded(tree[j].path)
             /\ At(tree[i].path) \notin {At(p) : p \in Parents(tree[j].path)}
  <2>1. i < j \/ j < i
    BY <1>2, <1>4
  <2>2. PathFolded(tree[i].path) # PathFolded(tree[j].path)
    BY <1>1, <1>2, <2>1 DEF Listable, PortableKey
  <2>3. fs[At(tree[i].path)] = NodeOf(tree[i], tree[i].object)
    BY <1>1 DEF IInv, WrittenPart, Pristine
  <2>4. NodeOf(tree[i], tree[i].object).kind # "dir"
    BY DEF NodeOf
  <2> QED BY <1>1, <2>2, <2>3, <2>4
<1>5. Len(tree) <= MaxFiles /\ TotalSize(tree) <= MaxBytes
  BY <1>1 DEF WithinLimits
<1>6. \A e \in Entries :
        /\ e.mode \in Blobs /\ Portable(e.path) /\ SizeOf[e.object] <= MaxMember
        /\ IsLink(e) =>
             LET target == TargetOf[e.object]
             IN  /\ target # NoTarget /\ target # <<>>
                 /\ ToSet(target) \subseteq PortableNames \cup {".", ".."}
                 /\ StaysInside(Parent(e.path) \o target)
  BY <1>2, <1>3
<1> QED BY <1>2, <1>4, <1>5, <1>6 DEF Clean

\* A tree that is not listed or not within the limits is not clean.
LEMMA CleanIsListed ==
  ASSUME tree \in Trees, Clean
  PROVE  Listable(tree) /\ WithinLimits(tree)
<1>1. Len(tree) \in Nat /\ DOMAIN tree = 1..Len(tree) /\ Entries = {tree[i] : i \in DOMAIN tree}
  BY EntriesMeaning
<1>2. \A i \in 1..Len(tree) : tree[i].mode \in Blobs /\ Portable(tree[i].path)
  BY <1>1 DEF Clean
<1>3. \A i, j \in 1..Len(tree) :
        i < j => PortableKey(tree[i].path) # PortableKey(tree[j].path)
  BY <1>1 DEF Clean, PortableKey
<1> QED BY <1>2, <1>3 DEF Clean, Listable, WithinLimits

\* An entry of a clean tree, read whole, finds its place.
LEMMA CleanIsWritable ==
  ASSUME IInv, Clean, pc = "write", NEW i \in todo
  PROVE  Writable(tree[i], tree[i].object)
<1>1. i \in DOMAIN tree /\ tree \in Trees /\ i \notin Written
  BY DEF IInv, TypeOK, Written
<1>2. Len(tree) \in Nat /\ DOMAIN tree = 1..Len(tree) /\ Entries = {tree[k] : k \in DOMAIN tree}
  BY <1>1, EntriesMeaning
<1>3. tree[i].path \in Seq(DOMAIN FoldOf) /\ tree[i].object \in DOMAIN SizeOf
  BY <1>1, EntryTyped
<1>4. tree[i] \in Entries /\ tree[i].path # <<>> /\ SizeOf[tree[i].object] <= MaxMember
  BY <1>1, <1>2 DEF Clean, Portable
<1>5. ReadAccepted(tree[i], tree[i].object)
  BY <1>4 DEF ReadAccepted
<1>6. IsLink(tree[i]) => LinkAllowed(tree[i].path, TargetOf[tree[i].object])
  BY <1>3, <1>4, LinkMeaning DEF Clean
<1>7. /\ \A p \in DOMAIN fs :
           \/ p = <<>>
           \/ \E j \in Written : p = At(tree[j].path)
           \/ fs[p] = Directory /\ \E j \in Written : \E q \in Parents(tree[j].path) : p = At(q)
      /\ fs[<<>>] = Directory /\ Directory.kind = "dir"
  BY DirectoryTyped DEF IInv, WrittenPart, Pristine, RootPart
<1>8. \A j \in Written :
        /\ PathFolded(tree[i].path) # PathFolded(tree[j].path)
        /\ At(tree[i].path) \notin {At(p) : p \in Parents(tree[j].path)}
        /\ At(tree[j].path) \notin {At(p) : p \in Parents(tree[i].path)}
  BY <1>1, <1>2 DEF Clean, Written
<1>9. \A j \in Written : At(tree[i].path) # At(tree[j].path)
  BY <1>8 DEF At
<1>10. At(tree[i].path) # <<>>
  BY <1>3, <1>4, EmptyPath
<1>11. At(tree[i].path) \notin DOMAIN fs
  BY <1>7, <1>8, <1>9, <1>10
<1>12. \A p \in Parents(tree[i].path) : At(p) \in DOMAIN fs => fs[At(p)].kind = "dir"
  BY <1>7, <1>8
<1> QED BY <1>5, <1>6, <1>11, <1>12 DEF Writable, HasPlace

LEMMA CleanNext ==
  ASSUME IInv, CleanPart, [Next]_vars
  PROVE  CleanPart'
<1>1. UNCHANGED environment /\ Clean' = Clean /\ tree' = tree
  <2>1. UNCHANGED environment
    BY DEF Next, List, RefuseTree, GitFails, Refuse, Yield, Begin, End, Close, Write, RefuseEntry, vars
  <2> QED BY <2>1, CleanKept DEF environment
<1>2. CASE List
  <2>1. pc' = "write" /\ Written' = {} /\ WithinLimits(tree)'
    BY <1>1, <1>2 DEF List, Written, WithinLimits
  <2> QED BY <2>1 DEF CleanPart
<1>3. CASE RefuseTree
  <2>1. ~Clean
    BY <1>3, CleanIsListed DEF RefuseTree, IInv, TypeOK
  <2> QED BY <1>1, <1>3, <2>1 DEF RefuseTree, Refuse, CleanPart
<1>4. CASE GitFails
  BY <1>1, <1>4 DEF GitFails, Refuse, CleanPart
<1>5. CASE Close
  BY <1>5 DEF Close, CleanPart
<1>6. CASE Yield
  <2>1. Clean
    BY <1>6, WrittenIsClean DEF Yield
  <2> QED BY <1>1, <1>6, <2>1 DEF Yield, CleanPart
<1>7. CASE Begin \/ End
  BY <1>1, <1>7 DEF Begin, End, CleanPart
<1>8. ASSUME NEW i \in todo, NEW content, RefuseEntry(i, content)
      PROVE  CleanPart'
  <2>1. /\ pc = "write" /\ content \in Reads(tree[i]) /\ ~Writable(tree[i], content)
        /\ pc' = "refused" /\ trouble' = (trouble \/ content = Cut)
    BY <1>8 DEF RefuseEntry, Refuse
  <2>2. CASE content = Cut
    BY <2>1, <2>2 DEF CleanPart
  <2>3. CASE content # Cut
    <3>1. content = tree[i].object
      BY <2>1, <2>3 DEF Reads
    <3>2. ~Clean
      BY <2>1, <3>1, CleanIsWritable
    <3> QED BY <1>1, <2>1, <3>2 DEF CleanPart
  <2> QED BY <2>2, <2>3
<1>9. ASSUME NEW i \in todo, NEW content, Write(i, content)
      PROVE  CleanPart'
  <2> DEFINE path == tree[i].path
  <2>1. /\ pc = "write" /\ pc' = "write" /\ todo' = todo \ {i} /\ Writable(tree[i], content)
        /\ UNCHANGED <<tree, folds>>
    BY <1>9 DEF Write, environment
  <2>2. /\ content = tree[i].object
        /\ \A q \in Parents(path) : At(q) \in DOMAIN fs => fs[At(q)].kind = "dir"
        /\ DOMAIN fs' = DOMAIN fs \cup {At(q) : q \in Parents(path)} \cup {At(path)}
        /\ \A p \in DOMAIN fs : fs'[p] = fs[p]
        /\ \A q \in Parents(path) : At(q) \notin DOMAIN fs => fs'[At(q)] = Directory
    BY <1>9, WriteMeaning
  <2>3. Written' = Written \cup {i}
    BY <2>1 DEF IInv, TypeOK, Written
  <2>4. \A p : At(p)' = At(p)
    BY <2>1 DEF At
  <2>5. /\ SizeOf[tree[i].object] <= MaxMember
        /\ IsLink(tree[i]) => LinkAllowed(tree[i].path, TargetOf[tree[i].object])
    BY <2>1 DEF Writable, ReadAccepted
  <2>6. \A q \in Parents(path) : At(q) \in DOMAIN fs' /\ fs'[At(q)].kind = "dir"
    BY <2>2, DirectoryTyped
  <2>7. /\ WithinLimits(tree)
        /\ \A j \in Written :
             /\ SizeOf[tree[j].object] <= MaxMember
             /\ IsLink(tree[j]) => LinkAllowed(tree[j].path, TargetOf[tree[j].object])
             /\ \A q \in Parents(tree[j].path) : At(q) \in DOMAIN fs /\ fs[At(q)].kind = "dir"
    BY <2>1 DEF CleanPart
  <2>8. WithinLimits(tree)'
    BY <2>1, <2>7 DEF WithinLimits
  <2>9. \A j \in Written \cup {i} :
          /\ SizeOf[tree[j].object] <= MaxMember
          /\ IsLink(tree[j]) => LinkAllowed(tree[j].path, TargetOf[tree[j].object])
          /\ \A q \in Parents(tree[j].path) : At(q) \in DOMAIN fs' /\ fs'[At(q)].kind = "dir"
    BY <2>2, <2>5, <2>6, <2>7
  <2> QED BY <2>1, <2>3, <2>4, <2>8, <2>9 DEF CleanPart
<1>10. CASE UNCHANGED vars
  <2>1. UNCHANGED <<tree, folds, pc, todo, fs, trouble>>
    BY <1>10 DEF vars, environment
  <2>2. Written' = Written /\ (\A p : At(p)' = At(p)) /\ WithinLimits(tree)' = WithinLimits(tree)
    BY <2>1 DEF Written, At, WithinLimits
  <2> QED BY <1>1, <2>1, <2>2 DEF CleanPart
<1> QED BY <1>2, <1>3, <1>4, <1>5, <1>6, <1>7, <1>8, <1>9, <1>10 DEF Next

\* Unless git fails, a tree is refused exactly when it is not clean, for every
\* tree, in the order in which the code meets its entries (GitRepo.snapshot and
\* all it calls).
THEOREM RefusedTheorem == Spec => []RefusedIffUnclean
<1>1. Init => CleanPart
  BY DEF Init, CleanPart
<1>2. IInv /\ CleanPart /\ [Next]_vars => CleanPart'
  BY CleanNext
<1>3. CleanPart => RefusedIffUnclean
  BY DEF CleanPart, RefusedIffUnclean
<1> QED BY <1>1, <1>2, <1>3, SnapshotInvariant, PTL DEF Spec

=============================================================================
