------------------------------ MODULE Snapshot ------------------------------
(***************************************************************************)
(* GitRepo.snapshot: one commit's tree is listed, checked, written to a    *)
(* directory of its own, given to the commands one after the other and     *)
(* removed (gitutils.py, and what runner.py asks of the directory).        *)
(*                                                                         *)
(* A path is a sequence of names.  FoldOf gives the name that compares     *)
(* equal on hosts that ignore case and Unicode form; a name is portable or *)
(* it is not, for whatever reason.  An object has a size and, read as a    *)
(* link, a target.  Of the permissions only those of others are kept, the  *)
(* container's user being one of them.                                     *)
(*                                                                         *)
(* External: the bytes of an object are those of its id; the host follows  *)
(* FoldOf or tells all names apart; reads may fail or end early, and       *)
(* GitBounded says how.                                                    *)
(***************************************************************************)
EXTENDS Naturals, SequencesExt

CONSTANTS
  Trees,          \* the listings of trees: sequences of entries
  FoldOf,         \* [names -> names]
  PortableNames,
  SizeOf,         \* [objects -> Nat]
  TargetOf,       \* [objects -> sequences of names, or NoTarget]
  MaxFiles, MaxBytes, MaxMember,
  MaxCommands,    \* bound of the model
  NoTarget,
  Cut, Scribble   \* contents: a part of an object, what a command wrote

ASSUME SnapshotAssumption ==
  /\ {MaxFiles, MaxBytes, MaxMember, MaxCommands} \subseteq Nat
  /\ PortableNames \subseteq DOMAIN FoldOf
  /\ \A name \in DOMAIN FoldOf : FoldOf[name] \in DOMAIN FoldOf
  /\ {".", "..", "/"} \cap PortableNames = {}
  /\ SizeOf \in [DOMAIN TargetOf -> Nat]
  /\ \A object \in DOMAIN TargetOf :
       TargetOf[object] # NoTarget => TargetOf[object] \in Seq(DOMAIN FoldOf)
  /\ {Cut, Scribble} \cap DOMAIN SizeOf = {}
  /\ Trees \subseteq Seq([mode : STRING, path : Seq(DOMAIN FoldOf), object : DOMAIN SizeOf])

VARIABLES
  tree,
  folds,    \* does the host ignore case?
  umask,    \* what the process withholds from others
  mode,     \* the executor of the commands
  pc,
  todo,     \* positions of the entries still to be written
  fs,       \* the directory: [host paths -> nodes]
  trouble,  \* a call of git failed or was cut short
  ran       \* commands begun

environment == <<tree, folds, umask, mode>>
vars        == <<environment, pc, todo, fs, trouble, ran>>

-----------------------------------------------------------------------------
(* Paths                                                                   *)

PathFolded(path) == [i \in 1..Len(path) |-> FoldOf[path[i]]]

\* Mutant: paths are compared as they are written.
PathAsWritten(path) == path

\* _portable_path_key
PortableKey(path) == PathFolded(path)

\* Where the host keeps a path.
At(path) == IF folds THEN PathFolded(path) ELSE path

Parent(path)   == SubSeq(path, 1, Len(path) - 1)
Parents(path)  == {SubSeq(path, 1, n) : n \in 1..(Len(path) - 1)}
Portable(path) == path # <<>> /\ ToSet(path) \subseteq PortableNames

\* The target is followed name by name; it must not leave the root on the way.
LinkEscapes(parent, target) ==
  LET Step(at, name) ==
        IF at.escaped \/ name = "." THEN at
        ELSE IF name # ".." THEN [at EXCEPT !.depth = @ + 1]
        ELSE IF at.depth = 0 THEN [at EXCEPT !.escaped = TRUE]
        ELSE [at EXCEPT !.depth = @ - 1]
  IN  FoldLeft(Step, [depth |-> 0, escaped |-> FALSE], parent \o target).escaped

LinkAllowed(path, target) ==
  /\ target # NoTarget /\ target # <<>>
  /\ ~LinkEscapes(Parent(path), target)
  /\ ToSet(target) \ {".", ".."} \subseteq PortableNames

-----------------------------------------------------------------------------
(* The listing                                                             *)

Blobs == {"100644", "100755", "120000"}

IsLink(entry) == entry.mode = "120000"

\* _parse_tree_entries: kinds, names, and no two entries of one name.
Listable(entries) ==
  /\ \A i \in 1..Len(entries) :
       /\ entries[i].mode \in Blobs
       /\ Portable(entries[i].path)
  /\ \A i, j \in 1..Len(entries) :
       i < j => PortableKey(entries[i].path) # PortableKey(entries[j].path)

TotalSize(entries) ==
  FoldLeft(LAMBDA sum, entry : sum + SizeOf[entry.object], 0, entries)

WithinLimits(entries) ==
  /\ Len(entries) <= MaxFiles
  /\ TotalSize(entries) <= MaxBytes

\* The entry whose turn it is: ordinary files come before links.
Turn(i) ==
  /\ i \in todo
  /\ \A j \in todo : IF IsLink(tree[i]) = IsLink(tree[j]) THEN i <= j ELSE IsLink(tree[j])

\* What the directory can hold.
Nodes ==
  [kind : {"dir"}, others : SUBSET {"r", "x"}]
    \cup [kind : {"file"}, content : DOMAIN SizeOf \cup {Scribble}, others : SUBSET {"r", "x"}]
    \cup [kind : {"link"}, content : DOMAIN SizeOf]

Directory == [kind |-> "dir", others |-> {"r", "x"} \ umask]

Empty == [path \in {<<>>} |-> Directory]

Init ==
  /\ tree \in Trees
  /\ folds \in BOOLEAN
  /\ umask \in SUBSET {"r", "x"}
  /\ mode \in {"native", "container"}
  /\ pc = "list"
  /\ todo = {}
  /\ fs = Empty
  /\ trouble = FALSE
  /\ ran = 0

\* An exception: the directory is removed on the way out.
Refuse ==
  /\ pc' = "refused"
  /\ todo' = {}
  /\ fs' = Empty
  /\ UNCHANGED <<environment, ran>>

List ==
  /\ pc = "list"
  /\ Listable(tree) /\ WithinLimits(tree)
  /\ pc' = "write"
  /\ todo' = DOMAIN tree
  /\ UNCHANGED <<environment, fs, trouble, ran>>

RefuseTree ==
  /\ pc = "list"
  /\ ~(Listable(tree) /\ WithinLimits(tree))
  /\ Refuse
  /\ UNCHANGED trouble

-----------------------------------------------------------------------------
(* Writing                                                                 *)

\* _read_blob asks for no more than the listed size.
Reads(entry) ==
  {entry.object} \cup (IF SizeOf[entry.object] > 0 THEN {Cut} ELSE {})

\* Mutant: the length of what was read is not compared with the listed size.
AnyLength(entry, content) == SizeOf[entry.object] <= MaxMember

ReadAccepted(entry, content) ==
  /\ SizeOf[entry.object] <= MaxMember
  /\ content = entry.object

\* Mutant: directories are made for their owner alone.
PrivateParents(path) ==
  [p \in {At(q) : q \in Parents(path)} |-> [kind |-> "dir", others |-> {}]]

NewParents(path) == [p \in {At(q) : q \in Parents(path)} |-> Directory]

NodeOf(entry, content) ==
  IF IsLink(entry) THEN [kind |-> "link", content |-> content]
  ELSE [kind |-> "file", content |-> content,
        others |-> (IF entry.mode = "100755" THEN {"r", "x"} ELSE {"r"}) \ umask]

\* Mutant: parents that are there are taken as they are.
Unoccupied(entry) == At(entry.path) \notin DOMAIN fs

\* No parent is a link or a file, and nothing is there already.
HasPlace(entry) ==
  /\ \A p \in Parents(entry.path) : At(p) \in DOMAIN fs => fs[At(p)].kind = "dir"
  /\ At(entry.path) \notin DOMAIN fs

Writable(entry, content) ==
  /\ ReadAccepted(entry, content)
  /\ IsLink(entry) => LinkAllowed(entry.path, TargetOf[entry.object])
  /\ HasPlace(entry)

\* What is there stays, the rest is new.
Besides(old, new) ==
  [p \in DOMAIN old \cup DOMAIN new |-> IF p \in DOMAIN old THEN old[p] ELSE new[p]]

Write(i, content) ==
  /\ pc = "write" /\ Turn(i)
  /\ content \in Reads(tree[i])
  /\ Writable(tree[i], content)
  /\ LET node == [p \in {At(tree[i].path)} |-> NodeOf(tree[i], content)]
     IN  fs' = Besides(fs, Besides(NewParents(tree[i].path), node))
  /\ todo' = todo \ {i}
  /\ UNCHANGED <<environment, pc, trouble, ran>>

RefuseEntry(i, content) ==
  /\ pc = "write" /\ Turn(i)
  /\ content \in Reads(tree[i])
  /\ ~Writable(tree[i], content)
  /\ Refuse
  /\ trouble' = (trouble \/ content = Cut)

\* The listing or the read of an object fails.
GitFails ==
  /\ pc = "list" \/ (pc = "write" /\ todo # {})
  /\ Refuse
  /\ trouble' = TRUE

Yield ==
  /\ pc = "write" /\ todo = {}
  /\ pc' = "open"
  /\ UNCHANGED <<environment, todo, fs, trouble, ran>>

-----------------------------------------------------------------------------
(* The commands                                                            *)

\* _container_command looks at the permissions of the root alone.
RootReadable == {"r", "x"} \subseteq fs[<<>>].others

Begin ==
  /\ pc = "open" /\ ran < MaxCommands
  /\ mode = "container" => RootReadable
  /\ pc' = "running"
  /\ ran' = ran + 1
  /\ UNCHANGED <<environment, todo, fs, trouble>>

\* Mutant: the snapshot is mounted for writing.
AllWrite == TRUE

\* A container has the snapshot mounted read-only.
MayWrite == mode = "native"

\* What a command leaves behind.
End ==
  /\ pc = "running"
  /\ pc' = "open"
  /\ \/ UNCHANGED fs
     \/ /\ MayWrite
        /\ \E p \in {p \in DOMAIN fs : fs[p].kind = "file"} :
             \/ fs' = [fs EXCEPT ![p].content = Scribble]
             \/ fs' = [q \in DOMAIN fs \ {p} |-> fs[q]]
  /\ UNCHANGED <<environment, todo, trouble, ran>>

\* All commands have run, or a container cannot use the snapshot.
Close ==
  /\ pc = "open"
  /\ pc' = "closed"
  /\ fs' = Empty
  /\ UNCHANGED <<environment, todo, trouble, ran>>

Next ==
  \/ List \/ RefuseTree \/ GitFails \/ Yield \/ Begin \/ End \/ Close
  \/ \E i \in todo, content \in DOMAIN SizeOf \cup {Cut} :
       Write(i, content) \/ RefuseEntry(i, content)

Spec == Init /\ [][Next]_vars

-----------------------------------------------------------------------------
(* Properties                                                              *)

\* Every variable holds a value the program can store, and the directory is a
\* tree: what is in a directory is in one that exists and is no link.
TypeOK ==
  /\ tree \in Trees /\ folds \in BOOLEAN /\ umask \subseteq {"r", "x"}
  /\ mode \in {"native", "container"}
  /\ pc \in {"list", "write", "open", "running", "closed", "refused"}
  /\ todo \subseteq DOMAIN tree
  /\ \A p \in DOMAIN fs :
       /\ fs[p] \in Nodes
       /\ p # <<>> => (Parent(p) \in DOMAIN fs /\ fs[Parent(p)].kind = "dir")
  /\ trouble \in BOOLEAN
  /\ ran \in 0..MaxCommands

Entries == ToSet(tree)

\* The directory holds the commit's entries, each with its own content and
\* mode, their directories, and nothing else.
IsTheTree ==
  /\ Cardinality({At(e.path) : e \in Entries}) = Len(tree)
  /\ \A e \in Entries : At(e.path) \in DOMAIN fs /\ fs[At(e.path)] = NodeOf(e, e.object)
  /\ \A p \in DOMAIN fs \ {At(e.path) : e \in Entries} :
       /\ fs[p].kind = "dir"
       /\ p # <<>> => \E e \in Entries : p \in {At(q) : q \in Parents(e.path)}

\* A snapshot is given to the commands only when it is the whole tree of the
\* commit, although reads end early, names collide and links stand where
\* directories are wanted; and every command in a container finds it so, the
\* second one too (docs/THREAT_MODEL.md: candidate code cannot write the source
\* snapshot in container mode).  Native commands share what they change.
SnapshotIsTree ==
  \/ (pc = "open" /\ ran = 0)
  \/ (pc = "running" /\ ran = 1)
  \/ (pc \in {"open", "running"} /\ mode = "container")
  => IsTheTree

\* On no part of the way are there more names that go up than names that go
\* down.
StaysInside(way) ==
  LET Names(n, up) == Cardinality({k \in 1..n : (way[k] = "..") = up /\ way[k] # "."})
  IN  \A n \in 1..Len(way) : Names(n, TRUE) <= Names(n, FALSE)

\* What a tree must be like for this host, seen as a whole.
Clean ==
  /\ Len(tree) <= MaxFiles /\ TotalSize(tree) <= MaxBytes
  /\ \A e \in Entries :
       /\ e.mode \in Blobs /\ Portable(e.path) /\ SizeOf[e.object] <= MaxMember
       /\ IsLink(e) =>
            LET target == TargetOf[e.object]
            IN  /\ target # NoTarget /\ target # <<>>
                /\ ToSet(target) \subseteq PortableNames \cup {".", ".."}
                /\ StaysInside(Parent(e.path) \o target)
  /\ \A i, j \in 1..Len(tree) : i # j =>
       /\ PathFolded(tree[i].path) # PathFolded(tree[j].path)
       /\ At(tree[i].path) \notin {At(p) : p \in Parents(tree[j].path)}

\* Unless git fails, a snapshot is refused exactly when the tree is not clean,
\* in whatever order its entries are met.  The last line of Clean is where the
\* host counts: names that collide as directories only are not compared.
RefusedIffUnclean ==
  /\ pc = "open" => Clean
  /\ (pc = "refused" /\ ~trouble) => ~Clean

\* The container's user can read all of a snapshot when the runner starts a
\* container on it: the look at the root's permissions stands for all files and
\* directories below, and what is executable in the commit can be executed.
ContainerCanRead ==
  pc = "running" /\ mode = "container" =>
    /\ \A p \in DOMAIN fs : fs[p].kind # "link" => "r" \in fs[p].others
    /\ \A p \in DOMAIN fs : fs[p].kind = "dir" => "x" \in fs[p].others
    /\ \A e \in Entries : e.mode = "100755" => "x" \in fs[At(e.path)].others

=============================================================================
