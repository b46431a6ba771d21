----------------------------- MODULE MCSnapshot -----------------------------
(***************************************************************************)
(* Snapshots of up to four entries with names that differ by case, links   *)
(* that stay inside and links that do not, and sizes around the limits.    *)
(***************************************************************************)
EXTENDS Snapshot

MCFoldOf ==
  [name \in {"a", "A", "b", "con", ".", "..", "/"} |-> IF name = "A" THEN "a" ELSE name]

MCPortable == {"a", "A", "b"}

\* Objects by what they are as the target of a link.
MCTargetOf ==
  [o1 |-> NoTarget, o2 |-> NoTarget, o3 |-> NoTarget, o4 |-> NoTarget, o0 |-> <<>>,
   near |-> <<"a">>, over |-> <<"..", "b">>, back |-> <<"a", "..", "..", "a">>,
   root |-> <<"/", "a">>, device |-> <<".", "con">>]

MCSizeOf ==
  [object \in DOMAIN MCTargetOf |->
     CASE object = "o0" -> 0
       [] object = "o2" -> 2
       [] object = "o3" -> 3
       [] object = "o4" -> 4
       [] OTHER         -> 1]

File(path, object) == [mode |-> "100644", path |-> path, object |-> object]
Exec(path, object) == [mode |-> "100755", path |-> path, object |-> object]
Link(path, object) == [mode |-> "120000", path |-> path, object |-> object]

\* In the order in which Git lists them.  Two entries of one name, and a file
\* with the name of a directory, are what a malformed tree object has.
MCEntries ==
  << File(<<"A">>, "o1"), Link(<<"A">>, "near"), File(<<"A", "b">>, "o2"),
     Exec(<<"A", "a">>, "o1"), Link(<<"A", "b">>, "over"),
     File(<<"a">>, "o0"), File(<<"a">>, "o3"), Exec(<<"a">>, "o2"), Link(<<"a">>, "o0"),
     [mode |-> "160000", path |-> <<"a">>, object |-> "o1"],
     File(<<"a", "b">>, "o1"), Exec(<<"a", "A", "b">>, "o2"), Link(<<"a", "b">>, "back"),
     File(<<"b">>, "o4"), Link(<<"b">>, "near"), Link(<<"b">>, "over"), Link(<<"b">>, "root"),
     Link(<<"b">>, "device"), Link(<<"b">>, "o1"), File(<<"b", "a">>, "o3"),
     File(<<"con">>, "o1") >>

\* The entries of a set of positions, in order.
Chosen(positions) ==
  LET order == SetToSortSeq(positions, <)
  IN  [k \in 1..Len(order) |-> MCEntries[order[k]]]

MCTrees ==
  {<<>>} \cup {Chosen({i, j}) : i, j \in 1..Len(MCEntries)}
    \cup {Chosen({i, j, k}) : i \in {1, 3, 4, 6}, j \in {7, 11, 12, 13}, k \in 14..20}
    \cup {Chosen({3, 6, k, 20}) : k \in 14..16}

=============================================================================
