---------------------------- MODULE MCDiffLines ----------------------------
(***************************************************************************)
(* Patches of one and two changes for DiffLines: all statuses, usual and   *)
(* unusual paths, up to two hunks and up to two edits of every class.      *)
(***************************************************************************)
EXTENDS DiffLines

MCPaths == {"one.py", "two.py", "three.py"}
MCTexts == Oddities \cup {"plain"}

Edit == [mark : Marks, text : Oddities \cup {"plain"}]

\* Where a file is new or gone there are only lines of one mark and no line
\* of the other side to count from.
MCMarks(status) ==
  CASE status = "A" -> {"+"}
    [] status = "D" -> {"-"}
    [] OTHER        -> Marks

MCHunk(status, edits) ==
  [old |-> IF status = "A" THEN 0 ELSE 1, new |-> IF status = "D" THEN 0 ELSE 1,
   edits |-> edits]

MCHunks(status) ==
  LET Some == {e \in Edit : e.mark \in MCMarks(status)}
      First == {<<MCHunk(status, <<e>>)>> : e \in Some}
                 \cup {<<MCHunk(status, <<e, f>>)>> : e, f \in Some}
      Later == [old |-> 5, new |-> 7,
                edits |-> <<[mark |-> "-", text |-> "plain"], [mark |-> "+", text |-> "plain"]>>]
  IN  IF status \in {"A", "D"} THEN First \cup {<<>>}
      ELSE First \cup {<<>>} \cup {h \o <<Later>> : h \in First}

\* The shortest file that the hunks fit.
MCHead(hunks) ==
  LET lines == {l \in UNION {ToSet(NumberedHunk(hunks[h])) : h \in 1..Len(hunks)} : l.mark # "-"}
  IN  [k \in 1..Max({0} \cup {l.new : l \in lines}) |->
         IF \E l \in lines : l.new = k THEN (CHOOSE l \in lines : l.new = k).text ELSE "plain"]

MCChange(status, odd, hunks) ==
  [status |-> status, odd |-> odd, binary |-> FALSE, hunks |-> hunks, head |-> MCHead(hunks),
   old |-> IF status = "A" THEN NoPath ELSE "one.py",
   new |-> IF status = "D" THEN NoPath ELSE IF status = "R" THEN "two.py" ELSE "one.py"]

MCPatches ==
  LET single == {<<MCChange(s, FALSE, h)>> : s \in {"M"}, h \in MCHunks("M")}
      second == [MCChange("M", FALSE, <<MCHunk("M", <<[mark |-> " ", text |-> "plain"],
                                                      [mark |-> "+", text |-> "plain"]>>)>>)
                   EXCEPT !.old = "three.py", !.new = "three.py"]
      pairs  == UNION {{<<MCChange(s, odd, h), second>> : odd \in BOOLEAN, h \in MCHunks(s)} :
                         s \in {"A", "D", "R"}}
  IN  single \cup pairs

=============================================================================
