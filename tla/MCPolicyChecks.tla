--------------------------- MODULE MCPolicyChecks ---------------------------
(***************************************************************************)
(* PolicyChecks on the patches of MCDiffLines and on patches with every    *)
(* kind of text in every kind of file.                                     *)
(***************************************************************************)
EXTENDS PolicyChecks, MCDiffLines

MCCheckPaths ==
  MCPaths \cup {"ci.yml", "tests/t.py", "package.json", "dist/x.js", "id.pem", "notes"}

MCKindsOf ==
  [path \in MCCheckPaths |->
     CASE path \in MCPaths -> {"source"}
       [] path = "ci.yml"       -> {"workflow", "source"}
       [] path = "tests/t.py"   -> {"test", "source"}
       [] path = "package.json" -> {"manifest"}
       [] path = "dist/x.js"    -> {"generated", "source"}
       [] path = "id.pem"       -> {"sensitive"}
       [] OTHER                 -> {}]

\* Texts by what they show; those of a workflow's steps come last.
MCShown ==
  [write |-> {"write-permission"}, trigger |-> {"privileged-trigger"},
   carry_on |-> {"continue-on-error", "suppression"},
   pipe |-> {"remote-script", "network"}, key |-> {"private-key"},
   log |-> {"secret-log", "token"}, sample |-> {"token", "placeholder"},
   url |-> {"network"}, remark |-> {"network", "comment"},
   claim |-> {"assertion"}, skip |-> {"skip"},
   step |-> {"list-item"}, item_checkout |-> {"list-item", "checkout"},
   checkout |-> {"checkout", "mutable-action"}, other_action |-> {"list-item", "mutable-action"},
   keep |-> {"persist-true"}, drop |-> {"persist-false"}, entry |-> {"list-item"}]

MCCheckTexts == MCTexts \cup DOMAIN MCShown
MCShownBy == [text \in MCCheckTexts |-> IF text \in DOMAIN MCShown THEN MCShown[text] ELSE {}]
MCIndent ==
  [text \in MCCheckTexts |->
     CASE text \in {"step", "item_checkout", "other_action"} -> 0
       [] text = "checkout"                                  -> 1
       [] OTHER                                              -> 2]

MCLimits == {[files |-> f, added |-> 1, deleted |-> 0, allowed |-> {"one.py", "tests/t.py"}] :
               f \in {1, 2}}

MCOf(status, old, new, binary, edits) ==
  LET hunks == <<MCHunk(status, edits)>>
  IN  [status |-> status, odd |-> FALSE, binary |-> binary, old |-> old, new |-> new,
       hunks |-> hunks, head |-> MCHead(hunks)]

Added(text)   == [mark |-> "+", text |-> text]
Removed(text) == [mark |-> "-", text |-> text]
Kept(text)    == [mark |-> " ", text |-> text]

Telling == DOMAIN MCShown

\* One or two lines of any kind in files of any kind, new, changed, gone and
\* renamed (into or out of the tests).
MCRulePatches ==
  {<<MCOf("M", p, p, b, <<Removed(t), Added(u)>>)>> :
     p \in DOMAIN MCKindsOf, b \in BOOLEAN, t \in {"claim", "plain"}, u \in Telling}
    \cup {<<MCOf("A", NoPath, p, FALSE, <<Added(t), Added(u)>>)>> :
            p \in {"one.py", "tests/t.py", "notes"}, t \in Telling, u \in {"url", "key", "plain"}}
    \cup {<<MCOf("D", p, NoPath, FALSE, <<Removed(t)>>)>> : p \in DOMAIN MCKindsOf, t \in Telling}
    \cup {<<MCOf("R", p[1], p[2], FALSE, <<Kept("plain"), Removed("claim"), Added(t)>>),
            MCOf("A", NoPath, "notes", FALSE, <<Added("key")>>)>> :
            p \in {<<"one.py", "tests/t.py">>, <<"tests/t.py", "one.py">>}, t \in Telling}

\* Workflows of two or three steps of which any line may be new.
StepLines ==
  {<<"step", "checkout">>, <<"step", "checkout", "keep">>, <<"step", "drop", "checkout">>,
   <<"step", "entry", "checkout", "entry", "drop">>, <<"item_checkout", "drop">>,
   <<"item_checkout">>, <<"other_action">>, <<"other_action", "drop">>}

\* The hunks of a change that adds some of the lines of a file and takes one
\* away before them, with so many lines of context; steps are short here and so
\* is the context, which Git keeps at three.
MCWindows(lines, new, context) ==
  LET Near(j) == \E k \in new : j \in (k - context)..(k + context)
      starts  == {j \in 1..Len(lines) : Near(j) /\ (j = 1 \/ ~Near(j - 1))}
      End(j)  == Max({k \in j..Len(lines) : \A i \in j..k : Near(i)})
      Window(j) ==
        [old |-> j - Cardinality({k \in new : k < j}) + (IF j = Min(starts) THEN 0 ELSE 1),
         new |-> j,
         edits |-> (IF j = Min(starts) THEN <<Removed("plain")>> ELSE <<>>)
                     \o [k \in 1..(End(j) - j + 1) |->
                          LET i == j + k - 1
                          IN  IF i \in new THEN Added(lines[i]) ELSE Kept(lines[i])]]
  IN  [n \in 1..Cardinality(starts) |->
         Window(CHOOSE j \in starts : Cardinality({i \in starts : i <= j}) = n)]

MCWorkflowPatches ==
  UNION {{<<[status |-> "M", odd |-> FALSE, binary |-> FALSE, old |-> "ci.yml", new |-> "ci.yml",
             hunks |-> MCWindows(lines, new, context), head |-> lines]>> :
            new \in {new \in SUBSET (1..Len(lines)) : Cardinality(new) \in {1, 2}},
            context \in {0, 1, 10}} :
         lines \in {s \o t : s, t \in StepLines}}

MCAllPatches == MCPatches \cup MCRulePatches \cup MCWorkflowPatches
=============================================================================
