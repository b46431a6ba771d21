---------------------------- MODULE PolicyChecks ----------------------------
(***************************************************************************)
(* The policy checks (checks/): what run_checks reports on the changed     *)
(* files and on the lines that DiffLines brings to it.                     *)
(*                                                                         *)
(* A regular expression is the set of texts it matches, a path the kinds   *)
(* of path it is; a finding has its rule, file, line and the part of its   *)
(* message that depends on the line.  Severity, evidence and advice follow *)
(* from the rule and are left out, as is its disposition: what the policy  *)
(* makes of the findings is VerificationEngine's RuleFindings.             *)
(***************************************************************************)
EXTENDS DiffLines

CONSTANTS
  Limits,   \* limits of a policy: [files, added, deleted], and the allowed paths
  KindsOf,  \* [Paths -> SUBSET PathKinds]
  ShownBy,  \* [Texts -> SUBSET Patterns]
  Indent,   \* [Texts -> Nat], indentation in a workflow
  NoText

PathKinds == {"workflow", "manifest", "sensitive", "generated", "source", "test"}

Patterns ==
  {"write-permission", "privileged-trigger", "persist-true", "persist-false",
   "continue-on-error", "remote-script", "checkout", "mutable-action", "list-item",
   "private-key", "secret-log", "token", "placeholder", "network", "comment",
   "assertion", "skip", "suppression"}

ASSUME CheckAssumption ==
  /\ Limits \subseteq [files : Nat, added : Nat, deleted : Nat, allowed : SUBSET Paths]
  /\ KindsOf \in [Paths -> SUBSET PathKinds]
  /\ ShownBy \in [Texts -> SUBSET Patterns]
  /\ Indent \in [Texts -> Nat]
  /\ NoText \notin Texts

VARIABLES
  limits,   \* the limits in force
  findings  \* what run_checks returned

checkVars == <<vars, limits, findings>>

-----------------------------------------------------------------------------
(* What the checks are given: CheckContext                                 *)

Changed == {ChangedFile(patch[i]) : i \in 1..Len(patch)}

Is(path, kind) == path \in DOMAIN KindsOf /\ kind \in KindsOf[path]

\* External: a diff has the lines that the file has after the change, with their
\* numbers there, and a file is one thing after the patch.
ASSUME HeadAssumption ==
  \A changes \in Patches : \A i \in 1..Len(changes) :
    /\ \A l \in ToSet(NumberedLines(changes[i])) :
         l.mark # "-" => l.new \in 1..Len(changes[i].head) /\ changes[i].head[l.new] = l.text
    /\ \A j \in 1..Len(changes) :
         changes[i].new # NoPath /\ changes[j].new = changes[i].new =>
           changes[j].head = changes[i].head

\* External: the lists within a step are indented deeper than its checkout.
ASSUME WorkflowAssumption ==
  \A s, t \in Texts :
    "checkout" \in ShownBy[s] /\ "list-item" \in ShownBy[t] /\ Indent[t] # 0 =>
      Indent[s] < Indent[t]

Path(file) == IF file.new # NoPath THEN file.new ELSE file.old

LinesWith(mark, numbered) ==
  UNION {{[file |-> Path(file), line |-> line[numbered], text |-> line.text] :
            line \in {l \in ToSet(file.lines) : l.mark = mark}} : file \in ToSet(files)}

Additions == LinesWith("+", "new")
Deletions == LinesWith("-", "old")

Showing(lines, pattern) == {l \in lines : pattern \in ShownBy[l.text]}
InFiles(lines, kind)    == {l \in lines : Is(l.file, kind)}

FileFindings(rule, changes) ==
  {[rule |-> rule, file |-> c.path, line |-> NoLine, message |-> NoText] : c \in changes}

LineFindings(rule, lines) ==
  {[rule |-> rule, file |-> l.file, line |-> l.line, message |-> NoText] : l \in lines}

\* The message names what is on the line, or is not the only one of its rule.
QuotedFindings(rule, lines) ==
  {[rule |-> rule, file |-> l.file, line |-> l.line, message |-> l.text] : l \in lines}

PatchFinding(rule, found) ==
  IF found THEN {[rule |-> rule, file |-> NoPath, line |-> NoLine, message |-> NoText]} ELSE {}

-----------------------------------------------------------------------------
(* scope.py                                                                *)

\* Mutant: the lines are those that were parsed.
ParsedTotal(count) ==
  Cardinality(IF count = "added" THEN Additions ELSE Deletions)

\* Sums over the list of changes, in which a path may be of several changes.
Total(count) == FoldLeft(LAMBDA sum, change : sum + ChangedFile(change)[count], 0, patch)

ScopeFindings ==
  PatchFinding("PL-SCOPE-001", Len(patch) > limits.files)
    \cup PatchFinding("PL-SCOPE-002", Total("added") > limits.added)
    \cup PatchFinding("PL-SCOPE-003", Total("deleted") > limits.deleted)
    \cup FileFindings("PL-SCOPE-004", {c \in Changed : c.path \notin limits.allowed})
    \cup FileFindings("PL-SCOPE-005", {c \in Changed : c.binary})
    \cup FileFindings("PL-SCOPE-006", {c \in Changed : Is(c.path, "generated")})

(* dependencies.py *)

DependencyFindings ==
  FileFindings("PL-DEPS-001", {c \in Changed : Is(c.path, "manifest")})

-----------------------------------------------------------------------------
(* workflows.py                                                            *)

Workflows == {c \in Changed : Is(c.path, "workflow")}

InWorkflows == {l \in Additions : l.file \in {c.path : c \in Workflows}}

\* file_at the head commit, by itself and whole, whatever of it the diff shows.
InHead(path) == \E i \in 1..Len(patch) : patch[i].new = path

\* The texts at which splitlines ends a line but Git does not.
Breaks == {"break-add", "break-file", "break-other"}

\* The lines splitlines makes of the file.
HeadFile(path) ==
  LET head == (CHOOSE c \in ToSet(patch) : c.new = path).head
  IN  FlattenSeq([k \in 1..Len(head) |->
                    IF head[k] \in Breaks THEN <<head[k], "plain">> ELSE <<head[k]>>])

\* Mutant: the setting is looked for to the end of the file.
SettingAnywhere(lines, number) ==
  /\ number \in 1..Len(lines)
  /\ \E k \in (number + 1)..Len(lines) :
       ShownBy[lines[k]] \cap {"persist-true", "persist-false"} # {}

\* _checkout_setting: is there a setting between the line and the next item
\* that is not indented any further?
CheckoutSetting(lines, number) ==
  LET EndsStep(k) == /\ Indent[lines[k]] <= Indent[lines[number]]
                     /\ "list-item" \in ShownBy[lines[k]]
  IN  /\ number \in 1..Len(lines)
      /\ \E k \in (number + 1)..Len(lines) :
           /\ ShownBy[lines[k]] \cap {"persist-true", "persist-false"} # {}
           /\ \A j \in (number + 1)..k : ~EndsStep(j)

Unset(lines) ==
  {l \in lines : InHead(l.file) /\ ~CheckoutSetting(HeadFile(l.file), l.line)}

WorkflowFindings ==
  FileFindings("PL-GHA-001", Workflows)
    \cup QuotedFindings("PL-GHA-002", Showing(InWorkflows, "write-permission"))
    \cup LineFindings("PL-GHA-003", Showing(InWorkflows, "privileged-trigger"))
    \cup LineFindings("PL-GHA-004", Showing(InWorkflows, "persist-true"))
    \cup LineFindings("PL-GHA-005", Showing(InWorkflows, "continue-on-error"))
    \cup LineFindings("PL-GHA-006", Showing(InWorkflows, "remote-script"))
    \cup QuotedFindings("PL-GHA-004", Unset(Showing(InWorkflows, "checkout")))
    \cup QuotedFindings("PL-GHA-007", Showing(InWorkflows, "mutable-action"))

-----------------------------------------------------------------------------
(* secrets.py, network.py, tests.py                                        *)

SecretFindings ==
  FileFindings("PL-SECRET-001", {c \in Changed : Is(c.path, "sensitive")})
    \cup LineFindings("PL-SECRET-002", Showing(Additions, "private-key"))
    \cup LineFindings("PL-SECRET-003", Showing(Additions, "secret-log"))
    \cup LineFindings("PL-SECRET-004",
                      Showing(Additions, "token") \ Showing(Additions, "placeholder"))

\* At most one for a line.
NetworkFindings ==
  LET candidates == InFiles(Additions, "source") \ Showing(Additions, "comment")
  IN  QuotedFindings("PL-NET-001", Showing(candidates, "network"))

TestFindings ==
  FileFindings("PL-TEST-001", {c \in Changed : c.status = "D" /\ Is(c.path, "test")})
    \cup LineFindings("PL-TEST-002", Showing(InFiles(Deletions, "test"), "assertion"))
    \cup LineFindings("PL-TEST-003", Showing(InFiles(Additions, "test"), "skip"))
    \cup LineFindings("PL-TEST-004", Showing(Additions, "suppression"))

-----------------------------------------------------------------------------

\* Mutant: one finding of a rule for each file.
KeyWithoutLine(finding) == <<finding.rule, finding.file, finding.message>>

KeyOf(finding) == <<finding.rule, finding.file, finding.line, finding.message>>

Deduplicated(found) ==
  {CHOOSE f \in found : KeyOf(f) = key : key \in {KeyOf(f) : f \in found}}

CheckInit ==
  /\ Init
  /\ limits \in Limits
  /\ findings = {}

RunChecks ==
  /\ pc = "done"
  /\ pc' = "checked"
  /\ findings' = Deduplicated(ScopeFindings \cup DependencyFindings \cup WorkflowFindings
                                \cup SecretFindings \cup NetworkFindings \cup TestFindings)
  /\ UNCHANGED <<patch, unread, files, oldLine, newLine, mismatch, limits>>

CheckNext ==
  \/ RunChecks
  \/ Next /\ UNCHANGED <<limits, findings>>

CheckSpec == CheckInit /\ [][CheckNext]_checkVars

-----------------------------------------------------------------------------
(* Properties                                                              *)

\* docs/RULES.md, rule by rule: on which lines of which files, showing what.
Catalogue ==
  {<<"PL-GHA-002", "+", "workflow", "write-permission">>,
   <<"PL-GHA-003", "+", "workflow", "privileged-trigger">>,
   <<"PL-GHA-004", "+", "workflow", "persist-true">>,
   <<"PL-GHA-005", "+", "workflow", "continue-on-error">>,
   <<"PL-GHA-006", "+", "workflow", "remote-script">>,
   <<"PL-GHA-007", "+", "workflow", "mutable-action">>,
   <<"PL-SECRET-002", "+", "any", "private-key">>,
   <<"PL-SECRET-003", "+", "any", "secret-log">>,
   <<"PL-SECRET-004", "+", "any", "token">>,
   <<"PL-NET-001", "+", "source", "network">>,
   <<"PL-TEST-002", "-", "test", "assertion">>,
   <<"PL-TEST-003", "+", "test", "skip">>,
   <<"PL-TEST-004", "+", "any", "suppression">>}

\* What exempts a line from a rule.
Exempt(rule, text) ==
  \/ rule = "PL-SECRET-004" /\ "placeholder" \in ShownBy[text]
  \/ rule = "PL-NET-001" /\ "comment" \in ShownBy[text]

NameOfChange(change) == IF change.new # NoPath THEN change.new ELSE change.old

\* What the catalogue says of a change by itself.
Expected(change) ==
  UNION {{<<r[1], NameOfChange(change), IF r[2] = "+" THEN l.new ELSE l.old>> :
            r \in {r \in Catalogue :
                     /\ r[2] = l.mark
                     /\ r[3] = "any" \/ Is(NameOfChange(change), r[3])
                     /\ r[4] \in ShownBy[l.text] /\ ~Exempt(r[1], l.text)}} :
         l \in ToSet(NumberedLines(change))}

IsDefault(finding) == finding.rule = "PL-GHA-004" /\ finding.message # NoText

AllOrdinary == \A i \in 1..Len(patch) : Ordinary(patch[i])

\* Every line of a patch of ordinary changes that a rule of the catalogue
\* speaks of is reported once, under the name of its file after the change and
\* its number there (a removed line: its number before), and no other line is;
\* through parsing, numbering, alignment and the removal of duplicates.
FindingsAreExact ==
  pc = "checked" /\ ~mismatch /\ AllOrdinary =>
    {<<f.rule, f.file, f.line>> : f \in {g \in findings : g.line # NoLine /\ ~IsDefault(g)}}
      = UNION {Expected(patch[i]) : i \in 1..Len(patch)}

\* The limits of a policy are kept for what Git counts, whatever the parser
\* makes of the diff: lines it lost or read twice neither hide a patch that is
\* too large nor deny one that is not.
LimitsAreGits ==
  pc = "checked" =>
    LET Edits(mark) ==
          UNION {{<<i, k>> : k \in {k \in 1..Len(EditsOf(patch[i])) :
                                     EditsOf(patch[i])[k].mark = mark}} :
                   i \in {i \in 1..Len(patch) : ~patch[i].binary}}
        Denied(rule) == \E f \in findings : f.rule = rule
    IN  /\ Denied("PL-SCOPE-001") = (Len(patch) > limits.files)
        /\ Denied("PL-SCOPE-002") = (Cardinality(Edits("+")) > limits.added)
        /\ Denied("PL-SCOPE-003") = (Cardinality(Edits("-")) > limits.deleted)

\* A step of a workflow reaches from its item to the next one of the job.
StepOf(lines, k) ==
  LET Item(j) == "list-item" \in ShownBy[lines[j]] /\ Indent[lines[j]] = 0
  IN  {j \in 1..Len(lines) :
         IF j <= k THEN \A i \in (j + 1)..k : ~Item(i) ELSE \A i \in (k + 1)..j : ~Item(i)}

\* splitlines and Git agree on the lines of the file after the change.
EvenHead(change) == \A k \in 1..Len(change.head) : change.head[k] \notin Breaks

\* A checkout that an ordinary change adds to a workflow without odd line ends,
\* in any hunk of it, is judged by its own step in the head revision, found by
\* the number the parser gave its line: it is reported when its step has no
\* setting at all, never when a setting follows in the step, be it in the diff
\* or not, and the settings of other steps do not count.
CheckoutIsJudgedByItsStep ==
  pc = "checked" /\ ~mismatch =>
    \A i \in 1..Len(patch) :
      Is(patch[i].new, "workflow") /\ Ordinary(patch[i]) /\ EvenHead(patch[i]) =>
      LET lines == patch[i].head
          Set(k) == ShownBy[lines[k]] \cap {"persist-true", "persist-false"} # {}
          Reported(k) == \E f \in findings : /\ IsDefault(f) /\ f.file = patch[i].new
                                             /\ f.line = k
      IN  \A l \in ToSet(NumberedLines(patch[i])) :
            l.mark = "+" /\ "checkout" \in ShownBy[l.text] =>
              /\ (\A k \in StepOf(lines, l.new) : ~Set(k)) => Reported(l.new)
              /\ (\E k \in StepOf(lines, l.new) : k > l.new /\ Set(k)) => ~Reported(l.new)

=============================================================================
