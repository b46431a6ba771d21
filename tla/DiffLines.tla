----------------------------- MODULE DiffLines -----------------------------
(***************************************************************************)
(* How the lines of a patch reach the checks: Git prints the unified diff  *)
(* of a patch, parse_unified_diff (diffparse.py) reads it line by line,    *)
(* the engine compares the number of files with Git's own list of changes  *)
(* and align_file_diffs takes the paths from that list.                    *)
(*                                                                         *)
(* A line of the diff is kept as the beginning the parser looks at and     *)
(* what it takes from the line; a text is one of a few classes of text.    *)
(*                                                                         *)
(* External: Git's list of changes is right; the diff has the changes in   *)
(* the order of the list, each with a header, its hunks and their lines,   *)
(* every line after one character that says what it is; a path with        *)
(* unusual characters is shown in quotes.                                  *)
(***************************************************************************)
EXTENDS Integers, SequencesExt

CONSTANTS
  Patches,  \* the patches to be read: sequences of changes
  Paths,
  Texts,    \* the kinds of text a line can have
  NoPath, NoLine,
  Quoted,   \* an unusual path as the diff shows it
  Other     \* a path that no change has

\* Text that begins with two signs and a blank after the mark of a removed or
\* an added line, and text with a character inside (a form feed, say) at which
\* str.splitlines ends a line but Git does not, by what follows it.
Oddities == {"dashes", "pluses", "break-add", "break-file", "break-other"}

ASSUME TextAssumption == Oddities \cup {"plain"} \subseteq Texts

(***************************************************************************)
(* A change has Git's status, its paths, how the diff shows them, whether  *)
(* a version is binary, its hunks, which need not show all of the file,    *)
(* and the lines of the file after the change, as Git counts lines; a hunk *)
(* has the numbers of its first lines and its edits.                       *)
(***************************************************************************)
Marks   == {"+", "-", " "}
Hunks   == [old : Nat, new : Nat, edits : Seq([mark : Marks, text : Texts])]
Changes == [status : STRING, odd : BOOLEAN, binary : BOOLEAN, hunks : Seq(Hunks),
            head : Seq(Texts), old : Paths \cup {NoPath}, new : Paths \cup {NoPath}]

\* What the status says of the paths.
StatusFits(change) ==
  CASE change.status = "A" -> change.old = NoPath /\ change.new # NoPath
    [] change.status = "D" -> change.old # NoPath /\ change.new = NoPath
    [] change.status = "R" -> change.old # NoPath /\ change.new # NoPath
    [] OTHER               -> change.old = change.new /\ change.new # NoPath

ASSUME PatchAssumption ==
  /\ NoPath \notin Paths /\ NoLine \notin Nat
  /\ Patches \subseteq Seq(Changes)
  /\ \A changes \in Patches : \A i \in 1..Len(changes) : StatusFits(changes[i])

VARIABLES
  patch,
  pc,
  unread,    \* the lines of the diff not yet parsed
  files,     \* the FileDiffs so far; the last one is the current one
  oldLine, newLine,
  mismatch   \* the engine has found that the file counts differ

vars == <<patch, pc, unread, files, oldLine, newLine, mismatch>>

-----------------------------------------------------------------------------
(* What Git prints                                                         *)

Shown(change, path) ==
  IF path = NoPath THEN NoPath ELSE IF change.odd THEN Quoted ELSE path

\* The name both sides of "diff --git" have, whatever the status.
NameOf(change, side) ==
  Shown(change, IF change[side] # NoPath THEN change[side]
                ELSE change[IF side = "old" THEN "new" ELSE "old"])

\* One line of text may become two lines for the parser.
PrintedEdit(edit) ==
  LET lookalike == IF edit.mark = "-" /\ edit.text = "dashes" THEN "---"
                   ELSE IF edit.mark = "+" /\ edit.text = "pluses" THEN "+++"
                   ELSE "no"
      first == IF lookalike = "no" THEN [start |-> edit.mark, text |-> edit.text]
               ELSE [start |-> lookalike, path |-> Other]
      rest  == IF edit.text = "break-add" THEN <<[start |-> "+", text |-> "plain"]>>
               ELSE IF edit.text = "break-file"
                 THEN <<[start |-> "diff", old |-> Other, new |-> Other]>>
               ELSE IF edit.text = "break-other" THEN <<[start |-> "other"]>>
               ELSE <<>>
  IN  <<first>> \o rest

PrintedHunk(hunk) ==
  <<[start |-> "@@", old |-> hunk.old, new |-> hunk.new]>>
    \o FlattenSeq([i \in 1..Len(hunk.edits) |-> PrintedEdit(hunk.edits[i])])

PrintedChange(change) ==
  <<[start |-> "diff", old |-> NameOf(change, "old"), new |-> NameOf(change, "new")],
    [start |-> "other"]>>
    \o (IF change.hunks = <<>> THEN <<>>
        ELSE <<[start |-> "---", path |-> Shown(change, change.old)],
               [start |-> "+++", path |-> Shown(change, change.new)]>>)
    \o FlattenSeq([i \in 1..Len(change.hunks) |-> PrintedHunk(change.hunks[i])])

Diff(changes) == FlattenSeq([i \in 1..Len(changes) |-> PrintedChange(changes[i])])

EditsOf(change) ==
  FlattenSeq([i \in 1..Len(change.hunks) |-> change.hunks[i].edits])

\* Git's list of changes, as changed_files returns it: a binary file has no
\* line counts, which the sums take for zero.
ChangedFile(change) ==
  LET edits == EditsOf(change)
      Count(mark) == IF change.binary THEN 0
                     ELSE Cardinality({k \in 1..Len(edits) : edits[k].mark = mark})
  IN  [status  |-> change.status,
       path    |-> IF change.status = "D" THEN change.old ELSE change.new,
       oldPath |-> IF change.status = "R" THEN change.old ELSE NoPath,
       binary  |-> change.binary,
       added   |-> Count("+"),
       deleted |-> Count("-")]

-----------------------------------------------------------------------------

Init ==
  /\ patch \in Patches
  /\ pc = "parse"
  /\ unread = Diff(patch)
  /\ files = <<>>
  /\ oldLine = NoLine
  /\ newLine = NoLine
  /\ mismatch = FALSE

(***************************************************************************)
(* parse_unified_diff: the first test that fits a line decides.            *)
(***************************************************************************)
Line == Head(unread)

Reading(starts) ==
  /\ pc = "parse" /\ unread # <<>>
  /\ Line.start \in starts
  /\ unread' = Tail(unread)
  /\ UNCHANGED <<patch, pc, mismatch>>

InHunk == oldLine # NoLine /\ newLine # NoLine

\* A new file: a line before the first one is of no interest.
ReadFile ==
  /\ Reading({"diff"})
  /\ files' = Append(files, [old |-> Line.old, new |-> Line.new, lines |-> <<>>])
  /\ oldLine' = NoLine /\ newLine' = NoLine

\* Whether or not a hunk has begun.
ReadPath ==
  /\ Reading({"---", "+++"})
  /\ files' = IF Line.start = "---" THEN [files EXCEPT ![Len(files)].old = Line.path]
              ELSE [files EXCEPT ![Len(files)].new = Line.path]
  /\ UNCHANGED <<oldLine, newLine>>

\* Mutant: only the first hunk of a file sets the line numbers.
ReadFirstHunk ==
  /\ Reading({"@@"})
  /\ IF InHunk THEN UNCHANGED <<oldLine, newLine>>
     ELSE oldLine' = Line.old /\ newLine' = Line.new
  /\ UNCHANGED files

\* Mutant: the old line number is left to the header of the file.
ReadHunkNew ==
  /\ Reading({"@@"})
  /\ newLine' = Line.new
  /\ UNCHANGED <<files, oldLine>>

ReadHunk ==
  /\ Reading({"@@"})
  /\ oldLine' = Line.old
  /\ newLine' = Line.new
  /\ UNCHANGED files

ReadEdit ==
  /\ Reading(Marks)
  /\ InHunk
  /\ LET mark == Line.start
     IN  /\ files' = [files EXCEPT ![Len(files)].lines =
                        Append(@, [mark |-> mark, text |-> Line.text,
                                   old  |-> IF mark = "+" THEN NoLine ELSE oldLine,
                                   new  |-> IF mark = "-" THEN NoLine ELSE newLine])]
         /\ oldLine' = IF mark = "+" THEN oldLine ELSE oldLine + 1
         /\ newLine' = IF mark = "-" THEN newLine ELSE newLine + 1

\* Index and mode lines, a missing newline, and lines outside of a hunk.
SkipLine ==
  /\ Reading({"other"} \cup IF InHunk THEN {} ELSE Marks)
  /\ UNCHANGED <<files, oldLine, newLine>>

EndOfDiff ==
  /\ pc = "parse" /\ unread = <<>>
  /\ pc' = "reconcile"
  /\ UNCHANGED <<patch, unread, files, oldLine, newLine, mismatch>>

-----------------------------------------------------------------------------

\* PL-GIT-003
Reconcile ==
  /\ pc = "reconcile"
  /\ pc' = "align"
  /\ mismatch' = (Len(files) # Len(patch))
  /\ UNCHANGED <<patch, unread, files, oldLine, newLine>>

\* Mutant: the paths of a deleted file are those of a modified one.
NeverDeleted(file, changed) ==
  IF changed.status = "A" THEN [file EXCEPT !.old = NoPath, !.new = changed.path]
  ELSE [file EXCEPT !.old = IF changed.oldPath # NoPath THEN changed.oldPath ELSE changed.path,
                    !.new = changed.path]

Aligned(file, changed) ==
  IF changed.status = "A" THEN [file EXCEPT !.old = NoPath, !.new = changed.path]
  ELSE IF changed.status = "D" THEN [file EXCEPT !.old = changed.path, !.new = NoPath]
  ELSE [file EXCEPT !.old = IF changed.oldPath # NoPath THEN changed.oldPath ELSE changed.path,
                    !.new = changed.path]

Align ==
  /\ pc = "align"
  /\ pc' = "done"
  /\ files' = IF Len(files) # Len(patch) THEN files
              ELSE [i \in 1..Len(files) |-> Aligned(files[i], ChangedFile(patch[i]))]
  /\ UNCHANGED <<patch, unread, oldLine, newLine, mismatch>>

Next ==
  \/ ReadFile \/ ReadPath \/ ReadHunk \/ ReadEdit \/ SkipLine \/ EndOfDiff
  \/ Reconcile \/ Align

Spec == Init /\ [][Next]_vars

-----------------------------------------------------------------------------
(* Properties                                                              *)

\* Every variable holds a value the program can store.
TypeOK ==
  /\ pc \in {"parse", "reconcile", "align", "done", "checked"}
  /\ IsSuffix(unread, Diff(patch))
  /\ {oldLine, newLine} \subseteq Nat \cup {NoLine}
  /\ (oldLine = NoLine) = (newLine = NoLine)
  /\ \A i \in 1..Len(files) : \A k \in 1..Len(files[i].lines) :
       LET line == files[i].lines[k]
       IN  /\ line.mark \in Marks /\ line.text \in Texts
           /\ (line.old = NoLine) = (line.mark = "+")
           /\ (line.new = NoLine) = (line.mark = "-")
  /\ mismatch \in BOOLEAN

Ordinary(change) ==
  \A h \in 1..Len(change.hunks) : \A e \in 1..Len(change.hunks[h].edits) :
    change.hunks[h].edits[e].text \notin Oddities

\* The lines a reader of the hunk would number, without looking at any other.
NumberedHunk(hunk) ==
  LET Before(i, mark) == Cardinality({k \in 1..(i - 1) : hunk.edits[k].mark # mark})
  IN  [i \in 1..Len(hunk.edits) |->
         LET edit == hunk.edits[i]
         IN  [mark |-> edit.mark, text |-> edit.text,
              old  |-> IF edit.mark = "+" THEN NoLine ELSE hunk.old + Before(i, "+"),
              new  |-> IF edit.mark = "-" THEN NoLine ELSE hunk.new + Before(i, "-")]]

NumberedLines(change) ==
  FlattenSeq([h \in 1..Len(change.hunks) |-> NumberedHunk(change.hunks[h])])

\* The checks see a change without lookalikes and odd line ends exactly as it
\* is, line for line and number for number, whatever the changes before it in
\* the patch have, as long as the engine does not deny the patch for its file
\* count.
OrdinaryChangeIsExact ==
  pc = "done" /\ ~mismatch =>
    \A i \in 1..Len(patch) : Ordinary(patch[i]) => files[i].lines = NumberedLines(patch[i])

\* Every file the checks see has the paths of the change it came from, also
\* when Git quotes them or a removed or added line looks like a path header;
\* otherwise the patch is denied.
PathsAreGits ==
  pc = "done" /\ ~mismatch =>
    /\ Len(files) = Len(patch)
    /\ \A i \in 1..Len(patch) : files[i].old = patch[i].old /\ files[i].new = patch[i].new

\* README.md says the rules cover mismatches between Git's metadata and the
\* parsed diff: a patch whose added lines were not all parsed is not taken on.
MismatchIsFound ==
  pc = "done" /\ ~mismatch =>
    \A i \in 1..Len(patch) : ~patch[i].binary =>
      Len(SelectSeq(files[i].lines, LAMBDA line : line.mark = "+"))
        = ChangedFile(patch[i]).added

=============================================================================
