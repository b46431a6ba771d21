--------------------------- MODULE MCEvidenceStore ---------------------------
(* EvidenceStore with a few verification runs.                               *)
EXTENDS EvidenceStore

CONSTANTS r1, r2, r3, r4

MCRuns      == {r1, r2, r3, r4}
MCOutcomeOf == [run \in MCRuns |-> IF run = r3 THEN "fail" ELSE "pass"]

\* Small reports, reports of r2 at the limit of a member, and one of r4 that is
\* too large; three members at their limit fill the total, as in passport.py.
MCSizeOf ==
  [run \in MCRuns |->
     [file \in Reports |-> IF run \in {r1, r3} THEN 1
                           ELSE IF run = r2 \/ file # "json" THEN 2 ELSE 3]]

Alone(runs) == [runs |-> runs, overlapping |-> FALSE]
Pair(runs)  == [runs |-> runs, overlapping |-> TRUE]

MCSchedules == {Alone({r1, r2, r3}), Alone({r1, r4}), Pair({r1, r2}), Pair({r1, r3})}
MCPairs     == {Pair({r1, r2}), Pair({r1, r3})}
=============================================================================
