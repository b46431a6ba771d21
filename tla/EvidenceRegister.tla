-------------------------- MODULE EvidenceRegister --------------------------
(***************************************************************************)
(* What the evidence directory promises a reader of the bundle: it holds   *)
(* no bundle or the complete bundle of one verification run, and changes   *)
(* from one to the next in a single step.  A directory that runs share at  *)
(* the same time may also hold a bundle with members of several.           *)
(***************************************************************************)

CONSTANTS Runs, NoFile, Mixed

VARIABLES
  bundle,   \* the run whose bundle is in place, NoFile or Mixed
  shared    \* do runs overlap?

Init ==
  /\ bundle = NoFile
  /\ shared \in BOOLEAN

Publish(run) ==
  /\ bundle # run
  /\ bundle' = run
  /\ UNCHANGED shared

Mix ==
  /\ shared
  /\ bundle' = Mixed
  /\ UNCHANGED shared

Next == Mix \/ \E run \in Runs : Publish(run)

Spec == Init /\ [][Next]_<<bundle, shared>>
=============================================================================
