----------------------------- MODULE MCNativeRun -----------------------------
(* NativeRun with two descendants that a command forks.                       *)
EXTENDS NativeRun

CONSTANTS k1, k2

MCKids == {k1, k2}
=============================================================================
