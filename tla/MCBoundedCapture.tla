-------------------------- MODULE MCBoundedCapture --------------------------
(***************************************************************************)
(* BoundedCapture for TLC: limits below, at and above the stream length,   *)
(* odd and even, with the empty limit.                                     *)
(***************************************************************************)
EXTENDS BoundedCapture

MCLimits == 0 .. 6

=============================================================================
