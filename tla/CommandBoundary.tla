-------------------------- MODULE CommandBoundary --------------------------
(***************************************************************************)
(* What run_command (runner.py) promises its caller, whatever boundary it  *)
(* uses: at most one verdict; project code may come and go before it; a    *)
(* verdict with a known exit code is given only when no project code runs, *)
(* and after it none runs again.  A verdict in doubt promises nothing but  *)
(* that it does not pass.                                                  *)
(***************************************************************************)

VARIABLES
  executing,  \* project code is running
  verdict     \* "none" until the call returns, then "known" or "doubt"

vars == <<executing, verdict>>

Init == executing = FALSE /\ verdict = "none"

StartCode ==
  /\ verdict # "known"
  /\ executing' = TRUE
  /\ UNCHANGED verdict

StopCode ==
  /\ executing
  /\ executing' = FALSE
  /\ UNCHANGED verdict

Answer ==
  /\ verdict = "none"
  /\ \/ verdict' = "known" /\ ~executing
     \/ verdict' = "doubt"
  /\ UNCHANGED executing

Next == StartCode \/ StopCode \/ Answer

Spec == Init /\ [][Next]_vars

\* A caller that holds a known exit code shares the machine with no project code.
KnownMeansQuiet == verdict = "known" => ~executing
=============================================================================
