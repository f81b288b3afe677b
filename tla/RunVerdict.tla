----------------------------- MODULE RunVerdict -----------------------------
(***************************************************************************)
(* What the Rollout controller relies on when it gates a step on an        *)
(* AnalysisRun: the run is open until it gets one verdict, which stands.   *)
(***************************************************************************)
CONSTANT Verdicts

VARIABLE phase

Init == phase = "Running"

Conclude ==
  /\ phase = "Running"
  /\ phase' \in Verdicts

Spec == Init /\ [][Conclude]_phase
=============================================================================
