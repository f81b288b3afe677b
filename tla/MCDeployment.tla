---------------------------- MODULE MCDeployment ----------------------------
(***************************************************************************)
(* The deployment controller on small instances.                           *)
(***************************************************************************)
EXTENDS DeploymentSystem

Rolling1 ==
  [strategy |-> "RollingUpdate", size |-> 1, history |-> 1, broken |-> {},
   edits |-> {"template"}, maxEdits |-> 2, faults |-> {}, maxFaults |-> 0]
Rolling2 == [Rolling1 EXCEPT !.size = 2]
Recreate1 == [Rolling1 EXCEPT !.strategy = "Recreate"]
Recreate2 == [Recreate1 EXCEPT !.size = 2]

Faulty(s, kinds) == [s EXCEPT !.maxEdits = 1, !.faults = kinds, !.maxFaults = 1]

(* What the users of a Deployment ask for, without faults ...               *)
EditScenarios ==
  {[Rolling2 EXCEPT !.edits = {"template", "scale"}],
   [Rolling2 EXCEPT !.edits = {"template", "paused"}, !.history = 0],
   [Rolling1 EXCEPT !.edits = {"template", "rollback"}],
   [Rolling1 EXCEPT !.edits = {"template", "delete"}],
   [Recreate1 EXCEPT !.edits = {"template", "rollback", "paused"}],
   [Recreate2 EXCEPT !.edits = {"template", "scale"}]}

(* ... one change of the template with a fault at any point ...             *)
FaultScenarios ==
  {Faulty([Rolling1 EXCEPT !.edits = {"template", "scale"}, !.history = 0], {"stall"}),
   Faulty(Rolling2, FaultKinds \ {"stall"}),
   Faulty(Recreate2, FaultKinds)}

(* ... and templates whose pods never become available.                     *)
StuckScenarios ==
  {[s EXCEPT !.broken = {"v2"}] :
     s \in {Rolling2, Recreate2, Faulty(Rolling2, {"pod", "quota", "create"})}}

MCScenarios == EditScenarios \cup FaultScenarios \cup StuckScenarios
=============================================================================
