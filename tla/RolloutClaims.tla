--------------------------- MODULE RolloutClaims ---------------------------
(***************************************************************************)
(* What the documentation and the comments say of the Rollout controller   *)
(* and the code does not do.  Each of these is violated by a run; the      *)
(* README says what the counterexample shows.                              *)
(***************************************************************************)
EXTENDS RolloutSystem

(* A completed Rollout stays Healthy until its spec changes                 *)
(* (docs/operations.md, the terminal phases of the alert).                  *)
HealthyIsTerminal ==
  [][obj.st.phase = "Healthy" /\ obj'.spec = obj.spec => obj'.st.phase = "Healthy"]_vars

(* An abort scales the canary to zero and sets the phase Aborted            *)
(* (docs/operations.md): both are reached, for good.                        *)
AbortSettles ==
  <>[](obj.spec.abort) =>
     <>[](rs[obj.spec.tmpl].replicas = 0 /\ obj.st.phase = "Aborted")

(* An analysis step is passed on the verdict of a run that was made for     *)
(* the revision being rolled out (the comment above analysisRunName).       *)
VerdictIsOfThisRevision ==
  [][\A i \in Active(obj) : Leaves(i) /\ Plan[i].kind = "analysis" =>
       judged[analysisRunName(obj)] = obj.spec.tmpl]_vars

(* A pause without a duration is left once the user has promoted it by      *)
(* clearing the pauseConditions it entered, unless an abort comes first     *)
(* (the comments above runPause and on PauseStep).                          *)
PauseIsPromoted ==
  \A n \in StepNames :
    (\E i \in Active(obj) : /\ Plan[i].name = n
                            /\ Plan[i].kind = "pause" /\ ~Plan[i].timed
                            /\ obj.st.phase = "Paused" /\ obj.st.pause = None)
      ~> (obj.st.step # n \/ obj.spec.abort)
=============================================================================
