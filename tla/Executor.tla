------------------------------ MODULE Executor ------------------------------
(***************************************************************************)
(* The progression Executor (progression.go, steps.go): the handlers of    *)
(* the six kinds of step and the completion of a progression.  Every       *)
(* status write starts from the copy read at the top of the reconcile, so  *)
(* after one write that changed the object the next one is a conflict and  *)
(* the step is taken up again by a later reconcile.                        *)
(***************************************************************************)
EXTENDS Reconciler

(* resolveCurrentStep: the index of status.currentStep in the plan. *)
Active(o) == {i \in DOMAIN o.spec.plan : o.spec.plan[i].name = o.st.step}
Index(o) == CHOOSE i \in Active(o) : TRUE
Step(o) == o.spec.plan[Index(o)]

Executing(kind) ==
  /\ pc = "exec"
  /\ Active(ro) # {}
  /\ Step(ro).kind = kind

(* advanceStep: the status after the step at hand. *)
Advanced(o) ==
  IF Index(o) + 1 > Len(o.spec.plan)
  THEN [o.st EXCEPT !.step = None, !.stepOld = FALSE, !.phase = "Healthy"]
  ELSE [o.st EXCEPT !.step = o.spec.plan[Index(o) + 1].name, !.stepOld = FALSE,
                    !.pause = None, !.pauseOld = FALSE, !.phase = "Progressing"]

advanceStep == UpdateStatus(Advanced(ro), "idle")

(* The last call of the handlers that end with it. *)
Advance ==
  /\ pc = "advance"
  /\ advanceStep
  /\ UNCHANGED <<ro, rsVars, outside, timer, bounds>>

(* Result{RequeueAfter}: give up for now and come back by timer. *)
RequeueAfter ==
  /\ pc' = "idle"
  /\ timer' = TRUE
  /\ UNCHANGED <<rolloutVars, queued>>

-----------------------------------------------------------------------------
(***************************************************************************)
(* setWeight: route, verify, stamp currentWeight, advance.                 *)
(***************************************************************************)
RunSetWeight ==
  /\ Executing("setWeight")
  /\ \/ /\ Router = "none"
        /\ ReturnErr /\ UNCHANGED routerW
     \/ SetWeight(Step(ro).weight, IF VerifyWeight THEN "verify" ELSE "stamp")
  /\ UNCHANGED <<rolloutVars, ro, rsVars, svc, runs, judged, timer, bounds>>

(* VerifyWeight: read the weight back; the router may take a while to        *)
(* confirm it.                                                              *)
Verify ==
  /\ pc = "verify"
  /\ \/ /\ routerW = Step(ro).weight
        /\ pc' = "stamp"
        /\ UNCHANGED <<rolloutVars, timer, queued, faults>>
     \/ /\ routerW # Step(ro).weight
        /\ RequeueAfter
        /\ UNCHANGED faults
     \/ /\ routerW = Step(ro).weight /\ faults < MaxFaults
        /\ faults' = faults + 1
        /\ RequeueAfter
  /\ UNCHANGED <<ro, rsVars, outside, edits>>

(* Stamp status.currentWeight, on the server and in the local copy. *)
StampWeight(w, next) ==
  /\ \/ /\ ro.st.weight = w
        /\ pc' = next
        /\ UNCHANGED <<rolloutVars, queued>>
     \/ /\ ro.st.weight # w
        /\ UpdateStatus([ro.st EXCEPT !.weight = w], next)
  /\ ro' = [ro EXCEPT !.st.weight = w]
  /\ UNCHANGED <<rsVars, outside, timer, bounds>>

(* A stamp that is skipped: the step is left with the old weight. *)
StampNothing ==
  /\ pc = "stamp"
  /\ pc' = "advance"
  /\ UNCHANGED <<rolloutVars, ro, rsVars, outside, queued, timer, bounds>>

Stamp ==
  /\ pc = "stamp"
  /\ StampWeight(Step(ro).weight, "advance")

(***************************************************************************)
(* setCanaryScale: scale newRS to the step's target, advance.              *)
(***************************************************************************)
lastSetWeight(o) ==
  LET last == IF Active(o) = {} THEN Len(o.spec.plan) ELSE Index(o)
      set == {i \in 1..last : o.spec.plan[i].kind = "setWeight"}
  IN  IF set = {} THEN 0
      ELSE o.spec.plan[CHOOSE i \in set : \A j \in set : j <= i].weight

resolveCanaryScale(o) ==
  LET s == Step(o)
  IN  CASE s.by = "replicas" -> s.count
        [] s.by = "percent"  -> percentOf(o.spec.replicas, s.count)
        [] s.by = "match"    -> percentOf(o.spec.replicas, lastSetWeight(o))

RunSetCanaryScale ==
  /\ Executing("setCanaryScale")
  /\ scaleIfNeeded(T, resolveCanaryScale(ro), "advance")
  /\ UNCHANGED <<rolloutVars, ro, outside, timer, bounds>>

(***************************************************************************)
(* pause.                                                                  *)
(***************************************************************************)
Paused(s, reason) ==
  [s EXCEPT !.phase = "Paused", !.pause = reason, !.pauseOld = FALSE]

EnterPause ==
  /\ Executing("pause") /\ ro.st.pause = None
  /\ UpdateStatus([Paused(ro.st, "PausedStep") EXCEPT !.stepOld = FALSE], "idle")
  /\ timer' = (timer \/ (roCur /\ Step(ro).timed))
  /\ UNCHANGED <<ro, rsVars, outside, bounds>>

(* An indefinite pause does nothing; a timed one waits out its duration. *)
HoldPause ==
  /\ Executing("pause") /\ ro.st.pause # None
  /\ ~Step(ro).timed \/ ~ro.st.pauseOld
  /\ pc' = "idle"
  /\ timer' = (timer \/ Step(ro).timed)
  /\ UNCHANGED <<rolloutVars, ro, rsVars, outside, queued, bounds>>

(* A pause left before its duration has passed. *)
LeavePauseEarly ==
  /\ Executing("pause") /\ ro.st.pause # None
  /\ Step(ro).timed
  /\ advanceStep
  /\ UNCHANGED <<ro, rsVars, outside, timer, bounds>>

LeavePause ==
  /\ Executing("pause") /\ ro.st.pause # None
  /\ Step(ro).timed /\ ro.st.pauseOld
  /\ advanceStep
  /\ UNCHANGED <<ro, rsVars, outside, timer, bounds>>

-----------------------------------------------------------------------------
(***************************************************************************)
(* analysis: create the AnalysisRun or act on its phase.  The name is      *)
(* built from the step and status.currentPodHash.                          *)
(***************************************************************************)
analysisRunName(o) ==
  <<o.st.step, IF o.st.podHash = None THEN "initial" ELSE o.st.podHash>>

RunPhase == runs[analysisRunName(ro)]

CreateAnalysisRun ==
  /\ Executing("analysis") /\ RunPhase = "absent"
  /\ runs' = [runs EXCEPT ![analysisRunName(ro)] = "Running"]
  /\ judged' = [judged EXCEPT ![analysisRunName(ro)] = T]
  /\ RequeueAfter
  /\ UNCHANGED <<ro, rsVars, routerW, svc, bounds>>

AwaitAnalysisRun ==
  /\ Executing("analysis") /\ RunPhase = "Running"
  /\ RequeueAfter
  /\ UNCHANGED <<ro, rsVars, outside, bounds>>

(* recordAnalysisRun; writing the same summary again changes nothing. *)
RecordAnalysisRun ==
  /\ Executing("analysis") /\ RunPhase \in {"Successful", "Failed", "Error"}
  /\ UpdateStatus([ro.st EXCEPT !.recorded = @ \cup {analysisRunName(ro)}], "policy")
  /\ UNCHANGED <<ro, rsVars, outside, timer, bounds>>

(* A failed gate that only writes the status. *)
TriggerAbortStatusOnly == UpdateStatus(ro.st, "idle")

(* client.Update with spec.abort set: the status is a subresource, so the   *)
(* phase set beside it is not stored; the generation moves.                 *)
TriggerAbort ==
  Update([spec |-> [ro.spec EXCEPT !.abort = TRUE],
          st   |-> [ro.st EXCEPT !.observed = FALSE]], "idle")

(* A failed gate whose pause falls through to the next step. *)
AnalysisPolicyThrough ==
  /\ pc = "policy"
  /\ \/ RunPhase # "Successful" /\ Step(ro).onFailure = "Rollback" /\ TriggerAbort
     \/ ~(RunPhase # "Successful" /\ Step(ro).onFailure = "Rollback") /\ advanceStep
  /\ UNCHANGED <<ro, rsVars, outside, timer, bounds>>

(* applyAnalysisFailure *)
AnalysisPolicy ==
  LET policy == Step(ro).onFailure
  IN  /\ pc = "policy"
      /\ \/ RunPhase = "Successful" /\ advanceStep
         \/ /\ RunPhase # "Successful"
            /\ \/ policy = "Rollback" /\ TriggerAbort
               \/ policy = "Pause" /\ UpdateStatus(Paused(ro.st, "AnalysisFailed"), "idle")
               \/ policy = "Ignore" /\ advanceStep
      /\ UNCHANGED <<ro, rsVars, outside, timer, bounds>>

applyAnalysisInconclusive ==
  LET policy == Step(ro).onInconclusive
  IN  /\ Executing("analysis") /\ RunPhase = "Inconclusive"
      /\ \/ policy = "Abort" /\ TriggerAbort
         \/ policy = "Pause" /\ UpdateStatus(Paused(ro.st, "AnalysisInconclusive"), "idle")
         \/ policy = "Ignore" /\ advanceStep
      /\ UNCHANGED <<ro, rsVars, outside, timer, bounds>>

(* experiment is a stub that advances. *)
RunExperiment ==
  /\ Executing("experiment")
  /\ advanceStep
  /\ UNCHANGED <<ro, rsVars, outside, timer, bounds>>

-----------------------------------------------------------------------------
(***************************************************************************)
(* promote: router to 100, stamp, repoint the stable Services, scale the   *)
(* old ReplicaSets to zero, advance.                                       *)
(***************************************************************************)
(* A pause condition taken for the user's consent. *)
hasUserPromotionPaused(o) == o.st.pause # None \/ o.st.phase # "Paused"

hasUserPromotion(o) == o.st.pause = None /\ o.st.phase # "Paused"

Gated == AutoPromotion = "Manual" /\ ~hasUserPromotion(ro)

PromoteGated ==
  /\ Executing("promote") /\ Gated
  /\ \/ /\ ro.st.pause = None
        /\ UpdateStatus(Paused(ro.st, "AwaitingPromotion"), "idle")
     \/ /\ ro.st.pause # None
        /\ pc' = "idle"
        /\ UNCHANGED <<rolloutVars, queued>>
  /\ UNCHANGED <<ro, rsVars, outside, timer, bounds>>

PromoteBegin ==
  /\ Executing("promote") /\ ~Gated
  /\ \/ /\ AutoPromotion = "Disabled"
        /\ ReturnErr /\ UNCHANGED rolloutVars
     \/ /\ AutoPromotion # "Disabled"
        /\ \/ /\ ro.st.phase = "Promoting"
              /\ pc' = "promoteRoute"
              /\ UNCHANGED <<rolloutVars, queued>>
           \/ /\ ro.st.phase # "Promoting"
              /\ UpdateStatus([ro.st EXCEPT !.phase = "Promoting"], "promoteRoute")
  /\ UNCHANGED <<ro, rsVars, outside, timer, bounds>>

(* A promotion that leaves the route alone. *)
PromoteRouteNothing ==
  /\ pc = "promoteRoute"
  /\ pc' = "promoteStamp"
  /\ UNCHANGED <<rolloutVars, ro, rsVars, outside, queued, timer, bounds>>

(* A promotion that repoints the Services before it stamps the weight. *)
PromoteRouteUnstamped ==
  /\ pc = "promoteRoute"
  /\ SetWeightIfRouted(100, "repoint")
  /\ UNCHANGED <<rolloutVars, ro, rsVars, svc, runs, judged, timer, bounds>>

PromoteRoute ==
  /\ pc = "promoteRoute"
  /\ SetWeightIfRouted(100, "promoteStamp")
  /\ UNCHANGED <<rolloutVars, ro, rsVars, svc, runs, judged, timer, bounds>>

PromoteStamp ==
  /\ pc = "promoteStamp"
  /\ StampWeight(100, "repoint")

(* A loop over the Services that ends after the first. *)
RepointFirstService ==
  /\ pc = "repoint"
  /\ svc' = [i \in 1..NServices |-> IF i = 1 THEN T ELSE svc[i]]
  /\ pc' = "scaleDown"
  /\ UNCHANGED <<rolloutVars, ro, rsVars, routerW, runs, judged, queued, timer, bounds>>

(* repointServices: one Service at a time, in the order of the list. *)
RepointService ==
  /\ pc = "repoint"
  /\ \/ \E i \in 1..NServices :
           /\ svc[i] # T
           /\ \A j \in 1..(i - 1) : svc[j] = T
           /\ svc' = [svc EXCEPT ![i] = T]
           /\ UNCHANGED pc
     \/ /\ \A i \in 1..NServices : svc[i] = T
        /\ pc' = "scaleDown"
        /\ UNCHANGED svc
  /\ UNCHANGED <<rolloutVars, ro, rsVars, routerW, runs, judged, queued, timer, bounds>>

observedSpecReplicas(o) == o.st.desired = o.spec.replicas /\ o.st.observed

(* The HPA guard or scaleDownDelaySeconds puts the scale-down off. *)
DeferScaleDown ==
  /\ pc = "scaleDown"
  /\ \/ ~observedSpecReplicas(ro)
     \/ ScaleDownDelay /\ ~ro.st.stepOld
  /\ RequeueAfter
  /\ UNCHANGED <<ro, rsVars, outside, bounds>>

(* The loop over oldRSs.  A ReplicaSet it has passed is zeroed in lrs.      *)
scaleDownAfterDelay ==
  LET left == {u \in Old : lrs[u].replicas > 0}
  IN  /\ pc = "scaleDown"
      /\ observedSpecReplicas(ro)
      /\ ~ScaleDownDelay \/ ro.st.stepOld
      /\ \/ /\ left = {}
            /\ Goto("advance")
         \/ \E u \in left :
              /\ \A v \in left : lrs[u].born <= lrs[v].born
              /\ UpdateRS(u, [lrs[u] EXCEPT !.replicas = 0], "scaleDown")
              /\ lrs' = [lrs EXCEPT ![u].replicas = 0]
              /\ lrsCur' = lrsCur \ {u}
              /\ UNCHANGED <<fresh, births>>
      /\ UNCHANGED <<rolloutVars, ro, outside, timer, bounds>>

-----------------------------------------------------------------------------
(***************************************************************************)
(* finalize, when currentStep names no step of the plan: prune the         *)
(* ReplicaSet history, then mark the Rollout Healthy.                      *)
(***************************************************************************)
Rank(u) == Cardinality({v \in Old : \/ lrs[v].rev < lrs[u].rev
                                    \/ lrs[v].rev = lrs[u].rev /\ lrs[v].born < lrs[u].born})

(* cleanupDeployment decides on the copies read, and deletes by name.  A    *)
(* ReplicaSet of zero replicas and pods counts as observed by its           *)
(* controller.                                                              *)
Prunable ==
  {u \in Old : /\ Rank(u) < Cardinality(Old) - HistoryLimit
               /\ lrs[u].replicas = 0 /\ lrs[u].pods = 0}

PruneHistory ==
  /\ pc = "exec" /\ Active(ro) = {}
  /\ \E u \in Prunable :
       /\ rs[u].exists
       /\ \A v \in Prunable : rs[v].exists => Rank(u) <= Rank(v)
       /\ StoreRS(u, NoRS)
       /\ lrsCur' = lrsCur \ {u}
  /\ UNCHANGED <<rolloutVars, ro, lrs, fresh, births, outside, pc, queued, timer, bounds>>

FinalizeMark ==
  /\ pc = "exec" /\ Active(ro) = {}
  /\ \A u \in Prunable : ~rs[u].exists
  /\ \/ /\ ro.st.phase = "Healthy"
        /\ pc' = "idle"
        /\ UNCHANGED <<rolloutVars, queued>>
     \/ /\ ro.st.phase # "Healthy"
        /\ UpdateStatus([ro.st EXCEPT !.phase = "Healthy", !.pause = None,
                                      !.pauseOld = FALSE, !.podHash = T], "idle")
  /\ UNCHANGED <<ro, rsVars, outside, timer, bounds>>
=============================================================================
