--------------------------- MODULE RolloutSystem ---------------------------
(***************************************************************************)
(* The Rollout reconciler among what runs beside it: the user and the      *)
(* autoscaler, the informers, the ReplicaSet controller, the AnalysisRun   *)
(* controller, the clock, failed calls and restarts.                       *)
(***************************************************************************)
EXTENDS Executor

NewStatus ==
  [phase |-> None, step |-> None, weight |-> 0, pause |-> None, pauseOld |-> FALSE,
   stepOld |-> FALSE, desired |-> 0, observed |-> FALSE, podHash |-> None,
   recorded |-> {}, total |-> 0, updated |-> 0]

(* A Rollout has just been created and its event delivered. *)
Init ==
  /\ obj = [spec |-> [tmpl |-> FirstTmpl, replicas |-> FirstSize, paused |-> FALSE,
                      abort |-> FALSE, plan |-> FirstPlan],
            st   |-> NewStatus]
  /\ seen = obj /\ seenCur = TRUE
  /\ ro = obj /\ roCur = FALSE
  /\ rs = [t \in Tmpls |-> NoRS]
  /\ seenRS = rs /\ seenRSCur = Tmpls
  /\ lrs = rs /\ lrsCur = {} /\ fresh = {}
  /\ births = 0
  /\ routerW = 0
  /\ svc = [i \in 1..NServices |-> None]
  /\ runs = [n \in RunNames |-> "absent"]
  /\ judged = [n \in RunNames |-> None]
  /\ pc = "idle" /\ queued = TRUE /\ timer = FALSE
  /\ edits = 0 /\ faults = 0

-----------------------------------------------------------------------------
(* The informers catch up.  An event for the Rollout enqueues its key.      *)
Sync ==
  /\ ~seenCur
  /\ seen' = obj /\ seenCur' = TRUE
  /\ queued' = TRUE
  /\ UNCHANGED <<obj, ro, roCur, rsVars, outside, pc, timer, bounds>>

(* Owns(ReplicaSet) and mapPodToRollout enqueue the owner whose kind is     *)
(* Rollout.                                                                 *)
EnqueueOwner(t) ==
  queued' = (queued \/ rs[t].owner[1] = "Rollout")

SyncRS ==
  /\ seenRSCur # Tmpls
  /\ seenRS' = rs /\ seenRSCur' = Tmpls
  /\ UNCHANGED <<rolloutVars, ro, rs, lrs, lrsCur, fresh, births, outside, pc, queued, timer,
                  bounds>>

(* The ReplicaSet controller (external) creates or deletes pods. *)
RunPods(t) ==
  /\ rs[t].exists /\ rs[t].pods # rs[t].replicas
  /\ StoreRS(t, [rs[t] EXCEPT !.pods = rs[t].replicas])
  /\ lrsCur' = lrsCur \ {t}
  /\ EnqueueOwner(t)
  /\ UNCHANGED <<rolloutVars, ro, lrs, fresh, births, outside, pc, timer, bounds>>

(* The AnalysisRun controller ends a run. *)
Conclude(n) ==
  /\ runs[n] = "Running"
  /\ \E v \in Verdicts : runs' = [runs EXCEPT ![n] = v]
  /\ UNCHANGED <<rolloutVars, ro, rsVars, routerW, svc, judged, pc, queued, timer, bounds>>

(* Time passes: what was stamped before is now old, in every copy. *)
Aged(o, field) ==
  CASE field = "pauseOld" -> [o EXCEPT !.st.pauseOld = (o.st.pause # None)]
    [] field = "stepOld"  -> [o EXCEPT !.st.stepOld = (o.st.step # None)]

Clocks == {"pauseOld", "stepOld"}

Tick(field) ==
  /\ obj' = Aged(obj, field) /\ seen' = Aged(seen, field) /\ ro' = Aged(ro, field)
  /\ UNCHANGED <<seenCur, roCur, rsVars, outside, pc, queued, timer, bounds>>

TimerFires ==
  /\ timer
  /\ timer' = FALSE /\ queued' = TRUE
  /\ UNCHANGED <<rolloutVars, ro, rsVars, outside, pc, bounds>>

(* The informers' periodic resync (10 hours by default). *)
Resync ==
  /\ pc = "idle" /\ ~queued
  /\ queued' = TRUE
  /\ UNCHANGED <<rolloutVars, ro, rsVars, outside, pc, timer, bounds>>

(* A call fails, its answer is lost, or the controller restarts: the        *)
(* reconcile ends where it is and the key is queued again.                  *)
Interrupt ==
  /\ pc # "idle" /\ faults < MaxFaults
  /\ ReturnErr
  /\ faults' = faults + 1
  /\ UNCHANGED <<rolloutVars, ro, rsVars, outside, timer, edits>>

(* The user, or an autoscaler, writes the Rollout; a change of the spec     *)
(* moves the generation.                                                    *)
EditSpec(kind, new) ==
  /\ kind \in UserEdits /\ edits < MaxEdits
  /\ new # obj.spec
  /\ Store([spec |-> new, st |-> [obj.st EXCEPT !.observed = FALSE]])
  /\ edits' = edits + 1
  /\ UNCHANGED <<ro, rsVars, outside, pc, timer, faults>>

UserEdit ==
  \/ \E t \in Tmpls : EditSpec("template", [obj.spec EXCEPT !.tmpl = t])
  \/ \E n \in Sizes : EditSpec("scale", [obj.spec EXCEPT !.replicas = n])
  \/ \E b \in BOOLEAN : EditSpec("abort", [obj.spec EXCEPT !.abort = b])
  \/ \E b \in BOOLEAN : EditSpec("paused", [obj.spec EXCEPT !.paused = b])
  \/ \E p \in Plans : EditSpec("plan", [obj.spec EXCEPT !.plan = p])

(* The user clears status.pauseConditions. *)
ClearPause ==
  /\ "clear" \in UserEdits /\ edits < MaxEdits
  /\ obj.st.pause # None
  /\ Store([obj EXCEPT !.st.pause = None, !.st.pauseOld = FALSE])
  /\ edits' = edits + 1
  /\ UNCHANGED <<ro, rsVars, outside, pc, timer, faults>>

(* Somebody edits the route by hand. *)
MeshEdit ==
  /\ "mesh" \in UserEdits /\ edits < MaxEdits
  /\ routerW' \in {0, 100} \ {routerW}
  /\ edits' = edits + 1
  /\ UNCHANGED <<rolloutVars, ro, rsVars, svc, runs, judged, pc, queued, timer, faults>>

-----------------------------------------------------------------------------
Reconcile ==
  \/ Start \/ StartPaused
  \/ BumpRevision \/ FoundNewRS \/ CreateNewRS
  \/ ScaleCanary \/ ScaleStable \/ pushReplicaCounts
  \/ AbortRoute \/ AbortScale \/ AbortMark \/ InitStep
  \/ RunSetWeight \/ Verify \/ Stamp \/ Advance
  \/ RunSetCanaryScale
  \/ EnterPause \/ HoldPause \/ LeavePause
  \/ CreateAnalysisRun \/ AwaitAnalysisRun \/ RecordAnalysisRun
  \/ AnalysisPolicy \/ applyAnalysisInconclusive
  \/ RunExperiment
  \/ PromoteGated \/ PromoteBegin \/ PromoteRoute \/ PromoteStamp
  \/ RepointService \/ DeferScaleDown \/ scaleDownAfterDelay
  \/ PruneHistory \/ FinalizeMark

Environment ==
  \/ Sync \/ SyncRS \/ TimerFires \/ Resync \/ Interrupt
  \/ \E field \in Clocks : Tick(field)
  \/ \E t \in Tmpls : RunPods(t)
  \/ \E n \in RunNames : Conclude(n)

User == UserEdit \/ ClearPause \/ MeshEdit

Next == Reconcile \/ Environment \/ User

(***************************************************************************)
(* The work queue keeps a worker on every queued key, client-go redelivers *)
(* and resyncs, timers fire, time passes, and the ReplicaSet controller    *)
(* does its work.  Nothing is assumed of the user, nor that an analysis    *)
(* ends: a metric without conclusive samples runs for ever.                *)
(***************************************************************************)
Fairness ==
  /\ WF_vars(Reconcile)
  /\ WF_vars(Sync) /\ WF_vars(SyncRS)
  /\ WF_vars(TimerFires) /\ WF_vars(Resync)
  /\ \A field \in Clocks : WF_vars(Tick(field))
  /\ \A t \in Tmpls : WF_vars(RunPods(t))

SafetySpec == Init /\ [][Next]_vars
Spec == SafetySpec /\ Fairness

-----------------------------------------------------------------------------
(***************************************************************************)
(* Properties.                                                             *)
(***************************************************************************)
Plan == obj.spec.plan

(* The weight a step gives the canary, for the kinds that set one. *)
Bears(p, i) == p[i].kind \in {"setWeight", "promote"}
Target(p, i) == IF p[i].kind = "promote" THEN 100 ELSE p[i].weight

(* The weights that steps before i may have left: the last one that sets a  *)
(* weight or, if none does, what the Rollout began with: nothing, or the    *)
(* last weight of the progression it ran before.                            *)
LeftBy(p, i) ==
  LET before == {j \in 1..(i - 1) : Bears(p, j)}
      all == {j \in DOMAIN p : Bears(p, j)}
      Last(S) == Target(p, CHOOSE j \in S : \A k \in S : k <= j)
  IN  IF before # {} THEN {Last(before)}
      ELSE {0} \cup (IF all # {} THEN {Last(all)} ELSE {})

Aiming(p, i) == IF Bears(p, i) THEN {Target(p, i)} ELSE {}

Leaves(i) ==
  /\ Plan[i].name = obj.st.step
  /\ obj'.st.step # obj.st.step

(* The progression is walked one step at a time and in order, from the      *)
(* first step to completion, although reconciles are cut short, repeated    *)
(* and started from cached copies: a reconcile that works on an outdated    *)
(* status never moves currentStep.                                          *)
StepsInOrder ==
  [][obj'.st.step # obj.st.step =>
       /\ obj'.spec = obj.spec
       /\ \/ obj.st.step = None /\ obj'.st.step = Plan[1].name
          \/ \E i \in Active(obj) :
               obj'.st.step = IF i = Len(Plan) THEN None ELSE Plan[i + 1].name]_vars

(* status.currentWeight, from which reconcileReplicas derives the split, is *)
(* at every step the weight of the last completed step that set one, or     *)
(* already the weight of the current one: advancing never outruns the       *)
(* stamp (the comment above runSetWeight).                                  *)
WeightFollowsSteps ==
  \A i \in Active(obj) : obj.st.weight \in LeftBy(Plan, i) \cup Aiming(Plan, i)

(* The router carries the weight the status claims, or the weight of the    *)
(* step in progress: a status weight is never ahead of the traffic.         *)
RouterFollowsStatus ==
  ~obj.spec.abort =>
     routerW \in {obj.st.weight} \cup UNION {Aiming(Plan, i) : i \in Active(obj)}

(* A gate holds: a pause step is left only after its duration and one       *)
(* without a duration at most once a user has cleared the pause it entered  *)
(* (PauseIsPromoted asks whether it is left then), an analysis step only on *)
(* a successful run or under Ignore.                                        *)
GatesHold ==
  [][\A i \in Active(obj) : Leaves(i) =>
       /\ Plan[i].kind = "pause" =>
            IF Plan[i].timed THEN obj.st.pauseOld
            ELSE obj.st.phase = "Paused" /\ obj.st.pause = None
       /\ Plan[i].kind = "analysis" =>
            LET v == runs[analysisRunName(obj)]
            IN  \/ v = "Successful"
                \/ v \in {"Failed", "Error"} /\ Plan[i].onFailure = "Ignore"
                \/ v = "Inconclusive" /\ Plan[i].onInconclusive = "Ignore"]_vars

(* A manual promotion that was closed stays closed until a user clears it:  *)
(* while the Rollout awaits promotion no reconcile moves traffic, but to    *)
(* abort, or a stable Service, enters Promoting or leaves the step, from    *)
(* however old a copy it works and whatever else was edited under way.      *)
ClosedGateHolds ==
  [][obj.st.pause = "AwaitingPromotion" =>
       /\ svc' = svc
       /\ routerW' # routerW => edits' # edits \/ pc = "abortRoute"
       /\ obj'.st.phase # "Promoting" /\ obj'.st.step = obj.st.step]_vars

(* A promote step is left only when the promotion is done for the template  *)
(* the Rollout has at that moment: traffic and status at 100, every stable  *)
(* Service on the new ReplicaSet and every other ReplicaSet at zero, also   *)
(* when the template is changed or a call fails half way.  The scale-down   *)
(* walks the list the reconcile has read: it answers for the ReplicaSets    *)
(* whose copies were current then, and for no other once a list trails two  *)
(* template edits.                                                          *)
PromotionComplete ==
  [][\A i \in Active(obj) : Leaves(i) /\ Plan[i].kind = "promote" =>
       /\ obj.st.weight = 100
       /\ Router = "mesh" => routerW = 100
       /\ \A k \in 1..NServices : svc[k] = obj.spec.tmpl
       /\ \A u \in fresh \ {obj.spec.tmpl} : rs[u].replicas = 0]_vars

(* A stable Service is repointed only once the traffic and the status are   *)
(* at 100 percent: the order of the promote handler survives retries.       *)
PromoteOrder ==
  [][svc' # svc => obj.st.weight = 100 /\ (Router = "mesh" => routerW = 100)]_vars

(* An abort that stands takes the traffic back for good: the route ends at  *)
(* zero, however often abort was set and cleared before, whatever reconcile *)
(* was in flight and although somebody edits the route by hand.             *)
AbortDrains ==
  <>[](obj.spec.abort /\ ~obj.spec.paused) => <>[](routerW = 0)

(* A status without its clocks, a ReplicaSet without its pods: what is      *)
(* written, and not what time and the ReplicaSet controller change.         *)
StatusWritten(s) == [s EXCEPT !.pauseOld = FALSE, !.stepOld = FALSE]
SetWritten(r) == [r EXCEPT !.pods = 0]

(* spec.paused freezes the Rollout: once it stands and the reconcile in     *)
(* flight has ended, no ReplicaSet is created, written or deleted, no       *)
(* Service repointed and no AnalysisRun made, and nobody but the user       *)
(* writes the spec or any part of the status or moves the traffic, whatever *)
(* is queued or still to come by timer.                                     *)
PausedFreezes ==
  <>[](obj.spec.paused) =>
     <>[][/\ \A t \in Tmpls : SetWritten(rs'[t]) = SetWritten(rs[t])
          /\ svc' = svc /\ judged' = judged
          /\ \/ edits' # edits
             \/ /\ routerW' = routerW /\ obj'.spec = obj.spec
                /\ StatusWritten(obj'.st) = StatusWritten(obj.st)]_vars

(* Once the edits stop, a Rollout held in a pause step, neither aborted nor *)
(* paused by its spec, has the replica counts of the split for its last     *)
(* spec.replicas: no autoscaler change is lost.                             *)
SplitConverges ==
  LET t == obj.spec.tmpl
      want == splitReplicas(obj.spec.replicas, obj.st.weight, HPAStrategy, rs[t].replicas)
      old == {u \in Tmpls \ {t} : rs[u].exists}
  IN  <>[](~obj.spec.abort /\ ~obj.spec.paused) =>
        <>[](/\ rs[t].exists /\ rs[t].replicas = want.canary
             /\ old # {} => SpecPods(rs, old) = want.stable)

(* A setCanaryScale step with matchTrafficWeight takes its weight from the  *)
(* progression (lastSetWeight) and the sweep of reconcileReplicas its own   *)
(* from status.currentWeight, which another call stamps.  They come to the  *)
(* same count, so neither undoes the other, wherever the last step before   *)
(* that moved traffic was a setWeight; a promotion is not seen by           *)
(* lastSetWeight.                                                           *)
MatchAgrees ==
  \A i \in Active(obj) :
     /\ HPAStrategy = "Preserve"
     /\ Plan[i].kind = "setCanaryScale" /\ Plan[i].by = "match"
     /\ \E j \in 1..(i - 1) : /\ Plan[j].kind = "setWeight"
                              /\ \A k \in j..(i - 1) : Plan[k].kind # "promote"
     => resolveCanaryScale(obj) =
          splitReplicas(obj.spec.replicas, obj.st.weight, HPAStrategy,
                        rs[obj.spec.tmpl].replicas).canary

(* A canary whose analyses end well completes, although its template or its *)
(* size changes under way, calls fail and handlers are cut short by the     *)
(* conflicts of their own writes: no step waits for something that never    *)
(* comes.                                                                   *)
Completes ==
  /\ []<>(\A n \in RunNames : runs[n] # "Running")
  /\ [](\A n \in RunNames : runs[n] \notin {"Failed", "Error"})
  => <>(obj.st.phase = "Healthy")

(* A failed run under the Rollback policy aborts the Rollout and takes its  *)
(* traffic back.                                                            *)
FailedGateRollsBack ==
  (\E i \in Active(obj) : /\ Plan[i].kind = "analysis" /\ Plan[i].onFailure = "Rollback"
                          /\ runs[analysisRunName(obj)] \in {"Failed", "Error"})
     ~> (obj.spec.abort /\ routerW = 0)

(* The cleanup of finalize leaves revisionHistoryLimit old ReplicaSets to   *)
(* roll back to, although it decides on copies read before and deletes one  *)
(* by one, with failures and restarts in between.  A copy that was outdated *)
(* when read may show a ReplicaSet that is gone, and costs one at most.     *)
HistoryKept ==
  [][(\E u \in Tmpls : rs[u].exists /\ ~rs'[u].exists) =>
       Cardinality({u \in Tmpls \ {T} : rs'[u].exists})
         >= HistoryLimit - Cardinality(Old \ fresh)]_vars

(* Once the edits stop, the ReplicaSet of the current template carries the  *)
(* greatest revision, although a list that trails the server may have given *)
(* two ReplicaSets the same one.                                            *)
RevisionOnTop ==
  <>[](\A u \in Tmpls \ {obj.spec.tmpl} :
         rs[u].exists => rs[u].rev < rs[obj.spec.tmpl].rev)
=============================================================================
