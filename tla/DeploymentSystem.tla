-------------------------- MODULE DeploymentSystem --------------------------
(***************************************************************************)
(* The deployment controller among what runs beside it: the user, the      *)
(* informers, the ReplicaSet controller and its pods, the clock, failed    *)
(* calls and restarts.                                                     *)
(***************************************************************************)
EXTENDS DeploymentSync

Init ==
  /\ scenario \in Scenarios
  /\ dep = Created(scenario)
  /\ seen = dep /\ seenCur = TRUE
  /\ rs = [t \in Tmpls |-> NoRS] /\ seenRS = rs /\ seenRSCur = Tmpls
  /\ running = [t \in Tmpls |-> 0] /\ births = 0
  /\ stalled = {} /\ w = Idle
  /\ queued = TRUE /\ retries = 0 /\ timer = FALSE
  /\ edits = 0 /\ faults = 0

-----------------------------------------------------------------------------
(* A watch breaks off; later it catches up with a list, whose differences   *)
(* are delivered as events.                                                 *)
Stall(watch) ==
  /\ watch \notin stalled /\ Strikes("stall")
  /\ stalled' = stalled \cup {watch}
  /\ UNCHANGED <<depVars, rsVars, running, births, w, queueVars, scenario, edits>>

CatchUp(watch) ==
  /\ watch \in stalled
  /\ stalled' = stalled \ {watch}
  /\ \/ /\ watch = "deployments"
        /\ seen' = dep /\ seenCur' = TRUE
        /\ queued' = (queued \/ ~seenCur)
        /\ UNCHANGED <<dep, rsVars>>
     \/ /\ watch = "replicasets"
        /\ seenRS' = rs /\ seenRSCur' = Tmpls
        /\ queued' = (queued \/ seenRSCur # Tmpls)
        /\ UNCHANGED <<rs, depVars>>
  /\ UNCHANGED <<running, births, w, retries, timer, scenario, bounds>>

(* A write of somebody else: the worker's copy is not current any more. *)
OthersWriteRS(t, r) ==
  /\ StoreRS(t, r) /\ Event("replicasets")
  /\ w' = [w EXCEPT !.lCur = @ \ {t}]

(* The ReplicaSet controller (external) creates or deletes pods; those it   *)
(* deletes, unavailable ones first, take their time to terminate, which     *)
(* only a Recreate Deployment looks at.                                     *)
RunPods(t) ==
  LET r == rs[t]
  IN  /\ r.exists /\ r.pods # r.replicas
      /\ OthersWriteRS(t, [r EXCEPT !.pods = r.replicas, !.avail = Smaller(r.avail, r.replicas),
                                    !.failing = FALSE])
      /\ running' = [running EXCEPT ![t] = IF r.replicas > r.pods THEN @ + r.replicas - r.pods
                                           ELSE IF IsRollingUpdate(dep) THEN r.replicas ELSE @]
      /\ UNCHANGED <<depVars, births, stalled, retries, timer, scenario, bounds>>

(* The pods of a ReplicaSet become available. *)
PodsReady(t) ==
  /\ rs[t].exists /\ rs[t].avail < rs[t].pods
  /\ t \notin scenario.broken
  /\ OthersWriteRS(t, [rs[t] EXCEPT !.avail = rs[t].pods])
  /\ UNCHANGED <<depVars, running, births, stalled, retries, timer, scenario, bounds>>

(* An available pod fails; a quota refuses pods. *)
PodFails(t) ==
  /\ rs[t].avail > 0 /\ Strikes("pod")
  /\ OthersWriteRS(t, [rs[t] EXCEPT !.avail = @ - 1])
  /\ UNCHANGED <<depVars, running, births, stalled, retries, timer, scenario, edits>>

PodsRefused(t) ==
  /\ rs[t].pods < rs[t].replicas /\ ~rs[t].failing /\ Strikes("quota")
  /\ OthersWriteRS(t, [rs[t] EXCEPT !.failing = TRUE])
  /\ UNCHANGED <<depVars, running, births, stalled, retries, timer, scenario, edits>>

(* A deletePod that no Deployment hears of. *)
deletePodUnheard(t) == FALSE

(* deletePod: only the last pod of a Recreate Deployment enqueues it. *)
deletePod(t) ==
  /\ seenRS[t].exists /\ ~IsRollingUpdate(seen)
  /\ \A u \in Tmpls : rs[u].exists => running'[u] = 0

PodsGone(t) ==
  /\ running[t] > rs[t].pods
  /\ running' = [running EXCEPT ![t] = rs[t].pods]
  /\ queued' = (queued \/ deletePod(t))
  /\ UNCHANGED <<depVars, rsVars, births, stalled, w, retries, timer, scenario, bounds>>

(* progressDeadlineSeconds pass, long after the queue was served, and the   *)
(* AddAfter of a stuck Deployment comes due.                                *)
Aged(d) == [d EXCEPT !.st.progOld = (d.st.prog # "none")]

Tick ==
  /\ w = Idle /\ ~queued
  /\ dep' = Aged(dep) /\ seen' = Aged(seen)
  /\ queued' = timer /\ timer' = FALSE
  /\ UNCHANGED <<seenCur, rsVars, running, births, stalled, w, retries, scenario, bounds>>

CallFails ==
  /\ w # Idle /\ Strikes("call")
  /\ \/ w.pc # "shrink" /\ ReturnErr
     \/ /\ w.pc = "shrink"
        /\ Become(AfterSizes([w EXCEPT !.then = "finish"])) /\ UNCHANGED queued
  /\ UNCHANGED <<depVars, rsVars, running, births, stalled, timer, scenario, edits>>

(* A restart loses the queue and its timers and lists everything anew. *)
Restart ==
  /\ Strikes("restart")
  /\ w' = Idle /\ queued' = TRUE /\ retries' = 0 /\ timer' = FALSE
  /\ seen' = dep /\ seenCur' = TRUE /\ seenRS' = rs /\ seenRSCur' = Tmpls /\ stalled' = {}
  /\ UNCHANGED <<dep, rs, running, births, scenario, edits>>

-----------------------------------------------------------------------------
(* The user.  A change of the spec moves the generation; rollbackTo is an   *)
(* annotation.                                                              *)
Edit(kind, new) ==
  /\ kind \in scenario.edits /\ edits < scenario.maxEdits
  /\ ~dep.deleting /\ new # dep
  /\ StoreDep([new EXCEPT !.st.observed = @ /\ kind = "rollback"]) /\ Event("deployments")
  /\ w' = [w EXCEPT !.dCur = FALSE]
  /\ edits' = edits + 1
  /\ UNCHANGED <<rsVars, running, births, stalled, retries, timer, scenario, faults>>

User ==
  \/ \E t \in Tmpls : Edit("template", [dep EXCEPT !.tmpl = t])
  \/ \E n \in Sizes : Edit("scale", [dep EXCEPT !.replicas = n])
  \/ \E b \in BOOLEAN : Edit("paused", [dep EXCEPT !.paused = b])
  \/ \E r \in 0..MaxRev : Edit("rollback", [dep EXCEPT !.rollbackTo = r])
  \/ Edit("delete", [dep EXCEPT !.deleting = TRUE])

Environment ==
  \/ \E k \in Watches : Stall(k) \/ CatchUp(k)
  \/ \E t \in Tmpls : RunPods(t) \/ PodsReady(t) \/ PodFails(t) \/ PodsRefused(t) \/ PodsGone(t)
  \/ Tick \/ CallFails \/ Restart \/ CreateFails

Next == SyncDeployment \/ Environment \/ User

(***************************************************************************)
(* The queue keeps a worker on the key, watches catch up, time passes and  *)
(* the ReplicaSet controller does its work.  The informers are not assumed *)
(* to resync.  The first conjunct is the weak fairness of SyncDeployment,  *)
(* which is enabled unless the worker is idle and nothing is queued.       *)
(***************************************************************************)
Fairness ==
  /\ []<>(w = Idle /\ ~queued) \/ []<><<SyncDeployment>>_vars
  /\ \A k \in Watches : WF_vars(CatchUp(k))
  /\ \A t \in Tmpls : WF_vars(RunPods(t)) /\ WF_vars(PodsReady(t)) /\ WF_vars(PodsGone(t))
  /\ WF_vars(Tick)

SafetySpec == Init /\ [][Next]_vars
Spec == SafetySpec /\ Fairness

-----------------------------------------------------------------------------
(***************************************************************************)
(* Properties.                                                             *)
(***************************************************************************)
SpecReplicas == Total([t \in Tmpls |-> rs[t].replicas], Tmpls)

(* Available pods that no write has given up yet. *)
Assured == Total([t \in Tmpls |-> Smaller(rs[t].avail, rs[t].replicas)], Tmpls)

(* A scaling event that leaves every active ReplicaSet with at least its    *)
(* share: none was sized for more pods than the Deployment may have now,    *)
(* nor do they have more.                                                   *)
Grows(x) ==
  /\ \A u \in FilterActive(x, All(x)) : x.l[u].max <= x.d.replicas + MaxSurge(x.d)
  /\ Total(Replicas(x), All(x)) <= x.d.replicas + MaxSurge(x.d)

(* A sync whose copies were current when it read them never raises the      *)
(* replicas of a rolling Deployment above spec.replicas and the surge, one  *)
(* write at a time, also when it scales several ReplicaSets in proportion   *)
(* to a larger size.  Scaling to a smaller size may exceed it between two   *)
(* writes: the leftover goes to the first ReplicaSet before the others have *)
(* given up theirs.                                                         *)
SurgeKept ==
  [][SpecReplicas' > SpecReplicas /\ w.fresh /\ IsRollingUpdate(w.d)
       /\ (w.via \in {"paused", "scaling"} => Grows(w)) =>
         SpecReplicas' <= w.d.replicas + MaxSurge(w.d)]_vars

(* A write of rolloutRolling from current copies gives up available pods    *)
(* only down to the availability that maxUnavailable asks for, unless a     *)
(* ReplicaSet still shows pods that it has been told to give up: the code   *)
(* counts those as available.                                               *)
AvailabilityKept ==
  [][w.via = "rolling" /\ w.dCur /\ w.lCur = Tmpls /\ Assured' < Assured
       /\ (\A t \in Tmpls : w.l[t].avail <= w.l[t].replicas) =>
         Assured' >= MinAvailable(w.d) \/ faults' > faults]_vars

(* rolloutRecreate, from copies that were current when they were read,      *)
(* starts pods of the new template only when no pod of an old one runs, not *)
(* even one that is terminating.                                            *)
RecreateExclusive ==
  [][w.via \in {"recreate", "recreateNew"} /\ w.fresh /\ SpecReplicas' > SpecReplicas =>
       \A t \in Tmpls : t # T(w) /\ rs[t].exists => running[t] = 0]_vars

(* A rollback to "the last revision" goes to the second newest revision     *)
(* there is, even though the sync may have created or renumbered the newest *)
(* one on the way.                                                          *)
RollbackUndoes ==
  [][dep.rollbackTo = 0 /\ dep'.rollbackTo = NoRollback /\ w.fresh
       /\ Cardinality({t \in Tmpls : rs[t].exists}) > 1 =>
         Cardinality({t \in Tmpls : rs[t].exists /\ rs[t].rev > rs[dep'.tmpl].rev}) = 1]_vars

Serving == ~dep.paused /\ ~dep.deleting

Complete ==
  /\ \A t \in Tmpls : rs[t].replicas = IF t = dep.tmpl THEN dep.replicas ELSE 0
  /\ rs[dep.tmpl].avail = dep.replicas
  /\ dep.rollbackTo = NoRollback
  /\ dep.st.prog = "NewReplicaSetAvailable" /\ dep.st.observed
  /\ dep.st.updated = dep.replicas /\ dep.st.total = dep.replicas

(* Whatever edits, conflicts, failed calls, collisions, restarts and late   *)
(* events came before: a Deployment that is left alone, with a template     *)
(* whose pods get ready, ends with exactly its replicas of that template,   *)
(* all available, nothing of the others, no rollback pending, and the       *)
(* status saying so.                                                        *)
RolloutCompletes ==
  <>[](Serving /\ dep.tmpl \notin scenario.broken) => <>[]Complete

(* A rollout whose pods never get ready is reported: the deadline is        *)
(* checked again without any event to prompt it.  The scenarios with such   *)
(* pods have none of the calls fail and no restart: a sync that ends early  *)
(* does not arm the check again.                                            *)
StuckReported ==
  <>[](Serving /\ dep.tmpl \in scenario.broken)
    => <>[](dep.st.prog = "ProgressDeadlineExceeded")
=============================================================================
