--------------------------- MODULE DeploymentSync ---------------------------
(***************************************************************************)
(* syncDeployment, call by call.  The operators on a worker x give the     *)
(* worker at its next API call, with what the code computes on the way.    *)
(***************************************************************************)
EXTENDS Deployment

(***************************************************************************)
(* The status.                                                             *)
(***************************************************************************)
getReplicaFailures(x) == \E u \in All(x) : x.l[u].failing

calculateStatus(x) ==
  LET available == Total(Avail(x), All(x))
  IN  [x.d.st EXCEPT !.observed = TRUE, !.total = Total(Pods(x), All(x)),
                     !.updated = x.l[T(x)].pods, !.available = available,
                     !.minAvail = (available >= MinAvailable(x.d))]

DeploymentProgressing(old, new) ==
  \/ new.updated > old.updated
  \/ new.total - new.updated < old.total - old.updated
  \/ new.available > old.available

DeploymentTimedOut(s) ==
  /\ s.prog \notin {"none", "NewReplicaSetAvailable"}
  /\ s.prog = "ProgressDeadlineExceeded" \/ s.progOld

(* The status that syncRolloutStatus writes. *)
RolloutStatus(x) ==
  LET s == [calculateStatus(x) EXCEPT !.failure = getReplicaFailures(x)]
      isComplete == s.total = s.updated /\ s.prog = "NewReplicaSetAvailable"
  IN  IF isComplete THEN s
      ELSE IF DeploymentComplete(x.d, s) THEN SetProgressing(s, "NewReplicaSetAvailable")
      ELSE IF DeploymentProgressing(x.d.st, s)
           THEN [s EXCEPT !.prog = "ReplicaSetUpdated", !.progOld = FALSE]
      ELSE IF DeploymentTimedOut(s) THEN SetProgressing(s, "ProgressDeadlineExceeded")
      ELSE s

Rolling(x) == x.via \in {"rolling", "recreate", "recreateNew"}

SyncedStatus(x) == IF Rolling(x) THEN RolloutStatus(x) ELSE calculateStatus(x)

-----------------------------------------------------------------------------
(***************************************************************************)
(* What follows the last size a sync writes: cleanupDeployment where it is *)
(* called, and the status.                                                 *)
(***************************************************************************)
(* A ReplicaSet of zero replicas and pods counts as observed by its        *)
(* controller.                                                             *)
cleanupDeployment(x) ==
  LET sorted == ByRevision(x, Old(x))
      diff == Len(sorted) - scenario.history
      gone == {i \in DOMAIN sorted : /\ i <= diff
                                     /\ x.l[sorted[i]].replicas = 0
                                     /\ x.l[sorted[i]].pods = 0}
  IN  Pick([i \in DOMAIN sorted |-> [t |-> sorted[i], n |-> 0]], gone)

AtStatus(x) == [x EXCEPT !.pc = "status", !.todo = <<>>]

AtCleanup(x) ==
  LET gone == cleanupDeployment(x)
  IN  IF gone = <<>> THEN AtStatus(x) ELSE [x EXCEPT !.pc = "cleanup", !.todo = gone]

AfterSizes(x) ==
  CASE x.then = "status"  -> AtStatus(x)
    [] x.then = "cleanup" -> AtCleanup(x)
    [] x.then = "finish"  -> IF DeploymentComplete(x.d, x.d.st) THEN AtCleanup(x)
                             ELSE AtStatus(x)

(* Write the sizes in list, then go on to next. *)
WriteSizes(x, pc, list, next) ==
  LET y == [x EXCEPT !.pc = pc, !.todo = list, !.then = next]
  IN  IF list = <<>> THEN AfterSizes(y) ELSE y

(* scaleReplicaSetAndRecordEvent writes only a size that changes. *)
Changed(x, e) == IF x.l[e.t].replicas = e.n THEN <<>> ELSE <<e>>

-----------------------------------------------------------------------------
(***************************************************************************)
(* scale: the sizes to write on a scaling event or while paused.           *)
(***************************************************************************)
(* FindActiveOrLatest also leaves the old ReplicaSets sorted, newest first. *)
FindActiveOrLatest(x) ==
  LET active == FilterActive(x, All(x))
  IN  CASE Cardinality(active) = 1 -> active
        [] Cardinality(active) > 1 -> {}
        [] active = {} /\ T(x) \in All(x) -> {T(x)}
        [] OTHER -> {u \in Old(x) : \A v \in Old(x) : x.l[u].born >= x.l[v].born}

IsSaturated(x) ==
  LET r == x.l[T(x)]
  IN  /\ r.exists
      /\ r.replicas = x.d.replicas /\ r.desired = x.d.replicas /\ r.avail = x.d.replicas

ProportionalWrites(x) ==
  LET active == FilterActive(x, All(x))
      surge == MaxSurge(x.d)
      allowed == IF x.d.replicas > 0 THEN x.d.replicas + surge ELSE 0
      total == Total(Replicas(x), active)
      order == CASE allowed < total -> BySizeOlder(x, active)
                 [] allowed > total -> BySizeNewer(x, active)
                 [] allowed = total -> NewestFirst(x, active \ {T(x)})
                                         \o IF T(x) \in active THEN <<T(x)>> ELSE <<>>
      sizes == ProportionalSizes([i \in DOMAIN order |-> x.l[order[i]]], x.d.replicas, surge)
      writes == [i \in DOMAIN order |-> [t |-> order[i], n |-> sizes[i]]]
      Needed(e) == \/ x.l[e.t].replicas # e.n
                   \/ x.l[e.t].desired # x.d.replicas
                   \/ x.l[e.t].max # x.d.replicas + surge
  IN  Pick(writes, {i \in DOMAIN order : Needed(writes[i])})

scale(x) ==
  LET one == FindActiveOrLatest(x)
      olds == NewestFirst(x, FilterActive(x, Old(x)))
  IN  IF one # {} THEN Changed(x, [t |-> CHOOSE u \in one : TRUE, n |-> x.d.replicas])
      ELSE IF IsSaturated(x) THEN [i \in DOMAIN olds |-> [t |-> olds[i], n |-> 0]]
      ELSE IF IsRollingUpdate(x.d) THEN ProportionalWrites(x)
      ELSE <<>>

(* sync *)
AtScale(x) ==
  WriteSizes(x, "resize", scale(x),
             IF x.d.paused /\ x.d.rollbackTo = NoRollback THEN "cleanup" ELSE "status")

-----------------------------------------------------------------------------
(***************************************************************************)
(* rolloutRolling.                                                         *)
(***************************************************************************)
NewRSSize(x) ==
  LET own == x.l[T(x)].replicas
  IN  IF own > x.d.replicas THEN x.d.replicas
      ELSE NewRSReplicas(x.d.replicas, Surge, Total(Replicas(x), All(x)), own)

maxScaledDown(x) ==
  LET new == x.l[T(x)]
  IN  Total(Replicas(x), All(x)) - MinAvailable(x.d) - (new.replicas - new.avail)

(* A scale-down that takes every replica for available. *)
scaleDownCountHopeful(x) ==
  Total(Replicas(x), FilterActive(x, Old(x)) \cup {T(x)}) - MinAvailable(x.d)

(* scaleDownOldReplicaSetsForRollingUpdate: what availability leaves. *)
scaleDownCount(x) ==
  Total(Avail(x), FilterActive(x, Old(x)) \cup {T(x)}) - MinAvailable(x.d)

(***************************************************************************)
(* reconcileOldReplicaSets: cleanupUnhealthyReplicas takes unhealthy pods  *)
(* of the old ReplicaSets, oldest first, then                              *)
(* scaleDownOldReplicaSetsForRollingUpdate what availability leaves.  The  *)
(* first ends early, with an error that is swallowed, at a ReplicaSet with *)
(* more available pods than replicas.                                      *)
(***************************************************************************)
reconcileOldReplicaSets(x) ==
  LET olds == ByCreation(x, FilterActive(x, Old(x)))
      budget == maxScaledDown(x)
      surplus == {i \in DOMAIN olds : x.l[olds[i]].avail > x.l[olds[i]].replicas}
      need == [i \in DOMAIN olds |->
                 IF i \in surplus THEN 0 ELSE x.l[olds[i]].replicas - x.l[olds[i]].avail]
      sick == Taken(need, budget)
      rest == [i \in DOMAIN olds |-> x.l[olds[i]].replicas - sick[i]]
      more == Taken(rest, scaleDownCount(x))
      Writes(take, size) ==
        Pick([i \in DOMAIN olds |-> [t |-> olds[i], n |-> size[i]]],
             {i \in DOMAIN olds : take[i] > 0})
      bad == {i \in surplus : Before(need, i) < budget}
      untilBad == [i \in DOMAIN olds |-> IF \E j \in bad : j <= i THEN 0 ELSE sick[i]]
      writes == Writes(sick, rest)
                  \o Writes(more, [i \in DOMAIN olds |-> rest[i] - more[i]])
  IN  IF olds = <<>> \/ budget <= 0 THEN WriteSizes(x, "shrink", <<>>, "finish")
      ELSE IF bad # {} THEN WriteSizes(x, "shrink", Writes(untilBad, rest), "finish")
      ELSE WriteSizes(x, "shrink", writes, IF writes = <<>> THEN "finish" ELSE "status")

(* reconcileNewReplicaSet first. *)
AtRolling(x) ==
  LET list == Changed(x, [t |-> T(x), n |-> NewRSSize(x)])
  IN  IF list # <<>> THEN WriteSizes(x, "resize", list, "status")
      ELSE reconcileOldReplicaSets(x)

(***************************************************************************)
(* rolloutRecreate: old ReplicaSets to zero, wait for their pods, create   *)
(* and scale up the new one.                                               *)
(***************************************************************************)
(* Old pods that only the ReplicaSets' status tells of. *)
oldPodsRunningStatus(x) == Total(Pods(x), Old(x)) > 0

oldPodsRunning(x) == Total(Pods(x), Old(x)) > 0 \/ x.oldRuns

AtScaleUp(x) ==
  WriteSizes(x, "resize", Changed(x, [t |-> T(x), n |-> x.d.replicas]), "finish")

AtRecreate(x) ==
  LET olds == ByCreation(x, FilterActive(x, Old(x)))
  IN  IF olds # <<>>
      THEN WriteSizes(x, "resize", [i \in DOMAIN olds |-> [t |-> olds[i], n |-> 0]], "status")
      ELSE IF oldPodsRunning(x) THEN AtStatus(x)
      ELSE IF ~x.l[T(x)].exists THEN [x EXCEPT !.pc = "newRS", !.via = "recreateNew"]
      ELSE AtScaleUp(x)

-----------------------------------------------------------------------------
(* isScalingEvent: an active ReplicaSet was sized for another spec.replicas.*)
isScalingEvent(x) == \E u \in FilterActive(x, All(x)) : x.l[u].desired # x.d.replicas

(***************************************************************************)
(* getAllReplicaSetsAndSyncRevision: getNewReplicaSet makes an API call    *)
(* only when the new ReplicaSet's revision is behind, the Deployment does  *)
(* not show it, or the ReplicaSet is to be created.                        *)
(***************************************************************************)
NewRevision(x) == MaxOldRevision(x) + 1

Creating(x) == x.via \in {"rollback", "rolling", "recreateNew"}

NeedsCall(x) ==
  LET r == x.l[T(x)]
  IN  IF r.exists THEN r.rev < NewRevision(x) \/ x.d.rev # r.rev \/ x.d.st.prog = "none"
      ELSE Creating(x)

(* The function that asked for the ReplicaSets goes on. *)
Caller(x) ==
  CASE x.via = "deleted"     -> AtStatus(x)
    [] x.via \in {"paused", "scaling"} -> AtScale(x)
    [] x.via = "rollback"    -> [x EXCEPT !.pc = "rollback"]
    [] x.via = "rolling"     -> AtRolling(x)
    [] x.via = "recreate"    -> AtRecreate(x)
    [] x.via = "recreateNew" -> AtScaleUp(x)

AtNewRS(x) == IF NeedsCall(x) THEN [x EXCEPT !.pc = "newRS"] ELSE Caller(x)

(* isScalingEvent comes before the function that syncs. *)
Continue(x) ==
  IF x.via # "event" THEN Caller(x)
  ELSE AtNewRS([x EXCEPT !.via = IF isScalingEvent(x) THEN "scaling"
                                 ELSE IF IsRollingUpdate(x.d) THEN "rolling" ELSE "recreate"])

Begin(x) == IF NeedsCall(x) THEN [x EXCEPT !.pc = "newRS"] ELSE Continue(x)

-----------------------------------------------------------------------------
(***************************************************************************)
(* syncDeployment: read through the caches.                                *)
(***************************************************************************)
NeedsPausedCondition(d) ==
  /\ d.st.prog # "ProgressDeadlineExceeded"
  /\ d.paused # (d.st.prog = "DeploymentPaused")

Route(d) ==
  IF d.deleting THEN "deleted"
  ELSE IF d.paused THEN "paused"
  ELSE IF d.rollbackTo # NoRollback THEN "rollback"
  ELSE "event"

Start ==
  /\ w = Idle /\ queued
  /\ LET x == [Idle EXCEPT
                 !.pc = "conditions", !.via = Route(seen), !.d = seen, !.dCur = seenCur,
                 !.l = seenRS, !.lCur = seenRSCur,
                 !.oldRuns = \E u \in Tmpls \ {seen.tmpl} : seenRS[u].exists /\ running[u] > 0,
                 !.fresh = (seenCur /\ seenRSCur = Tmpls)]
     IN  w' = IF ~seen.deleting /\ NeedsPausedCondition(seen) THEN x ELSE Begin(x)
  /\ queued' = FALSE
  /\ UNCHANGED <<depVars, rsVars, running, births, stalled, retries, timer, scenario, bounds>>

checkPausedConditions ==
  /\ w.pc = "conditions"
  /\ LET o == [w.d EXCEPT !.st = SetProgressing(@, IF w.d.paused THEN "DeploymentPaused"
                                                   ELSE "DeploymentResumed")]
     IN  UpdateDep(o, Begin([w EXCEPT !.d = o]))
  /\ UNCHANGED <<rsVars, running, births, stalled, timer, scenario, bounds>>

-----------------------------------------------------------------------------
(***************************************************************************)
(* getNewReplicaSet.                                                       *)
(***************************************************************************)
(* The new ReplicaSet's revision is behind.  isScalingEvent drops the       *)
(* updated object, the other callers work on with it.                       *)
BumpRevision ==
  LET t == T(w)
      r == [w.l[t] EXCEPT !.rev = NewRevision(w)]
  IN  /\ w.pc = "newRS" /\ w.l[t].exists
      /\ w.l[t].rev < NewRevision(w) /\ NewRevision(w) <= MaxRev
      /\ \/ UpdateRS(t, r, Continue(IF w.via = "event" THEN [w EXCEPT !.lCur = @ \ {t}]
                                    ELSE [w EXCEPT !.l[t] = r]))
         \/ ConflictRS(t)
      /\ UNCHANGED <<depVars, running, births, stalled, timer, scenario, bounds>>

(* The new ReplicaSet is up to date: the Deployment takes its revision, and *)
(* a first Progressing condition.                                           *)
FoundNewRS ==
  LET r == w.l[T(w)]
      o == [w.d EXCEPT !.rev = r.rev,
                       !.st = IF @.prog = "none" THEN SetProgressing(@, "FoundNewReplicaSet")
                              ELSE @]
  IN  /\ w.pc = "newRS" /\ r.exists /\ r.rev >= NewRevision(w)
      /\ UpdateDep(o, Continue([w EXCEPT !.d = o]))
      /\ UNCHANGED <<rsVars, running, births, stalled, timer, scenario, bounds>>

Made ==
  LET d == w.d
  IN  [NoRS EXCEPT
         !.exists = TRUE, !.rev = NewRevision(w), !.born = births + 1,
         !.replicas = IF IsRollingUpdate(d)
                      THEN NewRSReplicas(d.replicas, Surge, Total(Replicas(w), Old(w)), 0)
                      ELSE d.replicas,
         !.desired = d.replicas, !.max = d.replicas + MaxSurge(d)]

Collision == T(w) \in Collides /\ w.d.st.collisions = 0

CreateNewRS ==
  LET t == T(w)
  IN  /\ w.pc = "newRS" /\ ~w.l[t].exists /\ Creating(w)
      /\ ~Collision /\ ~rs[t].exists
      /\ NewRevision(w) <= MaxRev /\ births < MaxRev
      /\ StoreRS(t, Made) /\ Event("replicasets")
      /\ births' = births + 1
      /\ Become([w EXCEPT !.pc = "stampNew", !.l[t] = Made, !.lCur = @ \cup {t}])
      /\ UNCHANGED <<depVars, running, stalled, timer, scenario, bounds>>

(* AlreadyExists, from a list that trails the server: the cache may have    *)
(* the ReplicaSet by now.  Its revision is not looked at.                   *)
AdoptExisting ==
  LET t == T(w)
      o == [w.d EXCEPT !.rev = NewRevision(w)]
      x == [w EXCEPT !.l[t] = seenRS[t],
                     !.lCur = IF t \in seenRSCur THEN @ \cup {t} ELSE @ \ {t},
                     !.d = o]
  IN  /\ w.pc = "newRS" /\ ~w.l[t].exists /\ Creating(w)
      /\ ~Collision /\ rs[t].exists /\ NewRevision(w) <= MaxRev
      /\ \/ /\ ~seenRS[t].exists
            /\ ReturnErr /\ UNCHANGED depVars
         \/ /\ seenRS[t].exists /\ o = w.d
            /\ Become(Continue(x)) /\ UNCHANGED <<depVars, queued>>
         \/ /\ seenRS[t].exists /\ o # w.d
            /\ UpdateDep(o, Continue(x))
      /\ UNCHANGED <<rsVars, running, births, stalled, timer, scenario, bounds>>

(* The name is taken by a ReplicaSet that is not the Deployment's: the      *)
(* collision count goes into the hash of the next attempt.                  *)
CreateCollides ==
  /\ w.pc = "newRS" /\ ~w.l[T(w)].exists /\ Creating(w) /\ Collision
  /\ UpdateDepAndFail([w.d EXCEPT !.st.collisions = 1])
  /\ UNCHANGED <<rsVars, running, births, stalled, timer, scenario, bounds>>

(* Create is refused for another reason, which the status tells. *)
CreateFails ==
  /\ w.pc = "newRS" /\ ~w.l[T(w)].exists /\ Creating(w)
  /\ Strikes("create")
  /\ UpdateDepAndFail([w.d EXCEPT !.st = SetProgressing(@, "ReplicaSetCreateError")])
  /\ UNCHANGED <<rsVars, running, births, stalled, timer, scenario, edits>>

(* The status write that follows a creation. *)
StampNew ==
  LET o == [w.d EXCEPT !.rev = w.l[T(w)].rev,
                       !.st = SetProgressing(@, "NewReplicaSetCreated")]
  IN  /\ w.pc = "stampNew"
      /\ UpdateDep(o, Continue([w EXCEPT !.d = o]))
      /\ UNCHANGED <<rsVars, running, births, stalled, timer, scenario, bounds>>

-----------------------------------------------------------------------------
(***************************************************************************)
(* scaleReplicaSet, one write after the other.  reconcileOldReplicaSets    *)
(* works on with the updated object, the other callers drop it.            *)
(***************************************************************************)
Resized(t, n) ==
  [w.l[t] EXCEPT !.replicas = n, !.desired = w.d.replicas,
                 !.max = w.d.replicas + MaxSurge(w.d)]

NextSize(x) ==
  IF Len(x.todo) = 1 THEN AfterSizes(x) ELSE [x EXCEPT !.todo = Tail(x.todo)]

scaleReplicaSet ==
  LET e == Head(w.todo)
  IN  /\ w.pc = "resize"
      /\ \/ UpdateRS(e.t, Resized(e.t, e.n), NextSize([w EXCEPT !.lCur = @ \ {e.t}]))
         \/ ConflictRS(e.t)
      /\ UNCHANGED <<depVars, running, births, stalled, timer, scenario, bounds>>

(* In reconcileOldReplicaSets an error only ends the scale-down. *)
scaleDownOld ==
  LET e == Head(w.todo)
  IN  /\ w.pc = "shrink"
      /\ \/ UpdateRS(e.t, Resized(e.t, e.n), NextSize(w))
         \/ /\ e.t \notin w.lCur
            /\ Become(AfterSizes([w EXCEPT !.then = "finish"]))
            /\ UNCHANGED <<rsVars, queued>>
      /\ UNCHANGED <<depVars, running, births, stalled, timer, scenario, bounds>>

(* cleanupDeployment deletes by name; NotFound is ignored. *)
DeleteOld ==
  LET t == Head(w.todo).t
  IN  /\ w.pc = "cleanup"
      /\ \/ rs[t].exists /\ StoreRS(t, NoRS) /\ Event("replicasets")
         \/ ~rs[t].exists /\ UNCHANGED <<rsVars, queued>>
      /\ Become([NextSize([w EXCEPT !.then = "status"]) EXCEPT !.lCur = @ \ {t}])
      /\ UNCHANGED <<depVars, running, births, stalled, timer, scenario, bounds>>

-----------------------------------------------------------------------------
(***************************************************************************)
(* syncRolloutStatus and syncDeploymentStatus.                             *)
(***************************************************************************)
(* A status check that does not come back for the deadline. *)
requeueStuckNever == UNCHANGED <<queued, timer>>

requeueStuckDeployment ==
  LET s == w.d.st
      stuck == /\ Rolling(w) /\ s.prog \notin {"none", "ProgressDeadlineExceeded"}
               /\ ~DeploymentComplete(w.d, SyncedStatus(w))
  IN  /\ queued' = (queued \/ (stuck /\ s.progOld))
      /\ timer' = (timer \/ (stuck /\ ~s.progOld))

SyncStatus ==
  LET s == SyncedStatus(w)
  IN  /\ w.pc = "status"
      /\ \/ /\ s = w.d.st
            /\ requeueStuckDeployment
            /\ Become(Idle) /\ UNCHANGED depVars
         \/ /\ s # w.d.st
            /\ UpdateDep([w.d EXCEPT !.st = s], Idle)
            /\ UNCHANGED timer
      /\ UNCHANGED <<rsVars, running, births, stalled, scenario, bounds>>

-----------------------------------------------------------------------------
(***************************************************************************)
(* rollback: revision 0 asks for the last but one.                         *)
(***************************************************************************)
(* A last revision that is the newest one. *)
LastRevisionNewest(x) ==
  LET revs == {0} \cup {x.l[u].rev : u \in All(x)}
  IN  CHOOSE m \in revs : \A r \in revs : r <= m

LastRevision(x) ==
  LET Above(u) == {v \in All(x) \ {u} : x.l[v].rev >= x.l[u].rev}
      second == {u \in All(x) : Above(u) # {}}
      revs == {0} \cup {x.l[u].rev : u \in second}
  IN  CHOOSE m \in revs : \A r \in revs : r <= m

RollbackRevision(x) == IF x.d.rollbackTo = 0 THEN LastRevision(x) ELSE x.d.rollbackTo

Rollback ==
  LET r == RollbackRevision(w)
      found == {u \in All(w) : r # 0 /\ w.l[u].rev = r}
      first == {u \in found : \A v \in found \ {u} :
                               v = T(w) \/ (u # T(w) /\ w.l[u].born < w.l[v].born)}
      t == IF found = {} THEN T(w) ELSE CHOOSE u \in first : TRUE
      o == [w.d EXCEPT !.tmpl = t, !.rollbackTo = NoRollback,
                       !.st.observed = @ /\ t = T(w)]
  IN  /\ w.pc = "rollback"
      /\ UpdateDep(o, Idle)
      /\ UNCHANGED <<rsVars, running, births, stalled, timer, scenario, bounds>>

SyncDeployment ==
  \/ Start \/ checkPausedConditions
  \/ BumpRevision \/ FoundNewRS
  \/ CreateNewRS \/ AdoptExisting \/ CreateCollides \/ StampNew
  \/ scaleReplicaSet \/ scaleDownOld \/ DeleteOld
  \/ SyncStatus \/ Rollback
=============================================================================
