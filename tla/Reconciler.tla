------------------------------ MODULE Reconciler ----------------------------
(***************************************************************************)
(* The Rollout reconciler (pkg/controller/rollout) and the primitives of   *)
(* the forked deployment controller it drives.  A reconcile is a sequence  *)
(* of API calls; each call is an action, so that user edits, the other     *)
(* controllers, cache deliveries, failures and restarts may come between   *)
(* any two of them.  One worker handles the one Rollout: controller-runtime*)
(* never runs two reconciles of a key at once.                             *)
(***************************************************************************)
EXTENDS RolloutState

(* The template of the reconcile's newRS, and its oldRSs. *)
T == ro.spec.tmpl
Old == {u \in Tmpls \ {T} : lrs[u].exists}

(* A pod-count over a set of ReplicaSets. *)
SpecPods(l, S) == Cardinality(UNION {{u} \X (1..l[u].replicas) : u \in S})
StatusPods(l, S) == Cardinality(UNION {{u} \X (1..l[u].pods) : u \in S})

-----------------------------------------------------------------------------
(***************************************************************************)
(* Reconcile: take the key from the queue and read through the caches.     *)
(***************************************************************************)
(* A Reconcile that does not look at spec.paused. *)
StartAlways ==
  /\ pc = "idle" /\ queued
  /\ pc' = "newRS"
  /\ ro' = seen /\ roCur' = seenCur
  /\ lrs' = seenRS /\ lrsCur' = seenRSCur /\ fresh' = seenRSCur
  /\ queued' = FALSE
  /\ UNCHANGED <<obj, seen, seenCur, rs, seenRS, seenRSCur, births, outside, timer, bounds>>

Start ==
  /\ pc = "idle" /\ queued
  /\ ~seen.spec.paused
  /\ pc' = "newRS"
  /\ ro' = seen /\ roCur' = seenCur
  /\ lrs' = seenRS /\ lrsCur' = seenRSCur /\ fresh' = seenRSCur
  /\ queued' = FALSE
  /\ UNCHANGED <<obj, seen, seenCur, rs, seenRS, seenRSCur, births, outside, timer, bounds>>

(* spec.paused freezes the reconcile loop. *)
StartPaused ==
  /\ pc = "idle" /\ queued
  /\ seen.spec.paused
  /\ queued' = FALSE
  /\ UNCHANGED <<rolloutVars, ro, rsVars, outside, pc, timer, bounds>>

-----------------------------------------------------------------------------
(***************************************************************************)
(* reconcileReplicaSets: find or create the ReplicaSet of the template.    *)
(***************************************************************************)
(* A revision that counts the ReplicaSets there are. *)
RevisionCount(l, S) == Cardinality(S)

MaxRevision(l, S) ==
  LET revs == {0} \cup {l[u].rev : u \in S}
  IN  CHOOSE m \in revs : \A r \in revs : r <= m

hasMatchingRS ==
  IF ro.st.podHash = None THEN \E u \in Tmpls : lrs[u].exists
  ELSE lrs[ro.st.podHash].exists

(* Without a matching ReplicaSet the view is given zero replicas. *)
ViewReplicas == IF hasMatchingRS THEN ro.spec.replicas ELSE 0

(* An Update of the reconcile's copy of the ReplicaSet of t. *)
UpdateRS(t, r, next) ==
  \/ /\ t \in lrsCur
     /\ StoreRS(t, r)
     /\ pc' = next
     /\ UNCHANGED queued
  \/ /\ t \notin lrsCur
     /\ ReturnErr
     /\ UNCHANGED <<rs, seenRS, seenRSCur>>

(* getNewReplicaSet, existing RS whose revision is behind: the updated      *)
(* object is returned, so the local copy stays current.                     *)
BumpRevision ==
  LET n == MaxRevision(lrs, Old) + 1
  IN  /\ pc = "newRS" /\ lrs[T].exists
      /\ lrs[T].rev < n /\ n <= MaxRev
      /\ UpdateRS(T, [lrs[T] EXCEPT !.rev = n], "canary")
      /\ lrs' = [lrs EXCEPT ![T].rev = n]
      /\ UNCHANGED <<rolloutVars, ro, lrsCur, fresh, births, outside, timer, bounds>>

(* getNewReplicaSet, existing RS that is up to date: a Progressing          *)
(* condition is set on the synthetic Deployment and its status written.     *)
FoundNewRS ==
  /\ pc = "newRS" /\ lrs[T].exists
  /\ lrs[T].rev >= MaxRevision(lrs, Old) + 1
  /\ \/ Forwarded /\ pc' = "canary" /\ UNCHANGED queued
     \/ ~Forwarded /\ ReturnErr
  /\ UNCHANGED <<rolloutVars, ro, rsVars, outside, timer, bounds>>

(* A ReplicaSet is the Rollout's by the UID alone, and the view it was made  *)
(* from carries the Rollout's, so no owner is ever rewritten.               *)
isOwnedBy(r) == r.owner[2] = RolloutUID

ensureOwnedByRollout(r) ==
  IF isOwnedBy(r) THEN r ELSE [r EXCEPT !.owner = <<"Rollout", RolloutUID>>]

(* getNewReplicaSet, no RS in the list: create one inside the surge budget; *)
(* AlreadyExists, from a list that trails the server, adopts the live one.  *)
(* Then the status of the synthetic Deployment is written.                  *)
CreateNewRS ==
  LET n == MaxRevision(lrs, Old) + 1
      made == [exists   |-> TRUE,
               replicas |-> NewRSNewReplicas(ViewReplicas, MaxSurge, SpecPods(lrs, Old)),
               pods |-> 0, rev |-> n, born |-> births + 1,
               owner |-> <<"Deployment", RolloutUID>>]
  IN  /\ pc = "newRS" /\ ~lrs[T].exists
      /\ \/ /\ ~rs[T].exists
            /\ n <= MaxRev /\ births < MaxRev
            /\ StoreRS(T, ensureOwnedByRollout(made))
            /\ births' = births + 1
         \/ /\ rs[T].exists
            /\ UNCHANGED <<rs, seenRS, seenRSCur, births>>
      /\ \/ /\ Forwarded
            /\ lrs' = [lrs EXCEPT ![T] = rs'[T]]
            /\ lrsCur' = lrsCur \cup {T}
            /\ pc' = "canary" /\ UNCHANGED queued
         \/ /\ ~Forwarded
            /\ ReturnErr /\ UNCHANGED <<lrs, lrsCur>>
      /\ UNCHANGED <<rolloutVars, ro, fresh, outside, timer, bounds>>

-----------------------------------------------------------------------------
(***************************************************************************)
(* reconcileReplicas: drive the canary, then the largest old ReplicaSet,   *)
(* to the split.  Scaling leaves the local copy as it was read.            *)
(***************************************************************************)
Split == splitReplicas(ro.spec.replicas, ro.st.weight, HPAStrategy, lrs[T].replicas)

largestOldRS ==
  CHOOSE u \in Old : \A v \in Old \ {u} :
     \/ lrs[u].replicas > lrs[v].replicas
     \/ lrs[u].replicas = lrs[v].replicas /\ lrs[u].born < lrs[v].born

Goto(next) ==
  /\ pc' = next
  /\ UNCHANGED <<rsVars, queued>>

ScaleReplicaSet(t, n, next) ==
  /\ UpdateRS(t, [lrs[t] EXCEPT !.replicas = n], next)
  /\ lrsCur' = lrsCur \ {t}
  /\ UNCHANGED <<lrs, fresh, births>>

scaleIfNeeded(t, n, next) ==
  \/ lrs[t].replicas = n /\ Goto(next)
  \/ lrs[t].replicas # n /\ ScaleReplicaSet(t, n, next)

(* A sweep that leaves out the stable side when the canary is right. *)
ScaleCanaryOnly ==
  /\ pc = "canary"
  /\ \/ HPAStrategy = "Disabled" /\ Goto("counts")
     \/ HPAStrategy # "Disabled" /\ lrs[T].replicas = Split.canary /\ Goto("counts")
     \/ /\ HPAStrategy # "Disabled" /\ lrs[T].replicas # Split.canary
        /\ ScaleReplicaSet(T, Split.canary, "stable")
  /\ UNCHANGED <<rolloutVars, ro, outside, timer, bounds>>

ScaleCanary ==
  /\ pc = "canary"
  /\ \/ HPAStrategy = "Disabled" /\ Goto("counts")
     \/ HPAStrategy # "Disabled" /\ scaleIfNeeded(T, Split.canary, "stable")
  /\ UNCHANGED <<rolloutVars, ro, outside, timer, bounds>>

ScaleStable ==
  /\ pc = "stable"
  /\ \/ Old = {} /\ Goto("counts")
     \/ Old # {} /\ scaleIfNeeded(largestOldRS, Split.stable, "counts")
  /\ UNCHANGED <<rolloutVars, ro, outside, timer, bounds>>

(***************************************************************************)
(* pushReplicaCounts, then the branch of syncRollout.                      *)
(***************************************************************************)
AfterCounts ==
  IF ro.spec.abort THEN "abortRoute"
  ELSE IF ro.st.step = None /\ ro.spec.plan # <<>> THEN "init"
  ELSE "exec"

(* Counts pushed without desiredReplicas and observedGeneration. *)
pushReplicaCountsOnly ==
  LET s == [ro.st EXCEPT !.total = StatusPods(lrs, Old \cup {T}),
                         !.updated = lrs[T].pods]
  IN  /\ pc = "counts"
      /\ \/ /\ s = ro.st
            /\ pc' = AfterCounts
            /\ UNCHANGED <<rolloutVars, queued>>
         \/ /\ s # ro.st
            /\ UpdateStatus(s, AfterCounts)
      /\ UNCHANGED <<ro, rsVars, outside, timer, bounds>>

pushReplicaCounts ==
  LET s == [ro.st EXCEPT !.total = StatusPods(lrs, Old \cup {T}),
                         !.updated = lrs[T].pods,
                         !.desired = ro.spec.replicas,
                         !.observed = TRUE]
  IN  /\ pc = "counts"
      /\ \/ /\ s = ro.st
            /\ pc' = AfterCounts
            /\ UNCHANGED <<rolloutVars, queued>>
         \/ /\ s # ro.st
            /\ UpdateStatus(s, AfterCounts)
      /\ UNCHANGED <<ro, rsVars, outside, timer, bounds>>

-----------------------------------------------------------------------------
(***************************************************************************)
(* The router plugin, with one VirtualService.  Without a dynamic client    *)
(* every call panics, which controller-runtime turns into an error.        *)
(***************************************************************************)
SetWeight(w, next) ==
  \/ /\ Router = "mesh"
     /\ routerW' = w
     /\ pc' = next /\ UNCHANGED queued
  \/ /\ Router = "nilClient"
     /\ ReturnErr /\ UNCHANGED routerW

(* The callers that tolerate a missing trafficRouting. *)
SetWeightIfRouted(w, next) ==
  \/ Router # "none" /\ SetWeight(w, next)
  \/ Router = "none" /\ pc' = next /\ UNCHANGED <<routerW, queued>>

(***************************************************************************)
(* abort: router to zero, canary to zero, phase Aborted.                   *)
(***************************************************************************)
(* An abort that trusts the phase instead of the route. *)
AbortRouteOnce ==
  /\ pc = "abortRoute"
  /\ \/ ro.st.phase # "Aborted" /\ SetWeightIfRouted(0, "abortScale")
     \/ ro.st.phase = "Aborted" /\ pc' = "abortScale" /\ UNCHANGED <<routerW, queued>>
  /\ UNCHANGED <<rolloutVars, ro, rsVars, svc, runs, judged, timer, bounds>>

AbortRoute ==
  /\ pc = "abortRoute"
  /\ SetWeightIfRouted(0, "abortScale")
  /\ UNCHANGED <<rolloutVars, ro, rsVars, svc, runs, judged, timer, bounds>>

AbortScale ==
  /\ pc = "abortScale"
  /\ scaleIfNeeded(T, 0, "abortMark")
  /\ UNCHANGED <<rolloutVars, ro, outside, timer, bounds>>

AbortMark ==
  /\ pc = "abortMark"
  /\ \/ /\ ro.st.phase = "Aborted"
        /\ pc' = "idle"
        /\ UNCHANGED <<rolloutVars, queued>>
     \/ /\ ro.st.phase # "Aborted"
        /\ UpdateStatus([ro.st EXCEPT !.phase = "Aborted"], "idle")
  /\ UNCHANGED <<ro, rsVars, outside, timer, bounds>>

(* syncRollout, first sync: point currentStep at the first step. *)
InitStep ==
  /\ pc = "init"
  /\ UpdateStatus([ro.st EXCEPT !.step = ro.spec.plan[1].name, !.stepOld = FALSE,
                                !.phase = "Progressing"], "idle")
  /\ UNCHANGED <<ro, rsVars, outside, timer, bounds>>
=============================================================================
