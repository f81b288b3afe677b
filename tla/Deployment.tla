----------------------------- MODULE Deployment -----------------------------
(***************************************************************************)
(* The sync loop of the forked deployment controller                       *)
(* (pkg/controller/rollout/_forkedfrom_k8s): one Deployment, its           *)
(* ReplicaSets, the informer caches and one worker.  As in RolloutState,   *)
(* every API call of a sync is an action, and a write from a copy that is  *)
(* not current is a conflict.                                              *)
(***************************************************************************)
EXTENDS DeploymentMath

CONSTANTS
  Tmpls,           (* pod templates                                        *)
  FirstTmpl,       (* the template the Deployment is created with          *)
  Sizes,           (* values of spec.replicas                              *)
  Surge,           (* rollingUpdate.maxSurge, in percent                   *)
  Unavailable,     (* rollingUpdate.maxUnavailable, in percent             *)
  Collides,        (* templates whose first ReplicaSet name is taken by    *)
                   (* another ReplicaSet (a hash collision)                *)
  MaxRetries,      (* maxRetries of handleErr                              *)
  MaxRev,          (* bound on revisions and creations                     *)
  Scenarios        (* the instances to explore                             *)

(***************************************************************************)
(* A scenario: the strategy, size and revisionHistoryLimit of the          *)
(* Deployment, the templates whose pods never become available, the kinds  *)
(* of edits a user makes and of faults that occur, and the bounds on their *)
(* numbers.                                                                *)
(***************************************************************************)
EditKinds == {"template", "scale", "paused", "rollback", "delete"}
FaultKinds == {"stall", "pod", "quota", "create", "call", "restart"}

ScenarioType ==
  [strategy: {"RollingUpdate", "Recreate"}, size: Sizes, history: Nat,
   broken: SUBSET Tmpls, edits: SUBSET EditKinds, maxEdits: Nat,
   faults: SUBSET FaultKinds, maxFaults: Nat]

ASSUME DeploymentAssumption ==
  /\ IsFiniteSet(Tmpls) /\ FirstTmpl \in Tmpls /\ Sizes \subseteq Nat
  /\ Surge \in 0..100 /\ Unavailable \in 0..100
  /\ Collides \subseteq Tmpls /\ {MaxRetries, MaxRev} \subseteq Nat
  /\ Scenarios # {} /\ Scenarios \subseteq ScenarioType

NoRollback == -1

(* Reasons of the condition Progressing; "none" is no condition. *)
Reasons == {"none", "FoundNewReplicaSet", "NewReplicaSetCreated", "ReplicaSetCreateError",
            "ReplicaSetUpdated", "NewReplicaSetAvailable", "ProgressDeadlineExceeded",
            "DeploymentPaused", "DeploymentResumed"}

(***************************************************************************)
(* The status.  progOld says that progressDeadlineSeconds have passed      *)
(* since the condition's lastUpdateTime, observed that observedGeneration  *)
(* is the generation; minAvail is the condition Available, failure the     *)
(* condition ReplicaFailure.  available also stands for the ready count.   *)
(***************************************************************************)
StatusType ==
  [total: Nat, updated: Nat, available: Nat, observed: BOOLEAN, collisions: 0..1,
   prog: Reasons, progOld: BOOLEAN, minAvail: BOOLEAN, failure: BOOLEAN]

DepType ==
  [tmpl: Tmpls, replicas: Sizes, strategy: {"RollingUpdate", "Recreate"},
   paused: BOOLEAN, deleting: BOOLEAN,
   rollbackTo: {NoRollback} \cup 0..MaxRev, rev: 0..MaxRev, st: StatusType]

(***************************************************************************)
(* A ReplicaSet.  desired and max are the replica annotations, pods and    *)
(* avail its status, failing its condition ReplicaFailure.                 *)
(***************************************************************************)
RSType ==
  [exists: BOOLEAN, replicas: Nat, desired: Nat, max: Nat, rev: 0..MaxRev, born: 0..MaxRev,
   pods: Nat, avail: Nat, failing: BOOLEAN]

NoRS == [exists |-> FALSE, replicas |-> 0, desired |-> 0, max |-> 0, rev |-> 0, born |-> 0,
         pods |-> 0, avail |-> 0, failing |-> FALSE]

NewStatus ==
  [total |-> 0, updated |-> 0, available |-> 0, observed |-> FALSE, collisions |-> 0,
   prog |-> "none", progOld |-> FALSE, minAvail |-> FALSE, failure |-> FALSE]

Created(c) ==
  [tmpl |-> FirstTmpl, replicas |-> c.size, strategy |-> c.strategy, paused |-> FALSE,
   deleting |-> FALSE, rollbackTo |-> NoRollback, rev |-> 0, st |-> NewStatus]

VARIABLES
  dep,        (* the Deployment on the API server                          *)
  rs,         (* the ReplicaSets on the API server, by template            *)
  running,    (* pods of each ReplicaSet that run, terminating ones too    *)
  births,     (* ReplicaSets created so far                                *)
  seen,       (* the Deployment in the informer cache                      *)
  seenCur,    (* seen carries the current resourceVersion                  *)
  seenRS,     (* the ReplicaSets in the informer cache                     *)
  seenRSCur,  (* the templates whose ReplicaSet is current in seenRS       *)
  stalled,    (* the watches that deliver nothing at the moment            *)
  w,          (* the worker: the sync in progress and its local state      *)
  queued,     (* the key is in the work queue                              *)
  retries,    (* NumRequeues of the key                                    *)
  timer,      (* an AddAfter is pending                                    *)
  scenario,   (* the scenario explored                                     *)
  edits,      (* user edits made                                           *)
  faults      (* faults suffered                                           *)

depVars == <<dep, seen, seenCur>>
rsVars == <<rs, seenRS, seenRSCur>>
queueVars == <<queued, retries, timer>>
bounds == <<edits, faults>>
vars == <<depVars, rsVars, running, births, stalled, w, queueVars, scenario, bounds>>

Watches == {"deployments", "replicasets"}

(***************************************************************************)
(* The worker.  pc is its next API call; via the function that leads to    *)
(* it; d and l its copies of the Deployment and of rsList, dCur and lCur   *)
(* whether they are current; oldRuns whether podMap had a pod of an old    *)
(* ReplicaSet; todo the sizes still to write, then what follows them.      *)
(* fresh is history: every copy was current when it was read.              *)
(***************************************************************************)
Vias == {"deleted", "paused", "event", "scaling", "rollback", "rolling", "recreate",
         "recreateNew"}
PCs == {"idle", "conditions", "newRS", "stampNew", "resize", "shrink", "rollback",
        "cleanup", "status"}

Idle ==
  [pc |-> "idle", via |-> "event", d |-> Created(CHOOSE c \in Scenarios : TRUE),
   dCur |-> FALSE, l |-> [t \in Tmpls |-> NoRS], lCur |-> {}, oldRuns |-> FALSE, todo |-> <<>>,
   then |-> "status", fresh |-> FALSE]

WorkerType ==
  [pc: PCs, via: Vias, d: DepType, dCur: BOOLEAN, l: [Tmpls -> RSType], lCur: SUBSET Tmpls,
   oldRuns: BOOLEAN, todo: Seq([t: Tmpls, n: Nat]), then: {"status", "finish", "cleanup"},
   fresh: BOOLEAN]

TypeOK ==
  /\ dep \in DepType /\ seen \in DepType
  /\ rs \in [Tmpls -> RSType] /\ seenRS \in [Tmpls -> RSType]
  /\ running \in [Tmpls -> Nat] /\ births \in 0..MaxRev
  /\ seenCur \in BOOLEAN /\ seenRSCur \subseteq Tmpls /\ stalled \subseteq Watches
  /\ w \in WorkerType
  /\ queued \in BOOLEAN /\ timer \in BOOLEAN /\ retries \in 0..MaxRetries
  /\ scenario \in Scenarios
  /\ edits \in 0..scenario.maxEdits /\ faults \in 0..scenario.maxFaults

-----------------------------------------------------------------------------
(***************************************************************************)
(* The API server (external) and the queue.                                *)
(***************************************************************************)
StoreDep(o) ==
  /\ dep' = o
  /\ seen' = IF "deployments" \in stalled THEN seen ELSE o
  /\ seenCur' = ("deployments" \notin stalled)

StoreRS(t, r) ==
  /\ rs' = [rs EXCEPT ![t] = r]
  /\ seenRS' = IF "replicasets" \in stalled THEN seenRS ELSE [seenRS EXCEPT ![t] = r]
  /\ seenRSCur' = IF "replicasets" \in stalled THEN seenRSCur \ {t} ELSE seenRSCur

(* A fault of a kind the scenario has. *)
Strikes(kind) ==
  /\ kind \in scenario.faults /\ faults < scenario.maxFaults
  /\ faults' = faults + 1

(* updateDeployment, addReplicaSet, updateReplicaSet, deleteReplicaSet: a   *)
(* delivered event enqueues the Deployment.                                 *)
Event(watch) == queued' = (queued \/ watch \notin stalled)

(* The worker goes on as x; a sync that is over without an error is         *)
(* forgotten by the rate limiter.                                           *)
Become(x) ==
  /\ w' = x
  /\ retries' = IF x = Idle THEN 0 ELSE retries

(* handleErr: an error is retried, up to maxRetries times in a row; event   *)
(* says that the failed sync has left an event behind.                      *)
ReturnErrAfter(event) ==
  /\ w' = Idle
  /\ queued' = (queued \/ event \/ retries < MaxRetries)
  /\ retries' = IF retries < MaxRetries THEN retries + 1 ELSE 0

ReturnErr == ReturnErrAfter(FALSE)

(* Deployments.UpdateStatus and Update.  What they return is not kept, so   *)
(* the copy is not current afterwards.                                      *)
UpdateDep(o, x) ==
  \/ /\ w.dCur
     /\ StoreDep(o) /\ Event("deployments")
     /\ Become(IF x = Idle THEN x ELSE [x EXCEPT !.d = o, !.dCur = FALSE])
  \/ /\ ~w.dCur
     /\ ReturnErr /\ UNCHANGED depVars

(* A status write on the way to an error, whose own error is ignored. *)
UpdateDepAndFail(o) ==
  \/ /\ w.dCur /\ o # dep
     /\ StoreDep(o)
     /\ ReturnErrAfter("deployments" \notin stalled)
  \/ /\ ~w.dCur \/ o = dep
     /\ ReturnErr /\ UNCHANGED depVars

(* ReplicaSets.Update *)
UpdateRS(t, r, x) ==
  /\ t \in w.lCur
  /\ StoreRS(t, r) /\ Event("replicasets")
  /\ Become(x)

ConflictRS(t) ==
  /\ t \notin w.lCur
  /\ ReturnErr /\ UNCHANGED rsVars

-----------------------------------------------------------------------------
(***************************************************************************)
(* Helpers of util/deployment_util.go on a worker x.                       *)
(***************************************************************************)
T(x) == x.d.tmpl
All(x) == {u \in Tmpls : x.l[u].exists}
Old(x) == All(x) \ {T(x)}
FilterActive(x, S) == {u \in S : x.l[u].replicas > 0}

(* What GetReplicaCountForReplicaSets and its like add up. *)
Replicas(x) == [u \in Tmpls |-> x.l[u].replicas]
Pods(x) == [u \in Tmpls |-> x.l[u].pods]
Avail(x) == [u \in Tmpls |-> x.l[u].avail]

IsRollingUpdate(d) == d.strategy = "RollingUpdate"

MaxSurge(d) == IF IsRollingUpdate(d) THEN ResolveSurge(Surge, d.replicas) ELSE 0

MaxUnavailable(d) ==
  IF IsRollingUpdate(d)
  THEN Smaller(ResolveUnavailable(Surge, Unavailable, d.replicas), d.replicas) ELSE 0

MinAvailable(d) == d.replicas - MaxUnavailable(d)

MaxOldRevision(x) ==
  LET revs == {0} \cup {x.l[u].rev : u \in Old(x)}
  IN  CHOOSE m \in revs : \A r \in revs : r <= m

ByCreation(x, S) == Sorted(S, {p \in S \X S : x.l[p[1]].born < x.l[p[2]].born})
NewestFirst(x, S) == Sorted(S, {p \in S \X S : x.l[p[1]].born > x.l[p[2]].born})
BySizeNewer(x, S) ==
  Sorted(S, {p \in S \X S : \/ x.l[p[1]].replicas > x.l[p[2]].replicas
                            \/ /\ x.l[p[1]].replicas = x.l[p[2]].replicas
                               /\ x.l[p[1]].born > x.l[p[2]].born})
BySizeOlder(x, S) ==
  Sorted(S, {p \in S \X S : \/ x.l[p[1]].replicas > x.l[p[2]].replicas
                            \/ /\ x.l[p[1]].replicas = x.l[p[2]].replicas
                               /\ x.l[p[1]].born < x.l[p[2]].born})
ByRevision(x, S) ==
  Sorted(S, {p \in S \X S : \/ x.l[p[1]].rev < x.l[p[2]].rev
                            \/ /\ x.l[p[1]].rev = x.l[p[2]].rev
                               /\ x.l[p[1]].born < x.l[p[2]].born})

(* SetDeploymentCondition for Progressing: a condition of the same reason   *)
(* is left with its time.                                                   *)
SetProgressing(s, reason) ==
  IF s.prog = reason THEN s ELSE [s EXCEPT !.prog = reason, !.progOld = FALSE]

DeploymentComplete(d, s) ==
  /\ s.updated = d.replicas /\ s.total = d.replicas /\ s.available = d.replicas
  /\ s.observed
=============================================================================
