---------------------------- MODULE RolloutState ----------------------------
(***************************************************************************)
(* What the Rollout reconciler reads and writes: one Rollout object and    *)
(* its ReplicaSets on the API server, the informer caches the reconciler   *)
(* reads them through, the router's canary weight, the stable Services and *)
(* the AnalysisRuns, and the local state of the reconcile in progress.     *)
(*                                                                         *)
(* The API server accepts a write only from a copy that carries the        *)
(* current resourceVersion.  Resource versions are not numbered: for each  *)
(* copy the model keeps whether it is current.                             *)
(***************************************************************************)
EXTENDS ReplicaMath, Sequences, FiniteSets

CONSTANTS
  Tmpls,          (* pod templates; a template stands for its pod-template-hash *)
  FirstTmpl,      (* the template the Rollout is created with                *)
  Plans,          (* progressions: sequences of steps                        *)
  FirstPlan,      (* the progression the Rollout is created with             *)
  StepNames,      (* names of the steps                                      *)
  Sizes,          (* values of spec.replicas                                 *)
  FirstSize,      (* the value the Rollout is created with                   *)
  NServices,      (* number of stableServices                                *)
  HPAStrategy,    (* spec.hpaStrategy                                        *)
  AutoPromotion,  (* spec.autoPromotion                                      *)
  Router,         (* "none"; "mesh", a working plugin; "nilClient", the      *)
                  (* plugin built without a dynamic client                   *)
  VerifyWeight,   (* spec.trafficRouting.verifyWeight is not Disabled        *)
  ScaleDownDelay, (* progression.scaleDownDelaySeconds is positive           *)
  HistoryLimit,   (* spec.revisionHistoryLimit                               *)
  MaxSurge,       (* progression.maxSurge, in percent                        *)
  Forwarded,      (* the API server accepts the Deployment status writes of  *)
                  (* the forked controller                                   *)
  Verdicts,       (* phases an AnalysisRun may end in                        *)
  Lag,            (* whether the informer caches may trail the API server    *)
  UserEdits,      (* the kinds of edit a user makes                          *)
  MaxEdits,       (* bound on the number of user edits                       *)
  MaxFaults,      (* bound on failed calls, restarts and unverified weights  *)
  MaxRev          (* bound on ReplicaSet revisions and creations             *)

None == ""

Phases == {None, "Progressing", "Paused", "Promoting", "Healthy", "Aborted"}
PauseReasons == {None, "PausedStep", "AwaitingPromotion", "AnalysisFailed",
                 "AnalysisInconclusive"}
Kinds == {"setWeight", "setCanaryScale", "pause", "analysis", "experiment", "promote"}

(***************************************************************************)
(* A step of a progression.  Only the fields of its kind matter: weight of *)
(* setWeight; by and count of setCanaryScale (an absolute count, a percent *)
(* of spec.replicas, or the last traffic weight); timed of pause (whether  *)
(* it has a duration); onFailure and onInconclusive of analysis.           *)
(***************************************************************************)
StepType ==
  [name: StepNames, kind: Kinds, weight: 0..100,
   by: {"replicas", "percent", "match"}, count: Nat, timed: BOOLEAN,
   onFailure: {"Rollback", "Pause", "Ignore"},
   onInconclusive: {"Abort", "Pause", "Ignore"}]

ASSUME ConstantsAssumption ==
  /\ IsFiniteSet(Tmpls) /\ None \notin Tmpls /\ FirstTmpl \in Tmpls
  /\ None \notin StepNames
  /\ Plans \subseteq Seq(StepType) /\ FirstPlan \in Plans
  /\ \A p \in Plans : \A i, j \in DOMAIN p : p[i].name = p[j].name => i = j
  /\ Sizes \subseteq Nat /\ FirstSize \in Sizes
  /\ NServices \in Nat
  /\ HPAStrategy \in {"Preserve", "StableOnly", "Disabled"}
  /\ AutoPromotion \in {"Enabled", "Manual", "Disabled"}
  /\ Router \in {"none", "mesh", "nilClient"}
  /\ {VerifyWeight, ScaleDownDelay, Forwarded, Lag} \subseteq BOOLEAN
  /\ HistoryLimit \in Nat /\ MaxSurge \in 0..100
  /\ Verdicts \subseteq {"Successful", "Failed", "Error", "Inconclusive"}
  /\ UserEdits \subseteq {"template", "scale", "abort", "paused", "plan", "clear", "mesh"}
  /\ {MaxEdits, MaxFaults, MaxRev} \subseteq Nat

RunNames == StepNames \X (Tmpls \cup {"initial"})
RunPhases == {"absent", "Running", "Successful", "Failed", "Error", "Inconclusive"}

SpecType ==
  [tmpl: Tmpls, replicas: Sizes, paused: BOOLEAN, abort: BOOLEAN, plan: Plans]

(***************************************************************************)
(* The status.  pause is the reason of pauseConditions[0] (None: empty);   *)
(* pauseOld and stepOld say that the pause duration has passed since its   *)
(* StartTime and scaleDownDelaySeconds since stepStartedAt; observed that  *)
(* observedGeneration equals metadata.generation; recorded holds the       *)
(* AnalysisRuns summarised.  total stands for the replica, ready and       *)
(* available counters, which the ReplicaSet controller moves together.     *)
(***************************************************************************)
StatusType ==
  [phase: Phases, step: StepNames \cup {None}, weight: 0..100,
   pause: PauseReasons, pauseOld: BOOLEAN, stepOld: BOOLEAN,
   desired: Nat, observed: BOOLEAN, podHash: Tmpls \cup {None},
   recorded: SUBSET RunNames, total: Nat, updated: Nat]

ObjType == [spec: SpecType, st: StatusType]

(***************************************************************************)
(* A ReplicaSet is named after its template's hash, so there is at most    *)
(* one per template.  born orders the creations; owner is the kind and the *)
(* UID in the controller ownerReference.                                   *)
(***************************************************************************)
RolloutUID == "uid"
Owners == {"Deployment", "Rollout"} \X {RolloutUID}

RSType ==
  [exists: BOOLEAN, replicas: Nat, pods: Nat, rev: 0..MaxRev, born: 0..MaxRev,
   owner: Owners]

NoRS == [exists |-> FALSE, replicas |-> 0, pods |-> 0, rev |-> 0, born |-> 0,
         owner |-> <<"Deployment", RolloutUID>>]

VARIABLES
  obj,        (* the Rollout on the API server                             *)
  seen,       (* the Rollout in the informer cache                         *)
  seenCur,    (* seen carries the current resourceVersion                  *)
  ro,         (* the copy the reconcile in progress works on               *)
  roCur,      (* ro carries the current resourceVersion                    *)
  rs,         (* the ReplicaSets on the API server                         *)
  seenRS,     (* the ReplicaSets in the informer cache                     *)
  seenRSCur,  (* the templates whose ReplicaSet is current in seenRS       *)
  lrs,        (* the reconcile's copies: newRS and oldRSs                  *)
  lrsCur,     (* the templates whose ReplicaSet is current in lrs          *)
  fresh,      (* history: the templates whose ReplicaSet was current in    *)
              (* lrs when the reconcile listed them                        *)
  births,     (* ReplicaSets created so far                                *)
  routerW,    (* canary weight the router applies                          *)
  svc,        (* pod-template-hash each stable Service selects             *)
  runs,       (* phase of each AnalysisRun                                 *)
  judged,     (* history: the template under analysis when a run was made  *)
  pc,         (* the next call of the reconcile in progress                *)
  queued,     (* the Rollout's key is in the work queue                    *)
  timer,      (* a RequeueAfter is pending                                 *)
  edits,      (* user edits made                                           *)
  faults      (* faults suffered                                           *)

rolloutVars == <<obj, seen, seenCur, roCur>>
rsVars == <<rs, seenRS, seenRSCur, lrs, lrsCur, fresh, births>>
outside == <<routerW, svc, runs, judged>>
bounds == <<edits, faults>>
vars == <<rolloutVars, ro, rsVars, outside, pc, queued, timer, bounds>>

PCs == {"idle", "newRS", "canary", "stable", "counts",
        "abortRoute", "abortScale", "abortMark", "init",
        "exec", "verify", "stamp", "advance", "policy",
        "promoteRoute", "promoteStamp", "repoint", "scaleDown"}

TypeOK ==
  /\ obj \in ObjType /\ seen \in ObjType /\ ro \in ObjType
  /\ seenCur \in BOOLEAN /\ roCur \in BOOLEAN
  /\ rs \in [Tmpls -> RSType] /\ seenRS \in [Tmpls -> RSType] /\ lrs \in [Tmpls -> RSType]
  /\ seenRSCur \subseteq Tmpls /\ lrsCur \subseteq Tmpls /\ fresh \subseteq Tmpls
  /\ births \in 0..MaxRev
  /\ routerW \in 0..100
  /\ svc \in [1..NServices -> Tmpls \cup {None}]
  /\ runs \in [RunNames -> RunPhases]
  /\ judged \in [RunNames -> Tmpls \cup {None}]
  /\ pc \in PCs
  /\ queued \in BOOLEAN /\ timer \in BOOLEAN
  /\ edits \in 0..MaxEdits /\ faults \in 0..MaxFaults

-----------------------------------------------------------------------------
(***************************************************************************)
(* The API server (external).                                              *)
(***************************************************************************)

(* A change of the Rollout: every copy goes stale; the informer delivers    *)
(* the new version and enqueues the key, at once or, with Lag, later.       *)
Store(o) ==
  /\ obj' = o
  /\ roCur' = FALSE
  /\ seen' = IF Lag THEN seen ELSE o
  /\ seenCur' = ~Lag
  /\ queued' = (queued \/ ~Lag)

(* The same for the ReplicaSet of template t.  No event reaches the queue:  *)
(* see EnqueueOwner.                                                        *)
StoreRS(t, r) ==
  /\ rs' = [rs EXCEPT ![t] = r]
  /\ seenRS' = IF Lag THEN seenRS ELSE [seenRS EXCEPT ![t] = r]
  /\ seenRSCur' = IF Lag THEN seenRSCur \ {t} ELSE seenRSCur

(* A reconcile that returns an error is retried by the work queue. *)
ReturnErr == pc' = "idle" /\ queued' = TRUE

(* An Update that a stale copy wins too. *)
UpdateBlind(o, next) ==
  /\ Store(o)
  /\ pc' = next

(* client.Status().Update / client.Update of a changed copy of ro.  An      *)
(* identical object is accepted without a new version; a stale one is a     *)
(* conflict, which the reconciler returns.                                  *)
Update(o, next) ==
  \/ /\ roCur /\ o = obj
     /\ pc' = next
     /\ UNCHANGED <<rolloutVars, queued>>
  \/ /\ roCur /\ o # obj
     /\ Store(o)
     /\ pc' = next
  \/ /\ ~roCur
     /\ ReturnErr
     /\ UNCHANGED rolloutVars

UpdateStatus(s, next) == Update([obj EXCEPT !.st = s], next)
=============================================================================
