# Verification of the Rollout controllers

TLA+ models of the progressive-delivery controllers of this repository, the TLC
runs that check them on small instances, and TLAPS proofs for every instance.

Paths below are relative to the repository; `rollout/` stands for
`pkg/controller/rollout/` and `analysis/` for `pkg/controller/analysis/`.

## 1. The system

| Component | State | Operations | Hard parts |
| --- | --- | --- | --- |
| Rollout reconciler (`rollout/controller.go`, `scaling.go`, `status.go`, `helpers.go`) | one Rollout object (spec, status), its ReplicaSets, the work queue | `Reconcile`, `syncRollout`, `reconcileReplicaSets`, `reconcileReplicas`, `pushReplicaCounts`, `abort` | works on cached copies; every call may fail or conflict; user, autoscaler and other controllers write in between |
| Progression executor (`rollout/progression.go`, `steps.go`) | `status.currentStep`, `currentWeight`, `pauseConditions`, phase | one handler per kind of step, `advanceStep`, `finalize` | several calls per step, taken up again after each conflict; clocks; edits of the plan under way |
| Replica arithmetic (`scaling.go`, `steps.go`, forked `deployment_util.go`) | none | `splitReplicas`, `percentOf`, `NewRSNewReplicas` | rounding, clamps, the surge budget |
| Forked deployment primitives (`rollout/_forkedfrom_k8s/sync.go`, `headless.go`, `util/`) | ReplicaSets and their revisions | `getNewReplicaSet`, `scaleReplicaSet`, `cleanupDeployment` | decides on lists that trail the server |
| Forked deployment loop (`deployment_controller.go`, `sync.go`, `rolling.go`, `recreate.go`, `progress.go`, `rollback.go`) | a Deployment, its ReplicaSets with size annotations, conditions, the work queue | `syncDeployment` and everything it calls, informer handlers, `handleErr` | several writes per sync, each from its own copy; surge and availability budgets; the progress deadline; a bounded number of retries |
| ControllerRef manager (`pkg/internal/k8scontroller/controller_ref_manager.go`) | the owner of each ReplicaSet | `ClaimReplicaSets`, adopt, release, `CanAdopt` | Deployments claim concurrently from cached lists; deletion with `--cascade=orphan`; names used again |
| AnalysisRun controller (`analysis/controller.go`) | AnalysisRun status: phase, results by metric | `Reconcile`, `terminate`, `sampleMetric`, the phase folds | repeated sweeps from cached copies, late `spec.terminate`, timers |
| Condition evaluator and Prometheus provider (`analysis/evaluator.go`, `providers/prometheus.go`) | none | `Query`, `parseQueryResponse`, `Evaluate` | no samples, no number, a scalar where a slice is expected |
| Router plugins (`pkg/trafficrouting`) | weights in the VirtualServices | `SetWeight`, `VerifyWeight` | one request per VirtualService; edits and failures in between |
| Manager, experiment skeleton, stubs, generated and copied code | | | not modelled, see section 8 |

The Rollout reconciler calls the forked primitives, the router and the executor
synchronously. It talks to the AnalysisRun controller only through AnalysisRun
objects, which it creates and polls every ten seconds, and to the ReplicaSet
controller only through ReplicaSet objects. Nothing else is shared.

The forked deployment loop is part of the repository and of its tests, but the
binary starts it headless: without informers, only for its primitives. Its
model is of the loop as written, for a controller that does run it.

Facts about the code that shape the model:

- Every status write starts from a `DeepCopy` of the Rollout read at the top of
  the reconcile. After one write that changed the object the next one in the
  same reconcile is a conflict, so a step that needs three writes takes three
  reconciles. The model keeps, for every copy, whether it carries the current
  `resourceVersion`, and refuses a write from one that does not.
- Scaling a ReplicaSet leaves the reconcile's copy of it as it was read.
  `reconcileReplicas`, `abort`, `runSetCanaryScale` and `scaleDownAfterDelay`
  scale from the same copies, so a second scale of one ReplicaSet in one
  reconcile is a conflict.
- A ReplicaSet is created with an ownerReference of kind Deployment that carries
  the Rollout's UID; `ensureOwnedByRollout` compares only the UID and leaves it.
  ReplicaSet and Pod events therefore never enqueue the Rollout: only events of
  the Rollout, `RequeueAfter`, errors and resyncs do (`EnqueueOwner`).
- `client.Update` does not store status fields. A failed gate under Rollback sets
  `spec.abort`; the phase Degraded set beside it is lost.
- `advanceStep` clears `currentStep` after the last step, and `syncRollout` takes
  an empty `currentStep` for a first sync.
- `finalize` is reached only when `currentStep` names no step of the plan.

## 2. Modules

| Module | Models |
| --- | --- |
| `ReplicaMath` | the replica arithmetic, as operators |
| `ReplicaMathCheck` | the arithmetic over its inputs, an autoscaler raising `spec.replicas`, proportional scaling from a former size |
| `DeploymentMath` | fenceposts, proportional sizes and the scale-down loops of the forked controller; sums and sorted lists as cardinalities and choices, which the proofs can reason about |
| `Deployment` | one Deployment: scenarios, types, variables, the API server's write rule, helpers of `util` |
| `DeploymentSync` | `syncDeployment` call by call: ReplicaSet sync, scaling, rolling update, recreate, rollback, cleanup, status |
| `DeploymentSystem` | the sync beside user, watches, ReplicaSet controller, pods, clock, faults; fairness and properties |
| `Ownership` | informer handlers, queue and claims of several Deployments, garbage collector, properties |
| `RolloutState` | constants and their assumptions, types, variables, the API server's write rule |
| `Reconciler` | `Reconcile` to the branch of `syncRollout`: read, ReplicaSet sync, split, counts, abort, first step |
| `Executor` | the step handlers, the promotion, `finalize` with `cleanupDeployment` |
| `RolloutSystem` | reconciler and executor beside user, autoscaler, informers, ReplicaSet and AnalysisRun controllers, clock, faults; fairness and properties |
| `RolloutClaims` | statements of docs and comments that the code does not keep |
| `AnalysisRun` | the AnalysisRun controller and one run, with properties |
| `Sampling` | one sample: the query's answer, the two conditions, what the sample counts as |
| `IstioRouter` | the Istio provider, request by request, under its caller, with properties |
| `RunVerdict` | the abstract run the executor gates on: running, then one verdict for ever |
| `MCRollout`, `MCAnalysis`, `MCIstio`, `MCDeployment`, `MCOwnership` | progressions, metrics with answers, VirtualServices, scenarios and labels for TLC |
| `MathLemmas` | lemmas about percentages, sums, sorted lists and the greedy loops |
| `ReplicaMathProofs`, `AnalysisRunProofs`, `RolloutProofs`, `PromotionProofs`, `IstioRouterProofs`, `OwnershipProofs`, `DeploymentProofs` | proofs |

State and code: `obj` is the Rollout on the API server, `seen` the informer's
copy, `ro` the reconcile's; `rs`, `seenRS`, `lrs` are the same for the
ReplicaSets. `seenCur`, `roCur`, `seenRSCur`, `lrsCur` say which copies are
current. `pc` is the next API call of the reconcile in progress; each action is
one call with the code that leads to it, so that anything may happen between two
calls. There is one worker because controller-runtime never runs two reconciles
of a key at once. Times are two Booleans: `pauseOld` (the pause's duration has
passed since its start time) and `stepOld` (`scaleDownDelaySeconds` have passed
since `stepStartedAt`). `judged` and `fresh` are history variables: the template
under analysis when a run was made, and the templates whose ReplicaSet was current
in the list when the reconcile read it. A template stands for its pod-template-hash. A plan has
distinct step names (CRD validation) and the fields its handlers read.

`AnalysisRun` uses the same scheme. A metric's measurements are kept as what the
phases are derived from: conclusive successes, failures, and the errors at the
end of the list. Its successes are capped at `MaxOk`; the cap is at least every
metric's count, so it never hides a verdict. What a sample counts as is not
chosen freely: the provider's answer is, and `Sampling` translates the way from
the answer to the counter. A value there is the sequence of the numbers returned.

`IstioRouter` has the VirtualServices in `vs`, the call in progress in `pc`, `at`
(the reference in turn) and `http` (the list as read), and the caller's wish in
`want`, `verify`, `done`. `calm` is a history variable: nobody else has edited
since the call began. References are a sequence and may name a VirtualService
twice.

In the Deployment modules the worker is one record `w`: `pc` its next API call,
`via` the function that leads to it, `d` and `l` its copies of the Deployment and
of the ReplicaSets, `todo` the sizes it still has to write and `then` what follows
them. The operators on a worker (`AtRolling(x)`, `AtStatus(x)`, ...) run the code
up to the next API call and give the worker there; an action makes the call. A
copy is current or not, as above; `Deployments.Update` returns an object that the
code drops, so the second write of the Deployment in one sync is a conflict. `fresh`
is a history variable: all copies were current when the sync read them. A
ReplicaSet carries its `desired-replicas` and `max-replicas` annotations, since
`isScalingEvent` and the proportional sizes are computed from them. `running`
counts pods with those that terminate, which no status shows. `Collides` names the
templates whose first ReplicaSet name is taken by a stranger.

`Ownership` has several Deployments with one worker each, as the queue allows, a
store per informer that is brought up to date object by object in any order, and
UIDs, so that a name deleted and used again is another object. `freed` is a
history variable: the owners whose deletion orphaned the ReplicaSet. It stops
where `syncDeployment` goes on with the claimed list, which is where
`DeploymentSync` begins.

Definitions whose comment says "A ... that ..." and that no action uses
(`StampNothing`, `UpdateBlind`, ...) are wrong variants of the code. Replacing the
right definition by the variant must break a property; they show that the
property depends on that line of the code.

## 3. Runs

Passing runs (`tlc -config X.cfg M`):

| Run | Checks | Instance and bounds |
| --- | --- | --- |
| `ReplicaMathCheck` | `SplitExact`, `CanaryCarriesWeight`, `CreateWithinSurge`, `ScaleUpTakesNothing`, `ProportionalFair` | sizes to 9, ten weights with the edges 0, 1, 99, 100, three surges; for proportional scaling all splits of a former size over two or three ReplicaSets. The proofs cover the rest |
| `MCCanary` | `RouterFollowsStatus`, `WeightFollowsSteps`, `GatesHold`, `PromotionComplete`, `PromoteOrder`, `Completes`, `FailedGateRollsBack` | the quickstart canary (weight, soak, gate, promote) with a canary sized by percent, two templates, two Services, one template or size edit and one fault anywhere |
| `MCReplan` | `StepsInOrder`, `GatesHold`, `ClosedGateHolds`, `RevisionOnTop` | replica counts left alone (Disabled), two plans with the gate policies Pause and Ignore, failed and Inconclusive verdicts, Manual promotion; two templates, caches that trail, two template, plan or clear edits, one fault; size 0 and no history, where every old ReplicaSet may be deleted |
| `MCOperator` | `TypeOK`, `MatchAgrees`, `AbortDrains`, `PausedFreezes`, `SplitConverges` | two edits of abort, paused, the route, the template or the size (0 and 2), one fault; Preserve, no surge, weights not verified; a plan that sizes the canary by its traffic weight and is held in an indefinite pause |
| `MCAnalysis` | `SamplesCounted`, `DryRunHarmless`, `SuccessIsEarned`, `OneVerdict`, `TerminateEnds`, `ConclusiveEnds` | two metrics, one of them a dry run, one delayed; eight answers (numbers above, between and below the bounds, NaN, no sample, text, several samples, an outage), terminate at any time, one fault |
| `MCIstio` | `DoneMeansRouted`, `OthersKept`, `WeightsArrive` | two VirtualServices, one listed twice with overlapping routes; managed, foreign, three-way and single-destination routes; three weights asked for, two edits of others, one fault |
| `MCDeployment` | `TypeOK`, `SurgeKept`, `AvailabilityKept`, `RecreateExclusive`, `RollbackUndoes`, `RolloutCompletes`, `StuckReported` | two templates, one whose name collides; surge 50 %, no unavailability; twelve scenarios: RollingUpdate and Recreate, sizes 1, 2 and (by scaling) 4, two edits (template, size, paused, rollback, delete) without faults, or one edit and one fault (a watch that stalls, a pod, a quota, a create, any call, a restart), and templates whose pods never become available |
| `MCOwnership` | `NotTakenBack`, `OwnSetsOnly`, `Settles` | two Deployments, one ReplicaSet, two labels, two UIDs per name, two edits (create, delete with both cascades, relabel) and one fault (a failed call, a restart) |

Two templates are enough for a revision and its successor; what depends on more
than one old ReplicaSet (`PromotionComplete`, `HistoryKept`, the budgets of a rolling
update) is proved for any number of them. One fault is enough to cut any handler at
any call and see the retry; the caches that trail give the other source of old
copies. Edits are bounded by `MaxEdits`; the bound of each run lets the user act
before, during and after the handler the run is about. `MaxRev` bounds revisions
and creations and is never reached by the edits a run allows.

`MaxRetries` is 5 in `MCDeployment` and 4 in `MCOwnership` (15 in the code): more
than the failures the faults of a scenario and a watch that trails can cause in a
row. Beyond that (three edits with a fault, or two faults, in `Ownership`) the
retries can be used up and the key is dropped, as after 15 real failures;
`RolloutCompletes` and `Settles` say nothing of a key that has been dropped. The
retries of `Ownership` after the first wait until the watches have caught up,
which the growing delays of the rate limiter stand for. `Ownership` was also
explored with three edits and no fault (1.5 million states) and with two
ReplicaSets, one edit and one fault, with no error.

What the properties say beyond single assignments:

- `WeightFollowsSteps`, `RouterFollowsStatus`: route, status weight and current
  step are written by different calls; in every reachable state the status weight
  is that of a completed step or of the current one, and the router is never
  behind the status. (`RouterFollowsStatus` is stated for a plan that stands and
  a route nobody edits by hand.)
- `PromotionComplete`, `PromoteOrder`: the promotion as a whole at the moment its
  step is left, for the template of that moment, though a template change or a
  fault may split it over several reconciles. `PromotionComplete` answers for the
  ReplicaSets in `fresh`: all of them when the caches keep up, as in `MCCanary`;
  one that an outdated list does not show may keep its replicas.
- `StepsInOrder`, `GatesHold`: action properties over every interleaving. A pause
  without a duration may be left, as far as `GatesHold` goes, once the user has
  cleared the pause it entered; whether it is left then is what `MCPromote` asks.
  A renamed step is not skipped by the walk: `finalize` ends the progression there
  (see the observations).
- `MatchAgrees`: `matchTrafficWeight` reads its weight off the plan, the sweep
  takes the one in the status, which another call stamps and may fail to; wherever
  the step is current the two come to one count. It is stated for Preserve and for
  steps before which the last to move traffic was a `setWeight`: `lastSetWeight`
  does not see a promotion.
- `PausedFreezes`: the whole state that a reconcile may write, once the one in
  flight has ended; only the user still writes spec, status and route.
- `SplitConverges`: the counts reached once edits stop, without ReplicaSet events.
- `HistoryKept`: deletions decided on old copies, one at a time. Each copy that was
  outdated when listed may cost one ReplicaSet of the history. It is proved
  (`HistoryIsKept`); the smallest instance that needs it, three templates and four
  template edits with an empty progression and caches that trail, was explored
  with TLC (624,175 states) and is not among the runs above.
- `RevisionOnTop`: numbers given from lists that may lack a ReplicaSet just created
  or still show a deleted one, in the end.
- `OneVerdict`: refinement of `RunVerdict`.
- `DoneMeansRouted`: the whole mesh at the moment the caller goes on, after calls
  that failed half way.
- `ClosedGateHolds`: the gate is a pause condition and a phase that several
  handlers write; none of them opens it, from however old a copy.
- `ProportionalFair`: rounding, caps and leftover together hand out exactly what
  there is, to two or three ReplicaSets; with four they may not (see the
  observations).
- `SurgeKept`, `AvailabilityKept`: budgets kept by each of the several writes of a
  sync, not only by its outcome. They are stated for copies that were current when
  read: from older ones the code exceeds them. `SurgeKept` is stated for scaling
  events in which no ReplicaSet has to shrink (`Grows`): otherwise the code exceeds
  the surge between two writes (see the observations for both).
- `RecreateExclusive`: terminating pods, which only the pod list shows; for syncs
  whose copies were current when read.
- `RollbackUndoes`: the sync that rolls back may create and renumber ReplicaSets
  before it looks for the last revision.
- `RolloutCompletes`: from any state that edits, conflicts, collisions and faults
  lead to, without a resync.
- `StuckReported`: the progress check comes back although nothing happens; without
  failed calls and restarts (see the observations).
- `SamplesCounted`: for the distinct metric names of the run; two metrics of one
  name share a result (see the observations).
- `NotTakenBack`: a live read after a cached list, against deletion and
  recreation in between; `OwnSetsOnly`: concurrent patches without a
  resourceVersion; `Settles`: the wake-ups of two watches in either order.
- `WeightsArrive`: the caller's retry against edits between patch and
  verification; its hypothesis `Routable` names the shapes of a VirtualService for
  which the retry never ends.

`AbortDrains` is the part of the abort contract that holds: the traffic goes back
for good. The canary's pods do not (run `MCAbort`).

Runs that refute a statement of the documentation or of a comment:

| Run | Statement | What happens |
| --- | --- | --- |
| `MCRestarts` | Healthy is terminal (`docs/operations.md:37-40`) | completing clears `currentStep`; the reconcile that follows takes that for a first sync and starts the progression over |
| `MCAbort` | abort scales the canary to 0 (`docs/operations.md:57`) | `reconcileReplicas` runs first and scales it to the share of `currentWeight`, which abort does not reset. A reconcile whose copy shows no replicas scales up, and abort skips its own scale because of that copy (`rollout/controller.go:371`); the next one, whose copy shows the share, leaves it to abort, which scales to zero; the two alternate for ever |
| `MCVerdict` | an AnalysisRun is per revision (`rollout/steps.go:613-615`) | its name uses `status.currentPodHash`, which only `finalize` stamps; a template changed at the gate is passed on the verdict of the one before |
| `MCPromote` | an indefinite pause is promoted by clearing `pauseConditions` (`rollout/steps.go:165-166`), or by a `status.promotedAt` that does not exist (`types_rollout.go:307-309`) | `runPause` (`rollout/steps.go:171`) takes an empty `pauseConditions` for its first entry and pauses again; nothing the user does to the pause leaves the step |

### Further observations

Met while modelling; the model contains the behaviour, no listed run is about it.

- `finalize` (`rollout/progression.go:119`) also runs when the current step was
  renamed, and marks the Rollout Healthy with steps left.
- `hasUserPromotion` (`rollout/steps.go:591`) is true on the first entry of a
  promote step, so `autoPromotion: Manual` does not wait; the gate closes only
  when a plan edit turns a held step into a promotion.
- Once closed, the gate is opened by clearing `pauseConditions` only if the phase
  is no longer Paused; otherwise the next reconcile closes it again.
- The next template inherits `currentWeight` 100 (`rollout/scaling.go:56`): its
  first reconcile moves all replicas to the new ReplicaSet and scales the old one
  to zero while the stable Services still select it, though the comment at
  `rollout/steps.go:452-453` says "The previous stable RS is scaled to zero after
  scaleDownDelaySeconds."
- `cleanupDeployment` may delete a ReplicaSet that has replicas: when the template
  and the current step's name change together, the next reconcile scales the old
  ReplicaSet up to the stable share (`rollout/scaling.go:58`), and `finalize`, which
  still has the copy with zero, deletes it (`_forkedfrom_k8s/sync.go:461`). The
  caches keep up and nothing fails. The comment at `sync.go:460` says "Avoid delete
  replica set with non-zero replica counts".
- Once `currentWeight` is 100 the next sweep scales the old ReplicaSet to zero
  without regard to `scaleDownDelaySeconds` (`rollout/scaling.go:56`).
- Under Preserve the sweep undoes the count of a `setCanaryScale` step that differs
  from the split (`rollout/scaling.go:47`), and when the sweep itself has to scale,
  the step's write is a conflict (`rollout/steps.go:82`). The step may never be left:
  with `percent: 100` at weight 50 and two replicas, the count changes between any two
  reconciles, so `pushReplicaCounts` always has a count to write and the step's own
  status write after it (`rollout/steps.go:85`) always conflicts, and TLC finds a
  behaviour of `MCCanary` with that plan in which the rollout does not complete. The
  plans of the runs ask for the count of the split, by percent or by traffic weight;
  no run has the form with an absolute number.
- When caches trail, fewer than `revisionHistoryLimit` old ReplicaSets may be left: a
  list that lacks the new revision of a ReplicaSet has it deleted as the oldest, and
  a later list that still shows it counts it as history while another one is deleted
  (`_forkedfrom_k8s/sync.go:454`; three templates, an empty progression, four
  template edits). `HistoryKept` says that each outdated copy costs one at most.
- A promotion under `StableOnly` is left while the old ReplicaSet has replicas: the
  split keeps the stable side at full size, and the sweep scales up what
  `scaleDownAfterDelay` scaled down (`rollout/scaling.go:56`). So is one that works
  from a list of ReplicaSets that trails, with two template edits, for it scales
  down what the list shows.
- An abort that is cleared again leaves the status weight ahead of the router: it
  takes the traffic back and not `currentWeight` (`rollout/controller.go:364`).
- While `status.currentPodHash` is empty, `hasMatchingRS` is true as soon as any
  ReplicaSet exists, and a new one is created with the surge budget instead of
  zero (`rollout/controller.go:296`).
- With two old ReplicaSets only the largest is driven, so a revision superseded
  half way leaves more pods than `spec.replicas` (`rollout/scaling.go:56`).
- The Deployment status write of `getNewReplicaSet` (`_forkedfrom_k8s/sync.go:177`)
  is an error where there is no Deployment of that name, and with the default
  `progressDeadlineSeconds` it is always made: then nothing after
  `reconcileReplicaSets` runs. The runs take `Forwarded = TRUE`, an API server on
  which the write succeeds or is not needed.
- The default `ResolveRouter` passes a nil dynamic client
  (`rollout/controller.go:80`), which the Istio provider calls: `Router =
  "nilClient"` is that configuration, and no weight is ever set in it. The runs
  take `Router = "mesh"`, a reconciler built with a working router, or `"none"`.
- Two metrics of one name share one result (`analysis/controller.go:184`): their
  samples are mixed. `NoSampleLost` and `SuccessEarned` are proved for distinct
  names.
- `failureLimit` is not honoured once `count` is reached
  (`analysis/controller.go:322`), and a metric whose samples no condition decides
  stays Running for ever (`analysis/controller.go:330`); Inconclusive is handled
  by the executor and never produced.

- A route with the canary as its only destination is skipped by the rewrite and
  not by the verification (`istio/istio.go:216`, `:268`), so a `setWeight` step
  waits for ever on a VirtualService that has one.
- The rewrite keeps two destinations, host and weight (`istio/istio.go:222`), and
  the merge patch carries no version: subsets, further destinations, and edits
  made between the read and the patch are lost (`docs/routers/istio.md:4-5` says
  subsets are left untouched).
- `RemoveManagedRoutes` is never called, at completion or elsewhere
  (`docs/routers/istio.md` says it is).
- A vector of one sample is unwrapped (`providers/prometheus.go:163`), so a
  condition on `result[0]` is an error and decides nothing when a query that
  usually returns several series returns one.

Of the forked deployment loop:

- If the status write after a creation fails, or the controller restarts there
  (`_forkedfrom_k8s/sync.go:289`), Progressing keeps the reason
  NewReplicaSetAvailable of the rollout before. `DeploymentTimedOut` is false for
  it, so a stuck rollout is enqueued again and again and never reported, where
  `progress.go:188-189` says "eventually the Deployment should transition either to
  a Complete or to a TimedOut condition". `StuckReported` is therefore checked
  without failed calls and restarts.
- `scaleDownOldReplicaSetsForRollingUpdate` counts available pods beyond
  `spec.replicas` of a ReplicaSet, which it has already been told to give up
  (`rolling.go:200`); with the template flipped back half way, fewer than
  `minAvailable` pods may be left. `AvailabilityKept` excludes that case.
- With lists that trail, two template changes can lead to more pods than the surge
  allows: a ReplicaSet's size is computed from old sizes of the others.
- `scale` says that the replicas added never exceed what there is to add
  (`sync.go:355-356`). Each proportion is cut to that, but may have the other sign:
  five replicas scaled to four at 25 % surge, with sizes 2 and 2 made for a maximum
  of 7, have proportions of -1 each with one to add, and end as 4 and 1.
- For the same reason scaling to a smaller size may exceed the surge between two
  writes (`sync.go:389`): eight replicas scaled to six at 50 % surge, with sizes 4
  and 4 made for a maximum of 12, have proportions of -1 each with one to add; the
  first is written as 6 while the other still has 4, ten pods where nine are
  allowed. If the sync ends there the next one starts from that.
- With four active ReplicaSets the sizes may not add up: 1, 1, 1 and 1 made for a
  maximum of 4 and scaled to two pods in all are each rounded to 1 (a half is
  rounded up), so the two to take are left over for the first, which is cut off at
  zero (`sync.go:383`). Three pods stay, for one sync or more.
- A pause in the middle of a rolling update scales the ReplicaSets up to the surge
  (`sync.go:324`).
- A single active ReplicaSet that already has `spec.replicas` keeps its old
  `desired-replicas` annotation (`sync.go:303`), so every sync is a scaling event.
- A rollback request under Recreate creates the new ReplicaSet at its full size
  beside the old ones (`rollback.go:35`), before the template is set back.
- `cleanupDeployment` may delete a ReplicaSet whose pods still terminate; its pods
  are then in no `podMap`.
- Without a `max-replicas` annotation a proportion is computed from
  `status.replicas` (`util/deployment_util.go:505`).
- A sync whose list still shows as an orphan what it has itself adopted, and whose
  live read precedes its own deletion, can adopt again after the garbage collector
  has removed the reference: the patch carries the ReplicaSet's UID and no
  resourceVersion. `NotTakenBack` is stated relative to the list of the sync.
- A relist that skips a deletion reports a recreated orphan as an update without a
  change of labels or owner, which wakes nobody until a resync
  (`deployment_controller.go:307`); the model delivers every deletion.

## 4. Fairness

`RolloutSystem!Fairness` has weak fairness of the reconciler (the work queue
keeps a worker on a queued key and retries errors), of the two informers (a watch
redelivers), of timers, of the resync (ten hours, but it comes), of each clock,
and of the ReplicaSet controller for each ReplicaSet. Nothing is assumed of the
user, the autoscaler or faults, nor that an analysis ends: `Completes` takes as
its hypothesis that no run stays open and none fails. Faults are bounded, so a
retry is eventually not cut short.

`AnalysisRun!Fairness` has weak fairness of the controller, the informer, timers
and the clock, and none of the resync: `ConclusiveEnds` shows that the
controller's own `RequeueAfter` brings it back.

`IstioRouter` has weak fairness of the caller's requests: a failed or unverified
`SetWeight` is called again by the next reconcile.

`DeploymentSystem!Fairness` has weak fairness of the worker (written out: it takes
steps for ever or is idle with nothing queued again and again, since its
enabledness is just that), of each watch, the ReplicaSet controller, the pods and
the clock. `Ownership!Fairness` has it of the handlers, the retries, the workers
and the garbage collector. Neither assumes a resync of the informers, nor anything
of users and faults. `Tick` of `DeploymentSystem` waits until the queue is served:
the progress deadline (600 seconds by default) is long against a sync.

Deadlock is checked in every run but `ReplicaMathCheck`, whose behaviours end at
the largest size, `MCIstio`, where a caller with no further wish rests, and
`MCDeployment` and `MCOwnership`, where a controller with nothing to do does. In
the other models time may always pass.

## 5. Proofs

All theorems hold for every value of the constants that satisfies the named
assumptions (`MathAssumption`, `ConstantsAssumption`, `MetricsAssumption`,
`RouterAssumption`, `OwnershipAssumption`, `DeploymentAssumption`); TLC evaluates
these on every run.

- `ReplicaMathProofs`: `SplitIsExact`, `CanaryCarries`, `CreateInBudget` and
  `ScaleUpIsMonotone`, from bounds on the rounded percentage (`CeilPercentBounds`):
  `100 * CeilPercent(t, p)` lies in `[t*p, t*p + 99]`.
  `ProportionalIsFair` (`ProportionalFair`) is about two or three active ReplicaSets.
  After the loop either all that was to be added or taken has been, or no
  proportion was cut and every ReplicaSet has its rounded share (`TakenShare`). In
  the second case the first gets the leftover, and it is not cut off at zero
  because the shares of the others fit into what is allowed (`SharesFit`): the first
  is the largest, so with three of them the two others have at most two thirds.
  With four this step is false, and so is the property.
- `RolloutProofs`: `Typed`, `WalkedInOrder` (`StepsInOrder`), `GatesAreHeld`
  (`GatesHold`), for any number of templates, plans, Services, edits and faults,
  with or without trailing caches. The inductive invariant is
  `Inv == TypeOK /\ Snapshot /\ Control`. `Snapshot` says that a copy with the
  current `resourceVersion` equals the object: it turns a decision on `ro` into a
  fact about `obj` at the moment the write is accepted. `Control` says at which
  kind of step each later call of a handler can be, and that at the policy call
  the run has a verdict: a handler is entered at its step and its copy does not
  change on the way. Without the first a reconcile could advance from an old
  step; without the second a handler's last call could advance a step of another
  kind. `TypeOK` is proved part by part (copies, ReplicaSets, outside, queue).
- `PromotionProofs`: seven properties of weights, promotion and history, for any
  templates, plans, Services, edits and faults and with caches that trail, on top
  of `Inv`. Each theorem names the edits and options it needs left out, and TLC
  finds the property violated when any one of them is let in.
  - `WeightTracksSteps` (`WeightFollowsSteps`; no plan edits). `Stamped` says that
    past its stamp a handler's copy has the weight the step aims at, `AtRest` what
    the weight is between the last step and the first; with plan edits "completed
    step" has no meaning.
  - `SweepKeepsMatch` (`MatchAgrees`; no plan edits). From the same invariant: at a
    step that sets no weight the status has what the last step that did has left,
    and `LastMover` shows that this is the step `lastSetWeight` finds, so that the
    two counts are one rounded percentage.
  - `RepointedInOrder` (`PromoteOrder`; nobody edits the route by hand). Added to
    `Stamped` are `Routed` (past its `SetWeight` a handler works under that
    weight) and `Trailing`: a copy, however old its `resourceVersion`, is at most
    one write of the worker behind in step and weight, since the worker's next
    such write needs a current copy. That is what makes the order survive caches
    that trail: a reconcile that repoints from an old copy still finds the status
    at 100.
  - `RouterIsAhead` (`RouterFollowsStatus`; plan, abort and route left alone, and
    a router there is). The same, with `OnePlan` and `AbortStands`: an abort can
    still come from a failed gate, but nobody takes it back.
  - `PromotedForGood` (`PromotionComplete`; no hand on the route, not
    `StableOnly`). `Records` says that births are distinct and copies are
    snapshots, so that `largestOldRS` is one ReplicaSet; `Listed` that the list
    shows every other ReplicaSet in `fresh`, `Swept` that at weight 100 the sweep
    before the handler can only have emptied one, `Promoted` and `Emptied` what the
    handler has done by the call it is at.
  - `HistoryIsKept` (`HistoryKept`; no hypothesis). `Backed`: what the list shows,
    and was current in it, is on the server or was prunable and is deleted. With
    `ExcessBound`, of n old ReplicaSets at most n - `HistoryLimit` rank below the
    limit; of the others only those outside `fresh` can be missing.
  - `GateStaysClosed` (`ClosedGateHolds`; `GatesStayGates`: a step that is a
    promotion in one plan is a promotion or an indefinite pause in every other,
    else a replanned gate is no gate any more). `Shut` says that behind a closed
    gate no handler is under way and no copy shows the phase Promoting: closing
    takes two writes, the phase and the condition, and each needs a current copy,
    so that the oldest copy in use is younger than the promotion.
- `AnalysisRunProofs`: `Typed`, `DryRunIsHarmless`, `ImplementsVerdict` (the
  refinement `OneVerdict`), and for distinct metric names `NoSampleLost`
  (`SamplesCounted`) and `SuccessEarned` (`SuccessIsEarned`). The invariant
  `Base` adds to `TypeOK` and `Snapshot` that each of the three copies is `Sound`:
  its verdict agrees with its results. All three are needed because a sweep
  writes what it computed from `mine`, which came from `seen`. `Counts` adds that
  the counters are those of the samples stored and that a metric's phase is
  earned by its counters, again in every copy.
- `IstioRouterProofs`: `RoutedWhenDone` (`DoneMeansRouted`) and `OtherRoutesKept`
  (`OthersKept`). The invariant `Progress` says that in a calm call the list in
  hand is the one it will replace and that every reference patched so far carries
  the weight; `PatchCarries` shows that a later patch of the same VirtualService
  keeps this, because it writes the same weight or leaves a route alone. Without
  the first part a patch could bring back an old weight.
- `OwnershipProofs`: `FreedForGood`, `NotTakenBackHolds` (`NotTakenBack`),
  `OwnSetsOnlyHolds` (`OwnSetsOnly`), for any Deployments, ReplicaSets and labels.
  The invariant `OInv` adds to `TypeOK` that whoever is in the `freed` history of
  any copy of a ReplicaSet, on the server, in a store or in a sync, is `Gone`:
  being deleted, deleted, or followed by another UID. This is stable, because a
  deletion is never taken back and UIDs only grow. With it, a live read that finds
  the Deployment alive after the list was taken shows that it has freed nothing in
  the list; `OInv` keeps that from the answer of `CanAdopt` to the patch.

- `DeploymentProofs`: `DeploymentTypes` (`TypeOK`), `SurgeIsKept` (`SurgeKept`),
  `AvailabilityIsKept` (`AvailabilityKept`), `RecreateIsExclusive`
  (`RecreateExclusive`) and `RollbackGoesBack` (`RollbackUndoes`), for any templates,
  sizes, fenceposts, collisions, edits and faults; all from one inductive
  invariant, `IInv` (`Invariance`). A sync decides once and then writes several
  sizes, with anything in between, so that none of the properties is inductive: the
  invariant has to say what the rest of the list `w.todo` can still do to the
  ReplicaSets as they are now.
  - `CopiesOK`: every copy of a ReplicaSet, wherever it is, has a creation number of
    its own, and one with replicas has a positive `max-replicas`. Without the first
    the sorted lists of the code would not be lists of all the ReplicaSets; without
    the second `getReplicaSetFraction` would divide by zero.
  - `Current`: what the worker takes for current is, but for what it has itself
    shrunk. `Mirror` says the same of the sizes alone for a sync that began `fresh`,
    up to its first write: nobody else writes sizes.
  - `PlanOK`: at which call of which caller the worker can be (`ViaOK`), and which
    sizes it can be about to write there (`TodoOK`).
  - `WithinSurge`: the writes left only lower sizes (`Falls`), or there are sizes
    (`Ceiling`) that neither the present ones nor the writes exceed and that
    together respect the surge. The ceiling of a creation or scale-up is its result,
    that of a proportional scale-up the proportional sizes; it survives each write
    because a write moves one size to at most its ceiling.
  - `KeepsAvailable`: likewise a `Floor`, below which neither the present sizes nor
    the writes go and which leaves `minAvailable` pods available. The first loop
    takes pods that are not available, the second no more than there are to spare.
  - `PodsSeen`, `Clear`: no pod of an old template, terminating or not, can appear
    after the worker has seen none, since none is started at size zero.
  - `Topmost`: at the lookup of a rollback the Deployment's own template has the
    newest revision, created or renumbered by this sync or found so.

  `MathLemmas` has what the proofs need of the operators: a `Total` is monotone,
  additive and changes by what one summand changes; `Sorted` of a total order lists
  each member once; `Pick` keeps the order; `Taken` takes no more than there is and
  no more than its cap. Where a sum or a list needs induction, it is written as the
  choice of a least counterexample (`LeastExists`).

Only model-checked: the liveness properties (`Completes`, `FailedGateRollsBack`,
`AbortDrains`, `PausedFreezes`, `SplitConverges`, `RevisionOnTop`,
`TerminateEnds`, `ConclusiveEnds`, `WeightsArrive`, `RolloutCompletes`,
`StuckReported`, `Settles`), since fairness is out of the prover's reach. Every
other property of a passing run is proved. No module uses RECURSIVE operators.

## 6. Abstractions

- One Rollout, one worker. Other keys share no state with it.
- The AnalysisRun is read without a cache in `RolloutSystem`; a late read is a
  late verdict there.
- The router of `RolloutSystem` is one weight, as with one VirtualService and one
  managed route; `IstioRouter` has the rest.
- In `Sampling` a condition looks at one number of the result; connectives and
  arithmetic of the expression language are left out. In `IstioRouter` a
  destination is a host and a weight.
- Replica, ready and available counts of a ReplicaSet move together.
- In the Rollout modules hash collisions and annotations other than the revision
  are left out (`DeploymentSync` has collisions and the size annotations). Name
  truncation, the ReplicaSet's generation, events, messages and the materialisation
  of analysis templates are left out everywhere. The tests of `observedGeneration`
  in `finalize` and `cleanupDeployment` hold for an empty ReplicaSet.
- Garbage collection by ownerReference is modelled in `Ownership` only.
- In the Deployment modules there is always a progress deadline, annotations other
  than revision and sizes are not copied, `minReadySeconds` does not change, ready
  and available pods are the same, and the pod cache is current. An empty selector
  and a terminating namespace do not occur. A rolling Deployment does not look at
  terminating pods, so they are not counted there.
- `Ownership` has one label per object for a selector and its labels, and the
  deletion of an object is always delivered as such (no tombstones).
- float64 rounding is modelled on integers: products are below 2^38, where the
  quotient is exact enough for `Ceil`.

## 7. Plan

Done: sections 2 to 5. Next, in this order:

1. `IstioRouter` composed with the Rollout: the single weight of `RolloutSystem`
   as its abstraction, shown by refinement.
2. The Rollout and the AnalysisRun controller composed: `Conclude` replaced by
   `AnalysisRun` through `RunVerdict`.

## 8. Not modelled

- Of the forked deployment loop: an empty selector, a terminating namespace, a
  Deployment without progress deadline, copied annotations, tombstones.
- The experiment controller: a skeleton. The experiment step is modelled.
- The HTTP request of the Prometheus provider, and the expression language beyond
  the conditions of `Sampling`: I/O and a library.
- Router stubs: every method returns an error.
- Rollout-level analysis hooks, `rollbackWindow`, `workloadRef`, ephemeral
  metadata, header routes: fields of the API that no code reads.
- Generated deep copies, hashing and label helpers, flags and leader election.
