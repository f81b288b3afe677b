-------------------------- MODULE PromotionProofs --------------------------
(***************************************************************************)
(* Weights, promotion and the ReplicaSet history, for every set of         *)
(* templates, progressions and sizes and any number of edits and faults.   *)
(***************************************************************************)
EXTENDS RolloutProofs

-----------------------------------------------------------------------------
(***************************************************************************)
(* Where the calls of a reconcile lead.                                    *)
(***************************************************************************)
(* What is not a call of the reconcile in progress. *)
Beside ==
  \/ StartPaused \/ Sync \/ SyncRS \/ TimerFires \/ Resync
  \/ UserEdit \/ ClearPause \/ MeshEdit
  \/ (\E field \in Clocks : Tick(field))
  \/ (\E t \in Tmpls : RunPods(t)) \/ (\E n \in RunNames : Conclude(n))

(* The calls after which the reconcile may be inside a handler. *)
Handling ==
  \/ RunSetWeight \/ Verify \/ Stamp \/ RunSetCanaryScale \/ RecordAnalysisRun
  \/ PromoteBegin \/ PromoteRoute \/ PromoteStamp \/ RepointService \/ scaleDownAfterDelay

LEMMA Moves ==
  ASSUME Next
  PROVE  Beside \/ Handling \/ pc' \in Plain \cup {"init"}
<1>1. CASE Start \/ FoundNewRS \/ CreateNewRS \/ Interrupt \/ HoldPause
           \/ CreateAnalysisRun \/ AwaitAnalysisRun \/ DeferScaleDown \/ PruneHistory
  BY <1>1 DEF Start, FoundNewRS, CreateNewRS, Interrupt, HoldPause, CreateAnalysisRun,
       AwaitAnalysisRun, DeferScaleDown, PruneHistory, RequeueAfter, ReturnErr, Plain
<1>2. CASE BumpRevision \/ ScaleCanary \/ ScaleStable \/ AbortScale
  <2>1. pc' \in {"canary", "stable", "counts", "abortMark", "idle"}
    BY <1>2, UpdateRSPC, ScalePC DEF BumpRevision, ScaleCanary, ScaleStable, AbortScale, Goto
  <2> QED  BY <2>1 DEF Plain
<1>3. CASE AbortRoute
  BY <1>3 DEF AbortRoute, SetWeightIfRouted, SetWeight, ReturnErr, Plain
<1>4. CASE pushReplicaCounts
  <2>1. pc' \in {AfterCounts, "idle"}
    BY <1>4, UpdatePC DEF pushReplicaCounts, UpdateStatus
  <2> QED  BY <2>1 DEF AfterCounts, Plain
<1>5. CASE AbortMark \/ InitStep \/ Advance \/ EnterPause \/ LeavePause \/ AnalysisPolicy
           \/ applyAnalysisInconclusive \/ RunExperiment \/ PromoteGated \/ FinalizeMark
  <2>1. pc' = "idle"
    BY <1>5, UpdatePC DEF AbortMark, InitStep, Advance, EnterPause, LeavePause,
         AnalysisPolicy, applyAnalysisInconclusive, RunExperiment, PromoteGated, FinalizeMark,
         advanceStep, TriggerAbort, UpdateStatus
  <2> QED  BY <2>1 DEF Plain
<1> QED  BY <1>1, <1>2, <1>3, <1>4, <1>5
         DEF Next, Reconcile, Environment, User, Beside, Handling

(* Copies at the same step of the same progression. *)
LEMMA SameStep ==
  ASSUME NEW a, NEW b, a.spec = b.spec, a.st.step = b.st.step
  PROVE  Active(a) = Active(b) /\ Index(a) = Index(b) /\ Step(a) = Step(b)
BY DEF Active, Index, Step

(* Beside the reconcile nothing moves its copy's step or weight, the step  *)
(* and weight of the object or a Service, and only somebody's hand moves   *)
(* the route.                                                              *)
LEMMA BesideFacts ==
  ASSUME Inv, Beside
  PROVE  /\ pc' = pc /\ svc' = svc /\ births' = births /\ lrs' = lrs
         /\ "mesh" \notin UserEdits => routerW' = routerW
         /\ ro'.spec = ro.spec /\ ro'.st.step = ro.st.step /\ ro'.st.weight = ro.st.weight
         /\ obj'.st.step = obj.st.step /\ obj'.st.weight = obj.st.weight
         /\ roCur' => roCur
<1>1. CopiesOK
  BY TypeParts DEF Inv
<1>2. CASE StartPaused \/ Sync \/ SyncRS \/ TimerFires \/ Resync \/ MeshEdit
           \/ (\E t \in Tmpls : RunPods(t)) \/ (\E n \in RunNames : Conclude(n))
  <2>1. UNCHANGED <<pc, svc, births, lrs, ro, obj, roCur>>
    BY <1>2 DEF StartPaused, Sync, SyncRS, TimerFires, Resync, MeshEdit, RunPods, Conclude,
         rolloutVars, rsVars, outside
  <2>2. "mesh" \notin UserEdits => routerW' = routerW
    BY <1>2 DEF StartPaused, Sync, SyncRS, TimerFires, Resync, MeshEdit, RunPods, Conclude,
         outside
  <2> QED  BY <2>1, <2>2
<1>3. CASE UserEdit \/ ClearPause
  <2>1. PICK o \in ObjType : Store(o) /\ Edited(o) /\ ro' = ro
    BY <1>1, <1>3, EditShape
  <2>2. UNCHANGED <<pc, svc, births, lrs, routerW>>
    BY <1>3 DEF UserEdit, EditSpec, ClearPause, rsVars, outside
  <2> QED  BY <2>1, <2>2 DEF Store, Edited
<1>4. CASE \E field \in Clocks : Tick(field)
  BY <1>1, <1>4, AgedObj DEF Tick, CopiesOK, rsVars, outside
<1> QED  BY <1>2, <1>3, <1>4 DEF Beside

-----------------------------------------------------------------------------
(***************************************************************************)
(* A handler that sets a weight ends with it stamped in its copy: verify   *)
(* or not, retried or not, advanceStep is called with the weight written.  *)
(***************************************************************************)
(* The weight the step at hand aims at. *)
Aim == Target(ro.spec.plan, Index(ro))

Stamping ==
  \/ pc \in {"repoint", "scaleDown"}
  \/ pc = "advance" /\ Bears(ro.spec.plan, Index(ro))

Stamped == Stamping => ro.st.weight = Aim

(* What a handler leaves to the next of its calls. *)
LEMMA SameAim ==
  ASSUME ro'.spec = ro.spec, ro'.st.step = ro.st.step
  PROVE  /\ Aim' = Aim /\ Step(ro)' = Step(ro) /\ Active(ro)' = Active(ro)
         /\ Bears(ro.spec.plan, Index(ro))' = Bears(ro.spec.plan, Index(ro))
<1>1. Active(ro') = Active(ro) /\ Index(ro') = Index(ro) /\ Step(ro') = Step(ro)
  BY SameStep
<1> QED  BY <1>1 DEF Aim, Target, Bears

LEMMA AimOfKind ==
  ASSUME Active(ro) # {}
  PROVE  /\ Step(ro).kind = "setWeight" => Aim = Step(ro).weight
         /\ Step(ro).kind = "promote" => Aim = 100
         /\ Bears(ro.spec.plan, Index(ro)) <=> Step(ro).kind \in {"setWeight", "promote"}
BY DEF Aim, Target, Bears, Step

LEMMA StampedStep ==
  ASSUME Inv, Stamped, Next
  PROVE  Stamped'
<1>1. CopiesOK /\ Snapshot /\ Control
  BY TypeParts DEF Inv
<1>2. ASSUME ro'.spec = ro.spec, ro'.st.step = ro.st.step, ro'.st.weight = ro.st.weight,
             pc' = pc
      PROVE  Stamped'
  BY <1>2, SameAim DEF Stamped, Stamping
<1>3. CASE pc' \in Plain \cup {"init", "verify", "stamp", "policy", "promoteRoute", "promoteStamp"}
  BY <1>3 DEF Plain, Stamped, Stamping
<1>4. CASE Beside
  BY <1>2, <1>4, BesideFacts
<1>5. CASE RunSetWeight \/ Verify \/ RecordAnalysisRun \/ PromoteBegin \/ PromoteRoute
  <2>1. pc' \in {"verify", "stamp", "policy", "promoteRoute", "promoteStamp", "idle"}
    BY <1>5, UpdatePC DEF RunSetWeight, Verify, RecordAnalysisRun, PromoteBegin, PromoteRoute,
         SetWeightIfRouted, SetWeight, RequeueAfter, ReturnErr, UpdateStatus
  <2> QED  BY <1>3, <2>1 DEF Plain
<1>6. CASE RunSetCanaryScale
  <2>1. pc' \in {"advance", "idle"} /\ ro' = ro
    BY <1>6, ScalePC DEF RunSetCanaryScale
  <2>2. Active(ro) # {} /\ Step(ro).kind = "setCanaryScale"
    BY <1>6 DEF RunSetCanaryScale, Executing
  <2>3. ~Bears(ro.spec.plan, Index(ro))
    BY <2>2, AimOfKind
  <2> QED  BY <2>1, <2>3, SameAim DEF Stamped, Stamping
<1>7. CASE Stamp
  <2>1. Active(ro) # {} /\ Step(ro).kind = "setWeight" /\ StampWeight(Step(ro).weight, "advance")
    BY <1>1, <1>7 DEF Stamp, Control
  <2>2. Step(ro).weight \in 0..100
    BY <1>1, <2>1, ActiveStep DEF CopiesOK, StepType
  <2>3. ro'.spec = ro.spec /\ ro'.st.step = ro.st.step /\ ro'.st.weight = Step(ro).weight
    BY <1>1, <2>1, <2>2, StampCopies
  <2> QED  BY <2>1, <2>3, SameAim, AimOfKind DEF Stamped
<1>8. CASE PromoteStamp
  <2>1. Active(ro) # {} /\ Step(ro).kind = "promote" /\ StampWeight(100, "repoint")
    BY <1>1, <1>8 DEF PromoteStamp, Control, InPromote
  <2>2. ro'.spec = ro.spec /\ ro'.st.step = ro.st.step /\ ro'.st.weight = 100
    BY <1>1, <2>1, StampCopies
  <2> QED  BY <2>1, <2>2, SameAim, AimOfKind DEF Stamped
<1>9. CASE RepointService \/ scaleDownAfterDelay
  <2>1. ro' = ro /\ pc \in {"repoint", "scaleDown"}
    BY <1>9 DEF RepointService, scaleDownAfterDelay
  <2>2. ro.st.weight = Aim
    BY <2>1 DEF Stamped, Stamping
  <2> QED  BY <2>1, <2>2, SameAim DEF Stamped
<1> QED  BY <1>3, <1>4, <1>5, <1>6, <1>7, <1>8, <1>9, Moves DEF Handling

-----------------------------------------------------------------------------
(***************************************************************************)
(* The weight on the server moves only when a current copy stamps the      *)
(* weight of the step at hand.                                             *)
(***************************************************************************)
LEMMA StampMove ==
  ASSUME Inv, Stamp \/ PromoteStamp
  PROVE  /\ obj'.st.step = obj.st.step /\ obj'.spec = obj.spec
         /\ obj'.st.weight = IF roCur THEN Aim ELSE obj.st.weight
         /\ ro'.spec = ro.spec /\ ro'.st.step = ro.st.step /\ ro'.st.weight = Aim
         /\ Active(ro) # {} /\ Bears(ro.spec.plan, Index(ro)) /\ Aim \in 0..100
         /\ UNCHANGED <<routerW, svc>> /\ UNCHANGED rsVars
         /\ pc' \in {"advance", "repoint", "idle"} /\ (pc' # "idle" => roCur \/ ro.st.weight = Aim)
<1>1. CopiesOK /\ Snapshot /\ Control
  BY TypeParts DEF Inv
<1>2. ASSUME NEW next, StampWeight(Aim, next), Aim \in 0..100
      PROVE  /\ obj'.st.step = obj.st.step /\ obj'.spec = obj.spec
             /\ obj'.st.weight = IF roCur THEN Aim ELSE obj.st.weight
             /\ ro'.spec = ro.spec /\ ro'.st.step = ro.st.step /\ ro'.st.weight = Aim
             /\ UNCHANGED <<routerW, svc>> /\ UNCHANGED rsVars
             /\ pc' \in {next, "idle"} /\ (pc' # "idle" => roCur \/ ro.st.weight = Aim)
  <2>1. UNCHANGED <<routerW, svc>> /\ UNCHANGED rsVars
    BY <1>2 DEF StampWeight, outside
  <2>2. pc' \in {next, "idle"} /\ (pc' # "idle" => roCur \/ ro.st.weight = Aim)
    BY <1>2 DEF StampWeight, UpdateStatus, Update, ReturnErr
  <2> QED  BY <1>1, <1>2, <2>1, <2>2, StampCopies
<1>3. CASE Stamp
  <2>1. Active(ro) # {} /\ Step(ro).kind = "setWeight" /\ StampWeight(Step(ro).weight, "advance")
    BY <1>1, <1>3 DEF Stamp, Control
  <2>2. Step(ro).weight \in 0..100
    BY <1>1, <2>1, ActiveStep DEF CopiesOK, StepType
  <2>3. Aim = Step(ro).weight /\ Bears(ro.spec.plan, Index(ro))
    BY <2>1, AimOfKind
  <2> QED  BY <1>2, <2>1, <2>2, <2>3
<1>4. CASE PromoteStamp
  <2>1. Active(ro) # {} /\ Step(ro).kind = "promote" /\ StampWeight(100, "repoint")
    BY <1>1, <1>4 DEF PromoteStamp, Control, InPromote
  <2>2. Aim = 100 /\ Bears(ro.spec.plan, Index(ro))
    BY <2>1, AimOfKind
  <2> QED  BY <1>2, <2>1, <2>2
<1> QED  BY <1>3, <1>4

LEMMA WeightMove ==
  ASSUME Inv, Next, ~(Stamp \/ PromoteStamp)
  PROVE  obj'.st.weight = obj.st.weight
<1>1. CopiesOK /\ Snapshot
  BY TypeParts DEF Inv
<1>2. CASE Writing /\ obj' # obj
  <2>1. PICK o \in ObjType, next \in PCs : Update(o, next) /\ InOrder(o)
    BY <1>2, WritingShape DEF rolloutVars, Write
  <2>2. roCur /\ obj' = o
    BY <1>2, <2>1 DEF Update, Store, rolloutVars
  <2> QED  BY <1>1, <2>1, <2>2 DEF Snapshot, InOrder
<1>3. CASE Silent
  BY <1>3, SilentShape DEF rolloutVars
<1>4. CASE UserEdit \/ ClearPause
  BY <1>1, <1>4, EditShape DEF Store, Edited
<1>5. CASE Start \/ Sync
  BY <1>5 DEF Start, Sync
<1>6. CASE \E field \in Clocks : Tick(field)
  BY <1>1, <1>6, AgedObj DEF Tick, CopiesOK
<1> QED  BY <1>2, <1>3, <1>4, <1>5, <1>6, NextParts DEF Reading

(***************************************************************************)
(* The progression stays the one the Rollout was created with, in every    *)
(* copy, when no edit is about it.                                         *)
(***************************************************************************)
OnePlan == obj.spec.plan = FirstPlan /\ seen.spec.plan = FirstPlan /\ ro.spec.plan = FirstPlan

LEMMA OnePlanStep ==
  ASSUME "plan" \notin UserEdits, Inv, OnePlan, Next
  PROVE  OnePlan'
<1>1. CopiesOK
  BY TypeParts DEF Inv
<1>2. ASSUME NEW o \in ObjType, NEW next, Update(o, next), ro'.spec.plan = ro.spec.plan,
             o.spec = obj.spec \/ o.spec = [ro.spec EXCEPT !.abort = TRUE]
      PROVE  OnePlan'
  <2>1. ro.spec \in SpecType
    BY <1>1 DEF CopiesOK, ObjType
  <2>2. o.spec.plan = FirstPlan
    BY <1>2, <2>1 DEF OnePlan, SpecType
  <2> QED  BY <1>2, <2>2 DEF Update, Store, OnePlan, rolloutVars
<1>3. CASE Silent
  BY <1>3, SilentShape DEF rolloutVars, OnePlan
<1>4. CASE Writing
  <2>1. ro' = ro /\ (UNCHANGED rolloutVars \/ Write)
    BY <1>4, WritingShape
  <2>2. CASE UNCHANGED rolloutVars
    BY <2>1, <2>2 DEF rolloutVars, OnePlan
  <2>3. CASE Write
    BY <1>2, <2>1, <2>3 DEF Write, InOrder
  <2> QED  BY <2>1, <2>2, <2>3
<1>5. CASE Stamp \/ PromoteStamp
  <2>1. obj'.spec = obj.spec /\ ro'.spec = ro.spec
    BY <1>5, StampMove
  <2>2. seen' = seen \/ seen' = obj'
    BY <1>5 DEF Stamp, PromoteStamp, StampWeight, UpdateStatus, Update, Store, rolloutVars
  <2> QED  BY <2>1, <2>2 DEF OnePlan
<1>6. CASE UserEdit \/ ClearPause
  BY <1>1, <1>6, EditShape DEF Store, Edited, OnePlan
<1>7. CASE Start \/ Sync
  BY <1>7 DEF Start, Sync, OnePlan
<1>8. CASE \E field \in Clocks : Tick(field)
  BY <1>1, <1>8, AgedObj DEF Tick, CopiesOK, OnePlan
<1> QED  BY <1>3, <1>4, <1>5, <1>6, <1>7, <1>8, NextParts DEF Reading

-----------------------------------------------------------------------------
(***************************************************************************)
(* The weights the steps leave.                                            *)
(***************************************************************************)
(* A step that sets a weight leaves it, any other what it found. *)
LEMMA LeftNext ==
  ASSUME NEW p, NEW i \in Nat \ {0}
  PROVE  LeftBy(p, i + 1) = IF Bears(p, i) THEN {Target(p, i)} ELSE LeftBy(p, i)
<1> DEFINE S(n) == {j \in 1..(n - 1) : Bears(p, j)}
<1>1. CASE Bears(p, i)
  <2>1. i \in S(i + 1) /\ \A k \in S(i + 1) : k <= i
    BY <1>1
  <2>2. (CHOOSE j \in S(i + 1) : \A k \in S(i + 1) : k <= j) = i
    BY <2>1
  <2> QED  BY <1>1, <2>1, <2>2 DEF LeftBy
<1>2. CASE ~Bears(p, i)
  <2>1. S(i + 1) = S(i)
    BY <1>2
  <2> HIDE DEF S
  <2>2. {j \in 1..((i + 1) - 1) : Bears(p, j)} = {j \in 1..(i - 1) : Bears(p, j)}
    BY <2>1 DEF S
  <2> QED  BY <1>2, <2>2 DEF LeftBy
<1> QED  BY <1>1, <1>2

(* What the last step leaves is what the next progression may begin with. *)
LEMMA LeftEnd ==
  ASSUME NEW p \in Seq(StepType)
  PROVE  LeftBy(p, Len(p) + 1) \subseteq LeftBy(p, 1)
<1>1. DOMAIN p = 1..Len(p) /\ Len(p) \in Nat
  OBVIOUS
<1>2. {j \in 1..((Len(p) + 1) - 1) : Bears(p, j)} = {j \in DOMAIN p : Bears(p, j)}
  BY <1>1
<1>3. {j \in 1..(1 - 1) : Bears(p, j)} = {}
  OBVIOUS
<1> QED  BY <1>2, <1>3 DEF LeftBy

(* No step has the empty name. *)
LEMMA NoStepActive ==
  ASSUME NEW o \in ObjType, o.st.step = None
  PROVE  Active(o) = {}
<1> SUFFICES ASSUME Active(o) # {} PROVE FALSE
  OBVIOUS
<1>1. o.st.step \in StepNames
  BY ActiveStep DEF StepType
<1> QED  BY <1>1, ConstantsAssumption

AtRest == Active(obj) = {} => obj.st.weight \in LeftBy(Plan, 1)

Weights == OnePlan /\ Stamped /\ WeightFollowsSteps /\ AtRest

LEMMA WeightsStep ==
  ASSUME "plan" \notin UserEdits, Inv, Weights, Next
  PROVE  Weights'
<1>1. CopiesOK /\ Snapshot /\ CopiesOK'
  BY TypeParts, CopiesStep DEF Inv
<1>2. OnePlan' /\ Stamped'
  BY OnePlanStep, StampedStep DEF Weights
<1>3. /\ Plan = FirstPlan /\ Plan' = FirstPlan /\ ro.spec.plan = FirstPlan
      /\ obj \in ObjType /\ obj' \in ObjType
      /\ FirstPlan \in Seq(StepType) /\ Len(FirstPlan) \in Nat
      /\ DOMAIN FirstPlan = 1..Len(FirstPlan)
  BY <1>1, <1>2, ConstantsAssumption DEF Weights, OnePlan, Plan, CopiesOK
<1>4. CASE obj'.st.step = obj.st.step /\ obj'.st.weight = obj.st.weight
  <2>1. Active(obj') = Active(obj)
    BY <1>3, <1>4 DEF Active, Plan
  <2> QED  BY <1>2, <1>3, <1>4, <2>1 DEF Weights, WeightFollowsSteps, AtRest
<1>5. CASE (Stamp \/ PromoteStamp) /\ roCur
  <2>1. /\ obj'.st.step = obj.st.step /\ obj'.spec = obj.spec /\ obj'.st.weight = Aim
        /\ Active(ro) # {} /\ Bears(ro.spec.plan, Index(ro)) /\ ro = obj
    BY <1>1, <1>5, StampMove DEF Snapshot
  <2>2. Active(obj') = Active(obj) /\ Index(obj) \in Active(obj)
    BY <1>3, <2>1, SameStep, ActiveStep
  <2>3. \A i \in Active(obj') : i = Index(obj)
    BY <1>3, <2>2, OneActive
  <2>4. \A i \in Active(obj') : obj'.st.weight \in Aiming(Plan', i)
    BY <1>3, <2>1, <2>3 DEF Aiming, Aim
  <2>5. WeightFollowsSteps' /\ AtRest'
    BY <2>2, <2>4 DEF WeightFollowsSteps, AtRest
  <2> QED  BY <1>2, <2>5 DEF Weights
<1>6. CASE obj'.st.step # obj.st.step
  <2>1. /\ ro = obj
        /\ \/ obj.st.step = None /\ obj'.st.step = Plan[1].name
           \/ \E i \in Active(obj) :
                /\ obj'.st.step = IF i = Len(Plan) THEN None ELSE Plan[i + 1].name
                /\ GateOpen(i)
    BY <1>6, StepChange
  <2>2. obj'.st.weight = obj.st.weight
    BY <1>6, WeightMove, StampMove
  <2>3. ASSUME NEW j \in 1..Len(FirstPlan), obj'.st.step = FirstPlan[j].name,
               obj.st.weight \in LeftBy(FirstPlan, j)
        PROVE  WeightFollowsSteps' /\ AtRest'
    <3>1. j \in Active(obj')
      BY <1>3, <2>3 DEF Active, Plan
    <3>2. \A i \in Active(obj') : i = j
      BY <1>3, <3>1, OneActive
    <3> QED  BY <1>3, <2>2, <2>3, <3>1, <3>2 DEF WeightFollowsSteps, AtRest
  <2>4. CASE obj.st.step = None /\ obj'.st.step = Plan[1].name
    <3>1. obj.st.weight \in LeftBy(FirstPlan, 1)
      BY <1>3, <2>4, NoStepActive DEF Weights, AtRest
    <3>2. CASE 1 \in 1..Len(FirstPlan)
      BY <1>2, <1>3, <2>3, <2>4, <3>1, <3>2 DEF Weights
    <3>3. CASE 1 \notin 1..Len(FirstPlan)
      <4>1. Active(obj') = {}
        BY <1>3, <3>3 DEF Active, Plan
      <4> QED  BY <1>2, <1>3, <2>2, <3>1, <4>1 DEF Weights, WeightFollowsSteps, AtRest
    <3> QED  BY <3>2, <3>3
  <2>5. CASE \E i \in Active(obj) :
               /\ obj'.st.step = IF i = Len(Plan) THEN None ELSE Plan[i + 1].name
               /\ GateOpen(i)
    <3>1. PICK i \in Active(obj) :
               /\ obj'.st.step = IF i = Len(Plan) THEN None ELSE Plan[i + 1].name
               /\ GateOpen(i)
      BY <2>5
    <3>2. i \in 1..Len(FirstPlan) /\ i \in Nat \ {0} /\ i = Index(ro)
      <4>1. Index(obj) \in Active(obj)
        BY <1>3, ActiveStep
      <4> QED  BY <1>3, <2>1, <4>1, OneActive DEF Active, Plan
    <3>3. obj.st.weight \in LeftBy(FirstPlan, i + 1)
      <4>1. CASE Bears(FirstPlan, i)
        <5>1. pc = "advance" /\ Bears(ro.spec.plan, Index(ro))
          BY <1>3, <3>1, <3>2, <4>1 DEF GateOpen
        <5>2. obj.st.weight = Target(FirstPlan, i)
          BY <1>3, <2>1, <3>2, <5>1 DEF Weights, Stamped, Stamping, Aim
        <5>3. LeftBy(FirstPlan, i + 1) = {Target(FirstPlan, i)}
          BY <3>2, <4>1, LeftNext, Zenon
        <5> QED  BY <5>2, <5>3
      <4>2. CASE ~Bears(FirstPlan, i)
        <5>1. obj.st.weight \in LeftBy(FirstPlan, i)
          BY <1>3, <3>1, <4>2 DEF Weights, WeightFollowsSteps, Aiming
        <5>2. LeftBy(FirstPlan, i + 1) = LeftBy(FirstPlan, i)
          BY <3>2, <4>2, LeftNext, Zenon
        <5> QED  BY <5>1, <5>2
      <4> QED  BY <4>1, <4>2
    <3>4. CASE i = Len(FirstPlan)
      <4>1. Active(obj') = {}
        BY <1>3, <3>1, <3>4, NoStepActive
      <4>2. obj.st.weight \in LeftBy(FirstPlan, 1)
        BY <1>3, <3>3, <3>4, LeftEnd
      <4> QED  BY <1>2, <1>3, <2>2, <4>1, <4>2 DEF Weights, WeightFollowsSteps, AtRest
    <3>5. CASE i # Len(FirstPlan)
      <4>1. i + 1 \in 1..Len(FirstPlan) /\ obj'.st.step = FirstPlan[i + 1].name
        BY <1>3, <3>1, <3>2, <3>5
      <4> QED  BY <1>2, <2>3, <3>3, <4>1 DEF Weights
    <3> QED  BY <3>4, <3>5
  <2> QED  BY <2>1, <2>4, <2>5
<1> QED  BY <1>4, <1>5, <1>6, StampMove, WeightMove

(* status.currentWeight is at every step the weight of the last completed  *)
(* step that set one, or already that of the step in progress: under any   *)
(* progression, for any edits but of the progression itself, whatever      *)
(* fails, restarts or lags, advanceStep never outruns the stamp.           *)
THEOREM WeightTracksSteps ==
  ASSUME "plan" \notin UserEdits
  PROVE  SafetySpec => []WeightFollowsSteps
<1>1. Init => Weights
  <2> SUFFICES ASSUME Init PROVE Weights
    OBVIOUS
  <2>1. /\ obj.spec.plan = FirstPlan /\ obj.st.step = None /\ obj.st.weight = 0
        /\ seen = obj /\ ro = obj /\ pc = "idle"
    BY DEF Init, NewStatus
  <2>2. obj \in ObjType
    BY InvInit, TypeParts DEF Inv, CopiesOK
  <2>3. Active(obj) = {}
    BY <2>1, <2>2, NoStepActive
  <2>4. 0 \in LeftBy(Plan, 1)
    <3>1. {j \in 1..(1 - 1) : Bears(Plan, j)} = {}
      OBVIOUS
    <3> QED  BY <3>1 DEF LeftBy
  <2> QED  BY <2>1, <2>3, <2>4
           DEF Weights, OnePlan, Stamped, Stamping, WeightFollowsSteps, AtRest
<1>2. Inv /\ Weights /\ [Next]_vars => Weights'
  <2>1. ASSUME Inv, Weights, Next PROVE Weights'
    BY <2>1, WeightsStep
  <2>2. ASSUME Weights, UNCHANGED vars PROVE Weights'
    BY <2>2 DEF vars, rolloutVars, Weights, OnePlan, Stamped, Stamping, Aim,
         WeightFollowsSteps, AtRest, Plan
  <2> QED  BY <2>1, <2>2
<1>3. Weights => WeightFollowsSteps
  BY DEF Weights
<1> QED  BY <1>1, <1>2, <1>3, InvHolds, PTL DEF SafetySpec

(* The last step before i that moved traffic, when it was a setWeight, is  *)
(* the one LeftBy and lastSetWeight both look at.                          *)
LEMMA LastMover ==
  ASSUME NEW o \in ObjType, NEW i \in Active(o), ~Bears(o.spec.plan, i),
         NEW j \in 1..(i - 1), o.spec.plan[j].kind = "setWeight",
         \A k \in j..(i - 1) : o.spec.plan[k].kind # "promote"
  PROVE  LeftBy(o.spec.plan, i) = {lastSetWeight(o)}
<1> DEFINE p == o.spec.plan
           before == {k \in 1..(i - 1) : Bears(p, k)}
           set == {k \in 1..i : p[k].kind = "setWeight"}
<1>1. p \in Seq(StepType) /\ i \in 1..Len(p) /\ Len(p) \in Nat /\ i = Index(o)
  BY ActiveStep, OneActive DEF Active
<1>2. j \in before /\ before \subseteq 0..i /\ i \in Nat
  BY <1>1 DEF Bears
<1>3. PICK m \in before : \A x \in before : x <= m
  <2> HIDE DEF before
  <2> QED  BY <1>2, GreatestExists
<1>4. m \in j..(i - 1) /\ p[m].kind = "setWeight"
  BY <1>1, <1>2, <1>3 DEF Bears
<1>5. m \in set /\ \A x \in set : x <= m
  <2>1. set \subseteq before
    BY <1>1 DEF Bears
  <2> QED  BY <1>1, <1>3, <1>4, <2>1
<1>6. (CHOOSE x \in before : \A k \in before : k <= x) = m
  BY <1>2, <1>3
<1>7. (CHOOSE x \in set : \A k \in set : k <= x) = m
  BY <1>1, <1>5
<1>8. Target(p, m) = p[m].weight
  BY <1>4 DEF Target
<1>9. LeftBy(p, i) = {Target(p, m)}
  BY <1>2, <1>6 DEF LeftBy
<1>10. lastSetWeight(o) = p[m].weight
  BY <1>1, <1>5, <1>7 DEF lastSetWeight
<1> QED  BY <1>8, <1>9, <1>10

(* The matchTrafficWeight target, taken from the progression, and the      *)
(* split of the sweep, taken from the status that another call stamps, are *)
(* one count whenever the step is the current one: the handler and the     *)
(* sweep do not undo each other, whatever fails, restarts, lags or is      *)
(* edited but the progression.                                             *)
THEOREM SweepKeepsMatch ==
  ASSUME "plan" \notin UserEdits
  PROVE  SafetySpec => []MatchAgrees
<1>1. Inv /\ WeightFollowsSteps => MatchAgrees
  <2> SUFFICES ASSUME Inv, WeightFollowsSteps, NEW i \in Active(obj), HPAStrategy = "Preserve",
                      Plan[i].kind = "setCanaryScale", Plan[i].by = "match",
                      NEW j \in 1..(i - 1), Plan[j].kind = "setWeight",
                      \A k \in j..(i - 1) : Plan[k].kind # "promote"
               PROVE  resolveCanaryScale(obj) =
                        splitReplicas(obj.spec.replicas, obj.st.weight, HPAStrategy,
                                      rs[obj.spec.tmpl].replicas).canary
    BY DEF MatchAgrees
  <2> DEFINE d == obj.spec.replicas
             w == lastSetWeight(obj)
             n == rs[obj.spec.tmpl].replicas
  <2>1. CopiesOK /\ SetsOK
    BY TypeParts DEF Inv
  <2>2. obj \in ObjType /\ d \in Nat /\ n \in Nat
    BY <2>1, ConstantsAssumption DEF CopiesOK, SetsOK, ObjType, SpecType, RSType
  <2>3. ~Bears(Plan, i)
    BY DEF Bears
  <2>4. obj.st.weight = w
    <3>1. LeftBy(Plan, i) = {w}
      BY <2>2, <2>3, LastMover DEF Plan
    <3> QED  BY <2>3, <3>1 DEF WeightFollowsSteps, Aiming
  <2>5. w \in 0..100
    BY <2>2, LastSetWeightRange
  <2>6. resolveCanaryScale(obj) = percentOf(d, w)
    <3>1. Step(obj) = Plan[i]
      BY <2>2, ActiveStep, OneActive DEF Step, Plan
    <3> QED  BY <3>1 DEF resolveCanaryScale
  <2> HIDE DEF d, w, n
  <2>7. percentOf(d, w) = CeilPercent(d, w)
    BY <2>2, <2>5, PercentOfBounds
  <2>8. splitReplicas(d, w, HPAStrategy, n).canary = CeilPercent(d, w)
    BY <2>2, <2>5, PreserveSplit
  <2> QED  BY <2>4, <2>6, <2>7, <2>8 DEF d, n
<1> QED  BY <1>1, InvHolds, WeightTracksSteps, PTL

-----------------------------------------------------------------------------
(***************************************************************************)
(* A handler past its SetWeight works under the weight it aims at, when    *)
(* nobody edits the route by hand.                                         *)
(***************************************************************************)
Landed == Stamping \/ pc \in {"verify", "stamp", "promoteStamp"}

Routed == Landed => Router # "nilClient" /\ (Router = "mesh" => routerW = Aim)

LEMMA RoutedStep ==
  ASSUME "mesh" \notin UserEdits, Inv, Routed, Next
  PROVE  Routed'
<1>1. CopiesOK /\ Control
  BY TypeParts DEF Inv
<1>2. ASSUME ro'.spec = ro.spec, ro'.st.step = ro.st.step, routerW' = routerW, Landed
      PROVE  Routed'
  BY <1>2, SameAim DEF Routed
<1>3. CASE pc' \in Plain \cup {"init", "policy", "promoteRoute"}
  BY <1>3 DEF Plain, Routed, Landed, Stamping
<1>4. CASE Beside
  <2>1. /\ pc' = pc /\ routerW' = routerW /\ ro'.spec = ro.spec /\ ro'.st.step = ro.st.step
    BY <1>4, BesideFacts
  <2> QED  BY <2>1, SameAim DEF Routed, Landed, Stamping
<1>5. CASE RunSetWeight
  <2>1. Active(ro) # {} /\ Step(ro).kind = "setWeight" /\ ro' = ro
    BY <1>5 DEF RunSetWeight, Executing
  <2>2. \/ pc' = "idle"
        \/ Router = "mesh" /\ routerW' = Step(ro).weight
    BY <1>5 DEF RunSetWeight, SetWeight, ReturnErr
  <2>3. Aim' = Step(ro).weight
    BY <2>1, AimOfKind, SameAim
  <2> QED  BY <2>2, <2>3 DEF Routed, Landed, Stamping
<1>6. CASE PromoteRoute
  <2>1. Active(ro) # {} /\ Step(ro).kind = "promote" /\ ro' = ro
    BY <1>1, <1>6 DEF PromoteRoute, Control, InPromote
  <2>2. \/ pc' = "idle"
        \/ Router = "mesh" /\ routerW' = 100
        \/ Router = "none"
    BY <1>6 DEF PromoteRoute, SetWeightIfRouted, SetWeight, ReturnErr
  <2>3. Aim' = 100
    BY <2>1, AimOfKind, SameAim
  <2> QED  BY <2>2, <2>3 DEF Routed, Landed, Stamping
<1>7. CASE Stamp \/ PromoteStamp
  <2>1. Landed
    BY <1>7 DEF Stamp, PromoteStamp, Landed
  <2> QED  BY <1>2, <1>7, <2>1, StampMove
<1>8. CASE Verify \/ RepointService \/ scaleDownAfterDelay
  <2>1. Landed /\ ro' = ro /\ routerW' = routerW
    BY <1>8 DEF Verify, RepointService, scaleDownAfterDelay, Landed, Stamping, outside
  <2> QED  BY <1>2, <2>1
<1>9. CASE RunSetCanaryScale
  <2>1. pc' \in {"advance", "idle"} /\ ro' = ro
    BY <1>9, ScalePC DEF RunSetCanaryScale
  <2>2. ~Bears(ro.spec.plan, Index(ro))
    BY <1>9, AimOfKind DEF RunSetCanaryScale, Executing
  <2> QED  BY <2>1, <2>2, SameAim DEF Routed, Landed, Stamping
<1>10. CASE RecordAnalysisRun \/ PromoteBegin
  <2>1. pc' \in {"policy", "promoteRoute", "idle"}
    BY <1>10, UpdatePC DEF RecordAnalysisRun, PromoteBegin, UpdateStatus, ReturnErr
  <2> QED  BY <1>3, <2>1 DEF Plain
<1> QED  BY <1>3, <1>4, <1>5, <1>6, <1>7, <1>8, <1>9, <1>10, Moves DEF Handling

-----------------------------------------------------------------------------
(***************************************************************************)
(* How far a copy of the Rollout may trail.  A write that goes through was *)
(* made from the object, so whatever the cache shows is at most one write  *)
(* of the worker behind: it shows the step and the weight of the object,   *)
(* or the step that has just been stamped or left.                         *)
(***************************************************************************)
Bearing(o) == Active(o) # {} /\ Bears(o.spec.plan, Index(o))
AimOf(o) == Target(o.spec.plan, Index(o))

OneBehind(c, o) ==
  \/ c.st.step = o.st.step /\ c.st.weight = o.st.weight
  \/ Bearing(c) /\ o.st.weight = AimOf(c)
  \/ ~Bearing(c) /\ c.st.weight = o.st.weight

Trailing ==
  /\ roCur => seenCur
  /\ OneBehind(seen, obj)
  /\ pc # "idle" => OneBehind(ro, obj)

LEMMA OneBehindSame ==
  ASSUME NEW c, NEW d, NEW o, NEW p, OneBehind(c, o),
         d.spec = c.spec, d.st.step = c.st.step, d.st.weight = c.st.weight,
         p.st.step = o.st.step, p.st.weight = o.st.weight
  PROVE  OneBehind(d, p)
<1>1. Active(d) = Active(c) /\ Index(d) = Index(c)
  BY SameStep
<1> QED  BY <1>1 DEF OneBehind, Bearing, AimOf

(* What a reconcile writes is one step of its copy ahead. *)
LEMMA WrittenAhead ==
  ASSUME CopiesOK, Stamped, NEW o, InOrder(o)
  PROVE  OneBehind(ro, o)
<1>1. CASE o.st.step = ro.st.step
  BY <1>1 DEF InOrder, OneBehind
<1>2. CASE ro.st.step = None
  <2>1. ~Bearing(ro)
    BY <1>2, NoStepActive DEF Bearing, CopiesOK
  <2> QED  BY <2>1 DEF InOrder, OneBehind
<1>3. CASE \E i \in Active(ro) : GateOpen(i)
  <2>1. PICK i \in Active(ro) : GateOpen(i)
    BY <1>3
  <2>2. i = Index(ro)
    BY ActiveStep, OneActive DEF CopiesOK
  <2>3. CASE Bears(ro.spec.plan, i)
    <3>1. ro.st.weight = Aim
      BY <2>1, <2>2, <2>3 DEF GateOpen, Stamped, Stamping
    <3> QED  BY <2>1, <2>2, <2>3, <3>1 DEF InOrder, OneBehind, Bearing, AimOf, Aim
  <2>4. CASE ~Bears(ro.spec.plan, i)
    BY <2>2, <2>4 DEF InOrder, OneBehind, Bearing
  <2> QED  BY <2>3, <2>4
<1> QED  BY <1>1, <1>2, <1>3 DEF InOrder

(* A reconcile begins with Start. *)
LEMMA FromIdle ==
  ASSUME Next, pc = "idle", pc' # "idle"
  PROVE  Start
<1>1. CASE Environment \/ User
  BY <1>1 DEF Environment, User, Sync, SyncRS, TimerFires, Resync, Interrupt, Tick, RunPods,
       Conclude, UserEdit, EditSpec, ClearPause, MeshEdit
<1>2. CASE Reconcile
  BY <1>2 DEF Reconcile, StartPaused, BumpRevision, FoundNewRS, CreateNewRS, ScaleCanary,
       ScaleStable, pushReplicaCounts, AbortRoute, AbortScale, AbortMark, InitStep,
       RunSetWeight, Verify, Stamp, Advance, RunSetCanaryScale, EnterPause, HoldPause,
       LeavePause, CreateAnalysisRun, AwaitAnalysisRun, RecordAnalysisRun, AnalysisPolicy,
       applyAnalysisInconclusive, RunExperiment, PromoteGated, PromoteBegin, PromoteRoute,
       PromoteStamp, RepointService, DeferScaleDown, scaleDownAfterDelay, PruneHistory,
       FinalizeMark, Executing
<1> QED  BY <1>1, <1>2 DEF Next

LEMMA TrailingStep ==
  ASSUME Inv, Stamped, Trailing, Next
  PROVE  Trailing'
<1>1. CopiesOK /\ Snapshot
  BY TypeParts DEF Inv
<1>2. CASE Start
  BY <1>2 DEF Start, Trailing
<1>3. ASSUME ~Start PROVE pc' # "idle" => pc # "idle"
  BY <1>3, FromIdle
<1>4. CASE Silent /\ ~Start
  BY <1>3, <1>4, SilentShape DEF Trailing, rolloutVars
<1>5. CASE Writing /\ ~Start
  <2>1. ro' = ro /\ (UNCHANGED rolloutVars \/ Write)
    BY <1>5, WritingShape
  <2>2. CASE UNCHANGED rolloutVars
    BY <1>3, <1>5, <2>1, <2>2 DEF Trailing, rolloutVars
  <2>3. CASE Write
    <3>1. PICK o \in ObjType, next \in PCs : Update(o, next) /\ InOrder(o)
      BY <2>3 DEF Write
    <3>2. CASE UNCHANGED rolloutVars
      BY <2>2, <3>2
    <3>3. CASE roCur /\ Store(o)
      <4>1. OneBehind(ro, o) /\ OneBehind(o, o)
        BY <1>1, <3>1, WrittenAhead DEF OneBehind
      <4>2. seen = ro
        BY <1>1, <3>3 DEF Trailing, Snapshot
      <4> QED  BY <2>1, <3>3, <4>1, <4>2 DEF Store, Trailing
    <3> QED  BY <3>1, <3>2, <3>3 DEF Update
  <2> QED  BY <2>1, <2>2, <2>3
<1>6. CASE Stamp \/ PromoteStamp
  <2>1. pc # "idle"
    BY <1>6 DEF Stamp, PromoteStamp
  <2>2. \/ UNCHANGED rolloutVars
        \/ roCur /\ roCur' = FALSE /\ (seen' = seen \/ seen' = obj')
    BY <1>6 DEF Stamp, PromoteStamp, StampWeight, UpdateStatus, Update, Store, rolloutVars
  <2>3. /\ obj'.st.step = obj.st.step /\ ro'.spec = ro.spec
        /\ ro'.st.step = ro.st.step /\ ro'.st.weight = Aim /\ Bearing(ro) /\ AimOf(ro) = Aim
        /\ obj'.st.weight = IF roCur THEN Aim ELSE obj.st.weight
        /\ pc' # "idle" => roCur \/ ro.st.weight = Aim
    BY <1>6, StampMove DEF Bearing, AimOf, Aim
  <2>4. CASE roCur
    <3>1. ro = obj /\ seen = obj
      BY <1>1, <2>4 DEF Snapshot, Trailing
    <3>2. OneBehind(ro', obj') /\ OneBehind(seen, obj') /\ OneBehind(obj', obj')
      BY <2>3, <2>4, <3>1 DEF OneBehind
    <3> QED  BY <2>2, <3>2 DEF Trailing, rolloutVars
  <2>5. CASE ~roCur
    <3>1. OneBehind(seen, obj') /\ UNCHANGED rolloutVars
      BY <2>2, <2>3, <2>5, OneBehindSame DEF Trailing, rolloutVars
    <3>2. pc' # "idle" => OneBehind(ro', obj')
      BY <2>1, <2>3, <2>5, OneBehindSame DEF Trailing
    <3> QED  BY <2>5, <3>1, <3>2 DEF Trailing, rolloutVars
  <2> QED  BY <2>4, <2>5
<1>7. CASE (UserEdit \/ ClearPause) /\ ~Start
  <2>1. PICK o \in ObjType : Store(o) /\ Edited(o) /\ ro' = ro
    BY <1>1, <1>7, EditShape
  <2>2. /\ OneBehind(seen, o) /\ OneBehind(o, o)
        /\ pc # "idle" => OneBehind(ro, o)
    BY <2>1, OneBehindSame DEF Edited, Trailing, OneBehind
  <2> QED  BY <1>3, <1>7, <2>1, <2>2 DEF Store, Trailing
<1>8. CASE Sync /\ ~Start
  BY <1>3, <1>8 DEF Sync, Trailing, OneBehind
<1>9. CASE \E field \in Clocks : Tick(field)
  <2>1. PICK field \in Clocks : Tick(field)
    BY <1>9
  <2>2. /\ obj' = Aged(obj, field) /\ seen' = Aged(seen, field) /\ ro' = Aged(ro, field)
        /\ UNCHANGED <<seenCur, roCur, pc>>
    BY <2>1 DEF Tick
  <2>3. /\ OneBehind(Aged(seen, field), Aged(obj, field))
        /\ pc # "idle" => OneBehind(Aged(ro, field), Aged(obj, field))
    BY <1>1, AgedObj, OneBehindSame DEF CopiesOK, Trailing
  <2> QED  BY <2>2, <2>3 DEF Trailing
<1> QED  BY <1>2, <1>4, <1>5, <1>6, <1>7, <1>8, <1>9, NextParts DEF Reading

(* Only the promotion repoints a Service. *)
LEMMA ServiceMove ==
  ASSUME Next, svc' # svc
  PROVE  RepointService
<1>1. CASE Environment \/ User
  BY <1>1 DEF Environment, User, Sync, SyncRS, TimerFires, Resync, Interrupt, Tick, RunPods,
       Conclude, UserEdit, EditSpec, ClearPause, MeshEdit, outside
<1>2. CASE Reconcile
  BY <1>2 DEF Reconcile, Start, StartPaused, BumpRevision, FoundNewRS, CreateNewRS, ScaleCanary,
       ScaleStable, pushReplicaCounts, AbortRoute, AbortScale, AbortMark, InitStep,
       RunSetWeight, Verify, Stamp, Advance, RunSetCanaryScale, EnterPause, HoldPause,
       LeavePause, CreateAnalysisRun, AwaitAnalysisRun, RecordAnalysisRun, AnalysisPolicy,
       applyAnalysisInconclusive, RunExperiment, PromoteGated, PromoteBegin, PromoteRoute,
       PromoteStamp, DeferScaleDown, scaleDownAfterDelay, PruneHistory,
       FinalizeMark, StampWeight, outside
<1> QED  BY <1>1, <1>2 DEF Next

(* What the handlers know of weight and route when nobody edits the route  *)
(* by hand.                                                                *)
Promise == Stamped /\ Routed /\ Trailing

LEMMA PromiseStep ==
  ASSUME "mesh" \notin UserEdits, Inv, Promise, [Next]_vars
  PROVE  Promise'
<1>1. CASE Next
  BY <1>1, StampedStep, RoutedStep, TrailingStep DEF Promise
<1>2. CASE UNCHANGED vars
  BY <1>2 DEF vars, rolloutVars, outside, Promise, Stamped, Stamping, Routed, Landed, Aim,
       Trailing
<1> QED  BY <1>1, <1>2

LEMMA PromiseInit == Init => Promise
BY DEF Init, Promise, Stamped, Stamping, Routed, Landed, Trailing, OneBehind

LEMMA PromiseHolds ==
  ASSUME "mesh" \notin UserEdits
  PROVE  SafetySpec => []Promise
<1>1. Inv /\ Promise /\ [Next]_vars => Promise'
  BY PromiseStep
<1> QED  BY <1>1, PromiseInit, InvHolds, PTL DEF SafetySpec

(* In a promotion past its stamp. *)
LEMMA PromotedWeight ==
  ASSUME Inv, Promise,
         pc \in {"repoint", "scaleDown"} \/ (pc = "advance" /\ Step(ro).kind = "promote")
  PROVE  /\ ro.st.weight = 100 /\ obj.st.weight = 100
         /\ Router = "mesh" => routerW = 100
<1>1. Active(ro) # {} /\ Step(ro).kind = "promote"
  BY DEF Inv, Control, InPromote
<1>2. Aim = 100 /\ Bears(ro.spec.plan, Index(ro)) /\ AimOf(ro) = 100
  BY <1>1, AimOfKind DEF Aim, AimOf
<1>3. Stamping
  BY <1>2 DEF Stamping
<1>4. OneBehind(ro, obj) /\ ro.st.weight = 100
  BY <1>2, <1>3 DEF Promise, Stamped, Trailing
<1> QED  BY <1>2, <1>3, <1>4 DEF Promise, Routed, Landed, OneBehind

(* A stable Service is repointed only when the status on the server and    *)
(* the traffic are at 100: for every progression, from however old a copy, *)
(* whatever fails, restarts or is edited, but the route by hand.           *)
THEOREM RepointedInOrder ==
  ASSUME "mesh" \notin UserEdits
  PROVE  SafetySpec => PromoteOrder
<1> DEFINE A == svc' # svc => obj.st.weight = 100 /\ (Router = "mesh" => routerW = 100)
<1>1. Inv /\ Promise /\ [Next]_vars => [A]_vars
  <2> SUFFICES ASSUME Inv, Promise, Next, svc' # svc
               PROVE  obj.st.weight = 100 /\ (Router = "mesh" => routerW = 100)
    OBVIOUS
  <2>1. pc = "repoint"
    BY ServiceMove DEF RepointService
  <2> QED  BY <2>1, PromotedWeight
<1> QED  BY <1>1, PromiseHolds, InvHolds, PTL DEF SafetySpec, PromoteOrder

-----------------------------------------------------------------------------
(***************************************************************************)
(* The route and the status.                                               *)
(***************************************************************************)
(* An abort, once on the server, stands when no edit is about it. *)
AbortStands ==
  /\ pc = "abortRoute" => ro.spec.abort
  /\ ro.spec.abort => obj.spec.abort
  /\ seen.spec.abort => obj.spec.abort

LEMMA AbortRouteEntry ==
  ASSUME Next, pc' = "abortRoute"
  PROVE  (pc = "abortRoute" /\ Beside) \/ (ro.spec.abort /\ ro' = ro)
<1>1. CASE Beside
  <2>1. pc' = pc
    BY <1>1 DEF Beside, StartPaused, Sync, SyncRS, TimerFires, Resync, UserEdit, EditSpec,
         ClearPause, MeshEdit, Tick, RunPods, Conclude
  <2> QED  BY <1>1, <2>1
<1>2. CASE pushReplicaCounts
  <2>1. pc' \in {AfterCounts, "idle"} /\ ro' = ro
    BY <1>2, UpdatePC DEF pushReplicaCounts, UpdateStatus
  <2> QED  BY <2>1 DEF AfterCounts
<1>3. CASE Start \/ FoundNewRS \/ CreateNewRS \/ Interrupt \/ HoldPause \/ RunSetWeight
           \/ Verify \/ CreateAnalysisRun \/ AwaitAnalysisRun \/ DeferScaleDown
           \/ AbortRoute \/ PromoteRoute
  BY <1>3 DEF Start, FoundNewRS, CreateNewRS, Interrupt, HoldPause, RunSetWeight, Verify,
       CreateAnalysisRun, AwaitAnalysisRun, DeferScaleDown, AbortRoute, PromoteRoute,
       SetWeightIfRouted, SetWeight, RequeueAfter, ReturnErr
<1>4. CASE BumpRevision \/ ScaleCanary \/ ScaleStable \/ AbortScale \/ RunSetCanaryScale
           \/ PruneHistory \/ RepointService \/ scaleDownAfterDelay
  <2>1. pc' \in {"canary", "stable", "counts", "abortMark", "advance", "exec", "repoint",
                 "scaleDown", "idle"}
    BY <1>4, UpdateRSPC, ScalePC DEF BumpRevision, ScaleCanary, ScaleStable, AbortScale,
         RunSetCanaryScale, PruneHistory, RepointService, scaleDownAfterDelay, Goto
  <2> QED  BY <2>1
<1>5. CASE AbortMark \/ InitStep \/ Advance \/ EnterPause \/ LeavePause \/ AnalysisPolicy
           \/ applyAnalysisInconclusive \/ RunExperiment \/ PromoteGated \/ FinalizeMark
           \/ RecordAnalysisRun \/ PromoteBegin \/ Stamp \/ PromoteStamp
  <2>1. pc' \in {"policy", "promoteRoute", "advance", "repoint", "idle"}
    BY <1>5, UpdatePC DEF AbortMark, InitStep, Advance, EnterPause, LeavePause,
         AnalysisPolicy, applyAnalysisInconclusive, RunExperiment, PromoteGated, FinalizeMark,
         RecordAnalysisRun, PromoteBegin, Stamp, PromoteStamp, StampWeight,
         advanceStep, TriggerAbort, UpdateStatus, ReturnErr
  <2> QED  BY <2>1
<1> QED  BY <1>1, <1>2, <1>3, <1>4, <1>5 DEF Next, Reconcile, Environment, User, Beside

LEMMA AbortStandsStep ==
  ASSUME "abort" \notin UserEdits, Inv, AbortStands, Next
  PROVE  /\ AbortStands'
         /\ obj.spec.abort => obj'.spec.abort
<1>1. CopiesOK /\ Snapshot /\ ro.spec \in SpecType
  BY TypeParts DEF Inv, CopiesOK, ObjType
<1>2. pc' = "abortRoute" => ro'.spec.abort
  <2>1. Beside /\ ro.spec.abort => ro'.spec.abort
    BY BesideFacts
  <2> QED  BY <2>1, AbortRouteEntry DEF AbortStands
<1>3. ASSUME obj.spec.abort => obj'.spec.abort, ro'.spec = ro.spec \/ ro' = seen,
             seen'.spec = seen.spec \/ seen' = obj'
      PROVE  AbortStands' /\ (obj.spec.abort => obj'.spec.abort)
  BY <1>2, <1>3 DEF AbortStands
<1>4. CASE Silent
  BY <1>3, <1>4, SilentShape DEF rolloutVars
<1>5. CASE Writing
  <2>1. ro' = ro /\ (UNCHANGED rolloutVars \/ Write)
    BY <1>5, WritingShape
  <2>2. CASE UNCHANGED rolloutVars
    BY <1>3, <2>1, <2>2 DEF rolloutVars
  <2>3. CASE Write
    <3>1. PICK o \in ObjType, next \in PCs : Update(o, next) /\ InOrder(o)
      BY <2>3 DEF Write
    <3>2. CASE UNCHANGED rolloutVars
      BY <2>2, <3>2
    <3>3. CASE Store(o)
      <4>1. obj.spec.abort => o.spec.abort
        BY <1>1, <3>1 DEF InOrder, SpecType
      <4> QED  BY <1>3, <2>1, <3>3, <4>1 DEF Store
    <3> QED  BY <3>1, <3>2, <3>3 DEF Update
  <2> QED  BY <2>1, <2>2, <2>3
<1>6. CASE Stamp \/ PromoteStamp
  <2>1. obj'.spec = obj.spec /\ ro'.spec = ro.spec
    BY <1>6, StampMove
  <2>2. seen' = seen \/ seen' = obj'
    BY <1>6 DEF Stamp, PromoteStamp, StampWeight, UpdateStatus, Update, Store, rolloutVars
  <2> QED  BY <1>3, <2>1, <2>2
<1>7. CASE UserEdit \/ ClearPause
  BY <1>1, <1>3, <1>7, EditShape DEF Store, Edited
<1>8. CASE Start \/ Sync
  BY <1>3, <1>8 DEF Start, Sync
<1>9. CASE \E field \in Clocks : Tick(field)
  BY <1>1, <1>3, <1>9, AgedObj DEF Tick, CopiesOK
<1> QED  BY <1>4, <1>5, <1>6, <1>7, <1>8, <1>9, NextParts DEF Reading

(* Who moves the route: an abort, or a handler to the weight of its step. *)
LEMMA RouteMove ==
  ASSUME "mesh" \notin UserEdits, Inv, Next, routerW' # routerW
  PROVE  /\ UNCHANGED <<rolloutVars, ro>>
         /\ pc = "abortRoute" \/ (Bearing(ro) /\ routerW' = AimOf(ro) /\ pc # "idle")
<1>1. CASE Environment \/ User
  BY <1>1 DEF Environment, User, Sync, SyncRS, TimerFires, Resync, Interrupt, Tick, RunPods,
       Conclude, UserEdit, EditSpec, ClearPause, MeshEdit, outside
<1>2. CASE AbortRoute \/ RunSetWeight \/ PromoteRoute
  <2>1. UNCHANGED <<rolloutVars, ro>>
    BY <1>2 DEF AbortRoute, RunSetWeight, PromoteRoute
  <2>2. CASE AbortRoute
    BY <2>1, <2>2 DEF AbortRoute
  <2>3. CASE RunSetWeight
    <3>1. Active(ro) # {} /\ Step(ro).kind = "setWeight" /\ pc = "exec"
      BY <2>3 DEF RunSetWeight, Executing
    <3>2. routerW' = Step(ro).weight
      BY <2>3 DEF RunSetWeight, SetWeight
    <3> QED  BY <2>1, <3>1, <3>2, AimOfKind DEF Aim, AimOf, Bearing
  <2>4. CASE PromoteRoute
    <3>1. Active(ro) # {} /\ Step(ro).kind = "promote" /\ pc = "promoteRoute"
      BY <2>4 DEF PromoteRoute, Inv, Control, InPromote
    <3>2. routerW' = 100
      BY <2>4 DEF PromoteRoute, SetWeightIfRouted, SetWeight
    <3> QED  BY <2>1, <3>1, <3>2, AimOfKind DEF Aim, AimOf, Bearing
  <2> QED  BY <1>2, <2>2, <2>3, <2>4
<1>3. CASE Reconcile /\ ~(AbortRoute \/ RunSetWeight \/ PromoteRoute)
  BY <1>3 DEF Reconcile, Start, StartPaused, BumpRevision, FoundNewRS, CreateNewRS, ScaleCanary,
       ScaleStable, pushReplicaCounts, AbortScale, AbortMark, InitStep,
       Verify, Stamp, Advance, RunSetCanaryScale, EnterPause, HoldPause,
       LeavePause, CreateAnalysisRun, AwaitAnalysisRun, RecordAnalysisRun, AnalysisPolicy,
       applyAnalysisInconclusive, RunExperiment, PromoteGated, PromoteBegin,
       PromoteStamp, RepointService, DeferScaleDown, scaleDownAfterDelay, PruneHistory,
       FinalizeMark, StampWeight, outside
<1> QED  BY <1>1, <1>2, <1>3 DEF Next

(* The weights the route may carry at an object. *)
Carried(o) ==
  {o.st.weight} \cup UNION {Aiming(o.spec.plan, i) : i \in Active(o)}

LEMMA CarriedAim ==
  ASSUME NEW o \in ObjType
  PROVE  Carried(o) = IF Bearing(o) THEN {o.st.weight, AimOf(o)} ELSE {o.st.weight}
<1>1. CASE Active(o) = {}
  BY <1>1 DEF Carried, Bearing
<1>2. CASE Active(o) # {}
  <2>1. Active(o) = {Index(o)}
    BY <1>2, ActiveStep, OneActive
  <2> QED  BY <2>1 DEF Carried, Bearing, AimOf, Aiming
<1> QED  BY <1>1, <1>2

Following == OnePlan /\ Promise /\ AbortStands /\ RouterFollowsStatus

LEMMA FollowingStep ==
  ASSUME "plan" \notin UserEdits, "abort" \notin UserEdits, "mesh" \notin UserEdits,
         Router # "none", Inv, Following, Next
  PROVE  Following'
<1>1. CopiesOK /\ Snapshot /\ CopiesOK'
  BY TypeParts, CopiesStep DEF Inv
<1>2. OnePlan' /\ Promise' /\ AbortStands'
  BY OnePlanStep, PromiseStep, AbortStandsStep DEF Following
<1>3. ASSUME NEW a \in ObjType, NEW b \in ObjType, a.spec.plan = b.spec.plan,
             a.st.step = b.st.step
      PROVE  Bearing(a) = Bearing(b) /\ AimOf(a) = AimOf(b)
  <2>1. Active(a) = Active(b)
    BY <1>3 DEF Active
  <2> QED  BY <1>3, <2>1 DEF Bearing, AimOf, Index
<1> SUFFICES ASSUME ~obj'.spec.abort PROVE routerW' \in Carried(obj')
  BY <1>2 DEF Following, RouterFollowsStatus, Carried, Plan
<1>4. ~obj.spec.abort /\ routerW \in Carried(obj)
  BY AbortStandsStep DEF Following, RouterFollowsStatus, Carried, Plan
<1>5. Landed => routerW = Aim
  BY ConstantsAssumption DEF Following, Promise, Routed
<1>6. CASE routerW' # routerW
  <2>1. obj' = obj /\ Bearing(ro) /\ routerW' = AimOf(ro) /\ pc # "idle"
    BY <1>4, <1>6, RouteMove DEF rolloutVars, Following, AbortStands
  <2>2. CASE ro.st.step = obj.st.step
    <3>1. Bearing(obj) /\ AimOf(obj) = AimOf(ro)
      BY <1>1, <1>3, <2>1, <2>2 DEF CopiesOK, Following, OnePlan
    <3> QED  BY <1>1, <2>1, <3>1, CarriedAim DEF CopiesOK
  <2>3. CASE obj.st.weight = AimOf(ro)
    BY <2>1, <2>3 DEF Carried
  <2> QED  BY <2>1, <2>2, <2>3 DEF Following, Promise, Trailing, OneBehind
<1>7. CASE routerW' = routerW
  <2>1. CASE obj'.st.step = obj.st.step /\ obj'.st.weight = obj.st.weight
    <3>1. obj'.spec.plan = obj.spec.plan
      BY <1>2 DEF Following, OnePlan
    <3>2. Bearing(obj') = Bearing(obj) /\ AimOf(obj') = AimOf(obj)
      BY <1>1, <1>3, <2>1, <3>1 DEF CopiesOK
    <3> QED  BY <1>1, <1>4, <1>7, <2>1, <3>2, CarriedAim DEF CopiesOK
  <2>2. CASE (Stamp \/ PromoteStamp) /\ roCur
    <3>1. obj'.st.weight = Aim
      BY <2>2, StampMove
    <3>2. Landed
      BY <2>2 DEF Stamp, PromoteStamp, Landed
    <3> QED  BY <1>5, <1>7, <3>1, <3>2 DEF Carried
  <2>3. CASE obj'.st.step # obj.st.step
    <3>1. /\ ro = obj
          /\ obj.st.step = None \/ \E i \in Active(obj) : GateOpen(i)
      BY <2>3, StepChange
    <3>2. obj'.st.weight = obj.st.weight
      BY <2>3, WeightMove, StampMove
    <3>3. routerW = obj.st.weight
      <4>1. CASE ~Bearing(obj)
        BY <1>1, <1>4, <4>1, CarriedAim DEF CopiesOK
      <4>2. CASE Bearing(obj)
        <5>1. obj.st.step # None
          BY <1>1, <4>2, NoStepActive DEF Bearing, CopiesOK
        <5>2. PICK i \in Active(obj) : GateOpen(i)
          BY <3>1, <5>1
        <5>3. i = Index(obj)
          BY <1>1, ActiveStep, OneActive DEF CopiesOK
        <5>4. pc = "advance" /\ Bears(ro.spec.plan, Index(ro))
          BY <3>1, <4>2, <5>2, <5>3 DEF GateOpen, Bearing
        <5>5. Stamping
          BY <5>4 DEF Stamping
        <5> QED  BY <1>5, <3>1, <5>5 DEF Landed, Following, Promise, Stamped
      <4> QED  BY <4>1, <4>2
    <3> QED  BY <1>7, <3>2, <3>3 DEF Carried
  <2> QED  BY <2>1, <2>2, <2>3, StampMove, WeightMove
<1> QED  BY <1>6, <1>7

(* The router carries the weight the status claims or that of the step in  *)
(* progress, from however old a copy a reconcile works and whatever fails  *)
(* or restarts: SetWeight comes before the stamp and the stamp before      *)
(* advanceStep.  A replanned step, an abort cleared again or a hand on the *)
(* route break it, and without a router there is no route.                 *)
THEOREM RouterIsAhead ==
  ASSUME "plan" \notin UserEdits, "abort" \notin UserEdits, "mesh" \notin UserEdits,
         Router # "none"
  PROVE  SafetySpec => []RouterFollowsStatus
<1>1. Init => Following
  <2> SUFFICES ASSUME Init PROVE Following
    OBVIOUS
  <2>1. OnePlan /\ AbortStands
    BY DEF Init, OnePlan, AbortStands
  <2>2. routerW = obj.st.weight
    BY DEF Init, NewStatus
  <2> QED  BY <2>1, <2>2, PromiseInit DEF Following, RouterFollowsStatus
<1>2. Inv /\ Following /\ [Next]_vars => Following'
  <2>1. ASSUME Inv, Following, Next PROVE Following'
    BY <2>1, FollowingStep
  <2>2. ASSUME Inv, Following, UNCHANGED vars PROVE Following'
    <3>1. Promise'
      BY <2>2, PromiseStep DEF Following
    <3>2. OnePlan' /\ AbortStands' /\ RouterFollowsStatus'
      BY <2>2 DEF vars, rolloutVars, outside, Following, OnePlan, AbortStands,
           RouterFollowsStatus, Plan
    <3> QED  BY <3>1, <3>2 DEF Following
  <2> QED  BY <2>1, <2>2
<1>3. Following => RouterFollowsStatus
  BY DEF Following
<1> QED  BY <1>1, <1>2, <1>3, InvHolds, PTL DEF SafetySpec

-----------------------------------------------------------------------------
(***************************************************************************)
(* The ReplicaSets: no two were created at the same time, so the order by  *)
(* size and age has a first, the ReplicaSet reconcileReplicas scales.      *)
(***************************************************************************)
(* A finite set has a largest member. *)
LEMMA LargestExists ==
  ASSUME NEW S, IsFiniteSet(S), S # {}, NEW g \in [S -> Nat]
  PROVE  \E m \in S : \A v \in S : g[v] <= g[m]
<1> DEFINE Upto(u) == {w \in S : g[w] <= g[u]}
           sizes == {Cardinality(Upto(u)) : u \in S}
<1>1. Cardinality(S) \in Nat
  BY FS_CardinalityType
<1>2. \A u \in S : IsFiniteSet(Upto(u)) /\ Cardinality(Upto(u)) \in 0..Cardinality(S)
  <2> SUFFICES ASSUME NEW u \in S
               PROVE  IsFiniteSet(Upto(u)) /\ Cardinality(Upto(u)) \in 0..Cardinality(S)
    OBVIOUS
  <2>1. Upto(u) \in SUBSET S
    OBVIOUS
  <2> HIDE DEF Upto
  <2>2. IsFiniteSet(Upto(u)) /\ Cardinality(Upto(u)) <= Cardinality(S)
    BY <2>1, FS_Subset
  <2> QED  BY <1>1, <2>2, FS_CardinalityType
<1>3. sizes \subseteq 0..Cardinality(S) /\ sizes # {}
  BY <1>2
<1>4. PICK n \in sizes : \A x \in sizes : x <= n
  BY <1>1, <1>3, GreatestExists
<1>5. PICK m \in S : n = Cardinality(Upto(m))
  BY <1>4
<1>6. ASSUME NEW v \in S, ~(g[v] <= g[m]) PROVE FALSE
  <2>1. Upto(m) \subseteq Upto(v) /\ v \in Upto(v) /\ v \notin Upto(m)
    BY <1>6
  <2>2. IsFiniteSet(Upto(v)) /\ IsFiniteSet(Upto(m))
    BY <1>2
  <2> HIDE DEF Upto
  <2>3. /\ Cardinality(Upto(m)) <= Cardinality(Upto(v))
        /\ Cardinality(Upto(v)) # Cardinality(Upto(m))
    BY <2>1, <2>2, FS_Subset
  <2>4. Cardinality(Upto(v)) <= Cardinality(Upto(m))
    BY <1>4, <1>5
  <2>5. Cardinality(Upto(v)) \in Nat /\ Cardinality(Upto(m)) \in Nat
    BY <2>2, FS_CardinalityType
  <2> QED  BY <2>3, <2>4, <2>5
<1> QED  BY <1>6

(* A view of the ReplicaSets after n creations. *)
WellBorn(l, n) ==
  /\ \A u \in Tmpls : ~l[u].exists => l[u].replicas = 0
  /\ \A u \in Tmpls : l[u].exists => l[u].born <= n
  /\ \A u, v \in Tmpls : l[u].exists /\ l[v].exists /\ u # v => l[u].born # l[v].born

(* The ReplicaSets on the server, in the cache and in the reconcile's list.*)
Records ==
  /\ WellBorn(rs, births) /\ WellBorn(seenRS, births)
  /\ ~Lag => seenRSCur = Tmpls
  /\ \A t \in seenRSCur : seenRS[t] = rs[t]
  /\ pc # "idle" => \A t \in lrsCur : lrs[t] = rs[t]
  /\ \A u, v \in Old : u # v => lrs[u].born # lrs[v].born
  /\ pc \notin {"idle", "newRS"} => lrs[T].exists

LEMMA LargestOld ==
  ASSUME SetsOK, Records, Old # {}
  PROVE  largestOldRS \in Old
<1>1. IsFiniteSet(Old) /\ Old \subseteq Tmpls
  BY ConstantsAssumption, FS_Subset DEF Old
<1> DEFINE g == [u \in Old |-> lrs[u].replicas]
<1>2. \A u \in Old : lrs[u].replicas \in Nat /\ lrs[u].born \in Nat
  <2>1. MaxRev \in Nat
    BY ConstantsAssumption
  <2>2. \A u \in Old : lrs[u] \in RSType
    BY <1>1 DEF SetsOK
  <2> QED  BY <2>1, <2>2 DEF RSType
<1>3. PICK m \in Old : \A v \in Old : g[v] <= g[m]
  BY <1>1, <1>2, LargestExists
<1> DEFINE M == {u \in Old : lrs[u].replicas = lrs[m].replicas}
           ages == {lrs[u].born : u \in M}
<1>4. ages \subseteq Nat /\ ages # {}
  BY <1>2
<1>5. PICK a \in ages : \A x \in ages : a <= x
  BY <1>4, LeastExists
<1>6. PICK u \in M : lrs[u].born = a
  BY <1>5
<1>7. \A v \in Old \ {u} :
         \/ lrs[u].replicas > lrs[v].replicas
         \/ lrs[u].replicas = lrs[v].replicas /\ lrs[u].born < lrs[v].born
  <2> SUFFICES ASSUME NEW v \in Old \ {u}, ~(lrs[u].replicas > lrs[v].replicas)
               PROVE  lrs[u].replicas = lrs[v].replicas /\ lrs[u].born < lrs[v].born
    OBVIOUS
  <2>1. lrs[v].replicas = lrs[m].replicas
    BY <1>2, <1>3, <1>6
  <2>2. v \in M /\ lrs[u].born <= lrs[v].born
    BY <1>5, <1>6, <2>1
  <2>3. lrs[u].born # lrs[v].born
    BY <1>6 DEF Records
  <2> QED  BY <1>2, <1>6, <2>1, <2>2, <2>3
<1> QED  BY <1>6, <1>7 DEF largestOldRS

(* What a step may do to the ReplicaSets on the server.  Rewritten: one    *)
(* keeps its identity and, unless it is newRS, its size, or is given zero  *)
(* or the stable side of the split.                                        *)
Still == UNCHANGED <<rs, seenRS, seenRSCur, births>>

Rewritten ==
  /\ births' = births
  /\ \E t \in Tmpls, r \in RSType :
       /\ StoreRS(t, r)
       /\ r.exists = rs[t].exists /\ r.born = rs[t].born
       /\ ~r.exists => r.replicas = 0
       /\ t = T \/ r.replicas \in {rs[t].replicas, 0, Split.stable}

Created ==
  /\ pc = "newRS" /\ ~rs[T].exists
  /\ births' = births + 1 /\ births' \in 0..MaxRev
  /\ \E r \in RSType : StoreRS(T, r) /\ r.exists /\ r.born = births'

LEMMA RewriteMove ==
  ASSUME SetsOK, Records, pc # "idle", births' = births,
         NEW t, NEW r, NEW next, UpdateRS(t, r, next),
         t \in Tmpls => /\ r \in RSType /\ r.exists = lrs[t].exists /\ r.born = lrs[t].born
                        /\ ~r.exists => r.replicas = 0
                        /\ t = T \/ r.replicas \in {lrs[t].replicas, 0, Split.stable}
  PROVE  Still \/ Rewritten
<1>1. CASE t \in lrsCur /\ StoreRS(t, r)
  <2>1. t \in Tmpls /\ lrs[t] = rs[t]
    BY <1>1 DEF SetsOK, Records
  <2> QED  BY <1>1, <2>1 DEF Rewritten
<1>2. CASE UNCHANGED <<rs, seenRS, seenRSCur>>
  BY <1>2 DEF Still
<1> QED  BY <1>1, <1>2 DEF UpdateRS

LEMMA ScaleMove ==
  ASSUME SetsOK, Records, pc # "idle",
         NEW t, NEW n \in Nat, NEW next, scaleIfNeeded(t, n, next),
         t \in Tmpls => lrs[t].exists \/ n = 0, t = T \/ n \in {0, Split.stable}
  PROVE  Still \/ Rewritten
<1>1. CASE Goto(next)
  BY <1>1 DEF Goto, rsVars, Still
<1>2. CASE ScaleReplicaSet(t, n, next)
  <2> DEFINE r == [lrs[t] EXCEPT !.replicas = n]
  <2>1. t \in Tmpls => /\ r \in RSType /\ r.exists = lrs[t].exists /\ r.born = lrs[t].born
                       /\ r.replicas = n
    BY DEF SetsOK, RSType
  <2>2. UpdateRS(t, r, next) /\ births' = births
    BY <1>2 DEF ScaleReplicaSet
  <2> HIDE DEF r
  <2> QED  BY <2>1, <2>2, RewriteMove
<1> QED  BY <1>1, <1>2 DEF scaleIfNeeded

LEMMA SetMove ==
  ASSUME Inv, Records, Next
  PROVE  Still \/ SyncRS \/ Rewritten \/ Created \/ PruneHistory
<1>1. CopiesOK /\ SetsOK /\ T \in Tmpls /\ lrs[T] \in RSType
  BY TypeParts DEF Inv, CopiesOK, SetsOK, ObjType, SpecType, T
<1>2. Split.canary \in Nat /\ Split.stable \in Nat
  <2>1. ro.spec.replicas \in Nat /\ ro.st.weight \in 0..100 /\ lrs[T].replicas \in Nat
    BY <1>1, ConstantsAssumption DEF CopiesOK, ObjType, SpecType, StatusType, RSType
  <2>2. Split.canary \in 0..ro.spec.replicas /\ Split.stable \in 0..ro.spec.replicas
    BY <2>1, SplitBounds, Zenon DEF Split
  <2> QED  BY <2>1, <2>2
<1>3. CASE BumpRevision
  <2> DEFINE n == MaxRevision(lrs, Old) + 1
             r == [lrs[T] EXCEPT !.rev = n]
  <2>1. /\ UpdateRS(T, r, "canary") /\ births' = births /\ lrs[T].exists /\ n <= MaxRev
        /\ pc # "idle"
    BY <1>3 DEF BumpRevision
  <2>2. n \in 0..MaxRev
    <3>1. MaxRevision(lrs, Old) \in 0..MaxRev /\ MaxRev \in Nat
      BY <1>1, MaxRevisionRange, ConstantsAssumption DEF SetsOK, Old
    <3> QED  BY <2>1, <3>1
  <2> HIDE DEF n
  <2>3. r \in RSType /\ r.exists = lrs[T].exists /\ r.born = lrs[T].born
    BY <1>1, <2>2 DEF RSType
  <2> HIDE DEF r
  <2> QED  BY <1>1, <2>1, <2>3, RewriteMove
<1>4. CASE CreateNewRS
  <2>1. CASE ~(~rs[T].exists /\ births < MaxRev)
    BY <1>4, <2>1 DEF CreateNewRS, Still
  <2>2. CASE ~rs[T].exists /\ births < MaxRev
    <3> DEFINE made == [exists   |-> TRUE,
                        replicas |-> NewRSNewReplicas(ViewReplicas, MaxSurge, SpecPods(lrs, Old)),
                        pods |-> 0, rev |-> MaxRevision(lrs, Old) + 1, born |-> births + 1,
                        owner |-> <<"Deployment", RolloutUID>>]
    <3>1. /\ StoreRS(T, ensureOwnedByRollout(made)) /\ births' = births + 1
          /\ pc = "newRS"
      BY <1>4, <2>2 DEF CreateNewRS
    <3>2. ensureOwnedByRollout(made) = made
      BY DEF ensureOwnedByRollout, isOwnedBy
    <3>3. births' \in 0..MaxRev
      <4>1. births \in 0..MaxRev /\ MaxRev \in Nat
        BY <1>1, ConstantsAssumption DEF SetsOK
      <4> QED  BY <2>2, <3>1, <4>1
    <3>4. made \in RSType
      <4>1. rs' \in [Tmpls -> RSType]
        BY SetsStep DEF SetsOK
      <4>2. rs'[T] = made
        BY <1>1, <3>1, <3>2 DEF StoreRS, SetsOK
      <4> QED  BY <1>1, <4>1, <4>2
    <3>5. made.exists /\ made.born = births'
      BY <3>1
    <3> HIDE DEF made
    <3> QED  BY <2>2, <3>1, <3>2, <3>3, <3>4, <3>5 DEF Created
  <2> QED  BY <2>1, <2>2
<1>5. CASE ScaleCanary \/ AbortScale \/ RunSetCanaryScale
  <2>1. lrs[T].exists /\ pc # "idle"
    BY <1>5 DEF ScaleCanary, AbortScale, RunSetCanaryScale, Executing, Records
  <2>2. CASE Goto("counts")
    BY <2>2 DEF Goto, rsVars, Still
  <2>3. CASE ScaleCanary
    BY <1>1, <1>2, <2>1, <2>2, <2>3, ScaleMove DEF ScaleCanary
  <2>4. CASE AbortScale
    BY <1>1, <2>1, <2>4, ScaleMove DEF AbortScale
  <2>5. CASE RunSetCanaryScale
    <3>1. resolveCanaryScale(ro) \in Nat
      BY <1>1, <2>5, CanaryScaleNat DEF RunSetCanaryScale, Executing, CopiesOK
    <3> QED  BY <1>1, <2>1, <2>5, <3>1, ScaleMove DEF RunSetCanaryScale
  <2> QED  BY <1>5, <2>3, <2>4, <2>5
<1>6. CASE ScaleStable
  <2>1. CASE Goto("counts")
    BY <2>1 DEF Goto, rsVars, Still
  <2>2. CASE Old # {} /\ scaleIfNeeded(largestOldRS, Split.stable, "counts")
    <3>1. lrs[largestOldRS].exists /\ pc # "idle"
      BY <1>1, <1>6, <2>2, LargestOld DEF Old, ScaleStable
    <3> QED  BY <1>1, <1>2, <2>2, <3>1, ScaleMove
  <2> QED  BY <1>6, <2>1, <2>2 DEF ScaleStable
<1>7. CASE scaleDownAfterDelay
  <2>1. CASE Goto("advance")
    BY <2>1 DEF Goto, rsVars, Still
  <2>2. CASE \E u \in Old : UpdateRS(u, [lrs[u] EXCEPT !.replicas = 0], "scaleDown")
                            /\ births' = births
    <3>1. PICK u \in Old : UpdateRS(u, [lrs[u] EXCEPT !.replicas = 0], "scaleDown")
                           /\ births' = births
      BY <2>2
    <3> DEFINE r == [lrs[u] EXCEPT !.replicas = 0]
    <3>2. /\ r \in RSType /\ r.exists = lrs[u].exists /\ r.born = lrs[u].born
          /\ r.replicas = 0
      BY <1>1 DEF SetsOK, RSType, Old
    <3>3. UpdateRS(u, r, "scaleDown") /\ births' = births /\ pc # "idle"
      BY <1>7, <3>1 DEF scaleDownAfterDelay
    <3> HIDE DEF r
    <3> QED  BY <1>1, <3>2, <3>3, RewriteMove
  <2> QED  BY <1>7, <2>1, <2>2 DEF scaleDownAfterDelay
<1>8. CASE \E t \in Tmpls : RunPods(t)
  <2>1. PICK t \in Tmpls : RunPods(t)
    BY <1>8
  <2> DEFINE r == [rs[t] EXCEPT !.pods = rs[t].replicas]
  <2>2. /\ r \in RSType /\ r.exists = rs[t].exists /\ r.born = rs[t].born
        /\ r.replicas = rs[t].replicas /\ r.exists
    BY <1>1, <2>1 DEF SetsOK, RSType, RunPods
  <2>3. StoreRS(t, r) /\ births' = births
    BY <2>1 DEF RunPods
  <2> HIDE DEF r
  <2> QED  BY <2>2, <2>3 DEF Rewritten
<1>9. CASE Writing
  BY <1>9 DEF Writing, pushReplicaCounts, AbortMark, InitStep, Advance, EnterPause,
       LeavePause, RecordAnalysisRun, AnalysisPolicy, applyAnalysisInconclusive,
       RunExperiment, PromoteGated, PromoteBegin, FinalizeMark, rsVars, Still
<1>10. CASE Start \/ Sync \/ (\E field \in Clocks : Tick(field)) \/ Stamp \/ PromoteStamp
            \/ UserEdit \/ ClearPause
  BY <1>10 DEF Start, Sync, Tick, Stamp, PromoteStamp, StampWeight, UserEdit, EditSpec,
       ClearPause, rsVars, Still
<1>11. CASE StartPaused \/ FoundNewRS \/ AbortRoute \/ RunSetWeight \/ Verify \/ HoldPause
            \/ CreateAnalysisRun \/ AwaitAnalysisRun \/ PromoteRoute \/ RepointService
            \/ DeferScaleDown \/ TimerFires \/ Resync \/ Interrupt
            \/ (\E n \in RunNames : Conclude(n)) \/ MeshEdit
  BY <1>11 DEF StartPaused, FoundNewRS, AbortRoute, RunSetWeight, Verify, HoldPause,
       CreateAnalysisRun, AwaitAnalysisRun, PromoteRoute, RepointService, DeferScaleDown,
       TimerFires, Resync, Interrupt, Conclude, MeshEdit, rsVars, Still
<1> QED  BY <1>3, <1>4, <1>5, <1>6, <1>7, <1>8, <1>9, <1>10, <1>11, NextParts
         DEF Silent, Reading

LEMMA StoreBorn ==
  ASSUME NEW l \in [Tmpls -> RSType], NEW n, WellBorn(l, n), NEW t \in Tmpls, NEW r \in RSType,
         ~r.exists => r.replicas = 0, r.exists => l[t].exists /\ r.born = l[t].born
  PROVE  WellBorn([l EXCEPT ![t] = r], n)
<1> DEFINE k == [l EXCEPT ![t] = r]
<1>1. k[t] = r /\ \A u \in Tmpls \ {t} : k[u] = l[u]
  OBVIOUS
<1>2. \A u \in Tmpls : k[u].exists => l[u].exists /\ k[u].born = l[u].born
  BY <1>1
<1>3. \A u \in Tmpls : ~k[u].exists => k[u].replicas = 0
  BY <1>1 DEF WellBorn
<1> HIDE DEF k
<1>4. WellBorn(k, n)
  BY <1>2, <1>3 DEF WellBorn
<1> QED  BY <1>4 DEF k

LEMMA CreateBorn ==
  ASSUME NEW l \in [Tmpls -> RSType], NEW n \in Nat, WellBorn(l, n), MaxRev \in Nat,
         NEW t \in Tmpls, NEW r \in RSType, r.exists, r.born = n + 1
  PROVE  WellBorn([l EXCEPT ![t] = r], n + 1)
<1> DEFINE k == [l EXCEPT ![t] = r]
<1>1. k[t] = r /\ \A u \in Tmpls \ {t} : k[u] = l[u]
  OBVIOUS
<1>2. \A u \in Tmpls : l[u].born \in Nat
  BY DEF RSType
<1> HIDE DEF k
<1>3. \A u \in Tmpls : ~k[u].exists => k[u].replicas = 0
  BY <1>1 DEF WellBorn
<1>4. \A u \in Tmpls \ {t} : l[u].exists => l[u].born < n + 1
  BY <1>2 DEF WellBorn
<1>5. \A u \in Tmpls : k[u].exists => k[u].born <= n + 1
  BY <1>1, <1>2, <1>4
<1>6. \A u, v \in Tmpls : k[u].exists /\ k[v].exists /\ u # v => k[u].born # k[v].born
  BY <1>1, <1>2, <1>4 DEF WellBorn
<1>7. WellBorn(k, n + 1)
  BY <1>3, <1>5, <1>6 DEF WellBorn
<1> QED  BY <1>7 DEF k

(* The server's ReplicaSets and the cache. *)
LEMMA BornStep ==
  ASSUME Inv, Records, Next
  PROVE  /\ WellBorn(rs, births)' /\ WellBorn(seenRS, births)'
         /\ ~Lag => seenRSCur' = Tmpls
         /\ \A t \in seenRSCur' : seenRS'[t] = rs'[t]
<1>1. SetsOK /\ SetsOK' /\ T \in Tmpls /\ births \in Nat /\ MaxRev \in Nat
  BY TypeParts, SetsStep, ConstantsAssumption
     DEF Inv, CopiesOK, SetsOK, ObjType, SpecType, T
<1>2. rs \in [Tmpls -> RSType] /\ seenRS \in [Tmpls -> RSType] /\ seenRSCur \subseteq Tmpls
  BY <1>1 DEF SetsOK
<1>3. ASSUME NEW t \in Tmpls, NEW r \in RSType, StoreRS(t, r), births' = births,
             ~r.exists => r.replicas = 0, r.exists => rs[t].exists /\ r.born = rs[t].born
      PROVE  /\ WellBorn(rs, births)' /\ WellBorn(seenRS, births)'
             /\ ~Lag => seenRSCur' = Tmpls
             /\ \A u \in seenRSCur' : seenRS'[u] = rs'[u]
  <2>1. WellBorn([rs EXCEPT ![t] = r], births)
    BY <1>2, <1>3, StoreBorn DEF Records
  <2>2. CASE Lag
    BY <1>2, <1>3, <2>1, <2>2 DEF StoreRS, Records
  <2>3. CASE ~Lag
    <3>1. seenRS[t] = rs[t]
      BY <2>3 DEF Records
    <3>2. WellBorn([seenRS EXCEPT ![t] = r], births)
      BY <1>2, <1>3, <3>1, StoreBorn DEF Records
    <3> QED  BY <1>2, <1>3, <2>1, <2>3, <3>2 DEF StoreRS, Records
  <2> QED  BY <2>2, <2>3
<1>4. CASE Still
  BY <1>4 DEF Still, Records
<1>5. CASE SyncRS
  BY <1>5 DEF SyncRS, Records
<1>6. CASE Rewritten
  BY <1>3, <1>6 DEF Rewritten
<1>7. CASE Created
  <2>1. PICK r \in RSType : StoreRS(T, r) /\ r.exists /\ r.born = births + 1
    BY <1>7 DEF Created
  <2>2. births' = births + 1
    BY <1>7 DEF Created
  <2>3. WellBorn([rs EXCEPT ![T] = r], births + 1) /\ WellBorn([seenRS EXCEPT ![T] = r], births + 1)
    BY <1>1, <1>2, <2>1, CreateBorn DEF Records
  <2>4. WellBorn(seenRS, births + 1)
    <3>1. \A u \in Tmpls : seenRS[u].born \in Nat
      BY <1>1, <1>2 DEF RSType
    <3> QED  BY <1>1, <3>1 DEF Records, WellBorn
  <2> QED  BY <1>1, <1>2, <2>1, <2>2, <2>3, <2>4 DEF StoreRS, Records
<1>8. CASE PruneHistory
  <2>1. PICK u \in Tmpls : StoreRS(u, NoRS)
    BY <1>8 DEF PruneHistory, Prunable, Old
  <2>2. NoRS \in RSType /\ ~NoRS.exists /\ NoRS.replicas = 0
    BY <1>1 DEF NoRS, RSType, Owners
  <2>3. births' = births
    BY <1>8 DEF PruneHistory
  <2> QED  BY <1>3, <2>1, <2>2, <2>3
<1> QED  BY <1>4, <1>5, <1>6, <1>7, <1>8, SetMove

(* The reconcile's list: what it found of the other ReplicaSets stays as   *)
(* it was read, but for the zero the promotion notes.                      *)
LEMMA ListKept ==
  ASSUME Inv, Next, ~Start
  PROVE  /\ ro'.spec = ro.spec
         /\ \A u \in Tmpls \ {T} :
              \/ lrs'[u] = lrs[u]
              \/ /\ pc = "scaleDown" /\ lrs'[u] = [lrs[u] EXCEPT !.replicas = 0]
                 /\ pc' = "idle" \/ rs'[u].replicas = 0
         /\ pc # "newRS" => lrs'[T] = lrs[T]
<1>1. SetsOK /\ CopiesOK
  BY TypeParts DEF Inv
<1>2. ro'.spec = ro.spec
  <2>1. CASE Silent \/ Writing
    BY <2>1, SilentShape, WritingShape
  <2>2. CASE Stamp \/ PromoteStamp
    BY <2>2, StampMove
  <2>3. CASE UserEdit \/ ClearPause
    BY <1>1, <2>3, EditShape
  <2>4. CASE Sync
    BY <2>4 DEF Sync
  <2>5. CASE \E field \in Clocks : Tick(field)
    BY <1>1, <2>5, AgedObj DEF Tick, CopiesOK
  <2> QED  BY <2>1, <2>2, <2>3, <2>4, <2>5, NextParts DEF Reading
<1>3. CASE lrs' = lrs
  BY <1>2, <1>3
<1>4. CASE BumpRevision \/ CreateNewRS
  BY <1>1, <1>2, <1>4 DEF BumpRevision, CreateNewRS, SetsOK
<1>5. CASE scaleDownAfterDelay
  <2>1. CASE Goto("advance")
    BY <1>3, <2>1 DEF Goto, rsVars
  <2>2. CASE \E u \in Old : /\ UpdateRS(u, [lrs[u] EXCEPT !.replicas = 0], "scaleDown")
                            /\ lrs' = [lrs EXCEPT ![u].replicas = 0]
    <3>1. PICK u \in Old : /\ UpdateRS(u, [lrs[u] EXCEPT !.replicas = 0], "scaleDown")
                           /\ lrs' = [lrs EXCEPT ![u].replicas = 0]
      BY <2>2
    <3>2. u \in Tmpls \ {T} /\ pc = "scaleDown"
      BY <1>5 DEF Old, scaleDownAfterDelay
    <3>3. pc' = "idle" \/ rs'[u].replicas = 0
      BY <1>1, <3>1, <3>2 DEF UpdateRS, ReturnErr, StoreRS, SetsOK, RSType
    <3> QED  BY <1>1, <1>2, <3>1, <3>2, <3>3 DEF SetsOK
  <2> QED  BY <1>5, <2>1, <2>2 DEF scaleDownAfterDelay
<1>6. CASE ScaleCanary \/ ScaleStable \/ AbortScale \/ RunSetCanaryScale
  BY <1>3, <1>6 DEF ScaleCanary, ScaleStable, AbortScale, RunSetCanaryScale, scaleIfNeeded,
       ScaleReplicaSet, Goto, rsVars
<1>7. CASE Writing
  BY <1>3, <1>7 DEF Writing, pushReplicaCounts, AbortMark, InitStep, Advance, EnterPause,
       LeavePause, RecordAnalysisRun, AnalysisPolicy, applyAnalysisInconclusive,
       RunExperiment, PromoteGated, PromoteBegin, FinalizeMark, rsVars
<1>8. CASE Sync \/ (\E field \in Clocks : Tick(field)) \/ Stamp \/ PromoteStamp
           \/ UserEdit \/ ClearPause
  BY <1>3, <1>8 DEF Sync, Tick, Stamp, PromoteStamp, StampWeight, UserEdit, EditSpec,
       ClearPause, rsVars
<1>9. CASE StartPaused \/ FoundNewRS \/ AbortRoute \/ RunSetWeight \/ Verify \/ HoldPause
           \/ CreateAnalysisRun \/ AwaitAnalysisRun \/ PromoteRoute \/ RepointService
           \/ DeferScaleDown \/ TimerFires \/ Resync \/ Interrupt \/ SyncRS \/ PruneHistory
           \/ (\E t \in Tmpls : RunPods(t)) \/ (\E n \in RunNames : Conclude(n)) \/ MeshEdit
  BY <1>3, <1>9 DEF StartPaused, FoundNewRS, AbortRoute, RunSetWeight, Verify, HoldPause,
       CreateAnalysisRun, AwaitAnalysisRun, PromoteRoute, RepointService, DeferScaleDown,
       TimerFires, Resync, Interrupt, SyncRS, PruneHistory, RunPods, Conclude, MeshEdit, rsVars
<1> QED  BY <1>4, <1>5, <1>6, <1>7, <1>8, <1>9, NextParts DEF Silent, Reading

(* Which of the copies were current is noted when the list is read. *)
LEMMA FreshKept ==
  ASSUME Next, ~Start
  PROVE  fresh' = fresh
<1>1. CASE BumpRevision \/ CreateNewRS \/ PruneHistory \/ SyncRS \/ (\E t \in Tmpls : RunPods(t))
  BY <1>1 DEF BumpRevision, CreateNewRS, PruneHistory, SyncRS, RunPods
<1>2. CASE scaleDownAfterDelay \/ ScaleCanary \/ ScaleStable \/ AbortScale \/ RunSetCanaryScale
  BY <1>2 DEF scaleDownAfterDelay, ScaleCanary, ScaleStable, AbortScale, RunSetCanaryScale,
       scaleIfNeeded, ScaleReplicaSet, Goto, rsVars
<1>3. CASE Writing
  BY <1>3 DEF Writing, pushReplicaCounts, AbortMark, InitStep, Advance, EnterPause,
       LeavePause, RecordAnalysisRun, AnalysisPolicy, applyAnalysisInconclusive,
       RunExperiment, PromoteGated, PromoteBegin, FinalizeMark, rsVars
<1>4. CASE Sync \/ (\E field \in Clocks : Tick(field)) \/ Stamp \/ PromoteStamp
           \/ UserEdit \/ ClearPause
  BY <1>4 DEF Sync, Tick, Stamp, PromoteStamp, StampWeight, UserEdit, EditSpec,
       ClearPause, rsVars
<1>5. CASE StartPaused \/ FoundNewRS \/ AbortRoute \/ RunSetWeight \/ Verify \/ HoldPause
           \/ CreateAnalysisRun \/ AwaitAnalysisRun \/ PromoteRoute \/ RepointService
           \/ DeferScaleDown \/ TimerFires \/ Resync \/ Interrupt
           \/ (\E n \in RunNames : Conclude(n)) \/ MeshEdit
  BY <1>5 DEF StartPaused, FoundNewRS, AbortRoute, RunSetWeight, Verify, HoldPause,
       CreateAnalysisRun, AwaitAnalysisRun, PromoteRoute, RepointService, DeferScaleDown,
       TimerFires, Resync, Interrupt, Conclude, MeshEdit, rsVars
<1> QED  BY <1>1, <1>2, <1>3, <1>4, <1>5, NextParts DEF Silent, Reading

LEMMA FromNewRS ==
  ASSUME Next, pc = "newRS", pc' \notin {"newRS", "idle"}
  PROVE  BumpRevision \/ FoundNewRS \/ CreateNewRS
<1>1. CASE Environment \/ User
  BY <1>1 DEF Environment, User, Sync, SyncRS, TimerFires, Resync, Interrupt, Tick, RunPods,
       Conclude, UserEdit, EditSpec, ClearPause, MeshEdit, ReturnErr
<1>2. CASE Reconcile
  BY <1>2 DEF Reconcile, Start, StartPaused, ScaleCanary,
       ScaleStable, pushReplicaCounts, AbortRoute, AbortScale, AbortMark, InitStep,
       RunSetWeight, Verify, Stamp, Advance, RunSetCanaryScale, EnterPause, HoldPause,
       LeavePause, CreateAnalysisRun, AwaitAnalysisRun, RecordAnalysisRun, AnalysisPolicy,
       applyAnalysisInconclusive, RunExperiment, PromoteGated, PromoteBegin, PromoteRoute,
       PromoteStamp, RepointService, DeferScaleDown, scaleDownAfterDelay, PruneHistory,
       FinalizeMark, Executing
<1> QED  BY <1>1, <1>2 DEF Next

(* A copy in the list that carries the current resourceVersion. *)
LEMMA CurrentStep ==
  ASSUME Inv, Records, Next
  PROVE  pc' # "idle" => \A t \in lrsCur' : lrs'[t] = rs'[t]
<1> SUFFICES ASSUME pc' # "idle" PROVE \A t \in lrsCur' : lrs'[t] = rs'[t]
  OBVIOUS
<1>1. SetsOK /\ T \in Tmpls
  BY TypeParts DEF Inv, CopiesOK, SetsOK, ObjType, SpecType, T
<1>2. CASE Start
  BY <1>2 DEF Start, Records
<1>3. CASE ~Start
  <2>1. \A t \in lrsCur : t \in Tmpls /\ lrs[t] = rs[t]
    BY <1>1, <1>3, FromIdle DEF Records, SetsOK
  <2>2. CASE UNCHANGED <<rs, lrs, lrsCur>>
    BY <2>1, <2>2
  <2>3. ASSUME NEW t, NEW r, rs' = [rs EXCEPT ![t] = r] \/ rs' = rs, lrsCur' = lrsCur \ {t},
               \A u \in Tmpls \ {t} : lrs'[u] = lrs[u]
        PROVE  \A u \in lrsCur' : lrs'[u] = rs'[u]
    BY <1>1, <2>1, <2>3 DEF SetsOK
  <2>4. CASE BumpRevision
    <3> DEFINE n == MaxRevision(lrs, Old) + 1
    <3>1. /\ UpdateRS(T, [lrs[T] EXCEPT !.rev = n], "canary")
          /\ lrs' = [lrs EXCEPT ![T].rev = n] /\ lrsCur' = lrsCur
      BY <2>4 DEF BumpRevision
    <3> HIDE DEF n
    <3>2. rs' = [rs EXCEPT ![T] = [lrs[T] EXCEPT !.rev = n]] /\ T \in lrsCur
      BY <3>1 DEF UpdateRS, StoreRS, ReturnErr
    <3> QED  BY <1>1, <2>1, <3>1, <3>2 DEF SetsOK
  <2>5. CASE CreateNewRS
    <3>1. rs' = rs \/ \E r : rs' = [rs EXCEPT ![T] = r]
      BY <2>5 DEF CreateNewRS, StoreRS
    <3>2. \A u \in Tmpls \ {T} : rs'[u] = rs[u]
      BY <1>1, <3>1 DEF SetsOK
    <3>3. lrs' = [lrs EXCEPT ![T] = rs'[T]] /\ lrsCur' = lrsCur \cup {T}
      BY <2>5 DEF CreateNewRS, ReturnErr
    <3> QED  BY <1>1, <2>1, <3>2, <3>3 DEF SetsOK
  <2>6. CASE ScaleCanary \/ ScaleStable \/ AbortScale \/ RunSetCanaryScale
    <3>1. ASSUME NEW t, NEW n, NEW next, scaleIfNeeded(t, n, next)
          PROVE  \A u \in lrsCur' : lrs'[u] = rs'[u]
      <4>1. CASE Goto(next)
        BY <2>2, <4>1 DEF Goto, rsVars
      <4>2. CASE ScaleReplicaSet(t, n, next)
        <5>1. /\ rs' = rs \/ rs' = [rs EXCEPT ![t] = [lrs[t] EXCEPT !.replicas = n]]
              /\ lrs' = lrs /\ lrsCur' = lrsCur \ {t}
          BY <4>2 DEF ScaleReplicaSet, UpdateRS, StoreRS
        <5> QED  BY <2>3, <5>1
      <4> QED  BY <3>1, <4>1, <4>2 DEF scaleIfNeeded
    <3>2. CASE Goto("counts")
      BY <2>2, <3>2 DEF Goto, rsVars
    <3> QED  BY <2>6, <3>1, <3>2 DEF ScaleCanary, ScaleStable, AbortScale, RunSetCanaryScale
  <2>7. CASE scaleDownAfterDelay
    <3>1. CASE Goto("advance")
      BY <2>2, <3>1 DEF Goto, rsVars
    <3>2. CASE \E u \in Old : /\ UpdateRS(u, [lrs[u] EXCEPT !.replicas = 0], "scaleDown")
                              /\ lrs' = [lrs EXCEPT ![u].replicas = 0]
                              /\ lrsCur' = lrsCur \ {u}
      BY <1>1, <2>3, <3>2 DEF UpdateRS, StoreRS, SetsOK
    <3> QED  BY <2>7, <3>1, <3>2 DEF scaleDownAfterDelay
  <2>8. CASE PruneHistory \/ \E t \in Tmpls : RunPods(t)
    BY <2>3, <2>8 DEF PruneHistory, RunPods, StoreRS
  <2>9. CASE Writing
    BY <2>2, <2>9 DEF Writing, pushReplicaCounts, AbortMark, InitStep, Advance, EnterPause,
         LeavePause, RecordAnalysisRun, AnalysisPolicy, applyAnalysisInconclusive,
         RunExperiment, PromoteGated, PromoteBegin, FinalizeMark, rsVars
  <2>10. CASE Sync \/ (\E field \in Clocks : Tick(field)) \/ Stamp \/ PromoteStamp
              \/ UserEdit \/ ClearPause
    BY <2>2, <2>10 DEF Sync, Tick, Stamp, PromoteStamp, StampWeight, UserEdit, EditSpec,
         ClearPause, rsVars
  <2>11. CASE StartPaused \/ FoundNewRS \/ AbortRoute \/ RunSetWeight \/ Verify \/ HoldPause
              \/ CreateAnalysisRun \/ AwaitAnalysisRun \/ PromoteRoute \/ RepointService
              \/ DeferScaleDown \/ TimerFires \/ Resync \/ Interrupt \/ SyncRS
              \/ (\E n \in RunNames : Conclude(n)) \/ MeshEdit
    BY <2>2, <2>11 DEF StartPaused, FoundNewRS, AbortRoute, RunSetWeight, Verify, HoldPause,
         CreateAnalysisRun, AwaitAnalysisRun, PromoteRoute, RepointService, DeferScaleDown,
         TimerFires, Resync, Interrupt, SyncRS, Conclude, MeshEdit, rsVars
  <2> QED  BY <1>3, <2>4, <2>5, <2>6, <2>7, <2>8, <2>9, <2>10, <2>11, NextParts
           DEF Silent, Reading
<1> QED  BY <1>2, <1>3

LEMMA RecordsStep ==
  ASSUME Inv, Records, Next
  PROVE  Records'
<1>1. SetsOK /\ T \in Tmpls /\ lrs \in [Tmpls -> RSType] /\ seenRS \in [Tmpls -> RSType]
  BY TypeParts DEF Inv, CopiesOK, SetsOK, ObjType, SpecType, T
<1>2. \A u, v \in Old' : u # v => lrs'[u].born # lrs'[v].born
  <2>1. CASE Start
    BY <2>1 DEF Start, Old, Records, WellBorn
  <2>2. CASE ~Start
    <3>1. T' = T
      BY <2>2, ListKept DEF T
    <3>2. ASSUME NEW u \in Tmpls \ {T}
          PROVE  lrs'[u].exists = lrs[u].exists /\ lrs'[u].born = lrs[u].born
      <4>1. lrs[u] \in RSType
        BY <1>1
      <4>2. lrs'[u] = lrs[u] \/ lrs'[u] = [lrs[u] EXCEPT !.replicas = 0]
        BY <2>2, ListKept
      <4> QED  BY <4>1, <4>2 DEF RSType
    <3> QED  BY <3>1, <3>2 DEF Old, Records
  <2> QED  BY <2>1, <2>2
<1>3. pc' \notin {"idle", "newRS"} => lrs'[T'].exists
  <2> SUFFICES ASSUME pc' \notin {"idle", "newRS"} PROVE lrs'[T'].exists
    OBVIOUS
  <2>1. ~Start
    BY DEF Start
  <2>2. T' = T /\ (pc # "newRS" => lrs'[T] = lrs[T]) /\ pc # "idle"
    BY <2>1, ListKept, FromIdle DEF T
  <2>3. CASE pc # "newRS"
    BY <2>2, <2>3 DEF Records
  <2>4. CASE BumpRevision
    BY <1>1, <2>2, <2>4 DEF BumpRevision, RSType
  <2>5. CASE FoundNewRS
    BY <2>2, <2>5 DEF FoundNewRS, rsVars
  <2>6. CASE CreateNewRS
    <3>1. lrs'[T] = rs'[T]
      BY <1>1, <2>6 DEF CreateNewRS, ReturnErr
    <3>2. CASE rs[T].exists
      BY <2>2, <2>6, <3>1, <3>2 DEF CreateNewRS
    <3>3. CASE ~rs[T].exists
      <4>1. rs'[T].exists
        BY <1>1, <2>6, <3>3 DEF CreateNewRS, StoreRS, SetsOK, ensureOwnedByRollout, isOwnedBy
      <4> QED  BY <2>2, <3>1, <4>1
    <3> QED  BY <3>2, <3>3
  <2> QED  BY <2>3, <2>4, <2>5, <2>6, FromNewRS
<1> QED  BY <1>2, <1>3, BornStep, CurrentStep DEF Records

-----------------------------------------------------------------------------
(***************************************************************************)
(* The end of a promotion.  Of the ReplicaSets whose copies were current   *)
(* when the reconcile listed them the list shows every one there is, and   *)
(* at 100 percent the sweep before the handler may only have taken one to  *)
(* zero.                                                                   *)
(***************************************************************************)
Listed == pc # "idle" => \A u \in fresh \ {T} : rs[u].exists => lrs[u].exists

Swept ==
  pc # "idle" /\ roCur /\ ro.st.weight = 100 =>
     \A u \in fresh \ {T} : rs[u].replicas \in {lrs[u].replicas, 0}

(* The Services are repointed before the scale-down and the list is empty  *)
(* after it.                                                               *)
Promoted ==
  pc = "scaleDown" \/ (pc = "advance" /\ Step(ro).kind = "promote") =>
     \A k \in 1..NServices : svc[k] = T

Emptied ==
  pc = "advance" /\ Step(ro).kind = "promote" => \A u \in Old : lrs[u].replicas = 0

(* A copy that is current and at 100 was both before. *)
LEMMA StillCurrent ==
  ASSUME Inv, Next, ~Start, roCur', ro'.st.weight = 100
  PROVE  roCur /\ ro.st.weight = 100
<1>1. CopiesOK /\ Snapshot
  BY TypeParts DEF Inv
<1>2. CASE Silent
  BY <1>2, SilentShape DEF rolloutVars
<1>3. CASE Writing
  BY <1>3, WritingShape DEF rolloutVars, Write, Update, Store
<1>4. CASE Stamp \/ PromoteStamp
  <2>1. UNCHANGED rolloutVars
    BY <1>4 DEF Stamp, PromoteStamp, StampWeight, UpdateStatus, Update, Store, rolloutVars
  <2>2. roCur /\ obj' = obj
    BY <2>1 DEF rolloutVars
  <2>3. obj.st.weight = ro'.st.weight /\ ro = obj
    BY <1>1, <1>4, <2>2, StampMove DEF Snapshot
  <2> QED  BY <2>2, <2>3
<1>5. CASE UserEdit \/ ClearPause
  BY <1>1, <1>5, EditShape DEF Store
<1>6. CASE Sync
  BY <1>6 DEF Sync
<1>7. CASE \E field \in Clocks : Tick(field)
  BY <1>1, <1>7, AgedObj DEF Tick, CopiesOK
<1> QED  BY <1>2, <1>3, <1>4, <1>5, <1>6, <1>7, NextParts DEF Reading

(* The split leaves nothing to the stable side at 100 percent. *)
LEMMA SplitAtFull ==
  ASSUME NEW d \in Nat, NEW s, s # "StableOnly", NEW k
  PROVE  splitReplicas(d, 100, s, k).stable = 0
BY DEF splitReplicas, Pair

(* No ReplicaSet but newRS comes to be, or grows at 100 percent. *)
LEMMA OthersShrink ==
  ASSUME Inv, Records, Next, NEW u \in Tmpls \ {T}
  PROVE  /\ rs'[u].exists => rs[u].exists
         /\ HPAStrategy # "StableOnly" /\ ro.st.weight = 100 =>
              rs'[u].replicas \in {rs[u].replicas, 0}
<1>1. SetsOK /\ CopiesOK /\ ro.spec.replicas \in Nat
  BY TypeParts, ConstantsAssumption DEF Inv, CopiesOK, SetsOK, ObjType, SpecType
<1>2. HPAStrategy # "StableOnly" /\ ro.st.weight = 100 => Split.stable = 0
  BY <1>1, SplitAtFull DEF Split
<1>3. CASE Still \/ SyncRS
  BY <1>3 DEF Still, SyncRS
<1>4. CASE Rewritten
  <2>1. PICK t \in Tmpls, r \in RSType :
               /\ StoreRS(t, r) /\ r.exists = rs[t].exists
               /\ t = T \/ r.replicas \in {rs[t].replicas, 0, Split.stable}
    BY <1>4 DEF Rewritten
  <2>2. rs'[u] = IF t = u THEN r ELSE rs[u]
    BY <1>1, <2>1 DEF StoreRS, SetsOK
  <2> QED  BY <1>2, <2>1, <2>2
<1>5. CASE Created
  BY <1>1, <1>5 DEF Created, StoreRS, SetsOK
<1>6. CASE PruneHistory
  <2>1. PICK t \in Tmpls : StoreRS(t, NoRS)
    BY <1>6 DEF PruneHistory, Prunable, Old
  <2>2. rs'[u] = IF t = u THEN NoRS ELSE rs[u]
    BY <1>1, <2>1 DEF StoreRS, SetsOK
  <2> QED  BY <2>2 DEF NoRS
<1> QED  BY <1>3, <1>4, <1>5, <1>6, SetMove

LEMMA ListedStep ==
  ASSUME Inv, Records, Listed, Next
  PROVE  Listed'
<1>1. SetsOK
  BY TypeParts DEF Inv
<1>2. CASE Start
  BY <1>2 DEF Start, Records, Listed
<1>3. CASE ~Start /\ pc' # "idle"
  <2>1. T' = T /\ pc # "idle" /\ fresh' = fresh
    BY <1>3, ListKept, FromIdle, FreshKept DEF T
  <2>2. ASSUME NEW u \in fresh \ {T}, rs'[u].exists PROVE lrs'[u].exists
    <3>0. u \in Tmpls \ {T}
      BY <1>1 DEF SetsOK
    <3>1. rs[u].exists /\ lrs[u].exists
      BY <2>1, <2>2, <3>0, OthersShrink DEF Listed
    <3>2. lrs[u] \in RSType
      BY <1>1, <3>0 DEF SetsOK
    <3>3. lrs'[u] = lrs[u] \/ lrs'[u] = [lrs[u] EXCEPT !.replicas = 0]
      BY <1>3, <3>0, ListKept
    <3> QED  BY <3>1, <3>2, <3>3 DEF RSType
  <2> QED  BY <2>1, <2>2 DEF Listed
<1> QED  BY <1>2, <1>3 DEF Listed

LEMMA SweptStep ==
  ASSUME HPAStrategy # "StableOnly", Inv, Records, Swept, Next
  PROVE  Swept'
<1>1. SetsOK
  BY TypeParts DEF Inv
<1>2. CASE Start
  <2>1. \A u \in seenRSCur : seenRS[u] = rs[u]
    BY DEF Records
  <2> QED  BY <1>2, <2>1 DEF Start, Swept, T
<1>3. CASE ~Start
  <2> SUFFICES ASSUME pc' # "idle", roCur', ro'.st.weight = 100, NEW u \in fresh' \ {T'}
               PROVE  rs'[u].replicas \in {lrs'[u].replicas, 0}
    BY DEF Swept
  <2>1. T' = T /\ pc # "idle" /\ roCur /\ ro.st.weight = 100 /\ fresh' = fresh
    BY <1>3, ListKept, FromIdle, StillCurrent, FreshKept DEF T
  <2>2. u \in fresh \ {T} /\ u \in Tmpls \ {T}
    BY <1>1, <2>1 DEF SetsOK
  <2>3. rs[u].replicas \in {lrs[u].replicas, 0} /\ rs'[u].replicas \in {rs[u].replicas, 0}
    BY <2>1, <2>2, OthersShrink DEF Swept
  <2>4. lrs'[u] = lrs[u] \/ rs'[u].replicas = 0
    BY <1>3, <2>1, <2>2, ListKept
  <2> QED  BY <2>3, <2>4
<1> QED  BY <1>2, <1>3

LEMMA FinishStep ==
  ASSUME Inv, Promoted, Emptied, Next
  PROVE  Promoted' /\ Emptied'
<1>1. SetsOK /\ Control
  BY TypeParts DEF Inv
<1>2. CASE pc' \in Plain \cup {"init", "verify", "stamp", "policy", "promoteRoute",
                              "promoteStamp", "repoint"}
  BY <1>2 DEF Plain, Promoted, Emptied
<1>3. CASE Beside
  <2>1. pc' = pc /\ svc' = svc /\ lrs' = lrs /\ ro'.spec = ro.spec /\ ro'.st.step = ro.st.step
    BY <1>3, BesideFacts
  <2>2. Step(ro') = Step(ro) /\ T' = T /\ Old' = Old
    BY <2>1, SameStep DEF T, Old
  <2> QED  BY <2>1, <2>2 DEF Promoted, Emptied
<1>4. CASE RunSetWeight \/ Verify \/ RecordAnalysisRun \/ PromoteBegin \/ PromoteRoute
  <2>1. pc' \in {"verify", "stamp", "policy", "promoteRoute", "promoteStamp", "idle"}
    BY <1>4, UpdatePC DEF RunSetWeight, Verify, RecordAnalysisRun, PromoteBegin, PromoteRoute,
         SetWeightIfRouted, SetWeight, RequeueAfter, ReturnErr, UpdateStatus
  <2> QED  BY <1>2, <2>1 DEF Plain
<1>5. CASE Stamp \/ RunSetCanaryScale
  <2>1. Step(ro).kind \in {"setWeight", "setCanaryScale"} /\ pc' \in {"advance", "idle"}
    BY <1>1, <1>5, ScalePC, UpdatePC DEF Stamp, RunSetCanaryScale, Executing, Control,
         StampWeight, UpdateStatus
  <2>2. ro'.spec = ro.spec /\ ro'.st.step = ro.st.step
    BY <1>5, StampMove DEF RunSetCanaryScale
  <2>3. Step(ro') = Step(ro)
    BY <2>2, SameStep
  <2> QED  BY <2>1, <2>3 DEF Promoted, Emptied
<1>6. CASE PromoteStamp
  <2>1. pc' \in {"repoint", "idle"}
    BY <1>6, UpdatePC DEF PromoteStamp, StampWeight, UpdateStatus
  <2> QED  BY <1>2, <2>1 DEF Plain
<1>7. CASE RepointService
  <2>1. /\ ro' = ro
        /\ \/ pc' = "repoint"
           \/ pc' = "scaleDown" /\ svc' = svc /\ \A i \in 1..NServices : svc[i] = T
    BY <1>7 DEF RepointService
  <2> QED  BY <2>1 DEF Promoted, Emptied, T
<1>8. CASE scaleDownAfterDelay
  <2>1. ro' = ro /\ svc' = svc /\ pc = "scaleDown"
    BY <1>8 DEF scaleDownAfterDelay, outside
  <2>2. CASE Goto("advance") /\ {u \in Old : lrs[u].replicas > 0} = {}
    <3>1. \A u \in Old : lrs[u].replicas = 0
      BY <1>1, <2>2 DEF Old, SetsOK, RSType
    <3>2. lrs' = lrs
      BY <2>2 DEF Goto, rsVars
    <3> QED  BY <2>1, <3>1, <3>2 DEF Promoted, Emptied, T, Old
  <2>3. CASE \E u : UpdateRS(u, [lrs[u] EXCEPT !.replicas = 0], "scaleDown")
    <3>1. pc' \in {"scaleDown", "idle"}
      BY <2>3, UpdateRSPC
    <3> QED  BY <2>1, <3>1 DEF Promoted, Emptied, T
  <2> QED  BY <1>8, <2>2, <2>3 DEF scaleDownAfterDelay
<1> QED  BY <1>2, <1>3, <1>4, <1>5, <1>6, <1>7, <1>8, Moves DEF Handling

(* A promote step is left only when the promotion is done: weight and      *)
(* traffic at 100, every stable Service on newRS and every other           *)
(* ReplicaSet at zero whose copy was current when the reconcile listed it, *)
(* for the template the Rollout has at that moment, whatever fails,        *)
(* restarts, lags or is edited, but the route by hand.  The caches may     *)
(* trail: the Rollout's own copy must be current for the step to be left,  *)
(* and the list then misses at most what its outdated copies do not show.  *)
(* The StableOnly split keeps the stable side at 100 percent.              *)
THEOREM PromotedForGood ==
  ASSUME "mesh" \notin UserEdits, HPAStrategy # "StableOnly"
  PROVE  SafetySpec => PromotionComplete
<1> DEFINE Ending == Records /\ Listed /\ Swept /\ Promoted /\ Emptied
           Done == /\ obj.st.weight = 100
                   /\ Router = "mesh" => routerW = 100
                   /\ \A k \in 1..NServices : svc[k] = obj.spec.tmpl
                   /\ \A u \in fresh \ {obj.spec.tmpl} : rs[u].replicas = 0
           A == \A i \in Active(obj) : Leaves(i) /\ Plan[i].kind = "promote" => Done
<1>1. Init => Ending
  <2> SUFFICES ASSUME Init PROVE Ending
    OBVIOUS
  <2>1. /\ rs = [t \in Tmpls |-> NoRS] /\ seenRS = rs /\ lrs = rs /\ lrsCur = {}
        /\ seenRSCur = Tmpls /\ pc = "idle" /\ ro.spec.tmpl \in Tmpls
    BY ConstantsAssumption DEF Init
  <2>2. \A t \in Tmpls : ~rs[t].exists /\ rs[t].replicas = 0
    BY <2>1 DEF NoRS
  <2> QED  BY <2>1, <2>2 DEF Records, WellBorn, Listed, Swept, Promoted, Emptied, Old
<1>2. Inv /\ Ending /\ [Next]_vars => Ending'
  <2>1. ASSUME Inv, Ending, Next PROVE Ending'
    BY <2>1, RecordsStep, ListedStep, SweptStep, FinishStep
  <2>2. ASSUME Ending, UNCHANGED vars PROVE Ending'
    BY <2>2 DEF vars, rolloutVars, rsVars, outside, Records, Listed, Swept, Promoted, Emptied,
         Old, T
  <2> QED  BY <2>1, <2>2
<1>3. Inv /\ Promise /\ Ending /\ [Next]_vars => [A]_vars
  <2> SUFFICES ASSUME Inv, Promise, Ending, Next,
                      NEW i \in Active(obj), Leaves(i), Plan[i].kind = "promote"
               PROVE  Done
    OBVIOUS
  <2>1. CopiesOK /\ SetsOK
    BY TypeParts DEF Inv
  <2>2. obj'.st.step # obj.st.step /\ obj.st.step # None
    BY <2>1, NoStepActive DEF Leaves, CopiesOK
  <2>3. roCur /\ ro = obj /\ \E j \in Active(obj) : GateOpen(j)
    BY <2>2, StepChange
  <2>4. i = Index(obj) /\ GateOpen(i)
    BY <2>1, <2>3, ActiveStep, OneActive DEF CopiesOK
  <2>5. Step(ro).kind = "promote" /\ pc = "advance"
    BY <2>3, <2>4 DEF Step, Plan, GateOpen, Bears
  <2>6. ro.st.weight = 100 /\ obj.st.weight = 100 /\ (Router = "mesh" => routerW = 100)
    BY <2>5, PromotedWeight
  <2>7. \A k \in 1..NServices : svc[k] = obj.spec.tmpl
    BY <2>3, <2>5 DEF Promoted, T
  <2>8. ASSUME NEW u \in fresh \ {obj.spec.tmpl} PROVE rs[u].replicas = 0
    <3>1. u \in fresh \ {T} /\ u \in Tmpls \ {T}
      BY <2>1, <2>3 DEF T, SetsOK
    <3>2. CASE lrs[u].exists
      <4>1. lrs[u].replicas = 0
        BY <2>5, <3>1, <3>2 DEF Emptied, Old
      <4> QED  BY <2>3, <2>5, <2>6, <3>1, <4>1 DEF Swept
    <3>3. CASE ~lrs[u].exists
      BY <2>5, <3>1, <3>3 DEF Listed, Records, WellBorn
    <3> QED  BY <3>2, <3>3
  <2> QED  BY <2>6, <2>7, <2>8
<1> QED  BY <1>1, <1>2, <1>3, PromiseHolds, InvHolds, PTL DEF SafetySpec, PromotionComplete

-----------------------------------------------------------------------------
(***************************************************************************)
(* The ReplicaSet history.  cleanupDeployment ranks the old ReplicaSets by *)
(* revision and age and deletes only below the limit, and what it deletes  *)
(* stays prunable to the end of the reconcile.                             *)
(***************************************************************************)
Below(v, u) ==
  \/ lrs[v].rev < lrs[u].rev
  \/ lrs[v].rev = lrs[u].rev /\ lrs[v].born < lrs[u].born

Excess == {u \in Old : Rank(u) < Cardinality(Old) - HistoryLimit}

LEMMA OldFacts ==
  ASSUME Inv
  PROVE  /\ T \in Tmpls /\ Old \subseteq Tmpls /\ IsFiniteSet(Old) /\ Cardinality(Old) \in Nat
         /\ \A u \in Old : lrs[u].rev \in Nat /\ lrs[u].born \in Nat
<1>1. SetsOK /\ T \in Tmpls
  BY TypeParts DEF Inv, CopiesOK, SetsOK, ObjType, SpecType, T
<1>2. Old \subseteq Tmpls /\ IsFiniteSet(Old) /\ Cardinality(Old) \in Nat
  BY ConstantsAssumption, FS_Subset, FS_CardinalityType DEF Old
<1>3. MaxRev \in Nat
  BY ConstantsAssumption
<1>4. \A u \in Old : lrs[u] \in RSType
  BY <1>1, <1>2 DEF SetsOK
<1> QED  BY <1>1, <1>2, <1>3, <1>4 DEF RSType

(* The cleanup may take only as many as are over the limit. *)
LEMMA ExcessBound ==
  ASSUME Inv, Records, Excess # {}
  PROVE  Cardinality(Old \ Excess) >= HistoryLimit
<1> DEFINE Under(u) == {v \in Old : Below(v, u)}
<1>1. /\ IsFiniteSet(Old) /\ Cardinality(Old) \in Nat
      /\ \A u \in Old : lrs[u].rev \in Nat /\ lrs[u].born \in Nat
  BY OldFacts
<1>2. \A u \in Old : Rank(u) = Cardinality(Under(u))
  BY DEF Rank, Below
<1>3. \A u : Under(u) \in SUBSET Old
  OBVIOUS
<1>4. \A u, v \in Old : u # v /\ ~Below(v, u) => Below(u, v)
  BY <1>1 DEF Below, Records
<1>5. \A u, v, w \in Old : Below(u, v) /\ Below(v, w) => Below(u, w)
  BY <1>1 DEF Below
<1>6. \A u \in Old : ~Below(u, u)
  BY <1>1 DEF Below
<1>7. ASSUME NEW u \in Old, NEW v \in Old, Below(u, v)
      PROVE  Under(u) \subseteq Under(v) /\ u \in Under(v) /\ u \notin Under(u)
  BY <1>5, <1>6, <1>7
<1> HIDE DEF Under
<1>8. \A u : /\ IsFiniteSet(Under(u)) /\ Cardinality(Under(u)) \in 0..Cardinality(Old)
  <2> SUFFICES ASSUME NEW u
               PROVE  IsFiniteSet(Under(u)) /\ Cardinality(Under(u)) \in 0..Cardinality(Old)
    OBVIOUS
  <2>1. IsFiniteSet(Under(u)) /\ Cardinality(Under(u)) <= Cardinality(Old)
    BY <1>1, <1>3, FS_Subset
  <2>2. Cardinality(Under(u)) \in Nat
    BY <2>1, FS_CardinalityType
  <2> QED  BY <1>1, <2>1, <2>2
<1>9. Excess \subseteq Old
  BY DEF Excess
<1> DEFINE ranks == {Rank(u) : u \in Excess}
<1>10. PICK n \in ranks : \A x \in ranks : x <= n
  <2>1. ranks \subseteq 0..Cardinality(Old) /\ ranks # {}
    BY <1>2, <1>8, <1>9
  <2> QED  BY <1>1, <2>1, GreatestExists
<1>11. PICK m \in Excess : n = Rank(m)
  BY <1>10
<1>12. Excess \ {m} \subseteq Under(m)
  <2> SUFFICES ASSUME NEW v \in Excess, v # m, v \notin Under(m) PROVE FALSE
    OBVIOUS
  <2>1. Below(m, v) /\ v \in Old /\ m \in Old
    BY <1>4, <1>9 DEF Under
  <2>2. Under(m) \subseteq Under(v) /\ Under(m) # Under(v)
    BY <1>7, <2>1
  <2>3. /\ Cardinality(Under(m)) <= Cardinality(Under(v))
        /\ Cardinality(Under(m)) # Cardinality(Under(v))
    BY <1>8, <2>2, FS_Subset
  <2>4. Cardinality(Under(v)) <= Cardinality(Under(m))
    BY <1>2, <1>10, <1>11, <2>1
  <2>5. Cardinality(Under(v)) \in Int /\ Cardinality(Under(m)) \in Int
    BY <1>1, <1>8
  <2> QED  BY <2>3, <2>4, <2>5
<1>13. IsFiniteSet(Excess) /\ Cardinality(Excess) \in Nat
  BY <1>1, <1>9, FS_Subset, FS_CardinalityType
<1>14. Cardinality(Excess) - 1 <= Rank(m)
  <2>1. Cardinality(Excess \ {m}) = Cardinality(Excess) - 1
    BY <1>11, <1>13, FS_RemoveElement
  <2>2. Cardinality(Excess \ {m}) <= Cardinality(Under(m))
    BY <1>8, <1>12, FS_Subset
  <2> QED  BY <1>2, <1>9, <1>11, <2>1, <2>2
<1>15. Rank(m) < Cardinality(Old) - HistoryLimit /\ Rank(m) \in Int
  BY <1>1, <1>2, <1>8, <1>9, <1>11 DEF Excess
<1>16. Cardinality(Old \ Excess) = Cardinality(Old) - Cardinality(Excess)
  <2>1. Old \cap Excess = Excess
    BY <1>9
  <2> QED  BY <1>1, <2>1, FS_Difference
<1>17. HistoryLimit \in Nat
  BY ConstantsAssumption
<1> QED  BY <1>1, <1>13, <1>14, <1>15, <1>16, <1>17

(* An old ReplicaSet whose copy was current when listed is on the server,  *)
(* or was prunable and is deleted.                                         *)
Pruning == pc = "exec" /\ Active(ro) = {}

Backed ==
  pc # "idle" => \A u \in Old \cap fresh : rs[u].exists \/ (Pruning /\ u \in Prunable)

LEMMA PruningStep ==
  ASSUME Inv, Next, Pruning, pc' # "idle"
  PROVE  /\ pc' = pc /\ lrs' = lrs
         /\ ro'.spec = ro.spec /\ ro'.st.step = ro.st.step
<1>1. CASE Beside
  BY <1>1, BesideFacts
<1>2. CASE Interrupt
  BY <1>2 DEF Interrupt, ReturnErr
<1>3. CASE PruneHistory
  BY <1>3 DEF PruneHistory
<1>4. CASE FinalizeMark
  <2>1. pc' = "idle"
    BY <1>4, UpdatePC DEF FinalizeMark, UpdateStatus
  <2> QED  BY <2>1
<1>5. CASE Reconcile /\ ~StartPaused /\ ~PruneHistory /\ ~FinalizeMark
  BY <1>5 DEF Reconcile, Pruning, Start, BumpRevision, FoundNewRS, CreateNewRS, ScaleCanary,
       ScaleStable, pushReplicaCounts, AbortRoute, AbortScale, AbortMark, InitStep,
       RunSetWeight, Verify, Stamp, Advance, RunSetCanaryScale, EnterPause, HoldPause,
       LeavePause, CreateAnalysisRun, AwaitAnalysisRun, RecordAnalysisRun, AnalysisPolicy,
       applyAnalysisInconclusive, RunExperiment, PromoteGated, PromoteBegin, PromoteRoute,
       PromoteStamp, RepointService, DeferScaleDown, scaleDownAfterDelay, Executing
<1> QED  BY <1>1, <1>2, <1>3, <1>4, <1>5 DEF Next, Environment, User, Beside

(* Only the cleanup deletes a ReplicaSet. *)
LEMMA DeletedBy ==
  ASSUME Inv, Records, Next, NEW u \in Tmpls, rs[u].exists, ~rs'[u].exists
  PROVE  PruneHistory /\ u \in Prunable /\ rs' = [rs EXCEPT ![u] = NoRS]
<1>1. SetsOK /\ T \in Tmpls
  BY TypeParts DEF Inv, CopiesOK, SetsOK, ObjType, SpecType, T
<1>2. CASE Still \/ SyncRS
  BY <1>2 DEF Still, SyncRS
<1>3. CASE Rewritten
  <2>1. PICK t \in Tmpls, r \in RSType : StoreRS(t, r) /\ r.exists = rs[t].exists
    BY <1>3 DEF Rewritten
  <2>2. rs'[u] = IF t = u THEN r ELSE rs[u]
    BY <1>1, <2>1 DEF StoreRS, SetsOK
  <2> QED  BY <2>1, <2>2
<1>4. CASE Created
  <2>1. PICK r \in RSType : StoreRS(T, r) /\ r.exists
    BY <1>4 DEF Created
  <2>2. rs'[u] = IF T = u THEN r ELSE rs[u]
    BY <1>1, <2>1 DEF StoreRS, SetsOK
  <2> QED  BY <2>1, <2>2
<1>5. CASE PruneHistory
  <2>1. PICK t \in Prunable : StoreRS(t, NoRS)
    BY <1>5 DEF PruneHistory
  <2>2. rs' = [rs EXCEPT ![t] = NoRS]
    BY <2>1 DEF StoreRS
  <2>3. t = u
    BY <1>1, <2>2 DEF SetsOK
  <2> QED  BY <1>5, <2>1, <2>2, <2>3
<1> QED  BY <1>2, <1>3, <1>4, <1>5, SetMove

LEMMA BackedStep ==
  ASSUME Inv, Records, Backed, Next
  PROVE  Backed'
<1>1. SetsOK
  BY TypeParts DEF Inv
<1>2. CASE Start
  BY <1>2 DEF Start, Records, Backed, Old
<1>3. CASE ~Start
  <2> SUFFICES ASSUME pc' # "idle", NEW u \in Old' \cap fresh'
               PROVE  rs'[u].exists \/ (Pruning' /\ u \in Prunable')
    BY DEF Backed
  <2>1. T' = T /\ pc # "idle" /\ fresh' = fresh
    BY <1>3, ListKept, FromIdle, FreshKept DEF T
  <2>2. u \in Tmpls \ {T} /\ lrs'[u].exists
    BY <2>1 DEF Old
  <2>3. u \in Old \cap fresh
    <3>1. lrs[u] \in RSType
      BY <1>1, <2>2 DEF SetsOK
    <3>2. lrs'[u] = lrs[u] \/ lrs'[u] = [lrs[u] EXCEPT !.replicas = 0]
      BY <1>3, <2>2, ListKept
    <3> QED  BY <2>1, <2>2, <3>1, <3>2 DEF RSType, Old
  <2>4. CASE Pruning
    <3>1. pc' = pc /\ lrs' = lrs /\ ro'.spec = ro.spec /\ ro'.st.step = ro.st.step
      BY <2>4, PruningStep
    <3>2. Pruning' /\ Old' = Old /\ Prunable' = Prunable
      <4>1. Active(ro') = Active(ro)
        BY <3>1, SameStep
      <4>2. Old' = Old
        BY <2>1, <3>1 DEF Old
      <4>3. \A v : Rank(v)' = Rank(v)
        BY <3>1, <4>2 DEF Rank
      <4> QED  BY <2>4, <3>1, <4>1, <4>2, <4>3 DEF Pruning, Prunable
    <3>3. CASE rs[u].exists
      BY <2>2, <3>2, <3>3, DeletedBy
    <3>4. CASE ~rs[u].exists
      BY <2>1, <2>3, <3>2, <3>4 DEF Backed
    <3> QED  BY <3>3, <3>4
  <2>5. CASE ~Pruning
    <3>1. rs[u].exists
      BY <2>1, <2>3, <2>5 DEF Backed
    <3> QED  BY <2>2, <2>5, <3>1, DeletedBy DEF PruneHistory, Pruning
  <2> QED  BY <2>4, <2>5
<1> QED  BY <1>2, <1>3

(* The cleanup of finalize leaves revisionHistoryLimit old ReplicaSets,    *)
(* but for one at most for every copy that was outdated when it was read,  *)
(* for any number of templates, edits and faults and however far the       *)
(* caches trail, although it decides on the copies read before and deletes *)
(* one by one.                                                             *)
THEOREM HistoryIsKept == SafetySpec => HistoryKept
<1> DEFINE A == (\E u \in Tmpls : rs[u].exists /\ ~rs'[u].exists) =>
                  Cardinality({u \in Tmpls \ {T} : rs'[u].exists})
                    >= HistoryLimit - Cardinality(Old \ fresh)
<1>1. Init => Records /\ Backed
  <2> SUFFICES ASSUME Init PROVE Records /\ Backed
    OBVIOUS
  <2>1. /\ rs = [t \in Tmpls |-> NoRS] /\ seenRS = rs /\ lrs = rs /\ lrsCur = {}
        /\ seenRSCur = Tmpls /\ pc = "idle" /\ ro.spec.tmpl \in Tmpls
    BY ConstantsAssumption DEF Init
  <2>2. \A t \in Tmpls : ~rs[t].exists /\ rs[t].replicas = 0
    BY <2>1 DEF NoRS
  <2> QED  BY <2>1, <2>2 DEF Records, WellBorn, Backed, Old
<1>2. Inv /\ Records /\ Backed /\ [Next]_vars => (Records /\ Backed)'
  <2>1. ASSUME Inv, Records, Backed, Next PROVE Records' /\ Backed'
    BY <2>1, RecordsStep, BackedStep
  <2>2. ASSUME Records, Backed, UNCHANGED vars PROVE Records' /\ Backed'
    BY <2>2, SMTT(30) DEF vars, rolloutVars, rsVars, Records, Backed, Pruning, Prunable, Rank, Old, T
  <2> QED  BY <2>1, <2>2
<1>3. Inv /\ Records /\ Backed /\ [Next]_vars => [A]_vars
  <2> SUFFICES ASSUME Inv, Records, Backed, Next,
                      NEW u \in Tmpls, rs[u].exists, ~rs'[u].exists
               PROVE  Cardinality({v \in Tmpls \ {T} : rs'[v].exists})
                        >= HistoryLimit - Cardinality(Old \ fresh)
    OBVIOUS
  <2> DEFINE left == {v \in Tmpls \ {T} : rs'[v].exists}
             kept == Old \ Excess
  <2>1. PruneHistory /\ u \in Prunable /\ rs' = [rs EXCEPT ![u] = NoRS]
    BY DeletedBy
  <2>2. SetsOK /\ Old \subseteq Tmpls /\ IsFiniteSet(Old)
    BY TypeParts, OldFacts DEF Inv
  <2>3. Prunable \subseteq Excess /\ Excess # {}
    BY <2>1 DEF Prunable, Excess
  <2>4. kept \cap fresh \subseteq left
    <3> SUFFICES ASSUME NEW v \in kept, v \in fresh PROVE v \in left
      OBVIOUS
    <3>1. rs[v].exists
      BY <2>1, <2>3 DEF Backed, PruneHistory
    <3>2. rs'[v] = rs[v]
      BY <2>1, <2>2, <2>3 DEF SetsOK
    <3> QED  BY <2>2, <3>1, <3>2 DEF Old, T
  <2>5. IsFiniteSet(left)
    BY ConstantsAssumption, FS_Subset
  <2>6. kept \subseteq Old /\ kept \ fresh \subseteq Old \ fresh
    OBVIOUS
  <2>7. Cardinality(kept) >= HistoryLimit
    BY <2>3, ExcessBound
  <2> HIDE DEF left, kept
  <2>8. IsFiniteSet(kept) /\ IsFiniteSet(Old \ fresh)
    BY <2>2, <2>6, FS_Subset
  <2>9. Cardinality(kept \cap fresh) <= Cardinality(left)
    BY <2>4, <2>5, FS_Subset
  <2>10. IsFiniteSet(kept \cap fresh) /\ IsFiniteSet(kept \ fresh)
    BY <2>8, FS_Subset
  <2>11. Cardinality(kept \ fresh) <= Cardinality(Old \ fresh)
    BY <2>6, <2>8, FS_Subset
  <2>12. Cardinality(kept \ fresh) = Cardinality(kept) - Cardinality(kept \cap fresh)
    BY <2>8, FS_Difference
  <2>13. /\ Cardinality(left) \in Nat /\ Cardinality(kept) \in Nat /\ HistoryLimit \in Nat
         /\ Cardinality(kept \cap fresh) \in Nat /\ Cardinality(kept \ fresh) \in Nat
         /\ Cardinality(Old \ fresh) \in Nat
    BY <2>5, <2>8, <2>10, FS_CardinalityType, ConstantsAssumption
  <2>14. Cardinality(left) >= HistoryLimit - Cardinality(Old \ fresh)
    BY <2>7, <2>9, <2>11, <2>12, <2>13
  <2> QED  BY <2>14 DEF left
<1> QED  BY <1>1, <1>2, <1>3, InvHolds, PTL DEF SafetySpec, HistoryKept

-----------------------------------------------------------------------------
(***************************************************************************)
(* The manual gate.                                                        *)
(***************************************************************************)
Closed == obj.st.pause = "AwaitingPromotion"

GateName(n) == \E p \in Plans : \E i \in DOMAIN p : p[i].kind = "promote" /\ p[i].name = n

(* A step that is a promotion in one progression is a promotion or a pause *)
(* without end in every other.                                             *)
GatesStayGates ==
  \A p \in Plans : \A i \in DOMAIN p :
     GateName(p[i].name) => p[i].kind = "promote" \/ (p[i].kind = "pause" /\ ~p[i].timed)

(* The calls that only a handler that has begun makes. *)
Deep == {"verify", "stamp", "advance", "policy"} \cup InPromote

(* A copy that does not show a promotion under way. *)
Waiting(c) == GateName(c.st.step) /\ c.st.phase # "Promoting"

(* Behind a closed gate no handler is under way, and no copy is so old     *)
(* that it shows the promotion begun: the two writes that close the gate,  *)
(* the phase Paused and the pause condition, both need a current copy.     *)
Shut ==
  Closed => /\ AutoPromotion = "Manual" /\ pc \notin Deep
            /\ Waiting(obj) /\ Waiting(seen)
            /\ pc # "idle" => Waiting(ro)

(* Beside the reconcile nobody closes the gate or begins a promotion. *)
LEMMA BesideGate ==
  ASSUME Inv, Beside
  PROVE  /\ Closed' => Closed
         /\ obj'.st.phase = obj.st.phase /\ ro'.st.phase = ro.st.phase
         /\ ro'.st.step = ro.st.step /\ obj'.st.step = obj.st.step
         /\ \/ seen'.st.step = seen.st.step /\ seen'.st.phase = seen.st.phase
            \/ seen'.st.step = obj.st.step /\ seen'.st.phase = obj.st.phase
         /\ routerW' # routerW => edits' # edits
<1>1. CopiesOK /\ edits \in Nat
  BY TypeParts, ConstantsAssumption DEF Inv, QueueOK
<1>2. ro'.st.step = ro.st.step /\ obj'.st.step = obj.st.step
  BY BesideFacts
<1>3. CASE StartPaused \/ Sync \/ SyncRS \/ TimerFires \/ Resync \/ MeshEdit
           \/ (\E t \in Tmpls : RunPods(t)) \/ (\E n \in RunNames : Conclude(n))
  <2>1. obj' = obj /\ ro' = ro /\ seen' \in {seen, obj}
    BY <1>3 DEF StartPaused, Sync, SyncRS, TimerFires, Resync, MeshEdit, RunPods, Conclude,
         rolloutVars
  <2>2. routerW' # routerW => edits' # edits
    <3>1. routerW' = routerW \/ MeshEdit
      BY <1>3 DEF StartPaused, Sync, SyncRS, TimerFires, Resync, RunPods, Conclude, outside
    <3>2. MeshEdit => edits' # edits
      BY <1>1 DEF MeshEdit
    <3> QED  BY <3>1, <3>2
  <2> QED  BY <2>1, <2>2 DEF Closed
<1>4. CASE UserEdit \/ ClearPause
  <2>1. ro' = ro /\ routerW' = routerW
    BY <1>4 DEF UserEdit, EditSpec, ClearPause, outside
  <2>2. obj.st \in StatusType
    BY <1>1 DEF CopiesOK, ObjType
  <2>3. \E o : /\ Store(o) /\ o.st.phase = obj.st.phase /\ o.st.step = obj.st.step
               /\ o.st.pause = obj.st.pause \/ o.st.pause = None
    <3>1. CASE UserEdit
      <4>1. PICK new : Store([spec |-> new, st |-> [obj.st EXCEPT !.observed = FALSE]])
        BY <3>1 DEF UserEdit, EditSpec
      <4> DEFINE o == [spec |-> new, st |-> [obj.st EXCEPT !.observed = FALSE]]
      <4>2. o.st.phase = obj.st.phase /\ o.st.step = obj.st.step /\ o.st.pause = obj.st.pause
        BY <2>2 DEF StatusType
      <4> QED  BY <4>1, <4>2
    <3>2. CASE ClearPause
      <4> DEFINE o == [obj EXCEPT !.st.pause = None, !.st.pauseOld = FALSE]
      <4>1. Store(o)
        BY <3>2 DEF ClearPause
      <4>2. o.st.phase = obj.st.phase /\ o.st.step = obj.st.step /\ o.st.pause = None
        BY <1>1 DEF CopiesOK, ObjType, StatusType
      <4> QED  BY <4>1, <4>2
    <3> QED  BY <1>4, <3>1, <3>2
  <2>4. PICK o : /\ Store(o) /\ o.st.phase = obj.st.phase /\ o.st.step = obj.st.step
                 /\ o.st.pause = obj.st.pause \/ o.st.pause = None
    BY <2>3
  <2>5. obj' = o /\ seen' \in {seen, o}
    BY <2>4 DEF Store
  <2>6. Closed' => Closed
    BY <2>4, <2>5 DEF Closed, None
  <2> QED  BY <2>1, <2>4, <2>5, <2>6
<1>5. CASE \E field \in Clocks : Tick(field)
  <2>1. PICK field \in Clocks : Tick(field)
    BY <1>5
  <2>2. ASSUME NEW o \in ObjType
        PROVE  /\ Aged(o, field).st.step = o.st.step /\ Aged(o, field).st.phase = o.st.phase
               /\ Aged(o, field).st.pause = o.st.pause
    <3>1. CASE field = "pauseOld"
      BY <3>1 DEF Aged, ObjType, StatusType
    <3>2. CASE field = "stepOld"
      BY <3>2 DEF Aged, ObjType, StatusType
    <3> QED  BY <3>1, <3>2 DEF Clocks
  <2> QED  BY <1>1, <2>1, <2>2 DEF Tick, Closed, CopiesOK, outside
<1> QED  BY <1>2, <1>3, <1>4, <1>5 DEF Beside

(* Only the promote handler closes the gate, from a current copy of a      *)
(* Rollout whose phase is Paused.                                          *)
LEMMA GateCloses ==
  ASSUME Inv, Next, ~Closed, Closed'
  PROVE  /\ PromoteGated /\ roCur /\ ro.st.phase = "Paused"
         /\ obj' = [obj EXCEPT !.st = Paused(ro.st, "AwaitingPromotion")]
         /\ seen' \in {seen, obj'}
<1>1. CopiesOK /\ Snapshot /\ ro.st \in StatusType
  BY TypeParts DEF Inv, CopiesOK, ObjType
<1>2. obj' # obj
  BY DEF Closed
<1>3. ASSUME NEW s, NEW next, UpdateStatus(s, next)
      PROVE  roCur /\ ro = obj /\ s.pause = "AwaitingPromotion" /\ seen' \in {seen, obj'}
             /\ obj' = [obj EXCEPT !.st = s]
  <2>1. roCur /\ Store([obj EXCEPT !.st = s])
    BY <1>2, <1>3 DEF UpdateStatus, Update, rolloutVars
  <2>2. obj' = [obj EXCEPT !.st = s] /\ seen' \in {seen, obj'}
    BY <2>1 DEF Store
  <2>3. obj'.st = s
    BY <1>1, <2>2 DEF CopiesOK, ObjType
  <2> QED  BY <1>1, <2>1, <2>2, <2>3 DEF Snapshot, Closed
<1>4. ro = obj => ro.st.pause # "AwaitingPromotion"
  BY DEF Closed
<1>5. CASE Beside
  BY <1>5, BesideGate
<1>6. CASE Silent \/ Start
  BY <1>2, <1>6, SilentShape DEF Start, rolloutVars
<1>7. CASE pushReplicaCounts
  <2> DEFINE s == [ro.st EXCEPT !.total = StatusPods(lrs, Old \cup {T}),
                                !.updated = lrs[T].pods,
                                !.desired = ro.spec.replicas,
                                !.observed = TRUE]
  <2>1. UpdateStatus(s, AfterCounts)
    BY <1>2, <1>7 DEF pushReplicaCounts, rolloutVars
  <2>2. s.pause = ro.st.pause
    BY <1>1 DEF StatusType
  <2> QED  BY <1>3, <1>4, <2>1, <2>2
<1>8. CASE AbortMark \/ InitStep \/ PromoteBegin \/ RecordAnalysisRun
  <2> DEFINE a == [ro.st EXCEPT !.phase = "Aborted"]
             b == [ro.st EXCEPT !.step = ro.spec.plan[1].name, !.stepOld = FALSE,
                                !.phase = "Progressing"]
             c == [ro.st EXCEPT !.phase = "Promoting"]
             d == [ro.st EXCEPT !.recorded = @ \cup {analysisRunName(ro)}]
  <2>1. UpdateStatus(a, "idle") \/ UpdateStatus(b, "idle") \/ UpdateStatus(c, "promoteRoute")
        \/ UpdateStatus(d, "policy")
    BY <1>2, <1>8 DEF AbortMark, InitStep, PromoteBegin, RecordAnalysisRun, rolloutVars
  <2>2. /\ a.pause = ro.st.pause /\ b.pause = ro.st.pause /\ c.pause = ro.st.pause
        /\ d.pause = ro.st.pause
    BY <1>1 DEF StatusType
  <2>3. CASE UpdateStatus(a, "idle")
    BY <1>3, <1>4, <2>2, <2>3
  <2>4. CASE UpdateStatus(b, "idle")
    BY <1>3, <1>4, <2>2, <2>4
  <2>5. CASE UpdateStatus(c, "promoteRoute")
    BY <1>3, <1>4, <2>2, <2>5
  <2>6. CASE UpdateStatus(d, "policy")
    BY <1>3, <1>4, <2>2, <2>6
  <2> QED  BY <2>1, <2>3, <2>4, <2>5, <2>6
<1>9. ASSUME NEW reason, reason # "AwaitingPromotion"
      PROVE  \A s : UpdateStatus(s, "idle") =>
                s # Paused(ro.st, reason) /\ s # [Paused(ro.st, reason) EXCEPT !.stepOld = FALSE]
  <2>1. /\ Paused(ro.st, reason).pause = reason
        /\ [Paused(ro.st, reason) EXCEPT !.stepOld = FALSE].pause = reason
    BY <1>1 DEF Paused, StatusType
  <2> QED  BY <1>3, <1>9, <2>1
<1>10. ~advanceStep
  <2>1. Advanced(ro).pause \in {ro.st.pause, None}
    BY <1>1 DEF Advanced, StatusType
  <2> QED  BY <1>3, <1>4, <2>1 DEF advanceStep, None
<1>11. ~TriggerAbort
  <2> SUFFICES ASSUME TriggerAbort PROVE FALSE
    OBVIOUS
  <2> DEFINE o == [spec |-> [ro.spec EXCEPT !.abort = TRUE],
                   st   |-> [ro.st EXCEPT !.observed = FALSE]]
  <2>1. roCur /\ obj' = o
    BY <1>2 DEF TriggerAbort, Update, Store, rolloutVars
  <2>2. o.st.pause = ro.st.pause
    BY <1>1 DEF StatusType
  <2> QED  BY <1>1, <1>4, <2>1, <2>2 DEF Snapshot, Closed
<1>12. CASE Advance \/ LeavePause \/ RunExperiment
  BY <1>10, <1>12 DEF Advance, LeavePause, RunExperiment
<1>13. CASE EnterPause
  <2>1. UpdateStatus([Paused(ro.st, "PausedStep") EXCEPT !.stepOld = FALSE], "idle")
    BY <1>13 DEF EnterPause
  <2> QED  BY <1>9, <2>1
<1>14. CASE AnalysisPolicy \/ applyAnalysisInconclusive
  <2>1. \/ UpdateStatus(Paused(ro.st, "AnalysisFailed"), "idle")
        \/ UpdateStatus(Paused(ro.st, "AnalysisInconclusive"), "idle")
    BY <1>10, <1>11, <1>14 DEF AnalysisPolicy, applyAnalysisInconclusive
  <2> QED  BY <1>9, <2>1
<1>15. CASE FinalizeMark
  <2> DEFINE s == [ro.st EXCEPT !.phase = "Healthy", !.pause = None,
                                !.pauseOld = FALSE, !.podHash = T]
  <2>1. UpdateStatus(s, "idle")
    BY <1>2, <1>15 DEF FinalizeMark, rolloutVars
  <2>2. s.pause = None
    BY <1>1 DEF StatusType
  <2> QED  BY <1>3, <2>1, <2>2 DEF None
<1>16. CASE Stamp \/ PromoteStamp
  <2>1. PICK w, next : UpdateStatus([ro.st EXCEPT !.weight = w], next)
    BY <1>2, <1>16 DEF Stamp, PromoteStamp, StampWeight, rolloutVars
  <2>2. [ro.st EXCEPT !.weight = w].pause = ro.st.pause
    BY <1>1 DEF StatusType
  <2> QED  BY <1>3, <1>4, <2>1, <2>2
<1>17. CASE PromoteGated
  <2>1. UpdateStatus(Paused(ro.st, "AwaitingPromotion"), "idle") /\ ro.st.pause = None
    BY <1>2, <1>17 DEF PromoteGated, rolloutVars
  <2>2. ro.st.phase = "Paused"
    BY <1>17, <2>1 DEF PromoteGated, Gated, hasUserPromotion
  <2> QED  BY <1>3, <1>17, <2>1, <2>2
<1> QED  BY <1>5, <1>6, <1>7, <1>8, <1>12, <1>13, <1>14, <1>15, <1>16, <1>17, NextParts
         DEF Writing, Reading, Beside

(* What may happen behind a closed gate. *)
Sweeping ==
  BumpRevision \/ FoundNewRS \/ CreateNewRS \/ ScaleCanary \/ ScaleStable \/ AbortRoute
    \/ AbortScale \/ PruneHistory \/ HoldPause \/ Interrupt

LEMMA ClosedMoves ==
  ASSUME GatesStayGates, Inv, Shut, Closed, Next
  PROVE  Beside \/ Start \/ Sweeping \/ pushReplicaCounts \/ AbortMark \/ EnterPause
         \/ PromoteGated \/ PromoteBegin \/ FinalizeMark
<1>1. CopiesOK /\ Control
  BY TypeParts DEF Inv
<1>2. pc \notin Deep /\ (pc # "idle" => GateName(ro.st.step))
  BY DEF Shut, Waiting
<1>3. ~(Verify \/ Stamp \/ Advance \/ AnalysisPolicy \/ PromoteRoute \/ PromoteStamp
        \/ RepointService \/ DeferScaleDown \/ scaleDownAfterDelay)
  BY <1>2 DEF Deep, InPromote, Verify, Stamp, Advance, AnalysisPolicy, PromoteRoute,
       PromoteStamp, RepointService, DeferScaleDown, scaleDownAfterDelay
<1>4. ~InitStep
  <2> SUFFICES ASSUME InitStep PROVE FALSE
    OBVIOUS
  <2>1. pc = "init" /\ ro.st.step = None
    BY <1>1 DEF InitStep, Control
  <2>2. PICK p \in Plans : \E i \in DOMAIN p : p[i].name = None
    BY <1>2, <2>1 DEF GateName
  <2>3. p \in Seq(StepType)
    BY ConstantsAssumption
  <2>4. PICK i \in DOMAIN p : p[i].name = None
    BY <2>2
  <2>5. p[i] \in StepType
    BY <2>3
  <2> QED  BY <2>4, <2>5, ConstantsAssumption DEF StepType
<1>5. pc = "exec" /\ Active(ro) # {} =>
         Step(ro).kind = "promote" \/ (Step(ro).kind = "pause" /\ ~Step(ro).timed)
  <2> SUFFICES ASSUME pc = "exec", Active(ro) # {}
               PROVE  Step(ro).kind = "promote" \/ (Step(ro).kind = "pause" /\ ~Step(ro).timed)
    OBVIOUS
  <2>1. Index(ro) \in DOMAIN ro.spec.plan /\ Step(ro).name = ro.st.step
    BY <1>1, ActiveStep DEF CopiesOK, Active
  <2>2. ro.spec.plan \in Plans
    BY <1>1 DEF CopiesOK, ObjType, SpecType
  <2> QED  BY <1>2, <2>1, <2>2 DEF GatesStayGates, Step
<1>6. ~(RunSetWeight \/ RunSetCanaryScale \/ LeavePause \/ CreateAnalysisRun \/ AwaitAnalysisRun
        \/ RecordAnalysisRun \/ applyAnalysisInconclusive \/ RunExperiment)
  BY <1>5 DEF RunSetWeight, RunSetCanaryScale, LeavePause, CreateAnalysisRun,
       AwaitAnalysisRun, RecordAnalysisRun, applyAnalysisInconclusive, RunExperiment, Executing
<1> QED  BY <1>3, <1>4, <1>6 DEF Next, Reconcile, Environment, User, Beside, Sweeping

(* A reconcile behind a closed gate writes nothing, or no more than what   *)
(* leaves step and gate as they are, and begins no handler.                *)
LEMMA ClosedWrites ==
  ASSUME GatesStayGates, Inv, Shut, Closed, Next, ~Beside, ~Start
  PROVE  /\ ro' = ro /\ pc' \notin Deep
         /\ \/ UNCHANGED <<obj, seen>>
            \/ /\ obj'.st.step = obj.st.step /\ obj'.st.phase # "Promoting"
               /\ seen' \in {seen, obj'}
<1>1. CopiesOK /\ Snapshot /\ ro.st \in StatusType
  BY TypeParts DEF Inv, CopiesOK, ObjType
<1>2. pc # "idle" => ro.st.phase # "Promoting"
  BY DEF Shut, Waiting
<1>3. AutoPromotion = "Manual"
  BY DEF Shut
<1>4. ASSUME NEW s, NEW next, UpdateStatus(s, next), next \notin Deep,
             ro = obj => s.step = ro.st.step /\ s.phase # "Promoting",
             ro' = ro
      PROVE  /\ ro' = ro /\ pc' \notin Deep
             /\ \/ UNCHANGED <<obj, seen>>
                \/ /\ obj'.st.step = obj.st.step /\ obj'.st.phase # "Promoting"
                   /\ seen' \in {seen, obj'}
  <2>1. pc' \notin Deep
    BY <1>4, UpdatePC DEF UpdateStatus, Deep, InPromote
  <2>2. CASE UNCHANGED rolloutVars
    BY <1>4, <2>1, <2>2 DEF rolloutVars
  <2>3. CASE roCur /\ Store([obj EXCEPT !.st = s])
    <3>1. ro = obj /\ obj'.st = s /\ seen' \in {seen, obj'}
      BY <1>1, <2>3 DEF Snapshot, Store, CopiesOK, ObjType
    <3> QED  BY <1>4, <2>1, <3>1
  <2> QED  BY <1>4, <2>2, <2>3 DEF UpdateStatus, Update
<1>5. CASE Sweeping
  <2>1. UNCHANGED <<rolloutVars, ro>>
    BY <1>5, SilentShape DEF Sweeping, Silent
  <2>2. pc' \in {"idle", "canary", "stable", "counts", "abortScale", "abortMark", "exec"}
    <3>1. CASE FoundNewRS \/ CreateNewRS \/ AbortRoute \/ PruneHistory \/ HoldPause \/ Interrupt
      BY <3>1 DEF FoundNewRS, CreateNewRS, AbortRoute, PruneHistory, HoldPause, Interrupt,
           ReturnErr, SetWeightIfRouted, SetWeight
    <3>2. CASE BumpRevision \/ ScaleCanary \/ ScaleStable \/ AbortScale
      <4>1. pc' \in {"canary", "stable", "counts", "abortMark", "idle"}
        BY <3>2, UpdateRSPC, ScalePC DEF BumpRevision, ScaleCanary, ScaleStable, AbortScale, Goto
      <4> QED  BY <4>1
    <3> QED  BY <1>5, <3>1, <3>2 DEF Sweeping
  <2> QED  BY <2>1, <2>2 DEF rolloutVars, Deep, InPromote
<1>6. CASE pushReplicaCounts
  <2> DEFINE s == [ro.st EXCEPT !.total = StatusPods(lrs, Old \cup {T}),
                                !.updated = lrs[T].pods,
                                !.desired = ro.spec.replicas,
                                !.observed = TRUE]
  <2>1. AfterCounts \notin Deep /\ ro' = ro /\ pc = "counts"
    BY <1>6 DEF pushReplicaCounts, AfterCounts, Deep, InPromote
  <2>2. s.step = ro.st.step /\ s.phase = ro.st.phase
    BY <1>1 DEF StatusType
  <2>3. CASE UNCHANGED rolloutVars /\ pc' = AfterCounts
    BY <2>1, <2>3 DEF rolloutVars
  <2>4. CASE UpdateStatus(s, AfterCounts)
    BY <1>2, <1>4, <2>1, <2>2, <2>4
  <2> QED  BY <1>6, <2>3, <2>4 DEF pushReplicaCounts
<1>7. CASE AbortMark
  <2> DEFINE s == [ro.st EXCEPT !.phase = "Aborted"]
  <2>1. s.step = ro.st.step /\ s.phase = "Aborted"
    BY <1>1 DEF StatusType
  <2>2. CASE UNCHANGED rolloutVars /\ pc' = "idle"
    BY <1>7, <2>2 DEF AbortMark, rolloutVars, Deep, InPromote
  <2>3. CASE UpdateStatus(s, "idle")
    BY <1>4, <1>7, <2>1, <2>3 DEF AbortMark, Deep, InPromote
  <2> QED  BY <1>7, <2>2, <2>3 DEF AbortMark
<1>8. CASE FinalizeMark
  <2> DEFINE s == [ro.st EXCEPT !.phase = "Healthy", !.pause = None,
                                !.pauseOld = FALSE, !.podHash = T]
  <2>1. s.step = ro.st.step /\ s.phase = "Healthy"
    BY <1>1 DEF StatusType
  <2>2. CASE UNCHANGED rolloutVars /\ pc' = "idle"
    BY <1>8, <2>2 DEF FinalizeMark, rolloutVars, Deep, InPromote
  <2>3. CASE UpdateStatus(s, "idle")
    <3>1. ro' = ro /\ "idle" \notin Deep
      BY <1>8 DEF FinalizeMark, Deep, InPromote
    <3>2. ro = obj => s.step = ro.st.step /\ s.phase # "Promoting"
      BY <2>1
    <3> HIDE DEF s
    <3> QED  BY <1>4, <2>3, <3>1, <3>2
  <2> QED  BY <1>8, <2>2, <2>3 DEF FinalizeMark
<1>9. CASE EnterPause \/ PromoteGated
  <2>1. ro' = ro /\ "idle" \notin Deep
    BY <1>9 DEF EnterPause, PromoteGated, Deep, InPromote
  <2>2. CASE UNCHANGED rolloutVars /\ pc' = "idle"
    BY <2>1, <2>2 DEF rolloutVars
  <2>3. CASE ro.st.pause = None /\ \E s : UpdateStatus(s, "idle")
    <3>1. ro # obj
      BY <2>3 DEF Closed, None
    <3> QED  BY <1>4, <2>1, <2>3, <3>1
  <2> QED  BY <1>9, <2>2, <2>3 DEF EnterPause, PromoteGated
<1>10. CASE PromoteBegin
  <2>1. ro.st.pause = None /\ pc # "idle"
    BY <1>3, <1>10 DEF PromoteBegin, Gated, hasUserPromotion, Executing
  <2>2. ~roCur
    BY <1>1, <2>1 DEF Snapshot, Closed, None
  <2>3. ro' = ro /\ UpdateStatus([ro.st EXCEPT !.phase = "Promoting"], "promoteRoute")
    BY <1>2, <1>3, <1>10, <2>1 DEF PromoteBegin
  <2>4. UNCHANGED rolloutVars /\ pc' = "idle"
    BY <2>2, <2>3 DEF UpdateStatus, Update, ReturnErr
  <2> QED  BY <2>3, <2>4 DEF rolloutVars, Deep, InPromote
<1> QED  BY <1>5, <1>6, <1>7, <1>8, <1>9, <1>10, ClosedMoves

LEMMA ShutStep ==
  ASSUME GatesStayGates, Inv, Trailing, Shut, Next
  PROVE  Shut'
<1> SUFFICES ASSUME Closed' PROVE Shut'
  BY DEF Shut
<1>1. CopiesOK /\ Snapshot
  BY TypeParts DEF Inv
<1>2. CASE ~Closed
  <2>1. /\ PromoteGated /\ roCur /\ ro.st.phase = "Paused"
        /\ obj' = [obj EXCEPT !.st = Paused(ro.st, "AwaitingPromotion")]
        /\ seen' \in {seen, obj'}
    BY <1>2, GateCloses
  <2>2. seen = obj /\ ro = obj
    BY <1>1, <2>1 DEF Trailing, Snapshot
  <2>3. GateName(ro.st.step)
    <3>1. Active(ro) # {} /\ Step(ro).kind = "promote"
      BY <2>1 DEF PromoteGated, Executing
    <3>2. Index(ro) \in DOMAIN ro.spec.plan /\ Step(ro).name = ro.st.step
      BY <1>1, <3>1, ActiveStep DEF CopiesOK, Active
    <3>3. ro.spec.plan \in Plans
      BY <1>1 DEF CopiesOK, ObjType, SpecType
    <3> QED  BY <3>1, <3>2, <3>3 DEF GateName, Step
  <2>4. AutoPromotion = "Manual" /\ pc' = "idle"
    BY <2>1, UpdatePC DEF PromoteGated, Gated, UpdateStatus
  <2>5. obj'.st.step = ro.st.step /\ obj'.st.phase = "Paused"
    BY <1>1, <2>1 DEF CopiesOK, ObjType, StatusType, Paused
  <2> QED  BY <2>1, <2>2, <2>3, <2>4, <2>5 DEF Shut, Waiting, Deep, InPromote, GateName
<1>3. CASE Closed
  <2>1. /\ AutoPromotion = "Manual" /\ pc \notin Deep /\ Waiting(obj) /\ Waiting(seen)
        /\ pc # "idle" => Waiting(ro)
    BY <1>3 DEF Shut
  <2>2. CASE Beside
    <3>1. pc' = pc
      BY <2>2, BesideFacts
    <3> QED  BY <2>1, <2>2, <3>1, BesideGate DEF Shut, Waiting, GateName
  <2>3. CASE Start
    BY <2>1, <2>3 DEF Start, Shut, Waiting, GateName, Deep, InPromote
  <2>4. CASE ~Beside /\ ~Start
    <3>1. /\ ro' = ro /\ pc' \notin Deep
          /\ \/ UNCHANGED <<obj, seen>>
             \/ /\ obj'.st.step = obj.st.step /\ obj'.st.phase # "Promoting"
                /\ seen' \in {seen, obj'}
      BY <1>3, <2>4, ClosedWrites
    <3>2. pc' # "idle" => pc # "idle"
      BY <2>4, FromIdle
    <3> QED  BY <2>1, <3>1, <3>2 DEF Shut, Waiting, GateName, Deep
  <2> QED  BY <2>2, <2>3, <2>4
<1> QED  BY <1>2, <1>3

(* A closed gate is opened by nobody but the user, whatever fails,         *)
(* restarts, lags or is edited, in any progressions whose gates stay gates.*)
(* A step replanned from a promotion to a weight moves the traffic, for it *)
(* is a gate no more.                                                      *)
THEOREM GateStaysClosed ==
  ASSUME GatesStayGates
  PROVE  SafetySpec => ClosedGateHolds
<1> DEFINE A == obj.st.pause = "AwaitingPromotion" =>
                  /\ svc' = svc
                  /\ routerW' # routerW => edits' # edits \/ pc = "abortRoute"
                  /\ obj'.st.phase # "Promoting" /\ obj'.st.step = obj.st.step
           Gate == Stamped /\ Trailing /\ Shut
<1>1. Init => Gate
  <2> SUFFICES ASSUME Init PROVE Gate
    OBVIOUS
  <2>1. Stamped /\ Trailing
    BY PromiseInit DEF Promise
  <2>2. obj.st.pause = None
    BY DEF Init, NewStatus
  <2> QED  BY <2>1, <2>2 DEF Shut, Closed, None
<1>2. Inv /\ Gate /\ [Next]_vars => Gate'
  <2>1. ASSUME Inv, Gate, Next PROVE Gate'
    BY <2>1, StampedStep, TrailingStep, ShutStep
  <2>2. ASSUME Gate, UNCHANGED vars PROVE Gate'
    BY <2>2 DEF vars, rolloutVars, outside, Stamped, Stamping, Aim, Trailing, OneBehind, Bearing,
         AimOf, Active, Index, Shut, Closed, Waiting, GateName
  <2> QED  BY <2>1, <2>2
<1>3. Inv /\ Gate /\ [Next]_vars => [A]_vars
  <2> SUFFICES ASSUME Inv, Gate, Next, Closed
               PROVE  /\ svc' = svc
                      /\ routerW' # routerW => edits' # edits \/ pc = "abortRoute"
                      /\ obj'.st.phase # "Promoting" /\ obj'.st.step = obj.st.step
    BY DEF Closed
  <2>1. Waiting(obj) /\ pc \notin Deep
    BY DEF Shut
  <2>2. svc' = svc
    BY <2>1, ServiceMove DEF RepointService, Deep, InPromote
  <2>3. routerW' # routerW => edits' # edits \/ pc = "abortRoute"
    <3>1. CASE Beside
      BY <3>1, BesideGate
    <3>2. CASE ~Beside
      BY <3>2, ClosedMoves DEF Start, Sweeping, BumpRevision, FoundNewRS, CreateNewRS,
           ScaleCanary, ScaleStable, AbortRoute, AbortScale, PruneHistory, HoldPause, Interrupt,
           pushReplicaCounts, AbortMark, EnterPause, PromoteGated, PromoteBegin, FinalizeMark,
           outside
    <3> QED  BY <3>1, <3>2
  <2>4. obj'.st.phase # "Promoting" /\ obj'.st.step = obj.st.step
    <3>1. CASE Beside
      BY <2>1, <3>1, BesideGate DEF Waiting
    <3>2. CASE Start
      BY <2>1, <3>2 DEF Start, Waiting
    <3>3. CASE ~Beside /\ ~Start
      BY <2>1, <3>3, ClosedWrites DEF Waiting
    <3> QED  BY <3>1, <3>2, <3>3
  <2> QED  BY <2>2, <2>3, <2>4
<1> QED  BY <1>1, <1>2, <1>3, InvHolds, PTL DEF SafetySpec, ClosedGateHolds
=============================================================================
