--------------------------- MODULE RolloutProofs ---------------------------
(***************************************************************************)
(* The Rollout reconciler for every set of templates, progressions and     *)
(* sizes, any number of user edits and faults, with and without lagging    *)
(* caches.                                                                 *)
(***************************************************************************)
EXTENDS RolloutSystem, MathLemmas

(* TypeOK, by the part of the state. *)
CopiesOK ==
  /\ obj \in ObjType /\ seen \in ObjType /\ ro \in ObjType
  /\ seenCur \in BOOLEAN /\ roCur \in BOOLEAN

SetsOK ==
  /\ rs \in [Tmpls -> RSType] /\ seenRS \in [Tmpls -> RSType] /\ lrs \in [Tmpls -> RSType]
  /\ seenRSCur \subseteq Tmpls /\ lrsCur \subseteq Tmpls /\ fresh \subseteq Tmpls
  /\ births \in 0..MaxRev

OutsideOK ==
  /\ routerW \in 0..100
  /\ svc \in [1..NServices -> Tmpls \cup {None}]
  /\ runs \in [RunNames -> RunPhases]
  /\ judged \in [RunNames -> Tmpls \cup {None}]

QueueOK ==
  /\ pc \in PCs
  /\ queued \in BOOLEAN /\ timer \in BOOLEAN
  /\ edits \in 0..MaxEdits /\ faults \in 0..MaxFaults

(* A copy that carries the current resourceVersion is the object. *)
Snapshot == (seenCur => seen = obj) /\ (roCur => ro = obj)

(* Where in a handler the reconcile may be, by the kind of the step its    *)
(* copy is at.                                                             *)
InPromote == {"promoteRoute", "promoteStamp", "repoint", "scaleDown"}

Control ==
  /\ pc = "init" => ro.st.step = None /\ ro.spec.plan # <<>>
  /\ pc \in {"verify", "stamp"} => Active(ro) # {} /\ Step(ro).kind = "setWeight"
  /\ pc \in InPromote => Active(ro) # {} /\ Step(ro).kind = "promote"
  /\ pc = "policy" =>
       /\ Active(ro) # {} /\ Step(ro).kind = "analysis"
       /\ RunPhase \in {"Successful", "Failed", "Error"}
  /\ pc = "advance" =>
       Active(ro) # {} /\ Step(ro).kind \in {"setWeight", "setCanaryScale", "promote"}

Inv == TypeOK /\ Snapshot /\ Control

LEMMA TypeParts == TypeOK <=> CopiesOK /\ SetsOK /\ OutsideOK /\ QueueOK
BY DEF TypeOK, CopiesOK, SetsOK, OutsideOK, QueueOK

-----------------------------------------------------------------------------
(***************************************************************************)
(* Steps and statuses.                                                     *)
(***************************************************************************)
(* The active step is one of the plan. *)
LEMMA ActiveStep ==
  ASSUME NEW o \in ObjType, Active(o) # {}
  PROVE  /\ Index(o) \in Active(o) /\ Index(o) \in 1..Len(o.spec.plan)
         /\ o.spec.plan \in Seq(StepType) /\ Len(o.spec.plan) \in Nat
         /\ Step(o) \in StepType /\ Step(o).name = o.st.step
<1>1. o.spec.plan \in Seq(StepType)
  BY ConstantsAssumption DEF ObjType, SpecType
<1>2. DOMAIN o.spec.plan = 1..Len(o.spec.plan) /\ Len(o.spec.plan) \in Nat
  BY <1>1
<1>3. Index(o) \in Active(o)
  BY DEF Index
<1>4. Index(o) \in DOMAIN o.spec.plan /\ o.spec.plan[Index(o)].name = o.st.step
  BY <1>3 DEF Active
<1>5. o.spec.plan[Index(o)] \in StepType
  BY <1>1, <1>2, <1>4
<1> QED  BY <1>1, <1>2, <1>3, <1>4, <1>5 DEF Step

(* advanceStep writes a status. *)
LEMMA AdvancedType ==
  ASSUME NEW o \in ObjType, Active(o) # {}
  PROVE  Advanced(o) \in StatusType
<1>1. o.st \in StatusType
  BY DEF ObjType
<1>2. CASE Index(o) + 1 > Len(o.spec.plan)
  BY <1>1, <1>2 DEF Advanced, StatusType, Phases
<1>3. CASE ~(Index(o) + 1 > Len(o.spec.plan))
  <2>1. Index(o) + 1 \in 1..Len(o.spec.plan)
    BY <1>3, ActiveStep
  <2>2. o.spec.plan \in Seq(StepType)
    BY ActiveStep
  <2>3. o.spec.plan[Index(o) + 1] \in StepType
    BY <2>1, <2>2
  <2>4. o.spec.plan[Index(o) + 1].name \in StepNames
    BY <2>3 DEF StepType
  <2> QED  BY <1>1, <1>3, <2>4 DEF Advanced, StatusType, Phases, PauseReasons
<1> QED  BY <1>2, <1>3

(* advanceStep goes to the next step, or to none after the last. *)
LEMMA AdvancedInOrder ==
  ASSUME NEW o \in ObjType, Active(o) # {}
  PROVE  LET i == Index(o)
         IN  /\ i \in Active(o) /\ Advanced(o).weight = o.st.weight
             /\ Advanced(o).step = IF i = Len(o.spec.plan) THEN None
                                   ELSE o.spec.plan[i + 1].name
<1>1. o.st \in StatusType
  BY DEF ObjType
<1>2. Index(o) \in 1..Len(o.spec.plan) /\ Len(o.spec.plan) \in Nat /\ Index(o) \in Active(o)
  BY ActiveStep
<1>3. CASE Index(o) + 1 > Len(o.spec.plan)
  <2>1. Index(o) = Len(o.spec.plan)
    BY <1>2, <1>3
  <2>2. Advanced(o).step = None /\ Advanced(o).weight = o.st.weight
    BY <1>1, <1>3 DEF Advanced, StatusType
  <2> QED  BY <1>2, <2>1, <2>2
<1>4. CASE ~(Index(o) + 1 > Len(o.spec.plan))
  <2>1. Index(o) # Len(o.spec.plan)
    BY <1>2, <1>4
  <2>2. /\ Advanced(o).step = o.spec.plan[Index(o) + 1].name
        /\ Advanced(o).weight = o.st.weight
    BY <1>1, <1>4 DEF Advanced, StatusType
  <2> QED  BY <1>2, <2>1, <2>2
<1> QED  BY <1>3, <1>4

-----------------------------------------------------------------------------
(***************************************************************************)
(* What a reconcile may write: an object of the same weight, at the same   *)
(* step, at the first step, or after a step whose gate is open; its spec   *)
(* is that of the server or, in an abort, of the copy.                     *)
(***************************************************************************)
GateOpen(i) ==
  /\ ro.spec.plan[i].kind = "pause" => ro.spec.plan[i].timed /\ ro.st.pauseOld
  /\ ro.spec.plan[i].kind = "analysis" =>
       \/ RunPhase = "Successful"
       \/ RunPhase \in {"Failed", "Error"} /\ ro.spec.plan[i].onFailure = "Ignore"
       \/ RunPhase = "Inconclusive" /\ ro.spec.plan[i].onInconclusive = "Ignore"
  /\ Bears(ro.spec.plan, i) => pc = "advance"

InOrder(o) ==
  /\ o.st.weight = ro.st.weight
  /\ o.spec = obj.spec \/ o.spec = [ro.spec EXCEPT !.abort = TRUE]
  /\ \/ o.st.step = ro.st.step
     \/ /\ o.spec = obj.spec
        /\ ro.st.step = None /\ o.st.step = ro.spec.plan[1].name
     \/ /\ o.spec = obj.spec
        /\ \E i \in Active(ro) :
             /\ o.st.step = IF i = Len(ro.spec.plan) THEN None ELSE ro.spec.plan[i + 1].name
             /\ GateOpen(i)

(* Only the last call of a reconcile moves the step. *)
Write ==
  \E o \in ObjType, next \in PCs :
     Update(o, next) /\ InOrder(o) /\ (next = "idle" \/ o.st.step = ro.st.step)

(* A write that leaves the step alone. *)
LEMMA SameStepWrite ==
  ASSUME CopiesOK, NEW s \in StatusType, NEW next \in PCs, s.step = ro.st.step,
         s.weight = ro.st.weight, UpdateStatus(s, next)
  PROVE  Write
<1> DEFINE o == [obj EXCEPT !.st = s]
<1>1. o \in ObjType /\ o.st = s /\ o.spec = obj.spec
  BY DEF CopiesOK, ObjType
<1>2. Update(o, next)
  BY DEF UpdateStatus
<1>3. InOrder(o)
  BY <1>1 DEF InOrder
<1> HIDE DEF o
<1> QED  BY <1>1, <1>2, <1>3 DEF Write

(* advanceStep past an open gate. *)
LEMMA AdvanceWrite ==
  ASSUME CopiesOK, Active(ro) # {}, GateOpen(Index(ro)), advanceStep
  PROVE  Write
<1> DEFINE o == [obj EXCEPT !.st = Advanced(ro)]
<1>1. Advanced(ro) \in StatusType
  BY AdvancedType DEF CopiesOK
<1>2. o \in ObjType /\ o.st = Advanced(ro) /\ o.spec = obj.spec
  BY <1>1 DEF CopiesOK, ObjType
<1>3. Update(o, "idle") /\ "idle" \in PCs
  BY DEF advanceStep, UpdateStatus, PCs
<1>4. /\ Index(ro) \in Active(ro) /\ Advanced(ro).weight = ro.st.weight
      /\ Advanced(ro).step = IF Index(ro) = Len(ro.spec.plan) THEN None
                             ELSE ro.spec.plan[Index(ro) + 1].name
  BY AdvancedInOrder DEF CopiesOK
<1>5. InOrder(o)
  <2> HIDE DEF o
  <2> QED  BY <1>2, <1>4 DEF InOrder
<1> HIDE DEF o
<1> QED  BY <1>2, <1>3, <1>5 DEF Write

(* client.Update with spec.abort set. *)
LEMMA AbortWrite ==
  ASSUME CopiesOK, TriggerAbort
  PROVE  Write
<1> DEFINE o == [spec |-> [ro.spec EXCEPT !.abort = TRUE],
                 st   |-> [ro.st EXCEPT !.observed = FALSE]]
<1>1. /\ o \in ObjType /\ o.st.step = ro.st.step /\ o.st.weight = ro.st.weight
      /\ o.spec = [ro.spec EXCEPT !.abort = TRUE]
  BY ZenonT(30) DEF CopiesOK, ObjType, SpecType, StatusType
<1>2. Update(o, "idle") /\ "idle" \in PCs
  BY DEF TriggerAbort, PCs
<1> HIDE DEF o
<1>3. InOrder(o)
  BY <1>1 DEF InOrder
<1> QED  BY <1>1, <1>2, <1>3 DEF Write

(* A pause condition keeps the step and the weight. *)
LEMMA PausedType ==
  ASSUME NEW s \in StatusType, NEW reason \in PauseReasons
  PROVE  /\ Paused(s, reason) \in StatusType
         /\ Paused(s, reason).step = s.step /\ Paused(s, reason).weight = s.weight
BY DEF Paused, StatusType, Phases

-----------------------------------------------------------------------------
(***************************************************************************)
(* Counts of pods and revisions.                                           *)
(***************************************************************************)
LEMMA TaggedUnionNat ==
  ASSUME NEW S, IsFiniteSet(S), NEW g \in [S -> Nat]
  PROVE  Cardinality(UNION {{u} \X (1..g[u]) : u \in S}) \in Nat
<1> DEFINE piece(u) == {u} \X (1..g[u])
           pieces == {piece(u) : u \in S}
           f == [u \in S |-> piece(u)]
<1>1. \A u \in S : IsFiniteSet(piece(u))
  <2> SUFFICES ASSUME NEW u \in S PROVE IsFiniteSet(piece(u))
    OBVIOUS
  <2>1. IsFiniteSet({u})
    BY FS_Singleton
  <2>2. IsFiniteSet(1..g[u])
    BY FS_Interval
  <2> QED  BY <2>1, <2>2, FS_Product
<1>2. f \in Surjection(S, pieces)
  BY DEF Surjection
<1>3. IsFiniteSet(pieces)
  BY <1>2, FS_Surjection
<1>4. \A x \in pieces : IsFiniteSet(x)
  BY <1>1
<1>5. IsFiniteSet(UNION pieces)
  BY <1>3, <1>4, FS_UNION
<1> QED  BY <1>5, FS_CardinalityType

LEMMA PodsNat ==
  ASSUME NEW l \in [Tmpls -> RSType], NEW S, S \subseteq Tmpls
  PROVE  SpecPods(l, S) \in Nat /\ StatusPods(l, S) \in Nat
<1>1. IsFiniteSet(S)
  BY ConstantsAssumption, FS_Subset
<1> DEFINE g == [u \in S |-> l[u].replicas]
           h == [u \in S |-> l[u].pods]
<1>2. g \in [S -> Nat] /\ h \in [S -> Nat]
  BY DEF RSType
<1>3. /\ {{u} \X (1..l[u].replicas) : u \in S} = {{u} \X (1..g[u]) : u \in S}
      /\ {{u} \X (1..l[u].pods) : u \in S} = {{u} \X (1..h[u]) : u \in S}
  OBVIOUS
<1> HIDE DEF g, h
<1>4. /\ Cardinality(UNION {{u} \X (1..g[u]) : u \in S}) \in Nat
      /\ Cardinality(UNION {{u} \X (1..h[u]) : u \in S}) \in Nat
  BY <1>1, <1>2, TaggedUnionNat
<1> QED  BY <1>3, <1>4 DEF SpecPods, StatusPods

LEMMA MaxRevisionRange ==
  ASSUME NEW l \in [Tmpls -> RSType], NEW S, S \subseteq Tmpls
  PROVE  MaxRevision(l, S) \in 0..MaxRev
<1> DEFINE revs == {0} \cup {l[u].rev : u \in S}
<1>1. MaxRev \in Nat
  BY ConstantsAssumption
<1>2. revs \subseteq 0..MaxRev /\ revs # {}
  BY <1>1 DEF RSType
<1>3. \E m \in revs : \A r \in revs : r <= m
  BY <1>1, <1>2, GreatestExists
<1>4. (CHOOSE m \in revs : \A r \in revs : r <= m) \in revs
  BY <1>3
<1> QED  BY <1>2, <1>4 DEF MaxRevision

-----------------------------------------------------------------------------
(***************************************************************************)
(* The writes of the actions.                                              *)
(***************************************************************************)
Writing ==
  \/ pushReplicaCounts \/ AbortMark \/ InitStep \/ Advance
  \/ EnterPause \/ LeavePause \/ RecordAnalysisRun
  \/ AnalysisPolicy \/ applyAnalysisInconclusive \/ RunExperiment
  \/ PromoteGated \/ PromoteBegin \/ FinalizeMark

LEMMA CountsWrite ==
  ASSUME Inv, pushReplicaCounts
  PROVE  UNCHANGED rolloutVars \/ Write
<1> DEFINE s == [ro.st EXCEPT !.total = StatusPods(lrs, Old \cup {T}),
                              !.updated = lrs[T].pods,
                              !.desired = ro.spec.replicas,
                              !.observed = TRUE]
<1>1. CopiesOK /\ SetsOK
  BY TypeParts DEF Inv
<1>2. T \in Tmpls /\ Old \subseteq Tmpls /\ ro.spec.replicas \in Nat /\ ro.st \in StatusType
  BY <1>1, ConstantsAssumption DEF T, Old, CopiesOK, ObjType, SpecType
<1>3. StatusPods(lrs, Old \cup {T}) \in Nat
  BY <1>1, <1>2, PodsNat DEF SetsOK
<1>4. lrs[T].pods \in Nat
  BY <1>1, <1>2 DEF SetsOK, RSType
<1>5. s \in StatusType /\ s.step = ro.st.step /\ s.weight = ro.st.weight
  BY <1>2, <1>3, <1>4 DEF StatusType
<1>6. UNCHANGED rolloutVars \/ UpdateStatus(s, AfterCounts)
  BY DEF pushReplicaCounts, rolloutVars
<1> HIDE DEF s
<1>7. AfterCounts \in PCs
  BY DEF AfterCounts, PCs
<1> QED  BY <1>1, <1>5, <1>6, <1>7, SameStepWrite

LEMMA InitWrite ==
  ASSUME Inv, InitStep
  PROVE  Write
<1> DEFINE s == [ro.st EXCEPT !.step = ro.spec.plan[1].name, !.stepOld = FALSE,
                              !.phase = "Progressing"]
           o == [obj EXCEPT !.st = s]
<1>1. CopiesOK /\ ro.st.step = None /\ ro.spec.plan # <<>>
  BY TypeParts DEF Inv, Control, InitStep
<1>2. ro.spec.plan \in Seq(StepType) /\ ro.st \in StatusType
  BY <1>1, ConstantsAssumption DEF CopiesOK, ObjType, SpecType
<1>3. ro.spec.plan[1] \in StepType
  BY <1>1, <1>2
<1>4. ro.spec.plan[1].name \in StepNames
  BY <1>3 DEF StepType
<1>5. s \in StatusType /\ s.step = ro.spec.plan[1].name /\ s.weight = ro.st.weight
  BY <1>2, <1>4 DEF StatusType, Phases
<1> HIDE DEF s
<1>6. o \in ObjType /\ o.st = s /\ o.spec = obj.spec
  BY <1>1, <1>5 DEF CopiesOK, ObjType
<1>7. Update(o, "idle") /\ "idle" \in PCs
  BY DEF InitStep, UpdateStatus, PCs, s
<1> HIDE DEF o
<1>8. InOrder(o)
  BY <1>1, <1>5, <1>6 DEF InOrder
<1> QED  BY <1>6, <1>7, <1>8 DEF Write

(* The handlers that end with advanceStep. *)
LEMMA AdvancingWrite ==
  ASSUME Inv, Advance \/ LeavePause \/ RunExperiment
  PROVE  Write
<1>1. CopiesOK
  BY TypeParts DEF Inv
<1>2. advanceStep /\ Active(ro) # {}
  BY DEF Advance, LeavePause, RunExperiment, Executing, Inv, Control
<1>3. GateOpen(Index(ro))
  <2>1. CASE Advance
    BY <2>1 DEF Advance, Inv, Control, GateOpen, Step
  <2>2. CASE LeavePause
    BY <2>2 DEF LeavePause, Executing, GateOpen, Step, Bears
  <2>3. CASE RunExperiment
    BY <2>3 DEF RunExperiment, Executing, GateOpen, Step, Bears
  <2> QED  BY <2>1, <2>2, <2>3
<1> QED  BY <1>1, <1>2, <1>3, AdvanceWrite

(* The policies of a finished analysis. *)
LEMMA AnalysisWrite ==
  ASSUME Inv, AnalysisPolicy \/ applyAnalysisInconclusive
  PROVE  Write
<1>1. CopiesOK /\ ro.st \in StatusType
  BY TypeParts DEF Inv, CopiesOK, ObjType
<1>2. Active(ro) # {} /\ Step(ro).kind = "analysis"
  BY DEF AnalysisPolicy, applyAnalysisInconclusive, Executing, Inv, Control
<1>3. CASE TriggerAbort
  BY <1>1, <1>3, AbortWrite
<1>4. CASE \E reason \in PauseReasons : UpdateStatus(Paused(ro.st, reason), "idle")
  <2>1. PICK reason \in PauseReasons : UpdateStatus(Paused(ro.st, reason), "idle")
    BY <1>4
  <2>2. LET s == Paused(ro.st, reason)
        IN  s \in StatusType /\ s.step = ro.st.step /\ s.weight = ro.st.weight
    BY <1>1, PausedType
  <2>3. "idle" \in PCs
    BY DEF PCs
  <2> QED  BY <1>1, <2>1, <2>2, <2>3, SameStepWrite
<1>5. CASE /\ advanceStep
           /\ \/ RunPhase = "Successful"
              \/ RunPhase \in {"Failed", "Error"} /\ Step(ro).onFailure = "Ignore"
              \/ RunPhase = "Inconclusive" /\ Step(ro).onInconclusive = "Ignore"
  <2>1. GateOpen(Index(ro))
    BY <1>2, <1>5 DEF GateOpen, Step, Bears
  <2> QED  BY <1>1, <1>2, <1>5, <2>1, AdvanceWrite
<1>6. CASE AnalysisPolicy
  <2>1. RunPhase \in {"Successful", "Failed", "Error"}
    BY <1>6 DEF AnalysisPolicy, Inv, Control
  <2>2. "AnalysisFailed" \in PauseReasons
    BY DEF PauseReasons
  <2> QED  BY <1>3, <1>4, <1>5, <1>6, <2>1, <2>2 DEF AnalysisPolicy
<1>7. CASE applyAnalysisInconclusive
  <2>1. "AnalysisInconclusive" \in PauseReasons
    BY DEF PauseReasons
  <2> QED  BY <1>3, <1>4, <1>5, <1>7, <2>1 DEF applyAnalysisInconclusive
<1> QED  BY <1>6, <1>7

(* The handlers that change phase, pause, record or hash. *)
LEMMA MarkingWrite ==
  ASSUME Inv, AbortMark \/ EnterPause \/ RecordAnalysisRun \/ PromoteGated
              \/ PromoteBegin \/ FinalizeMark
  PROVE  UNCHANGED rolloutVars \/ Write
<1>1. CopiesOK /\ ro.st \in StatusType
  BY TypeParts DEF Inv, CopiesOK, ObjType
<1>2. {"idle", "policy", "promoteRoute"} \subseteq PCs
  BY DEF PCs
<1>3. CASE AbortMark
  <2> DEFINE s == [ro.st EXCEPT !.phase = "Aborted"]
  <2>1. s \in StatusType /\ s.step = ro.st.step /\ s.weight = ro.st.weight
    BY <1>1 DEF StatusType, Phases
  <2>2. UNCHANGED rolloutVars \/ UpdateStatus(s, "idle")
    BY <1>3 DEF AbortMark
  <2> QED  BY <1>1, <1>2, <2>1, <2>2, SameStepWrite
<1>4. CASE EnterPause
  <2> DEFINE s == [Paused(ro.st, "PausedStep") EXCEPT !.stepOld = FALSE]
  <2>1. "PausedStep" \in PauseReasons
    BY DEF PauseReasons
  <2>2. LET p == Paused(ro.st, "PausedStep")
        IN  p \in StatusType /\ p.step = ro.st.step /\ p.weight = ro.st.weight
    BY <1>1, <2>1, PausedType
  <2>3. s \in StatusType /\ s.step = ro.st.step /\ s.weight = ro.st.weight
    BY <2>2 DEF StatusType
  <2>4. UpdateStatus(s, "idle")
    BY <1>4 DEF EnterPause
  <2> QED  BY <1>1, <1>2, <2>3, <2>4, SameStepWrite
<1>5. CASE RecordAnalysisRun
  <2> DEFINE s == [ro.st EXCEPT !.recorded = @ \cup {analysisRunName(ro)}]
  <2>1. ro.st.step \in StepNames
    BY <1>1, <1>5, ActiveStep DEF RecordAnalysisRun, Executing, StepType, CopiesOK
  <2>2. analysisRunName(ro) \in RunNames
    BY <1>1, <2>1 DEF analysisRunName, RunNames, StatusType
  <2>3. s \in StatusType /\ s.step = ro.st.step /\ s.weight = ro.st.weight
    BY <1>1, <2>2 DEF StatusType
  <2>4. UpdateStatus(s, "policy")
    BY <1>5 DEF RecordAnalysisRun
  <2> QED  BY <1>1, <1>2, <2>3, <2>4, SameStepWrite
<1>6. CASE PromoteGated
  <2>1. "AwaitingPromotion" \in PauseReasons
    BY DEF PauseReasons
  <2>2. LET p == Paused(ro.st, "AwaitingPromotion")
        IN  p \in StatusType /\ p.step = ro.st.step /\ p.weight = ro.st.weight
    BY <1>1, <2>1, PausedType
  <2>3. UNCHANGED rolloutVars \/ UpdateStatus(Paused(ro.st, "AwaitingPromotion"), "idle")
    BY <1>6 DEF PromoteGated
  <2> QED  BY <1>1, <1>2, <2>2, <2>3, SameStepWrite
<1>7. CASE PromoteBegin
  <2> DEFINE s == [ro.st EXCEPT !.phase = "Promoting"]
  <2>1. s \in StatusType /\ s.step = ro.st.step /\ s.weight = ro.st.weight
    BY <1>1 DEF StatusType, Phases
  <2>2. UNCHANGED rolloutVars \/ UpdateStatus(s, "promoteRoute")
    BY <1>7 DEF PromoteBegin
  <2> QED  BY <1>1, <1>2, <2>1, <2>2, SameStepWrite
<1>8. CASE FinalizeMark
  <2> DEFINE s == [ro.st EXCEPT !.phase = "Healthy", !.pause = None,
                                !.pauseOld = FALSE, !.podHash = T]
  <2>1. T \in Tmpls
    BY <1>1 DEF CopiesOK, ObjType, SpecType, T
  <2>2. s \in StatusType /\ s.step = ro.st.step /\ s.weight = ro.st.weight
    BY <1>1, <2>1 DEF StatusType, Phases, PauseReasons
  <2>3. UNCHANGED rolloutVars \/ UpdateStatus(s, "idle")
    BY <1>8 DEF FinalizeMark
  <2> QED  BY <1>1, <1>2, <2>2, <2>3, SameStepWrite
<1> QED  BY <1>3, <1>4, <1>5, <1>6, <1>7, <1>8

LEMMA WritingShape ==
  ASSUME Inv, Writing
  PROVE  ro' = ro /\ (UNCHANGED rolloutVars \/ Write)
<1>1. ro' = ro
  BY DEF Writing, pushReplicaCounts, AbortMark, InitStep, Advance, EnterPause, LeavePause,
         RecordAnalysisRun, AnalysisPolicy, applyAnalysisInconclusive, RunExperiment,
         PromoteGated, PromoteBegin, FinalizeMark
<1> QED  BY <1>1, CountsWrite, InitWrite, AdvancingWrite, AnalysisWrite, MarkingWrite
         DEF Writing

-----------------------------------------------------------------------------
(***************************************************************************)
(* The copies of the Rollout.                                              *)
(***************************************************************************)
(* The actions that leave every copy of the Rollout alone. *)
Silent ==
  \/ StartPaused \/ BumpRevision \/ FoundNewRS \/ CreateNewRS
  \/ ScaleCanary \/ ScaleStable \/ AbortRoute \/ AbortScale
  \/ RunSetWeight \/ Verify \/ RunSetCanaryScale \/ HoldPause
  \/ CreateAnalysisRun \/ AwaitAnalysisRun
  \/ PromoteRoute \/ RepointService \/ DeferScaleDown \/ scaleDownAfterDelay
  \/ PruneHistory
  \/ SyncRS \/ TimerFires \/ Resync \/ Interrupt
  \/ (\E t \in Tmpls : RunPods(t)) \/ (\E n \in RunNames : Conclude(n))
  \/ MeshEdit

LEMMA SilentShape ==
  ASSUME Silent
  PROVE  UNCHANGED <<rolloutVars, ro>>
<1>1. CASE StartPaused \/ BumpRevision \/ FoundNewRS \/ CreateNewRS
           \/ ScaleCanary \/ ScaleStable \/ AbortRoute \/ AbortScale
  BY <1>1 DEF StartPaused, BumpRevision, FoundNewRS, CreateNewRS, ScaleCanary, ScaleStable,
              AbortRoute, AbortScale
<1>2. CASE RunSetWeight \/ Verify \/ RunSetCanaryScale \/ HoldPause
           \/ CreateAnalysisRun \/ AwaitAnalysisRun
  BY <1>2 DEF RunSetWeight, Verify, RunSetCanaryScale, HoldPause, CreateAnalysisRun,
              AwaitAnalysisRun, RequeueAfter
<1>3. CASE PromoteRoute \/ RepointService \/ DeferScaleDown \/ scaleDownAfterDelay
           \/ PruneHistory
  BY <1>3 DEF PromoteRoute, RepointService, DeferScaleDown, scaleDownAfterDelay,
              PruneHistory, RequeueAfter
<1>4. CASE SyncRS \/ TimerFires \/ Resync \/ Interrupt \/ MeshEdit
           \/ (\E t \in Tmpls : RunPods(t)) \/ (\E n \in RunNames : Conclude(n))
  BY <1>4 DEF SyncRS, TimerFires, Resync, Interrupt, MeshEdit, RunPods, Conclude
<1> QED  BY <1>1, <1>2, <1>3, <1>4 DEF Silent

(* The actions that write the Rollout or read it. *)
Reading == Start \/ Sync \/ \E field \in Clocks : Tick(field)

(* Every step is one of these. *)
LEMMA NextParts ==
  ASSUME Next
  PROVE  Silent \/ Writing \/ Reading \/ Stamp \/ PromoteStamp \/ UserEdit \/ ClearPause
BY DEF Next, Reconcile, Environment, User, Silent, Writing, Reading

LEMMA StoreCopies ==
  ASSUME CopiesOK, Snapshot, NEW o \in ObjType, Store(o), ro' \in ObjType
  PROVE  CopiesOK' /\ Snapshot'
<1>1. Lag \in BOOLEAN
  BY ConstantsAssumption
<1> QED  BY <1>1 DEF CopiesOK, Snapshot, Store

LEMMA UpdateCopies ==
  ASSUME CopiesOK, Snapshot, NEW o \in ObjType, NEW next, Update(o, next), ro' = ro
  PROVE  CopiesOK' /\ Snapshot'
<1>1. CASE UNCHANGED rolloutVars
  BY <1>1 DEF CopiesOK, Snapshot, rolloutVars
<1>2. CASE Store(o)
  BY <1>2, StoreCopies DEF CopiesOK
<1> QED  BY <1>1, <1>2 DEF Update

(* Stamping a weight: the local copy changes only when it is outdated or   *)
(* about to be.                                                            *)
LEMMA StampCopies ==
  ASSUME CopiesOK, Snapshot, NEW w \in 0..100, NEW next, StampWeight(w, next)
  PROVE  /\ CopiesOK' /\ Snapshot'
         /\ obj'.st.step = obj.st.step
         /\ obj'.spec = obj.spec
         /\ ro'.spec = ro.spec /\ ro'.st.step = ro.st.step /\ ro'.st.podHash = ro.st.podHash
         /\ ro'.st.weight = w
         /\ obj'.st.weight = IF roCur THEN w ELSE obj.st.weight
<1> DEFINE s == [ro.st EXCEPT !.weight = w]
           o == [obj EXCEPT !.st = s]
           r == [ro EXCEPT !.st.weight = w]
<1>1. ro.st \in StatusType /\ ro \in ObjType /\ obj \in ObjType
  BY DEF CopiesOK, ObjType
<1>2. s \in StatusType /\ s.step = ro.st.step /\ s.podHash = ro.st.podHash /\ s.weight = w
  BY <1>1 DEF StatusType
<1>3. r \in ObjType /\ r.spec = ro.spec /\ r.st = s
  BY <1>1, <1>2 DEF ObjType
<1>4. o \in ObjType /\ o.st = s /\ o.spec = obj.spec
  BY <1>1, <1>2 DEF ObjType
<1>5. ro' = r
  BY DEF StampWeight
<1>6. CASE ro.st.weight = w /\ UNCHANGED rolloutVars
  <2>1. s = ro.st
    BY <1>1, <1>6 DEF StatusType
  <2>2. r = ro
    BY <1>1, <1>3, <2>1 DEF ObjType
  <2> HIDE DEF r, s
  <2> QED  BY <1>2, <1>3, <1>5, <1>6, <2>2 DEF CopiesOK, Snapshot, rolloutVars
<1>7. CASE ro.st.weight # w /\ Update(o, next)
  <2>1. roCur => o # obj
    BY <1>2, <1>4, <1>7 DEF Snapshot
  <2>2. CASE roCur
    <3>1. Store(o) /\ ro = obj
      BY <1>7, <2>1, <2>2 DEF Update, Snapshot
    <3> HIDE DEF o, r, s
    <3>2. CopiesOK' /\ Snapshot'
      BY <1>3, <1>4, <1>5, <3>1, StoreCopies
    <3> QED  BY <1>2, <1>3, <1>4, <1>5, <2>2, <3>1, <3>2 DEF Store
  <2>3. CASE ~roCur
    <3>1. UNCHANGED rolloutVars
      BY <1>7, <2>3 DEF Update
    <3> HIDE DEF o, r, s
    <3> QED  BY <1>2, <1>3, <1>5, <2>3, <3>1 DEF CopiesOK, Snapshot, rolloutVars
  <2> QED  BY <2>2, <2>3
<1> QED  BY <1>6, <1>7 DEF StampWeight, UpdateStatus

(* The weight a Stamp writes. *)
LEMMA StampShape ==
  ASSUME Inv, Stamp \/ PromoteStamp
  PROVE  \E w \in 0..100, next \in {"advance", "repoint"} :
            /\ StampWeight(w, next)
            /\ \/ pc = "stamp" /\ next = "advance"
               \/ pc = "promoteStamp" /\ next = "repoint"
<1>1. CopiesOK
  BY TypeParts DEF Inv
<1>2. CASE Stamp
  <2>1. Step(ro) \in StepType
    BY <1>1, <1>2, ActiveStep DEF Stamp, Inv, Control, CopiesOK
  <2>2. Step(ro).weight \in 0..100
    BY <2>1 DEF StepType
  <2> QED  BY <1>2, <2>2 DEF Stamp
<1>3. CASE PromoteStamp
  BY <1>3 DEF PromoteStamp
<1> QED  BY <1>2, <1>3

(* Time passes for all copies alike. *)
LEMMA AgedObj ==
  ASSUME NEW o \in ObjType, NEW field \in Clocks
  PROVE  /\ Aged(o, field) \in ObjType
         /\ Aged(o, field).spec = o.spec /\ Aged(o, field).st.step = o.st.step
         /\ Aged(o, field).st.podHash = o.st.podHash
         /\ Aged(o, field).st.weight = o.st.weight
<1>1. CASE field = "pauseOld"
  BY <1>1 DEF Aged, ObjType, StatusType
<1>2. CASE field = "stepOld"
  BY <1>2 DEF Aged, ObjType, StatusType
<1> QED  BY <1>1, <1>2 DEF Clocks

(* What a user's edit stores: the step and the weight stay, and of the     *)
(* spec what no edit is about.                                             *)
Edited(o) ==
  /\ o.st.step = obj.st.step /\ o.st.weight = obj.st.weight
  /\ "plan" \notin UserEdits => o.spec.plan = obj.spec.plan
  /\ "abort" \notin UserEdits => o.spec.abort = obj.spec.abort

LEMMA EditShape ==
  ASSUME CopiesOK, UserEdit \/ ClearPause
  PROVE  ro' = ro /\ \E o \in ObjType : Store(o) /\ Edited(o)
<1>1. obj \in ObjType /\ obj.spec \in SpecType /\ obj.st \in StatusType
  BY DEF CopiesOK, ObjType
<1>2. ASSUME NEW kind, NEW new \in SpecType, EditSpec(kind, new),
             kind # "plan" => new.plan = obj.spec.plan,
             kind # "abort" => new.abort = obj.spec.abort
      PROVE  ro' = ro /\ \E o \in ObjType : Store(o) /\ Edited(o)
  <2> DEFINE o == [spec |-> new, st |-> [obj.st EXCEPT !.observed = FALSE]]
  <2>1. /\ o \in ObjType /\ o.spec = new
        /\ o.st.step = obj.st.step /\ o.st.weight = obj.st.weight
    BY <1>1 DEF ObjType, StatusType
  <2>2. Store(o) /\ ro' = ro /\ kind \in UserEdits
    BY <1>2 DEF EditSpec
  <2> HIDE DEF o
  <2>3. Edited(o)
    BY <1>2, <2>1, <2>2 DEF Edited
  <2> QED  BY <2>1, <2>2, <2>3
<1>3. CASE UserEdit
  <2>1. ASSUME NEW t \in Tmpls, NEW new, new = [obj.spec EXCEPT !.tmpl = t]
        PROVE  new \in SpecType /\ new.plan = obj.spec.plan /\ new.abort = obj.spec.abort
    BY <1>1, <2>1 DEF SpecType
  <2>2. ASSUME NEW n \in Sizes, NEW new, new = [obj.spec EXCEPT !.replicas = n]
        PROVE  new \in SpecType /\ new.plan = obj.spec.plan /\ new.abort = obj.spec.abort
    BY <1>1, <2>2 DEF SpecType
  <2>3. ASSUME NEW b \in BOOLEAN, NEW new, new = [obj.spec EXCEPT !.abort = b]
        PROVE  new \in SpecType /\ new.plan = obj.spec.plan
    BY <1>1, <2>3 DEF SpecType
  <2>4. ASSUME NEW b \in BOOLEAN, NEW new, new = [obj.spec EXCEPT !.paused = b]
        PROVE  new \in SpecType /\ new.plan = obj.spec.plan /\ new.abort = obj.spec.abort
    BY <1>1, <2>4 DEF SpecType
  <2>5. ASSUME NEW p \in Plans, NEW new, new = [obj.spec EXCEPT !.plan = p]
        PROVE  new \in SpecType /\ new.abort = obj.spec.abort
    BY <1>1, <2>5 DEF SpecType
  <2> QED  BY <1>2, <1>3, <2>1, <2>2, <2>3, <2>4, <2>5 DEF UserEdit
<1>4. CASE ClearPause
  <2> DEFINE o == [obj EXCEPT !.st.pause = None, !.st.pauseOld = FALSE]
  <2>1. /\ o \in ObjType /\ o.spec = obj.spec
        /\ o.st.step = obj.st.step /\ o.st.weight = obj.st.weight
    BY <1>1 DEF ObjType, StatusType, PauseReasons
  <2>2. Store(o) /\ ro' = ro
    BY <1>4 DEF ClearPause
  <2> HIDE DEF o
  <2>3. Edited(o)
    BY <2>1 DEF Edited
  <2> QED  BY <2>1, <2>2, <2>3
<1> QED  BY <1>3, <1>4

LEMMA CopiesStep ==
  ASSUME Inv, Next
  PROVE  CopiesOK' /\ Snapshot'
<1>1. CopiesOK /\ Snapshot
  BY TypeParts DEF Inv
<1>2. CASE Silent
  <2>1. UNCHANGED <<rolloutVars, ro>>
    BY <1>2, SilentShape
  <2> QED  BY <1>1, <2>1 DEF CopiesOK, Snapshot, rolloutVars
<1>3. CASE Writing
  <2>1. ro' = ro /\ (UNCHANGED rolloutVars \/ Write)
    BY <1>3, WritingShape
  <2>2. CASE UNCHANGED rolloutVars
    BY <1>1, <2>1, <2>2 DEF CopiesOK, Snapshot, rolloutVars
  <2>3. CASE Write
    BY <1>1, <2>1, <2>3, UpdateCopies DEF Write
  <2> QED  BY <2>1, <2>2, <2>3
<1>4. CASE Stamp \/ PromoteStamp
  BY <1>1, <1>4, StampShape, StampCopies
<1>5. CASE UserEdit \/ ClearPause
  BY <1>1, <1>5, EditShape, StoreCopies DEF CopiesOK
<1>6. CASE Start
  BY <1>1, <1>6 DEF Start, CopiesOK, Snapshot
<1>7. CASE Sync
  BY <1>1, <1>7 DEF Sync, CopiesOK, Snapshot
<1>8. CASE \E field \in Clocks : Tick(field)
  <2>1. PICK field \in Clocks : Tick(field)
    BY <1>8
  <2>2. /\ obj' = Aged(obj, field) /\ seen' = Aged(seen, field) /\ ro' = Aged(ro, field)
        /\ UNCHANGED <<seenCur, roCur>>
    BY <2>1 DEF Tick
  <2>3. obj' \in ObjType /\ seen' \in ObjType /\ ro' \in ObjType
    BY <1>1, <2>2, AgedObj DEF CopiesOK
  <2>4. Snapshot'
    BY <1>1, <2>2 DEF Snapshot
  <2> QED  BY <1>1, <2>2, <2>3, <2>4 DEF CopiesOK
<1> QED  BY <1>2, <1>3, <1>4, <1>5, <1>6, <1>7, <1>8, NextParts DEF Reading

-----------------------------------------------------------------------------
(***************************************************************************)
(* The router, the Services and the AnalysisRuns.                          *)
(***************************************************************************)
LEMMA RouteType ==
  ASSUME routerW \in 0..100, NEW w \in 0..100, NEW next, SetWeightIfRouted(w, next)
  PROVE  routerW' \in 0..100
BY DEF SetWeightIfRouted, SetWeight

LEMMA OutsideStep ==
  ASSUME Inv, Next
  PROVE  OutsideOK'
<1>1. CopiesOK /\ OutsideOK
  BY TypeParts DEF Inv
<1>2. T \in Tmpls
  BY <1>1 DEF T, CopiesOK, ObjType, SpecType
<1>3. CASE AbortRoute \/ PromoteRoute
  <2>1. SetWeightIfRouted(0, "abortScale") \/ SetWeightIfRouted(100, "promoteStamp")
    BY <1>3 DEF AbortRoute, PromoteRoute
  <2>3. routerW \in 0..100 /\ 0 \in 0..100 /\ 100 \in 0..100
    BY <1>1 DEF OutsideOK
  <2>4. routerW' \in 0..100
    BY <2>1, <2>3, RouteType
  <2>2. UNCHANGED <<svc, runs, judged>>
    BY <1>3 DEF AbortRoute, PromoteRoute
  <2> QED  BY <1>1, <2>2, <2>4 DEF OutsideOK
<1>4. CASE RunSetWeight
  <2>1. Step(ro) \in StepType
    BY <1>1, <1>4, ActiveStep DEF RunSetWeight, Executing, CopiesOK
  <2>2. Step(ro).weight \in 0..100
    BY <2>1 DEF StepType
  <2>3. routerW' \in 0..100
    BY <1>1, <1>4, <2>2 DEF RunSetWeight, SetWeight, OutsideOK
  <2>4. UNCHANGED <<svc, runs, judged>>
    BY <1>4 DEF RunSetWeight
  <2> QED  BY <1>1, <2>3, <2>4 DEF OutsideOK
<1>5. CASE RepointService
  <2>1. UNCHANGED <<routerW, runs, judged>>
    BY <1>5 DEF RepointService
  <2>2. svc' \in [1..NServices -> Tmpls \cup {None}]
    BY <1>1, <1>2, <1>5 DEF RepointService, OutsideOK
  <2> QED  BY <1>1, <2>1, <2>2 DEF OutsideOK
<1>6. CASE CreateAnalysisRun
  <2>1. UNCHANGED <<routerW, svc>>
    BY <1>6 DEF CreateAnalysisRun
  <2>2. runs' \in [RunNames -> RunPhases]
    BY <1>1, <1>6 DEF CreateAnalysisRun, OutsideOK, RunPhases
  <2>3. judged' \in [RunNames -> Tmpls \cup {None}]
    BY <1>1, <1>2, <1>6 DEF CreateAnalysisRun, OutsideOK
  <2> QED  BY <1>1, <2>1, <2>2, <2>3 DEF OutsideOK
<1>7. CASE \E n \in RunNames : Conclude(n)
  <2>1. UNCHANGED <<routerW, svc, judged>>
    BY <1>7 DEF Conclude
  <2>2. Verdicts \subseteq RunPhases
    BY ConstantsAssumption DEF RunPhases
  <2>3. runs' \in [RunNames -> RunPhases]
    BY <1>1, <1>7, <2>2 DEF Conclude, OutsideOK
  <2> QED  BY <1>1, <2>1, <2>3 DEF OutsideOK
<1>8. CASE MeshEdit
  <2>1. UNCHANGED <<svc, runs, judged>> /\ routerW' \in 0..100
    BY <1>8 DEF MeshEdit
  <2> QED  BY <1>1, <2>1 DEF OutsideOK
<1>9. CASE UNCHANGED outside
  BY <1>1, <1>9 DEF outside, OutsideOK
<1>10. CASE Writing
  <2>1. UNCHANGED outside
    BY <1>10 DEF Writing, pushReplicaCounts, AbortMark, InitStep, Advance, EnterPause,
         LeavePause, RecordAnalysisRun, AnalysisPolicy, applyAnalysisInconclusive,
         RunExperiment, PromoteGated, PromoteBegin, FinalizeMark
  <2> QED  BY <1>9, <2>1
<1>11. CASE Reading \/ Stamp \/ PromoteStamp \/ UserEdit \/ ClearPause
  <2>1. UNCHANGED outside
    BY <1>11 DEF Reading, Start, Sync, Tick, Stamp, PromoteStamp, StampWeight, UserEdit,
         EditSpec, ClearPause
  <2> QED  BY <1>9, <2>1
<1>12. CASE StartPaused \/ BumpRevision \/ FoundNewRS \/ CreateNewRS
            \/ ScaleCanary \/ ScaleStable \/ AbortScale
            \/ Verify \/ RunSetCanaryScale \/ HoldPause \/ AwaitAnalysisRun
            \/ DeferScaleDown \/ scaleDownAfterDelay \/ PruneHistory
            \/ SyncRS \/ TimerFires \/ Resync \/ Interrupt
            \/ \E t \in Tmpls : RunPods(t)
  <2>1. UNCHANGED outside
    BY <1>12 DEF StartPaused, BumpRevision, FoundNewRS, CreateNewRS, ScaleCanary, ScaleStable,
         AbortScale, Verify, RunSetCanaryScale, HoldPause, AwaitAnalysisRun, DeferScaleDown,
         scaleDownAfterDelay, PruneHistory, SyncRS, TimerFires, Resync, Interrupt, RunPods
  <2> QED  BY <1>9, <2>1
<1> QED  BY <1>3, <1>4, <1>5, <1>6, <1>7, <1>8, <1>10, <1>11, <1>12, NextParts DEF Silent

-----------------------------------------------------------------------------
(***************************************************************************)
(* The ReplicaSets.                                                        *)
(***************************************************************************)
ServerSetsOK ==
  rs \in [Tmpls -> RSType] /\ seenRS \in [Tmpls -> RSType] /\ seenRSCur \subseteq Tmpls

LEMMA StoreRSType ==
  ASSUME ServerSetsOK, NEW t, NEW r \in RSType, StoreRS(t, r)
  PROVE  ServerSetsOK'
BY DEF ServerSetsOK, StoreRS

LEMMA UpdateRSType ==
  ASSUME ServerSetsOK, NEW t, NEW r, NEW next, UpdateRS(t, r, next),
         lrsCur \subseteq Tmpls, t \in Tmpls => r \in RSType
  PROVE  ServerSetsOK'
<1>1. CASE t \in lrsCur /\ StoreRS(t, r)
  BY <1>1, StoreRSType
<1>2. CASE UNCHANGED <<rs, seenRS, seenRSCur>>
  BY <1>2 DEF ServerSetsOK
<1> QED  BY <1>1, <1>2 DEF UpdateRS

LEMMA ScaleType ==
  ASSUME SetsOK, NEW t, NEW n \in Nat, NEW next, scaleIfNeeded(t, n, next)
  PROVE  SetsOK'
<1>1. CASE Goto(next)
  BY <1>1 DEF Goto, rsVars, SetsOK
<1>2. CASE ScaleReplicaSet(t, n, next)
  <2>1. t \in Tmpls => [lrs[t] EXCEPT !.replicas = n] \in RSType
    BY DEF SetsOK, RSType
  <2>2. ServerSetsOK'
    BY <1>2, <2>1, UpdateRSType DEF ScaleReplicaSet, SetsOK, ServerSetsOK
  <2>3. lrsCur' = lrsCur \ {t} /\ lrs' = lrs /\ fresh' = fresh /\ births' = births
    BY <1>2 DEF ScaleReplicaSet
  <2> QED  BY <2>2, <2>3 DEF SetsOK, ServerSetsOK
<1> QED  BY <1>1, <1>2 DEF scaleIfNeeded

LEMMA PercentOfNat ==
  ASSUME NEW d \in Nat, NEW p \in Nat
  PROVE  percentOf(d, p) \in Nat
<1>1. d * p \in Nat
  OBVIOUS
<1>2. CeilPercent(d, p) \in Nat
  BY <1>1 DEF CeilPercent
<1> QED  BY <1>2 DEF percentOf, Smaller

LEMMA LastSetWeightRange ==
  ASSUME NEW o \in ObjType
  PROVE  lastSetWeight(o) \in 0..100
<1> DEFINE last == IF Active(o) = {} THEN Len(o.spec.plan) ELSE Index(o)
           set == {i \in 1..last : o.spec.plan[i].kind = "setWeight"}
           m == CHOOSE i \in set : \A j \in set : j <= i
<1>1. o.spec.plan \in Seq(StepType) /\ Len(o.spec.plan) \in Nat
  BY ConstantsAssumption DEF ObjType, SpecType
<1>2. last \in 0..Len(o.spec.plan)
  BY <1>1, ActiveStep
<1>3. lastSetWeight(o) = IF set = {} THEN 0 ELSE o.spec.plan[m].weight
  BY DEF lastSetWeight
<1> HIDE DEF last
<1>4. CASE set # {}
  <2>1. set \subseteq 0..last /\ last \in Nat
    BY <1>2
  <2>2. \E i \in set : \A j \in set : j <= i
    BY <1>4, <2>1, GreatestExists
  <2>3. m \in set
    BY <2>2
  <2> HIDE DEF m
  <2>4. m \in 1..Len(o.spec.plan)
    BY <1>1, <1>2, <2>3
  <2>5. o.spec.plan[m] \in StepType
    BY <1>1, <2>4
  <2>6. o.spec.plan[m].weight \in 0..100
    BY <2>5 DEF StepType
  <2> QED  BY <1>3, <1>4, <2>6
<1>5. CASE set = {}
  BY <1>3, <1>5
<1> QED  BY <1>4, <1>5

LEMMA CanaryScaleNat ==
  ASSUME NEW o \in ObjType, Active(o) # {}
  PROVE  resolveCanaryScale(o) \in Nat
<1>1. Step(o) \in StepType
  BY ActiveStep
<1>2. Step(o).count \in Nat /\ Step(o).by \in {"replicas", "percent", "match"}
  BY <1>1 DEF StepType
<1>3. o.spec.replicas \in Nat
  BY ConstantsAssumption DEF ObjType, SpecType
<1>4. lastSetWeight(o) \in Nat
  BY LastSetWeightRange
<1>5. percentOf(o.spec.replicas, Step(o).count) \in Nat
      /\ percentOf(o.spec.replicas, lastSetWeight(o)) \in Nat
  BY <1>2, <1>3, <1>4, PercentOfNat
<1> QED  BY <1>2, <1>5 DEF resolveCanaryScale

LEMMA SetsStep ==
  ASSUME Inv, Next
  PROVE  SetsOK'
<1>1. CopiesOK /\ SetsOK
  BY TypeParts DEF Inv
<1>2. T \in Tmpls /\ ro.spec.replicas \in Nat /\ ro.st.weight \in 0..100
  BY <1>1, ConstantsAssumption DEF T, CopiesOK, ObjType, SpecType, StatusType
<1>3. Old \subseteq Tmpls /\ lrs[T] \in RSType /\ lrs[T].replicas \in Nat
  BY <1>1, <1>2 DEF Old, SetsOK, RSType
<1>4. Split.canary \in Nat /\ Split.stable \in Nat
  <2>1. Split.canary \in 0..ro.spec.replicas /\ Split.stable \in 0..ro.spec.replicas
    BY <1>2, <1>3, SplitBounds, Zenon DEF Split
  <2> QED  BY <1>2, <2>1
<1>5. MaxRevision(lrs, Old) \in 0..MaxRev
  BY <1>1, <1>3, MaxRevisionRange DEF SetsOK
<1>6. ServerSetsOK /\ lrsCur \subseteq Tmpls
  BY <1>1 DEF SetsOK, ServerSetsOK
<1>7. MaxRev \in Nat
  BY ConstantsAssumption
<1>8. CASE BumpRevision
  <2> DEFINE n == MaxRevision(lrs, Old) + 1
  <2>1. n \in 0..MaxRev
    BY <1>5, <1>7, <1>8 DEF BumpRevision
  <2>2. /\ UpdateRS(T, [lrs[T] EXCEPT !.rev = n], "canary")
        /\ lrs' = [lrs EXCEPT ![T].rev = n] /\ UNCHANGED <<lrsCur, fresh, births>>
    BY <1>8 DEF BumpRevision
  <2> HIDE DEF n
  <2>3. [lrs[T] EXCEPT !.rev = n] \in RSType
    BY <1>3, <2>1 DEF RSType
  <2>4. ServerSetsOK'
    BY <1>6, <2>2, <2>3, UpdateRSType
  <2>5. lrs' \in [Tmpls -> RSType]
    BY <1>1, <2>2, <2>3 DEF SetsOK
  <2> QED  BY <1>1, <2>2, <2>4, <2>5 DEF SetsOK, ServerSetsOK
<1>9. CASE CreateNewRS
  <2> DEFINE n == MaxRevision(lrs, Old) + 1
             size == NewRSNewReplicas(ViewReplicas, MaxSurge, SpecPods(lrs, Old))
             made == [exists |-> TRUE, replicas |-> size, pods |-> 0, rev |-> n,
                      born |-> births + 1, owner |-> <<"Deployment", RolloutUID>>]
  <2>1. size \in Nat
    <3>1. ViewReplicas \in Nat /\ MaxSurge \in 0..100
      BY <1>2, ConstantsAssumption DEF ViewReplicas
    <3>2. SpecPods(lrs, Old) \in Nat
      BY <1>1, <1>3, PodsNat DEF SetsOK
    <3>3. size \in 0..ViewReplicas
      BY <3>1, <3>2, NewRSBounds, Zenon
    <3> HIDE DEF size
    <3> QED  BY <3>1, <3>3
  <2> HIDE DEF size
  <2>2. n \in Nat /\ births \in Nat
    BY <1>1, <1>5, <1>7 DEF SetsOK
  <2> HIDE DEF n
  <2>3. CASE n <= MaxRev /\ births < MaxRev
    <3>1. made \in RSType
      <4>1. <<"Deployment", RolloutUID>> \in Owners
        BY DEF Owners
      <4> QED  BY <1>7, <2>1, <2>2, <2>3, <4>1 DEF RSType
    <3>2. ensureOwnedByRollout(made) \in RSType
      <4>1. <<"Rollout", RolloutUID>> \in Owners
        BY DEF Owners
      <4> HIDE DEF made
      <4> QED  BY <3>1, <4>1 DEF ensureOwnedByRollout, RSType
    <3> HIDE DEF made
    <3>3. \/ StoreRS(T, ensureOwnedByRollout(made)) /\ births' = births + 1
          \/ UNCHANGED <<rs, seenRS, seenRSCur, births>>
      BY <1>9 DEF CreateNewRS, made, n, size
    <3>4. ServerSetsOK' /\ births' \in 0..MaxRev
      <4>1. CASE StoreRS(T, ensureOwnedByRollout(made)) /\ births' = births + 1
        <5>1. births + 1 \in 0..MaxRev
          BY <1>7, <2>2, <2>3
        <5> QED  BY <1>6, <3>2, <4>1, <5>1, StoreRSType
      <4>2. CASE UNCHANGED <<rs, seenRS, seenRSCur, births>>
        BY <1>1, <1>6, <4>2 DEF ServerSetsOK, SetsOK
      <4> QED  BY <3>3, <4>1, <4>2
    <3>5. lrs' \in [Tmpls -> RSType] /\ lrsCur' \subseteq Tmpls /\ fresh' \subseteq Tmpls
      BY <1>1, <1>2, <1>9, <3>4 DEF CreateNewRS, SetsOK, ServerSetsOK
    <3> QED  BY <3>4, <3>5 DEF SetsOK, ServerSetsOK
  <2>4. CASE ~(n <= MaxRev /\ births < MaxRev)
    <3>1. UNCHANGED <<rs, seenRS, seenRSCur, births>>
      BY <1>9, <2>4 DEF CreateNewRS, n
    <3>2. lrs' \in [Tmpls -> RSType] /\ lrsCur' \subseteq Tmpls /\ fresh' \subseteq Tmpls
      BY <1>1, <1>2, <1>9, <3>1 DEF CreateNewRS, SetsOK
    <3> QED  BY <1>1, <3>1, <3>2 DEF SetsOK
  <2> QED  BY <2>3, <2>4
<1>10. CASE ScaleCanary \/ ScaleStable \/ AbortScale
  <2>1. \/ Goto("counts")
        \/ scaleIfNeeded(T, Split.canary, "stable")
        \/ scaleIfNeeded(largestOldRS, Split.stable, "counts")
        \/ scaleIfNeeded(T, 0, "abortMark")
    BY <1>10 DEF ScaleCanary, ScaleStable, AbortScale
  <2>2. CASE Goto("counts")
    BY <1>1, <2>2 DEF Goto, rsVars, SetsOK
  <2> QED  BY <1>1, <1>4, <2>1, <2>2, ScaleType
<1>11. CASE RunSetCanaryScale
  <2>1. resolveCanaryScale(ro) \in Nat
    BY <1>1, <1>11, CanaryScaleNat DEF RunSetCanaryScale, Executing, CopiesOK
  <2> QED  BY <1>1, <1>11, <2>1, ScaleType DEF RunSetCanaryScale
<1>12. CASE scaleDownAfterDelay
  <2>1. CASE Goto("advance")
    BY <1>1, <2>1 DEF Goto, rsVars, SetsOK
  <2>2. CASE \E u \in Old :
               /\ UpdateRS(u, [lrs[u] EXCEPT !.replicas = 0], "scaleDown")
               /\ lrs' = [lrs EXCEPT ![u].replicas = 0]
               /\ lrsCur' = lrsCur \ {u}
               /\ UNCHANGED <<fresh, births>>
    <3>1. PICK u \in Old :
               /\ UpdateRS(u, [lrs[u] EXCEPT !.replicas = 0], "scaleDown")
               /\ lrs' = [lrs EXCEPT ![u].replicas = 0]
               /\ lrsCur' = lrsCur \ {u}
               /\ UNCHANGED <<fresh, births>>
      BY <2>2
    <3>2. u \in Tmpls /\ [lrs[u] EXCEPT !.replicas = 0] \in RSType
      BY <1>1, <1>3 DEF SetsOK, RSType
    <3>3. ServerSetsOK'
      BY <1>6, <3>1, <3>2, UpdateRSType
    <3>4. lrs' \in [Tmpls -> RSType]
      BY <1>1, <3>1, <3>2 DEF SetsOK
    <3> QED  BY <1>1, <3>1, <3>3, <3>4 DEF SetsOK, ServerSetsOK
  <2> QED  BY <1>12, <2>1, <2>2 DEF scaleDownAfterDelay
<1>13. CASE PruneHistory
  <2>1. NoRS \in RSType
    BY <1>7 DEF NoRS, RSType, Owners
  <2>2. PICK u : StoreRS(u, NoRS) /\ lrsCur' = lrsCur \ {u}
    BY <1>13 DEF PruneHistory
  <2>3. UNCHANGED <<lrs, fresh, births>>
    BY <1>13 DEF PruneHistory
  <2>4. ServerSetsOK'
    BY <1>6, <2>1, <2>2, StoreRSType
  <2> QED  BY <1>1, <2>2, <2>3, <2>4 DEF SetsOK, ServerSetsOK
<1>14. CASE Start
  BY <1>1, <1>14 DEF Start, SetsOK
<1>15. CASE SyncRS
  BY <1>1, <1>15 DEF SyncRS, SetsOK
<1>16. CASE \E t \in Tmpls : RunPods(t)
  <2>1. PICK t \in Tmpls : RunPods(t)
    BY <1>16
  <2>2. [rs[t] EXCEPT !.pods = rs[t].replicas] \in RSType
    BY <1>1 DEF SetsOK, RSType
  <2>3. /\ StoreRS(t, [rs[t] EXCEPT !.pods = rs[t].replicas])
        /\ lrsCur' = lrsCur \ {t} /\ UNCHANGED <<lrs, fresh, births>>
    BY <2>1 DEF RunPods
  <2>4. ServerSetsOK'
    BY <1>6, <2>2, <2>3, StoreRSType
  <2> QED  BY <1>1, <2>3, <2>4 DEF SetsOK, ServerSetsOK
<1>17. CASE UNCHANGED rsVars
  BY <1>1, <1>17 DEF rsVars, SetsOK
<1>18. CASE Writing
  <2>1. UNCHANGED rsVars
    BY <1>18 DEF Writing, pushReplicaCounts, AbortMark, InitStep, Advance, EnterPause,
         LeavePause, RecordAnalysisRun, AnalysisPolicy, applyAnalysisInconclusive,
         RunExperiment, PromoteGated, PromoteBegin, FinalizeMark
  <2> QED  BY <1>17, <2>1
<1>19. CASE Sync \/ (\E field \in Clocks : Tick(field)) \/ Stamp \/ PromoteStamp
            \/ UserEdit \/ ClearPause
  <2>1. UNCHANGED rsVars
    BY <1>19 DEF Sync, Tick, Stamp, PromoteStamp, StampWeight, UserEdit, EditSpec, ClearPause
  <2> QED  BY <1>17, <2>1
<1>20. CASE StartPaused \/ FoundNewRS \/ AbortRoute \/ RunSetWeight \/ Verify \/ HoldPause
            \/ CreateAnalysisRun \/ AwaitAnalysisRun \/ PromoteRoute \/ RepointService
            \/ DeferScaleDown \/ TimerFires \/ Resync \/ Interrupt
            \/ (\E n \in RunNames : Conclude(n)) \/ MeshEdit
  <2>1. UNCHANGED rsVars
    BY <1>20 DEF StartPaused, FoundNewRS, AbortRoute, RunSetWeight, Verify, HoldPause,
         CreateAnalysisRun, AwaitAnalysisRun, PromoteRoute, RepointService, DeferScaleDown,
         TimerFires, Resync, Interrupt, Conclude, MeshEdit
  <2> QED  BY <1>17, <2>1
<1> QED  BY <1>8, <1>9, <1>10, <1>11, <1>12, <1>13, <1>14, <1>15, <1>16, <1>18, <1>19, <1>20,
            NextParts
         DEF Silent, Reading

-----------------------------------------------------------------------------
(***************************************************************************)
(* The queue, the timers and the bounds.                                   *)
(***************************************************************************)
LEMMA UpdateQueue ==
  ASSUME QueueOK, NEW o, NEW next \in PCs, Update(o, next)
  PROVE  pc' \in PCs /\ queued' \in BOOLEAN
<1>1. Lag \in BOOLEAN /\ "idle" \in PCs
  BY ConstantsAssumption DEF PCs
<1> QED  BY <1>1 DEF Update, Store, ReturnErr, QueueOK

LEMMA UpdateRSQueue ==
  ASSUME QueueOK, NEW t, NEW r, NEW next \in PCs, UpdateRS(t, r, next)
  PROVE  pc' \in PCs /\ queued' \in BOOLEAN
<1>1. "idle" \in PCs
  BY DEF PCs
<1> QED  BY <1>1 DEF UpdateRS, ReturnErr, QueueOK

LEMMA ScaleQueue ==
  ASSUME QueueOK, NEW t, NEW n, NEW next \in PCs, scaleIfNeeded(t, n, next)
  PROVE  pc' \in PCs /\ queued' \in BOOLEAN
BY UpdateRSQueue DEF scaleIfNeeded, Goto, ScaleReplicaSet, QueueOK

LEMMA RouteQueue ==
  ASSUME QueueOK, NEW w, NEW next \in PCs,
         SetWeightIfRouted(w, next) \/ SetWeight(w, next)
  PROVE  pc' \in PCs /\ queued' \in BOOLEAN
<1>1. "idle" \in PCs
  BY DEF PCs
<1> QED  BY <1>1 DEF SetWeightIfRouted, SetWeight, ReturnErr, QueueOK

LEMMA WriteQueue ==
  ASSUME QueueOK, Write
  PROVE  pc' \in PCs /\ queued' \in BOOLEAN
BY UpdateQueue DEF Write

LEMMA QueueStep ==
  ASSUME Inv, Next
  PROVE  QueueOK'
<1>1. QueueOK
  BY TypeParts DEF Inv
<1> DEFINE Calls == pc' \in PCs /\ queued' \in BOOLEAN
<1>2. ASSUME Calls, UNCHANGED <<timer, bounds>>
      PROVE  QueueOK'
  BY <1>1, <1>2 DEF QueueOK, bounds
<1>3. ASSUME RequeueAfter, UNCHANGED bounds
      PROVE  QueueOK'
  BY <1>1, <1>3 DEF RequeueAfter, QueueOK, bounds, PCs
<1>4. {"idle", "newRS", "canary", "stable", "counts", "abortScale", "abortMark", "verify",
       "stamp", "advance", "policy", "promoteStamp", "repoint", "scaleDown"} \subseteq PCs
  BY DEF PCs
<1>5. CASE Start \/ StartPaused \/ FoundNewRS
  <2>1. Calls /\ UNCHANGED <<timer, bounds>>
    BY <1>1, <1>4, <1>5 DEF Start, StartPaused, FoundNewRS, ReturnErr, QueueOK
  <2> QED  BY <1>2, <2>1
<1>6. CASE BumpRevision
  <2>1. Calls
    BY <1>1, <1>4, <1>6, UpdateRSQueue DEF BumpRevision
  <2> QED  BY <1>2, <1>6, <2>1 DEF BumpRevision
<1>7. CASE CreateNewRS
  <2>1. Calls /\ UNCHANGED <<timer, bounds>>
    BY <1>1, <1>4, <1>7 DEF CreateNewRS, ReturnErr, QueueOK
  <2> QED  BY <1>2, <2>1
<1>8. CASE ScaleCanary \/ ScaleStable \/ AbortScale \/ RunSetCanaryScale
  <2>1. \/ Goto("counts")
        \/ \E t, n : \E next \in {"stable", "counts", "abortMark", "advance"} :
              scaleIfNeeded(t, n, next)
    BY <1>8 DEF ScaleCanary, ScaleStable, AbortScale, RunSetCanaryScale
  <2>2. Calls
    BY <1>1, <1>4, <2>1, ScaleQueue DEF Goto, QueueOK
  <2>3. UNCHANGED <<timer, bounds>>
    BY <1>8 DEF ScaleCanary, ScaleStable, AbortScale, RunSetCanaryScale
  <2> QED  BY <1>2, <2>2, <2>3
<1>9. CASE AbortRoute \/ PromoteRoute
  <2>1. Calls
    BY <1>1, <1>4, <1>9, RouteQueue DEF AbortRoute, PromoteRoute
  <2> QED  BY <1>2, <1>9, <2>1 DEF AbortRoute, PromoteRoute
<1>10. CASE RunSetWeight
  <2>1. UNCHANGED <<timer, bounds>>
    BY <1>10 DEF RunSetWeight
  <2>2. \/ ReturnErr
        \/ \E w : \E next \in {"verify", "stamp"} : SetWeight(w, next)
    BY <1>10 DEF RunSetWeight
  <2>3. Calls
    BY <1>1, <1>4, <2>2, RouteQueue DEF ReturnErr, QueueOK
  <2> QED  BY <1>2, <2>1, <2>3
<1>11. CASE Verify
  <2>1. MaxFaults \in Nat
    BY ConstantsAssumption
  <2>2. pc' \in PCs /\ UNCHANGED <<queued, edits>> /\ timer' \in {timer, TRUE}
    BY <1>4, <1>11 DEF Verify, RequeueAfter
  <2>3. faults' = faults \/ (faults < MaxFaults /\ faults' = faults + 1)
    BY <1>11 DEF Verify
  <2>4. faults' \in 0..MaxFaults
    BY <1>1, <2>1, <2>3 DEF QueueOK
  <2> QED  BY <1>1, <2>2, <2>4 DEF QueueOK
<1>12. CASE Writing /\ ~EnterPause
  <2>1. UNCHANGED <<timer, bounds>>
    BY <1>12 DEF Writing, pushReplicaCounts, AbortMark, InitStep, Advance,
         LeavePause, RecordAnalysisRun, AnalysisPolicy, applyAnalysisInconclusive,
         RunExperiment, PromoteGated, PromoteBegin, FinalizeMark
  <2>2. CASE Write
    BY <1>1, <1>2, <2>1, <2>2, WriteQueue
  <2>3. CASE ~Write
    <3>1. pushReplicaCounts \/ AbortMark \/ PromoteGated \/ PromoteBegin \/ FinalizeMark
          \/ RecordAnalysisRun
      BY <1>12, <2>3, InitWrite, AdvancingWrite, AnalysisWrite DEF Writing
    <3>2. AfterCounts \in PCs /\ "promoteRoute" \in PCs /\ "policy" \in PCs
      BY DEF AfterCounts, PCs
    <3>3. ASSUME NEW s, NEW next \in PCs, UpdateStatus(s, next)
          PROVE  Calls
      BY <1>1, <3>3, UpdateQueue DEF UpdateStatus
    <3>4. Calls
      BY <1>1, <1>4, <3>1, <3>2, <3>3 DEF pushReplicaCounts, AbortMark, PromoteGated,
         PromoteBegin, FinalizeMark, RecordAnalysisRun, ReturnErr, QueueOK
    <3> QED  BY <1>2, <2>1, <3>4
  <2> QED  BY <2>2, <2>3
<1>13. CASE EnterPause
  <2>1. Calls
    <3>1. UpdateStatus([Paused(ro.st, "PausedStep") EXCEPT !.stepOld = FALSE], "idle")
      BY <1>13 DEF EnterPause
    <3> QED  BY <1>1, <1>4, <3>1, UpdateQueue DEF UpdateStatus
  <2>2. timer' \in BOOLEAN /\ UNCHANGED bounds
    BY <1>13 DEF EnterPause
  <2> QED  BY <1>1, <2>1, <2>2 DEF QueueOK, bounds
<1>14. CASE Stamp \/ PromoteStamp
  <2>1. PICK w \in 0..100, next \in {"advance", "repoint"} : StampWeight(w, next)
    BY <1>14, StampShape
  <2>2. Calls
    BY <1>1, <1>4, <2>1, UpdateQueue DEF StampWeight, UpdateStatus, QueueOK
  <2>3. UNCHANGED <<timer, bounds>>
    BY <2>1 DEF StampWeight
  <2> QED  BY <1>2, <2>2, <2>3
<1>15. CASE HoldPause
  BY <1>1, <1>4, <1>15 DEF HoldPause, QueueOK, bounds
<1>16. CASE CreateAnalysisRun \/ AwaitAnalysisRun \/ DeferScaleDown
  BY <1>3, <1>16 DEF CreateAnalysisRun, AwaitAnalysisRun, DeferScaleDown
<1>17. CASE RepointService \/ PruneHistory
  <2>1. Calls /\ UNCHANGED <<timer, bounds>>
    BY <1>1, <1>4, <1>17 DEF RepointService, PruneHistory, QueueOK
  <2> QED  BY <1>2, <2>1
<1>18. CASE scaleDownAfterDelay
  <2>1. Calls /\ UNCHANGED <<timer, bounds>>
    BY <1>1, <1>4, <1>18, UpdateRSQueue DEF scaleDownAfterDelay, Goto, QueueOK
  <2> QED  BY <1>2, <2>1
<1>19. CASE Sync \/ SyncRS \/ Resync \/ (\E field \in Clocks : Tick(field))
            \/ (\E n \in RunNames : Conclude(n))
  <2>1. Calls /\ UNCHANGED <<timer, bounds>>
    BY <1>1, <1>19 DEF Sync, SyncRS, Resync, Tick, Conclude, QueueOK
  <2> QED  BY <1>2, <2>1
<1>20. CASE \E t \in Tmpls : RunPods(t)
  <2>1. Calls /\ UNCHANGED <<timer, bounds>>
    BY <1>1, <1>20 DEF RunPods, EnqueueOwner, QueueOK
  <2> QED  BY <1>2, <2>1
<1>21. CASE TimerFires
  BY <1>1, <1>21 DEF TimerFires, QueueOK, bounds
<1>22. CASE Interrupt
  <2>1. MaxFaults \in Nat
    BY ConstantsAssumption
  <2> QED  BY <1>1, <1>4, <1>22, <2>1 DEF Interrupt, ReturnErr, QueueOK
<1>23. CASE UserEdit \/ ClearPause \/ MeshEdit
  <2>1. MaxEdits \in Nat /\ Lag \in BOOLEAN
    BY ConstantsAssumption
  <2>2. /\ UNCHANGED <<pc, timer, faults>> /\ edits < MaxEdits /\ edits' = edits + 1
        /\ queued' \in BOOLEAN
    BY <1>1, <1>23, <2>1 DEF UserEdit, EditSpec, ClearPause, MeshEdit, Store, QueueOK
  <2> QED  BY <1>1, <2>1, <2>2 DEF QueueOK
<1> QED  BY <1>5, <1>6, <1>7, <1>8, <1>9, <1>10, <1>11, <1>12, <1>13, <1>14, <1>15, <1>16,
            <1>17, <1>18, <1>19, <1>20, <1>21, <1>22, <1>23, NextParts
         DEF Silent, Reading

-----------------------------------------------------------------------------
(***************************************************************************)
(* Where the reconcile is.                                                 *)
(***************************************************************************)
(* The calls of which Control says nothing. *)
Plain == {"idle", "newRS", "canary", "stable", "counts", "abortRoute", "abortScale",
          "abortMark", "exec"}

LEMMA PlainControl == pc' \in Plain => Control'
BY DEF Plain, Control, InPromote

(* The copy is at the same step, and verdicts stand. *)
SameWork ==
  /\ ro'.spec = ro.spec /\ ro'.st.step = ro.st.step /\ ro'.st.podHash = ro.st.podHash
  /\ \A n \in RunNames : runs[n] \in {"Successful", "Failed", "Error"} => runs'[n] = runs[n]

LEMMA SameWorkFacts ==
  ASSUME SameWork
  PROVE  /\ Active(ro') = Active(ro) /\ Step(ro') = Step(ro)
         /\ analysisRunName(ro') = analysisRunName(ro)
BY DEF SameWork, Active, Step, Index, analysisRunName

LEMMA RunNameType ==
  ASSUME CopiesOK, Active(ro) # {}
  PROVE  analysisRunName(ro) \in RunNames
<1>1. ro.st.step \in StepNames
  BY ActiveStep DEF CopiesOK, StepType
<1> QED  BY <1>1 DEF analysisRunName, RunNames, CopiesOK, ObjType, StatusType

LEMMA SameControl ==
  ASSUME CopiesOK, Control, SameWork, pc' = pc
  PROVE  Control'
<1>1. /\ Active(ro') = Active(ro) /\ Step(ro') = Step(ro)
      /\ analysisRunName(ro') = analysisRunName(ro)
  BY SameWorkFacts
<1>2. pc = "policy" => runs'[analysisRunName(ro)] = runs[analysisRunName(ro)]
  BY RunNameType DEF Control, SameWork, RunPhase
<1> QED  BY <1>1, <1>2 DEF Control, SameWork, RunPhase

(* A step from one call of a handler to the next. *)
LEMMA HandlerControl ==
  ASSUME SameWork, Active(ro) # {},
         \/ pc' \in {"verify", "stamp"} /\ Step(ro).kind = "setWeight"
         \/ pc' \in InPromote /\ Step(ro).kind = "promote"
         \/ /\ pc' = "advance"
            /\ Step(ro).kind \in {"setWeight", "setCanaryScale", "promote"}
         \/ /\ pc' = "policy" /\ Step(ro).kind = "analysis"
            /\ runs'[analysisRunName(ro)] \in {"Successful", "Failed", "Error"}
  PROVE  Control'
<1>1. /\ Active(ro') = Active(ro) /\ Step(ro') = Step(ro)
      /\ analysisRunName(ro') = analysisRunName(ro)
  BY SameWorkFacts
<1> QED  BY <1>1 DEF Control, InPromote, RunPhase

(* Where an Update leaves the reconcile. *)
LEMMA UpdatePC ==
  ASSUME NEW o, NEW next, Update(o, next)
  PROVE  pc' \in {next, "idle"}
BY DEF Update, ReturnErr

LEMMA UpdateRSPC ==
  ASSUME NEW t, NEW r, NEW next, UpdateRS(t, r, next)
  PROVE  pc' \in {next, "idle"}
BY DEF UpdateRS, ReturnErr

LEMMA ScalePC ==
  ASSUME NEW t, NEW n, NEW next, scaleIfNeeded(t, n, next)
  PROVE  pc' \in {next, "idle"}
BY UpdateRSPC DEF scaleIfNeeded, Goto, ScaleReplicaSet

LEMMA ControlStep ==
  ASSUME Inv, Next
  PROVE  Control'
<1>1. CopiesOK /\ OutsideOK /\ Control
  BY TypeParts DEF Inv
<1>2. ASSUME ro' = ro, runs' = runs PROVE SameWork
  BY <1>2 DEF SameWork
<1>3. "idle" \in Plain /\ {"newRS", "canary", "stable", "counts", "abortScale", "abortMark"} \subseteq Plain
  BY DEF Plain
<1>4. CASE Start \/ FoundNewRS \/ CreateNewRS \/ Interrupt \/ HoldPause
           \/ CreateAnalysisRun \/ AwaitAnalysisRun \/ DeferScaleDown
  <2>1. pc' \in Plain
    BY <1>3, <1>4 DEF Start, FoundNewRS, CreateNewRS, Interrupt, HoldPause, CreateAnalysisRun,
         AwaitAnalysisRun, DeferScaleDown, RequeueAfter, ReturnErr
  <2> QED  BY <2>1, PlainControl
<1>5. CASE BumpRevision \/ ScaleCanary \/ ScaleStable \/ AbortScale
  <2>1. pc' \in {"canary", "stable", "counts", "abortMark", "idle"}
    BY <1>5, UpdateRSPC, ScalePC DEF BumpRevision, ScaleCanary, ScaleStable, AbortScale, Goto
  <2> QED  BY <1>3, <2>1, PlainControl
<1>6. CASE AbortRoute
  <2>1. pc' \in {"abortScale", "idle"}
    BY <1>6 DEF AbortRoute, SetWeightIfRouted, SetWeight, ReturnErr
  <2> QED  BY <1>3, <2>1, PlainControl
<1>7. CASE pushReplicaCounts
  <2>1. pc' \in {AfterCounts, "idle"} /\ ro' = ro
    BY <1>7, UpdatePC DEF pushReplicaCounts, UpdateStatus
  <2>2. CASE pc' = "init"
    <3>1. ro.st.step = None /\ ro.spec.plan # <<>>
      BY <2>1, <2>2 DEF AfterCounts
    <3> QED  BY <2>1, <2>2, <3>1 DEF Control, InPromote
  <2>3. CASE pc' # "init"
    <3>1. pc' \in Plain
      BY <2>1, <2>3 DEF AfterCounts, Plain
    <3> QED  BY <3>1, PlainControl
  <2> QED  BY <2>2, <2>3
<1>8. CASE AbortMark \/ InitStep \/ Advance \/ EnterPause \/ LeavePause \/ AnalysisPolicy
           \/ applyAnalysisInconclusive \/ RunExperiment \/ PromoteGated \/ FinalizeMark
  <2>1. pc' = "idle"
    BY <1>8, UpdatePC DEF AbortMark, InitStep, Advance, EnterPause, LeavePause,
         AnalysisPolicy, applyAnalysisInconclusive, RunExperiment, PromoteGated, FinalizeMark,
         advanceStep, TriggerAbort, UpdateStatus
  <2> QED  BY <1>3, <2>1, PlainControl
<1>9. CASE RunSetWeight
  <2>1. pc' \in {"verify", "stamp", "idle"}
    BY <1>9 DEF RunSetWeight, SetWeight, ReturnErr
  <2>2. SameWork
    BY <1>2, <1>9 DEF RunSetWeight
  <2>3. Active(ro) # {} /\ Step(ro).kind = "setWeight"
    BY <1>9 DEF RunSetWeight, Executing
  <2> QED  BY <1>3, <2>1, <2>2, <2>3, PlainControl, HandlerControl
<1>10. CASE Verify
  <2>1. pc' \in {"stamp", "idle"}
    BY <1>10 DEF Verify, RequeueAfter
  <2>2. SameWork
    BY <1>2, <1>10 DEF Verify, outside
  <2>3. Active(ro) # {} /\ Step(ro).kind = "setWeight"
    BY <1>1, <1>10 DEF Verify, Control
  <2> QED  BY <1>3, <2>1, <2>2, <2>3, PlainControl, HandlerControl
<1>11. CASE Stamp \/ PromoteStamp
  <2>1. PICK w \in 0..100, next \in {"advance", "repoint"} :
            /\ StampWeight(w, next)
            /\ \/ pc = "stamp" /\ next = "advance"
               \/ pc = "promoteStamp" /\ next = "repoint"
    BY <1>11, StampShape
  <2>2. SameWork
    <3>1. ro'.spec = ro.spec /\ ro'.st.step = ro.st.step /\ ro'.st.podHash = ro.st.podHash
      BY <1>1, <2>1, StampCopies DEF Inv
    <3>2. runs' = runs
      BY <2>1 DEF StampWeight, outside
    <3> QED  BY <3>1, <3>2 DEF SameWork
  <2>3. pc' \in {next, "idle"}
    BY <2>1, UpdatePC DEF StampWeight, UpdateStatus
  <2>4. /\ Active(ro) # {}
        /\ \/ next = "advance" /\ Step(ro).kind = "setWeight"
           \/ next = "repoint" /\ Step(ro).kind = "promote"
    BY <1>1, <2>1 DEF Control, InPromote
  <2>5. CASE pc' = "idle"
    BY <1>3, <2>5, PlainControl
  <2>6. CASE pc' = next
    <3>1. "repoint" \in InPromote
      BY DEF InPromote
    <3> QED  BY <2>2, <2>4, <2>6, <3>1, HandlerControl
  <2> QED  BY <2>3, <2>5, <2>6
<1>12. CASE RunSetCanaryScale
  <2>1. pc' \in {"advance", "idle"}
    BY <1>12, ScalePC DEF RunSetCanaryScale
  <2>2. SameWork
    BY <1>2, <1>12 DEF RunSetCanaryScale, outside
  <2>3. Active(ro) # {} /\ Step(ro).kind = "setCanaryScale"
    BY <1>12 DEF RunSetCanaryScale, Executing
  <2> QED  BY <1>3, <2>1, <2>2, <2>3, PlainControl, HandlerControl
<1>13. CASE RecordAnalysisRun
  <2>1. pc' \in {"policy", "idle"}
    BY <1>13, UpdatePC DEF RecordAnalysisRun, UpdateStatus
  <2>2. SameWork /\ runs' = runs
    BY <1>2, <1>13 DEF RecordAnalysisRun, outside
  <2>3. /\ Active(ro) # {} /\ Step(ro).kind = "analysis"
        /\ runs[analysisRunName(ro)] \in {"Successful", "Failed", "Error"}
    BY <1>13 DEF RecordAnalysisRun, Executing, RunPhase
  <2> QED  BY <1>3, <2>1, <2>2, <2>3, PlainControl, HandlerControl
<1>14. CASE PromoteBegin
  <2>1. pc' \in {"promoteRoute", "idle"}
    BY <1>14, UpdatePC DEF PromoteBegin, UpdateStatus, ReturnErr
  <2>2. SameWork
    BY <1>2, <1>14 DEF PromoteBegin, outside
  <2>3. Active(ro) # {} /\ Step(ro).kind = "promote" /\ "promoteRoute" \in InPromote
    BY <1>14 DEF PromoteBegin, Executing, InPromote
  <2> QED  BY <1>3, <2>1, <2>2, <2>3, PlainControl, HandlerControl
<1>15. CASE PromoteRoute \/ RepointService \/ scaleDownAfterDelay
  <2>1. pc' \in {"promoteStamp", "repoint", "scaleDown", "advance", "idle"}
    BY <1>15, UpdateRSPC DEF PromoteRoute, SetWeightIfRouted, SetWeight, ReturnErr,
         RepointService, scaleDownAfterDelay, Goto
  <2>2. SameWork
    BY <1>2, <1>15 DEF PromoteRoute, RepointService, scaleDownAfterDelay, outside
  <2>3. Active(ro) # {} /\ Step(ro).kind = "promote"
    BY <1>1, <1>15 DEF PromoteRoute, RepointService, scaleDownAfterDelay, Control, InPromote
  <2>4. {"promoteStamp", "repoint", "scaleDown"} \subseteq InPromote
    BY DEF InPromote
  <2> QED  BY <1>3, <2>1, <2>2, <2>3, <2>4, PlainControl, HandlerControl
<1>16. CASE StartPaused \/ PruneHistory \/ SyncRS \/ Sync \/ TimerFires \/ Resync
            \/ UserEdit \/ ClearPause \/ MeshEdit \/ \E t \in Tmpls : RunPods(t)
  <2>1. pc' = pc /\ ro' = ro /\ runs' = runs
    BY <1>16 DEF StartPaused, PruneHistory, SyncRS, Sync, TimerFires, Resync, UserEdit,
         EditSpec, ClearPause, MeshEdit, RunPods, outside
  <2> QED  BY <1>1, <1>2, <2>1, SameControl
<1>17. CASE \E n \in RunNames : Conclude(n)
  <2>1. PICK n \in RunNames : Conclude(n)
    BY <1>17
  <2>2. pc' = pc /\ ro' = ro
    BY <2>1 DEF Conclude
  <2>3. \A m \in RunNames : m # n => runs'[m] = runs[m]
    BY <1>1, <2>1 DEF Conclude, OutsideOK
  <2>4. runs[n] = "Running"
    BY <2>1 DEF Conclude
  <2>5. SameWork
    BY <2>2, <2>3, <2>4 DEF SameWork
  <2> QED  BY <1>1, <2>2, <2>5, SameControl
<1>18. CASE \E field \in Clocks : Tick(field)
  <2>1. PICK field \in Clocks : Tick(field)
    BY <1>18
  <2>2. pc' = pc /\ ro' = Aged(ro, field) /\ runs' = runs
    BY <2>1 DEF Tick, outside
  <2>3. SameWork
    BY <1>1, <2>2, AgedObj DEF SameWork, CopiesOK
  <2> QED  BY <1>1, <2>2, <2>3, SameControl
<1> QED  BY <1>4, <1>5, <1>6, <1>7, <1>8, <1>9, <1>10, <1>11, <1>12, <1>13, <1>14, <1>15,
            <1>16, <1>17, <1>18, NextParts
         DEF Silent, Writing, Reading

-----------------------------------------------------------------------------
(***************************************************************************)
(* The invariant and what follows.                                         *)
(***************************************************************************)
LEMMA InvInit == Init => Inv
<1> SUFFICES ASSUME Init PROVE Inv
  OBVIOUS
<1>1. NewStatus \in StatusType
  BY DEF NewStatus, StatusType, Phases, PauseReasons
<1>2. obj \in ObjType
  <2> DEFINE first == [tmpl |-> FirstTmpl, replicas |-> FirstSize, paused |-> FALSE,
                       abort |-> FALSE, plan |-> FirstPlan]
  <2>1. first \in SpecType
    BY ConstantsAssumption DEF SpecType
  <2>2. obj = [spec |-> first, st |-> NewStatus]
    BY DEF Init
  <2> HIDE DEF first
  <2> QED  BY <1>1, <2>1, <2>2 DEF ObjType
<1>3. CopiesOK /\ Snapshot
  BY <1>2 DEF Init, CopiesOK, Snapshot
<1>4. NoRS \in RSType /\ MaxRev \in Nat
  BY ConstantsAssumption DEF NoRS, RSType, Owners
<1>5. SetsOK
  BY <1>4 DEF Init, SetsOK
<1>6. OutsideOK
  BY DEF Init, OutsideOK, RunPhases
<1>7. QueueOK
  <2>1. MaxEdits \in Nat /\ MaxFaults \in Nat /\ "idle" \in PCs
    BY ConstantsAssumption DEF PCs
  <2>2. /\ pc = "idle" /\ queued = TRUE /\ timer = FALSE
        /\ edits = 0 /\ faults = 0
    BY DEF Init
  <2>3. edits \in 0..MaxEdits /\ faults \in 0..MaxFaults
    BY <2>1, <2>2
  <2>4. queued \in BOOLEAN /\ timer \in BOOLEAN
    BY <2>2
  <2> QED  BY <2>1, <2>2, <2>3, <2>4, Zenon DEF QueueOK
<1>8. Control
  BY DEF Init, Control, InPromote
<1> QED  BY <1>3, <1>5, <1>6, <1>7, <1>8, TypeParts DEF Inv

LEMMA InvStep == Inv /\ [Next]_vars => Inv'
<1>1. ASSUME Inv, Next PROVE Inv'
  <2>1. CopiesOK' /\ Snapshot' /\ SetsOK' /\ OutsideOK' /\ QueueOK' /\ Control'
    BY <1>1, CopiesStep, SetsStep, OutsideStep, QueueStep, ControlStep
  <2>2. TypeOK'
    BY <2>1, TypeParts, PTL
  <2> QED  BY <2>1, <2>2 DEF Inv
<1>2. ASSUME Inv, UNCHANGED vars PROVE Inv'
  <2>1. UNCHANGED <<rolloutVars, ro, rsVars, outside, pc, queued, timer, bounds>>
    BY <1>2 DEF vars
  <2>2. TypeOK'
    BY <1>2, <2>1 DEF Inv, TypeOK, rolloutVars, rsVars, outside, bounds
  <2>3. Snapshot' /\ Control'
    BY <1>2, <2>1 DEF Inv, Snapshot, Control, RunPhase, rolloutVars, outside
  <2> QED  BY <2>2, <2>3 DEF Inv
<1> QED  BY <1>1, <1>2

(* Types, snapshots and control, of every behaviour of the system. *)
THEOREM InvHolds == SafetySpec => []Inv
BY InvInit, InvStep, PTL DEF SafetySpec

(* Every variable keeps its type, for every instance. *)
THEOREM Typed == SafetySpec => []TypeOK
<1>1. Inv => TypeOK
  BY DEF Inv
<1> QED  BY <1>1, InvHolds, PTL

(* A step of the system either leaves the step in progress alone or was    *)
(* written from a copy that is the object, past an open gate.              *)
LEMMA StepChange ==
  ASSUME Inv, Next, obj'.st.step # obj.st.step
  PROVE  /\ roCur /\ ro = obj /\ obj'.spec = obj.spec
         /\ \/ obj.st.step = None /\ obj'.st.step = Plan[1].name
            \/ \E i \in Active(obj) :
                 /\ obj'.st.step = IF i = Len(Plan) THEN None ELSE Plan[i + 1].name
                 /\ GateOpen(i)
<1>1. CopiesOK /\ Snapshot
  BY TypeParts DEF Inv
<1>2. CASE Writing
  <2>1. obj' # obj
    OBVIOUS
  <2>2. Write
    BY <1>2, <2>1, WritingShape DEF rolloutVars
  <2>3. PICK o \in ObjType, next \in PCs : Update(o, next) /\ InOrder(o)
    BY <2>2 DEF Write
  <2>4. roCur /\ obj' = o
    BY <2>1, <2>3 DEF Update, Store, rolloutVars
  <2>5. ro = obj
    BY <1>1, <2>4 DEF Snapshot
  <2> QED  BY <2>3, <2>4, <2>5 DEF InOrder, Plan
<1>3. CASE Silent
  BY <1>3, SilentShape DEF rolloutVars
<1>4. CASE Stamp \/ PromoteStamp
  BY <1>1, <1>4, StampShape, StampCopies
<1>5. CASE UserEdit \/ ClearPause
  BY <1>1, <1>5, EditShape DEF Store, Edited
<1>6. CASE Start \/ Sync
  BY <1>6 DEF Start, Sync
<1>7. CASE \E field \in Clocks : Tick(field)
  BY <1>1, <1>7, AgedObj DEF Tick, CopiesOK
<1> QED  BY <1>2, <1>3, <1>4, <1>5, <1>6, <1>7, NextParts DEF Reading

(* The progression is walked one step at a time and in order, whatever     *)
(* fails, restarts, lags or is edited.                                     *)
THEOREM WalkedInOrder == SafetySpec => StepsInOrder
<1> DEFINE A == obj'.st.step # obj.st.step =>
                  /\ obj'.spec = obj.spec
                  /\ \/ obj.st.step = None /\ obj'.st.step = Plan[1].name
                     \/ \E i \in Active(obj) :
                          obj'.st.step = IF i = Len(Plan) THEN None ELSE Plan[i + 1].name
<1>1. Inv /\ [Next]_vars => [A]_vars
  <2> SUFFICES ASSUME Inv, Next PROVE A
    OBVIOUS
  <2> QED  BY StepChange
<1> QED  BY <1>1, InvHolds, PTL DEF SafetySpec, StepsInOrder

(* Step names are unique in a plan. *)
LEMMA OneActive ==
  ASSUME NEW o \in ObjType, NEW i \in Active(o), NEW j \in Active(o)
  PROVE  i = j
<1>1. o.spec.plan \in Plans
  BY DEF ObjType, SpecType
<1>2. i \in DOMAIN o.spec.plan /\ j \in DOMAIN o.spec.plan
      /\ o.spec.plan[i].name = o.spec.plan[j].name
  BY DEF Active
<1>3. \A p \in Plans : \A a, b \in DOMAIN p : p[a].name = p[b].name => a = b
  BY ConstantsAssumption
<1> QED  BY <1>1, <1>2, <1>3

(* A pause or an analysis is left only through its gate, whatever fails,   *)
(* restarts, lags or is edited.                                            *)
THEOREM GatesAreHeld == SafetySpec => GatesHold
<1> DEFINE Gate(i) ==
             /\ Plan[i].kind = "pause" =>
                  IF Plan[i].timed THEN obj.st.pauseOld
                  ELSE obj.st.phase = "Paused" /\ obj.st.pause = None
             /\ Plan[i].kind = "analysis" =>
                  LET v == runs[analysisRunName(obj)]
                  IN  \/ v = "Successful"
                      \/ v \in {"Failed", "Error"} /\ Plan[i].onFailure = "Ignore"
                      \/ v = "Inconclusive" /\ Plan[i].onInconclusive = "Ignore"
           A == \A i \in Active(obj) : Leaves(i) => Gate(i)
<1>1. Inv /\ [Next]_vars => [A]_vars
  <2> SUFFICES ASSUME Inv, Next, NEW i \in Active(obj), Leaves(i)
               PROVE  Gate(i)
    OBVIOUS
  <2>1. CopiesOK
    BY TypeParts DEF Inv
  <2>2. obj'.st.step # obj.st.step
    BY DEF Leaves
  <2>3. obj.st.step # None
    <3>1. Active(obj) # {} /\ obj \in ObjType
      BY <2>1 DEF CopiesOK
    <3>2. obj.st.step \in StepNames
      BY <3>1, ActiveStep DEF StepType
    <3> QED  BY <3>2, ConstantsAssumption
  <2>4. ro = obj /\ \E j \in Active(obj) : GateOpen(j)
    BY <2>2, <2>3, StepChange
  <2>5. PICK j \in Active(obj) : GateOpen(j)
    BY <2>4
  <2>6. i = j
    BY <2>1, OneActive DEF CopiesOK
  <2> QED  BY <2>4, <2>5, <2>6 DEF GateOpen, RunPhase, Plan
<1> QED  BY <1>1, InvHolds, PTL DEF SafetySpec, GatesHold
=============================================================================
