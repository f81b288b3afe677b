------------------------- MODULE AnalysisRunProofs --------------------------
(***************************************************************************)
(* The AnalysisRun controller for every list of metrics.  The argument     *)
(* rests on one fact: a copy that carries the current resourceVersion is   *)
(* the object, so the sweep whose write is accepted was computed from what *)
(* it replaces.                                                            *)
(***************************************************************************)
EXTENDS AnalysisRun, MathLemmas

Results == [N -> ResultType]
Copies == {run, seen, mine}

(* A copy with the current resourceVersion is the object. *)
Snapshot == (seenCur => seen = run) /\ (mineCur => mine = run)

(* No two metrics have the same name. *)
DistinctNames == \A i, j \in N : Metrics[i].name = Metrics[j].name => i = j

(* The results are of the metrics in their places, and no metric is        *)
(* Inconclusive.                                                           *)
Placed(s) ==
  \A i \in DOMAIN s : s[i].name = Metrics[i].name /\ s[i].phase # "Inconclusive"

(* A verdict agrees with the results it was derived from. *)
Sound(r) ==
  /\ Placed(r.results)
  /\ r.phase # "Inconclusive"
  /\ r.phase = "Successful" =>
       /\ r.results \in Results
       /\ \A i \in N : Metrics[i].name \notin DryRun => r.results[i].phase = "Successful"
  /\ r.phase \in {"Failed", "Error"} /\ ~r.terminate =>
       \E i \in DOMAIN r.results :
          Metrics[i].name \notin DryRun /\ r.results[i].phase = r.phase

Base == TypeOK /\ Snapshot /\ Sound(run) /\ Sound(seen) /\ Sound(mine)

-----------------------------------------------------------------------------
(* The indices of the metrics. *)
LEMMA MetricIndices ==
  /\ Len(Metrics) \in Nat /\ N = 1..Len(Metrics)
  /\ \A i \in N : Metrics[i] \in MetricType
BY MetricsAssumption DEF N

LEMMA NewResultType ==
  ASSUME NEW i \in N
  PROVE  /\ NewResult(i) \in ResultType /\ NewResult(i).name = Metrics[i].name
         /\ NewResult(i).phase = "Pending" /\ NewResult(i).ok = 0 /\ NewResult(i).bad = 0
BY MetricIndices, MetricsAssumption DEF NewResult, ResultType, MetricType

(* ensureMetricResults gives every metric a result of its name. *)
LEMMA EnsureType ==
  ASSUME NEW old \in {<<>>} \cup Results, Placed(old)
  PROVE  ensureMetricResults(old) \in Results /\ Placed(ensureMetricResults(old))
<1> DEFINE same(i) == {j \in DOMAIN old : old[j].name = Metrics[i].name}
           pick(i) == CHOOSE j \in same(i) : \A k \in same(i) : k <= j
           res(i) == IF same(i) = {} THEN NewResult(i) ELSE old[pick(i)]
<1>1. DOMAIN old \subseteq N /\ \A j \in DOMAIN old : old[j] \in ResultType
  <2>1. CASE old = <<>>
    BY <2>1
  <2>2. CASE old \in Results
    BY <2>2 DEF Results
  <2> QED  BY <2>1, <2>2
<1>2. ASSUME NEW i \in N, same(i) # {}
      PROVE  pick(i) \in same(i)
  <2>1. same(i) \subseteq 0..Len(Metrics) /\ Len(Metrics) \in Nat
    BY <1>1, MetricIndices
  <2>2. \E m \in same(i) : \A x \in same(i) : x <= m
    BY <1>2, <2>1, GreatestExists
  <2> QED  BY <2>2
<1>3. ASSUME NEW i \in N
      PROVE  /\ res(i) \in ResultType /\ res(i).name = Metrics[i].name
             /\ res(i).phase # "Inconclusive"
  <2>1. CASE same(i) = {}
    BY <2>1, NewResultType
  <2>2. CASE same(i) # {}
    <3>1. pick(i) \in DOMAIN old /\ old[pick(i)].name = Metrics[i].name
      BY <1>2, <2>2
    <3>2. res(i) = old[pick(i)]
      BY <2>2
    <3> HIDE DEF pick, same, res
    <3> QED  BY <1>1, <3>1, <3>2 DEF Placed
  <2> QED  BY <2>1, <2>2
<1>4. ensureMetricResults(old) = [i \in N |-> res(i)]
  BY DEF ensureMetricResults
<1> HIDE DEF res
<1> QED  BY <1>3, <1>4 DEF Results, Placed

(* derivePerMetricPhase, by cases. *)
LEMMA DeriveFacts ==
  ASSUME NEW i \in N, NEW r \in ResultType
  PROVE  LET p == derivePerMetricPhase(Metrics[i], r)
         IN  /\ p \in {"Error", "Failed", "Successful", "Running"}
             /\ p = "Successful" => r.bad = 0 /\ r.ok >= Metrics[i].count
<1>1. /\ Metrics[i].count \in Nat \cup {NoCount} /\ Metrics[i].failureLimit \in Nat
      /\ Metrics[i].errorLimit \in Nat
  BY MetricIndices DEF MetricType
<1>2. r.ok \in Nat /\ r.bad \in Nat /\ r.streak \in Nat
  BY MetricsAssumption DEF ResultType
<1> QED  BY <1>1, <1>2 DEF derivePerMetricPhase, NoCount

(* A sample keeps the result's name and decides nothing Inconclusive. *)
LEMMA SampleFacts ==
  ASSUME NEW i \in N, NEW r \in ResultType, NEW a
  PROVE  LET s == sampleMetric(i, r, a)
         IN  /\ s \in ResultType /\ s.name = r.name /\ s.phase # "Inconclusive"
             /\ s.phase = "Successful" => s.bad = 0 /\ s.ok >= Metrics[i].count
             /\ s.ok - r.ok \in Nat /\ s.bad - r.bad \in Nat
<1> DEFINE o == measured(Metrics[i], a)
           ok == IF o = "ok" /\ r.ok < MaxOk THEN r.ok + 1 ELSE r.ok
           bad == IF o = "bad" THEN r.bad + 1 ELSE r.bad
           streak == IF o = "error" THEN r.streak + 1 ELSE 0
           s == [r EXCEPT !.ok = ok, !.bad = bad, !.streak = streak, !.due = FALSE]
           p == derivePerMetricPhase(Metrics[i], s)
<1>1. /\ s \in ResultType /\ s.name = r.name
      /\ s.ok - r.ok \in Nat /\ s.bad - r.bad \in Nat
  <2>1. r.ok \in 0..MaxOk /\ r.bad \in Nat /\ r.streak \in Nat /\ MaxOk \in Nat
    BY MetricsAssumption DEF ResultType
  <2>2. /\ ok \in 0..MaxOk /\ ok - r.ok \in Nat
        /\ bad \in Nat /\ bad - r.bad \in Nat /\ streak \in Nat
    BY <2>1
  <2> HIDE DEF ok, bad, streak
  <2> QED  BY <2>2 DEF ResultType
<1>2. sampleMetric(i, r, a) = [s EXCEPT !.phase = p]
  BY DEF sampleMetric
<1> HIDE DEF s
<1>3. /\ p \in {"Error", "Failed", "Successful", "Running"}
      /\ p = "Successful" => s.bad = 0 /\ s.ok >= Metrics[i].count
  BY <1>1, DeriveFacts
<1> HIDE DEF p
<1> QED  BY <1>1, <1>2, <1>3 DEF ResultType, Ended

(* A sweep keeps the results in their places. *)
LEMMA SweptFacts ==
  ASSUME NEW before \in Results, Placed(before), NEW a
  PROVE  LET after == Swept(before, a)
         IN  /\ after \in Results /\ Placed(after)
             /\ \A i \in N : after[i].ok - before[i].ok \in Nat /\ after[i].bad - before[i].bad \in Nat
<1> DEFINE res(i) == IF isMetricDue(before[i]) THEN sampleMetric(i, before[i], a[i])
                     ELSE before[i]
<1>1. ASSUME NEW i \in N
      PROVE  /\ res(i) \in ResultType /\ res(i).name = Metrics[i].name
             /\ res(i).phase # "Inconclusive"
             /\ res(i).ok - before[i].ok \in Nat /\ res(i).bad - before[i].bad \in Nat
  <2>1. /\ before[i] \in ResultType /\ before[i].name = Metrics[i].name
        /\ before[i].phase # "Inconclusive"
    BY DEF Results, Placed
  <2>2. CASE isMetricDue(before[i])
    <3>1. res(i) = sampleMetric(i, before[i], a[i])
      BY <2>2
    <3> QED  BY <2>1, <3>1, SampleFacts
  <2>3. CASE ~isMetricDue(before[i])
    <3>1. res(i) = before[i]
      BY <2>3
    <3> QED  BY <2>1, <3>1, MetricsAssumption DEF ResultType
  <2> QED  BY <2>2, <2>3
<1>2. Swept(before, a) = [i \in N |-> res(i)]
  BY DEF Swept
<1> HIDE DEF res
<1> QED  BY <1>1, <1>2 DEF Results, Placed

(* The run's phase, from results none of which is Inconclusive. *)
LEMMA AggregateFacts ==
  ASSUME NEW s \in Results, Placed(s)
  PROVE  LET p == aggregatePhase(s)
         IN  /\ p \in {"Running", "Successful", "Failed", "Error"}
             /\ p = "Successful" =>
                  \A i \in N : Metrics[i].name \notin DryRun => s[i].phase = "Successful"
             /\ p \in {"Failed", "Error"} =>
                  \E i \in N : Metrics[i].name \notin DryRun /\ s[i].phase = p
<1> DEFINE failed == {i \in DOMAIN s : s[i].phase \in {"Failed", "Error"} /\ s[i].name \notin DryRun}
           open == {i \in DOMAIN s : s[i].phase \in {"Pending", "Running"}}
           unclear == {i \in DOMAIN s : s[i].phase = "Inconclusive"}
           first == CHOOSE i \in failed : \A j \in failed : i <= j
<1>1. DOMAIN s = N /\ \A i \in N : s[i].phase \in {"Pending", "Running"} \cup Ended
  BY DEF Results, ResultType
<1>2. aggregatePhase(s) = IF failed # {} THEN s[first].phase
                          ELSE IF open # {} THEN "Running"
                          ELSE IF unclear # {} THEN "Inconclusive" ELSE "Successful"
  BY DEF aggregatePhase
<1>3. unclear = {}
  BY DEF Placed
<1>4. CASE failed # {}
  <2>1. failed \subseteq Nat
    BY <1>1, MetricIndices
  <2>2. \E m \in failed : \A x \in failed : m <= x
    BY <1>4, <2>1, LeastExists
  <2>3. first \in failed
    BY <2>2
  <2> HIDE DEF first
  <2>4. first \in N /\ s[first].phase \in {"Failed", "Error"} /\ Metrics[first].name \notin DryRun
    BY <1>1, <2>3 DEF Placed
  <2>5. aggregatePhase(s) = s[first].phase
    BY <1>2, <1>4
  <2> QED  BY <2>4, <2>5
<1>5. CASE failed = {} /\ open # {}
  <2>1. aggregatePhase(s) = "Running"
    BY <1>2, <1>5
  <2> QED  BY <2>1
<1>6. CASE failed = {} /\ open = {}
  <2>1. aggregatePhase(s) = "Successful"
    BY <1>2, <1>3, <1>6
  <2>2. ASSUME NEW i \in N, Metrics[i].name \notin DryRun
        PROVE  s[i].phase = "Successful"
    <3>1. i \notin failed /\ i \notin open /\ i \notin unclear
      BY <1>3, <1>6
    <3>2. s[i].name = Metrics[i].name
      BY <1>1 DEF Placed
    <3> QED  BY <1>1, <2>2, <3>1, <3>2 DEF Ended
  <2> QED  BY <2>1, <2>2
<1> QED  BY <1>4, <1>5, <1>6

-----------------------------------------------------------------------------
(***************************************************************************)
(* The records the actions write.                                          *)
(***************************************************************************)
(* What a sweep writes, computed from copy r. *)
SweepOf(r, a) ==
  LET after == Swept(ensureMetricResults(r.results), a)
  IN  [r EXCEPT !.results = after, !.phase = aggregatePhase(after)]

LEMMA SweepOfFacts ==
  ASSUME NEW r \in RunType, Sound(r), NEW a
  PROVE  /\ SweepOf(r, a) \in RunType /\ Sound(SweepOf(r, a))
         /\ SweepOf(r, a).terminate = r.terminate
<1> DEFINE before == ensureMetricResults(r.results)
           after == Swept(before, a)
           p == aggregatePhase(after)
<1>1. r.results \in {<<>>} \cup Results /\ Placed(r.results)
  BY DEF RunType, Results, Sound
<1>2. before \in Results /\ Placed(before)
  BY <1>1, EnsureType
<1> HIDE DEF before
<1>3. after \in Results /\ Placed(after)
  BY <1>2, SweptFacts
<1> HIDE DEF after
<1>4. /\ p \in {"Running", "Successful", "Failed", "Error"}
      /\ p = "Successful" =>
           \A i \in N : Metrics[i].name \notin DryRun => after[i].phase = "Successful"
      /\ p \in {"Failed", "Error"} =>
           \E i \in N : Metrics[i].name \notin DryRun /\ after[i].phase = p
  BY <1>3, AggregateFacts
<1> HIDE DEF p
<1>5. SweepOf(r, a) = [r EXCEPT !.results = after, !.phase = p]
  BY DEF SweepOf, before, after, p
<1> DEFINE new == [r EXCEPT !.results = after, !.phase = p]
<1>6. /\ new \in RunType /\ new.results = after /\ new.phase = p
      /\ new.terminate = r.terminate
  BY <1>3, <1>4 DEF RunType, Results, Ended
<1> HIDE DEF new
<1>7. DOMAIN after = N
  BY <1>3 DEF Results
<1>8. Sound(new)
  BY <1>3, <1>4, <1>6, <1>7 DEF Sound
<1> QED  BY <1>5, <1>6, <1>8 DEF new

LEMMA TerminatedFacts ==
  ASSUME NEW r \in RunType, Sound(r), r.terminate
  PROVE  LET t == [r EXCEPT !.phase = "Failed"]
         IN  t \in RunType /\ Sound(t)
BY DEF RunType, Sound, Ended

LEMMA SetTerminateFacts ==
  ASSUME NEW r \in RunType, Sound(r)
  PROVE  LET t == [r EXCEPT !.terminate = TRUE]
         IN  t \in RunType /\ Sound(t)
BY DEF RunType, Sound, Ended

LEMMA AgedFacts ==
  ASSUME NEW r \in RunType, Sound(r)
  PROVE  /\ Aged(r) \in RunType /\ Sound(Aged(r))
         /\ Aged(r).phase = r.phase /\ Aged(r).terminate = r.terminate
         /\ DOMAIN Aged(r).results = DOMAIN r.results
         /\ \A i \in DOMAIN r.results :
              Aged(r).results[i] = [r.results[i] EXCEPT !.due = TRUE]
<1> DEFINE old == r.results
           new == [i \in DOMAIN old |-> [old[i] EXCEPT !.due = TRUE]]
<1>1. old \in {<<>>} \cup Results
  BY DEF RunType, Results
<1>2. \A i \in DOMAIN old : old[i] \in ResultType
  <2>1. CASE old = <<>>
    BY <2>1
  <2>2. CASE old \in Results
    BY <2>2 DEF Results
  <2> QED  BY <1>1, <2>1, <2>2
<1>3. new \in {<<>>} \cup Results /\ (old \in Results => new \in Results)
  <2>1. CASE old = <<>>
    <3>1. DOMAIN old = {} /\ DOMAIN new = {}
      BY <2>1
    <3>2. new = <<>>
      BY <3>1
    <3> QED  BY <2>1, <3>2
  <2>2. CASE old \in Results
    BY <1>2, <2>2 DEF Results, ResultType
  <2> QED  BY <1>1, <2>1, <2>2
<1>4. \A i \in DOMAIN old : /\ new[i].name = old[i].name /\ new[i].phase = old[i].phase
  BY <1>2 DEF ResultType
<1>5. Aged(r) = [r EXCEPT !.results = new]
  BY DEF Aged
<1>6. DOMAIN new = DOMAIN old /\ \A i \in DOMAIN old : new[i] = [old[i] EXCEPT !.due = TRUE]
  OBVIOUS
<1> HIDE DEF new
<1>7. /\ Aged(r) \in RunType /\ Aged(r).results = new
      /\ Aged(r).phase = r.phase /\ Aged(r).terminate = r.terminate
  BY <1>3, <1>5 DEF RunType, Results
<1>8. Sound(Aged(r))
  <2>1. Placed(new)
    BY <1>4, <1>6 DEF Sound, Placed
  <2>2. r.phase = "Successful" =>
          \A i \in N : Metrics[i].name \notin DryRun => new[i].phase = "Successful"
    BY <1>4 DEF Sound, Results
  <2>3. r.phase \in {"Failed", "Error"} /\ ~r.terminate =>
          \E i \in DOMAIN new : Metrics[i].name \notin DryRun /\ new[i].phase = r.phase
    BY <1>4, <1>6 DEF Sound
  <2> QED  BY <1>3, <1>7, <2>1, <2>2, <2>3 DEF Sound
<1> QED  BY <1>6, <1>7, <1>8

-----------------------------------------------------------------------------
(***************************************************************************)
(* Base is inductive.                                                      *)
(***************************************************************************)
LEMMA BaseInit == Init => Base
<1> SUFFICES ASSUME Init PROVE Base
  OBVIOUS
<1>1. NewRun \in RunType /\ Sound(NewRun)
  BY DEF NewRun, RunType, Sound, Placed
<1>2. taken \in [N -> [ok: Nat, bad: Nat]] /\ faults \in 0..MaxFaults
  BY MetricsAssumption DEF Init
<1>3. run = NewRun /\ seen = NewRun /\ mine = NewRun
  BY DEF Init
<1>4. {seenCur, mineCur, busy, queued, timer} \subseteq BOOLEAN /\ Snapshot
  BY DEF Init, Snapshot
<1> QED  BY <1>1, <1>2, <1>3, <1>4 DEF Base, TypeOK

(* A write of a typed and sound record keeps Base for the copies. *)
CopiesOK ==
  /\ run \in RunType /\ seen \in RunType /\ mine \in RunType
  /\ seenCur \in BOOLEAN /\ mineCur \in BOOLEAN
  /\ Snapshot /\ Sound(run) /\ Sound(seen) /\ Sound(mine)

RestOK ==
  /\ busy \in BOOLEAN /\ queued \in BOOLEAN /\ timer \in BOOLEAN
  /\ taken \in [N -> [ok: Nat, bad: Nat]]
  /\ faults \in 0..MaxFaults

LEMMA BaseParts == Base <=> CopiesOK /\ RestOK
BY DEF Base, CopiesOK, RestOK, TypeOK

LEMMA UpdateStatusKeeps ==
  ASSUME CopiesOK, queued \in BOOLEAN,
         NEW new \in RunType, Sound(new), UpdateStatus(new), mine' = mine
  PROVE  CopiesOK' /\ queued' \in BOOLEAN
<1>1. CASE mineCur /\ new # run /\ Store(new) /\ UNCHANGED queued
  BY <1>1 DEF CopiesOK, Snapshot, Store, Sound
<1>2. CASE mineCur /\ new = run /\ UNCHANGED <<run, seen, seenCur, mineCur, queued>>
  BY <1>2 DEF CopiesOK, Snapshot, Sound
<1>3. CASE ~mineCur /\ queued' = TRUE /\ UNCHANGED <<run, seen, seenCur, mineCur>>
  BY <1>3 DEF CopiesOK, Snapshot, Sound
<1> QED  BY <1>1, <1>2, <1>3 DEF UpdateStatus

LEMMA CountedType ==
  ASSUME taken \in [N -> [ok: Nat, bad: Nat]], NEW before, NEW after,
         \A i \in N : after[i].ok - before[i].ok \in Nat /\ after[i].bad - before[i].bad \in Nat,
         before \in Results, after \in Results
  PROVE  Counted(before, after) \in [N -> [ok: Nat, bad: Nat]]
<1>1. ASSUME NEW i \in N
      PROVE  /\ taken[i].ok + after[i].ok - before[i].ok \in Nat
             /\ taken[i].bad + after[i].bad - before[i].bad \in Nat
  <2>1. /\ taken[i].ok \in Nat /\ taken[i].bad \in Nat
        /\ before[i].ok \in Nat /\ before[i].bad \in Nat
        /\ after[i].ok \in Nat /\ after[i].bad \in Nat
    BY MetricsAssumption DEF Results, ResultType
  <2> QED  BY <2>1
<1> QED  BY <1>1 DEF Counted

(* What a Sweep does, in terms of SweepOf. *)
LEMMA SweepShape ==
  ASSUME Sweep
  PROVE  \E a \in [N -> Answers] :
           /\ UpdateStatus(SweepOf(mine, a))
           /\ taken' = IF run' = run THEN taken
                       ELSE Counted(ensureMetricResults(mine.results),
                                    Swept(ensureMetricResults(mine.results), a))
           /\ timer' = (timer \/ (mineCur /\ ~isTerminalPhase(SweepOf(mine, a).phase)))
BY DEF Sweep, SweepOf

LEMMA SweepKeeps == Base /\ Sweep => Base'
<1> SUFFICES ASSUME Base, Sweep PROVE Base'
  OBVIOUS
<1>1. CopiesOK /\ RestOK
  BY BaseParts
<1>2. PICK a \in [N -> Answers] :
         /\ UpdateStatus(SweepOf(mine, a))
         /\ taken' = IF run' = run THEN taken
                     ELSE Counted(ensureMetricResults(mine.results),
                                  Swept(ensureMetricResults(mine.results), a))
         /\ timer' = (timer \/ (mineCur /\ ~isTerminalPhase(SweepOf(mine, a).phase)))
  BY SweepShape
<1>3. busy' = FALSE /\ mine' = mine /\ faults' = faults
  BY DEF Sweep
<1>4. SweepOf(mine, a) \in RunType /\ Sound(SweepOf(mine, a))
  BY <1>1, SweepOfFacts DEF CopiesOK
<1>5. CopiesOK' /\ queued' \in BOOLEAN
  BY <1>1, <1>2, <1>3, <1>4, UpdateStatusKeeps DEF RestOK
<1>6. taken' \in [N -> [ok: Nat, bad: Nat]]
  <2> DEFINE before == ensureMetricResults(mine.results)
             after == Swept(before, a)
  <2>1. before \in Results /\ Placed(before)
    BY <1>1, EnsureType DEF CopiesOK, RunType, Sound, Results
  <2> HIDE DEF before
  <2>2. /\ after \in Results
        /\ \A i \in N : after[i].ok - before[i].ok \in Nat /\ after[i].bad - before[i].bad \in Nat
    BY <2>1, SweptFacts
  <2> HIDE DEF after
  <2>3. Counted(before, after) \in [N -> [ok: Nat, bad: Nat]]
    BY <1>1, <2>1, <2>2, CountedType DEF RestOK
  <2>4. taken' = IF run' = run THEN taken ELSE Counted(before, after)
    BY <1>2 DEF before, after
  <2> QED  BY <1>1, <2>3, <2>4 DEF RestOK
<1>7. timer' \in BOOLEAN
  BY <1>2
<1>8. RestOK'
  BY <1>1, <1>3, <1>5, <1>6, <1>7 DEF RestOK
<1> QED  BY <1>5, <1>8, BaseParts, PTL

LEMMA BaseStep == Base /\ [Next]_vars => Base'
<1> SUFFICES ASSUME Base, [Next]_vars PROVE Base'
  OBVIOUS
<1>1. CopiesOK /\ RestOK
  BY BaseParts
<1> SUFFICES CopiesOK' /\ RestOK'
  BY BaseParts, PTL
<1>2. CASE Start
  BY <1>1, <1>2 DEF Start, CopiesOK, RestOK, Snapshot, Sound
<1>3. CASE Skip
  <2>1. /\ busy' = FALSE
        /\ UNCHANGED <<run, seen, seenCur, mine, mineCur, queued, timer, taken, faults>>
    BY <1>3 DEF Skip
  <2>2. CopiesOK'
    BY <1>1, <2>1 DEF CopiesOK, Snapshot, Sound
  <2> QED  BY <1>1, <2>1, <2>2 DEF RestOK
<1>4. CASE terminate
  <2>1. /\ mine.terminate /\ UpdateStatus([mine EXCEPT !.phase = "Failed"])
        /\ busy' = FALSE /\ UNCHANGED <<mine, timer, taken, faults>>
    BY <1>4 DEF terminate
  <2>2. LET t == [mine EXCEPT !.phase = "Failed"] IN t \in RunType /\ Sound(t)
    BY <1>1, <2>1, TerminatedFacts DEF CopiesOK
  <2>3. CopiesOK' /\ queued' \in BOOLEAN
    BY <1>1, <2>1, <2>2, UpdateStatusKeeps DEF RestOK
  <2> QED  BY <1>1, <2>1, <2>3 DEF RestOK
<1>5. CASE Sweep
  <2>1. Base'
    BY <1>5, SweepKeeps
  <2> QED  BY <2>1, BaseParts, PTL
<1>6. CASE Sync
  BY <1>1, <1>6 DEF Sync, CopiesOK, RestOK, Snapshot, Sound
<1>7. CASE TimerFires
  BY <1>1, <1>7, ZenonT(30) DEF TimerFires, CopiesOK, RestOK, Snapshot, Sound
<1>8. CASE Resync
  BY <1>1, <1>8 DEF Resync, CopiesOK, RestOK, Snapshot, Sound
<1>9. CASE Tick
  <2>1. /\ Aged(run) \in RunType /\ Sound(Aged(run)) /\ Aged(seen) \in RunType
        /\ Sound(Aged(seen)) /\ Aged(mine) \in RunType /\ Sound(Aged(mine))
    BY <1>1, AgedFacts DEF CopiesOK
  <2>2. /\ run' = Aged(run) /\ seen' = Aged(seen) /\ mine' = Aged(mine)
        /\ UNCHANGED <<seenCur, mineCur, busy, queued, timer, taken, faults>>
    BY <1>9 DEF Tick
  <2>3. Sound(run)' /\ Sound(seen)' /\ Sound(mine)'
    BY <2>1, <2>2 DEF Sound
  <2>4. Snapshot'
    BY <1>1, <2>2 DEF CopiesOK, Snapshot
  <2> QED  BY <1>1, <2>1, <2>2, <2>3, <2>4 DEF CopiesOK, RestOK
<1>10. CASE Interrupt
  <2>1. /\ faults < MaxFaults /\ faults' = faults + 1 /\ busy' = FALSE /\ queued' = TRUE
        /\ UNCHANGED <<run, seen, seenCur, mine, mineCur, timer, taken>>
    BY <1>10 DEF Interrupt
  <2>2. faults' \in 0..MaxFaults
    BY <1>1, <2>1, MetricsAssumption DEF RestOK
  <2>3. CopiesOK'
    BY <1>1, <2>1 DEF CopiesOK, Snapshot, Sound
  <2> QED  BY <1>1, <2>1, <2>2, <2>3 DEF RestOK
<1>11. CASE SetTerminate
  <2>1. LET t == [run EXCEPT !.terminate = TRUE] IN t \in RunType /\ Sound(t)
    BY <1>1, SetTerminateFacts DEF CopiesOK
  <2>2. /\ Store([run EXCEPT !.terminate = TRUE])
        /\ UNCHANGED <<mine, busy, queued, timer, taken, faults>>
    BY <1>11 DEF SetTerminate
  <2> QED  BY <1>1, <2>1, <2>2, ZenonT(30) DEF Store, CopiesOK, RestOK, Snapshot, Sound
<1>12. CASE UNCHANGED vars
  BY <1>1, <1>12 DEF vars, CopiesOK, RestOK, Snapshot, Sound
<1> QED  BY <1>2, <1>3, <1>4, <1>5, <1>6, <1>7, <1>8, <1>9, <1>10, <1>11, <1>12
         DEF Next, Reconcile

(* The copies stay typed, sound and, while current, equal to the run. *)
THEOREM BaseHolds == SafetySpec => []Base
BY BaseInit, BaseStep, PTL DEF SafetySpec

(* Every variable keeps its type, for every list of metrics. *)
THEOREM Typed == SafetySpec => []TypeOK
<1>1. Base => TypeOK
  BY DEF Base
<1> QED  BY <1>1, BaseHolds, PTL

(* A run that fails unterminated has a failed metric outside the dry run.  *)
THEOREM DryRunIsHarmless == SafetySpec => []DryRunHarmless
<1>1. Base => DryRunHarmless
  BY DEF Base, Sound, DryRunHarmless
<1> QED  BY <1>1, BaseHolds, PTL

-----------------------------------------------------------------------------
(***************************************************************************)
(* The run implements RunVerdict: an accepted write of a verdict comes     *)
(* from a copy without one, and that copy is the run.                      *)
(***************************************************************************)
Open == {"", "Running"}

LEMMA VerdictByUpdate ==
  ASSUME Base, NEW new, mine.phase \in Open, UpdateStatus(new),
         new.phase \in {"Running", "Successful", "Failed", "Error"}
  PROVE  [Verdict!Conclude]_ShownPhase
<1>1. CASE run' = run
  BY <1>1 DEF ShownPhase
<1>2. CASE run' # run
  <2>1. mineCur /\ run' = new
    BY <1>2 DEF UpdateStatus, Store
  <2>2. run.phase \in Open
    BY <2>1 DEF Base, Snapshot
  <2>3. ShownPhase = "Running"
    BY <2>2 DEF ShownPhase, Open
  <2>4. ShownPhase' = new.phase
    BY <2>1 DEF ShownPhase
  <2> QED  BY <2>3, <2>4 DEF Verdict!Conclude
<1> QED  BY <1>1, <1>2

LEMMA VerdictStep ==
  ASSUME Base, [Next]_vars
  PROVE  [Verdict!Conclude]_ShownPhase
<1>1. CASE terminate
  <2>1. mine.phase \in Open /\ UpdateStatus([mine EXCEPT !.phase = "Failed"])
    BY <1>1 DEF terminate, Base, TypeOK, RunType, isTerminalPhase, Open
  <2>2. [mine EXCEPT !.phase = "Failed"].phase = "Failed"
    BY DEF Base, TypeOK, RunType
  <2> QED  BY <2>1, <2>2, VerdictByUpdate
<1>2. CASE Sweep
  <2>1. mine.phase \in Open
    BY <1>2 DEF Sweep, Base, TypeOK, RunType, isTerminalPhase, Open
  <2>2. PICK a \in [N -> Answers] : UpdateStatus(SweepOf(mine, a))
    BY <1>2, SweepShape
  <2>3. SweepOf(mine, a).phase \in {"Running", "Successful", "Failed", "Error"}
    <3> DEFINE after == Swept(ensureMetricResults(mine.results), a)
    <3>1. /\ ensureMetricResults(mine.results) \in Results
          /\ Placed(ensureMetricResults(mine.results))
      BY EnsureType DEF Base, TypeOK, RunType, Sound, Results
    <3>2. after \in Results /\ Placed(after)
      BY <3>1, SweptFacts
    <3>3. SweepOf(mine, a).phase = aggregatePhase(after)
      BY DEF SweepOf, Base, TypeOK, RunType
    <3> HIDE DEF after
    <3> QED  BY <3>2, <3>3, AggregateFacts
  <2> QED  BY <2>1, <2>2, <2>3, VerdictByUpdate
<1>3. CASE Tick
  <2>1. run' = Aged(run) /\ Aged(run).phase = run.phase
    BY <1>3, AgedFacts DEF Tick, Base, TypeOK
  <2> QED  BY <2>1 DEF ShownPhase
<1>4. CASE SetTerminate
  <2>1. run'.phase = run.phase
    BY <1>4 DEF SetTerminate, Store, Base, TypeOK, RunType
  <2> QED  BY <2>1 DEF ShownPhase
<1>5. CASE Start \/ Skip \/ Sync \/ TimerFires \/ Resync \/ Interrupt \/ UNCHANGED vars
  <2>1. run' = run
    BY <1>5 DEF Start, Skip, Sync, TimerFires, Resync, Interrupt, vars
  <2> QED  BY <2>1 DEF ShownPhase
<1> QED  BY <1>1, <1>2, <1>3, <1>4, <1>5 DEF Next, Reconcile

(* An AnalysisRun gets one verdict and keeps it: what the Rollout gates    *)
(* rely on.                                                                *)
THEOREM ImplementsVerdict == SafetySpec => OneVerdict
<1>1. Init => Verdict!Init
  <2>1. Init => run.phase = ""
    <3>1. NewRun.phase = ""
      BY DEF NewRun
    <3>2. Init => run = NewRun
      BY DEF Init
    <3> QED  BY <3>1, <3>2
  <2>2. run.phase = "" => ShownPhase = "Running"
    BY DEF ShownPhase
  <2> QED  BY <2>1, <2>2 DEF Verdict!Init
<1>2. Base /\ [Next]_vars => [Verdict!Conclude]_ShownPhase
  BY VerdictStep
<1> QED  BY <1>1, <1>2, BaseHolds, PTL DEF SafetySpec, OneVerdict, Verdict!Spec

-----------------------------------------------------------------------------
(***************************************************************************)
(* Counting, for metrics with different names.                             *)
(***************************************************************************)
(* A successful metric has its count of successes and no failure. *)
Earned(s) ==
  \A i \in DOMAIN s :
     s[i].phase = "Successful" => s[i].bad = 0 /\ s[i].ok >= Metrics[i].count

(* Nothing is counted before the first sweep. *)
NothingTaken == run.results = <<>> => \A i \in N : taken[i].ok = 0 /\ taken[i].bad = 0

Counts ==
  /\ Base /\ SamplesCounted /\ NothingTaken
  /\ Earned(run.results) /\ Earned(seen.results) /\ Earned(mine.results)

(* With different names every metric finds its own result again. *)
LEMMA EnsureStable ==
  ASSUME DistinctNames, NEW old \in Results, Placed(old)
  PROVE  ensureMetricResults(old) = old
<1> DEFINE same(i) == {j \in DOMAIN old : old[j].name = Metrics[i].name}
           pick(i) == CHOOSE j \in same(i) : \A k \in same(i) : k <= j
           res(i) == IF same(i) = {} THEN NewResult(i) ELSE old[pick(i)]
<1>1. DOMAIN old = N
  BY DEF Results
<1>2. ASSUME NEW i \in N
      PROVE  res(i) = old[i]
  <2>1. same(i) = {i}
    BY <1>1 DEF Placed, DistinctNames
  <2>2. i <= i
    BY MetricIndices
  <2>3. pick(i) = i
    BY <2>1, <2>2
  <2> HIDE DEF same, pick
  <2> QED  BY <2>1, <2>3
<1>3. ensureMetricResults(old) = [i \in N |-> res(i)]
  BY DEF ensureMetricResults
<1>4. [i \in N |-> res(i)] = [i \in N |-> old[i]]
  <2> HIDE DEF res
  <2> QED  BY <1>2
<1> QED  BY <1>1, <1>3, <1>4 DEF Results

(* Before the first sweep every metric gets a new result. *)
LEMMA EnsureNew ==
  ASSUME NEW i \in N
  PROVE  ensureMetricResults(<<>>)[i] = NewResult(i)
<1>1. \A j : j \notin DOMAIN <<>>
  OBVIOUS
<1> QED  BY <1>1 DEF ensureMetricResults

LEMMA EnsureEarned ==
  ASSUME DistinctNames, NEW old \in {<<>>} \cup Results, Placed(old), Earned(old)
  PROVE  Earned(ensureMetricResults(old))
<1>1. CASE old = <<>>
  <2>1. DOMAIN ensureMetricResults(<<>>) = N
    BY DEF ensureMetricResults
  <2> QED  BY <1>1, <2>1, EnsureNew, NewResultType DEF Earned
<1>2. CASE old \in Results
  BY <1>2, EnsureStable
<1> QED  BY <1>1, <1>2

LEMMA SweptEarned ==
  ASSUME NEW before \in Results, Earned(before), NEW a
  PROVE  Earned(Swept(before, a))
<1> DEFINE res(i) == IF isMetricDue(before[i]) THEN sampleMetric(i, before[i], a[i])
                     ELSE before[i]
<1>1. ASSUME NEW i \in N, res(i).phase = "Successful"
      PROVE  res(i).bad = 0 /\ res(i).ok >= Metrics[i].count
  <2>1. before[i] \in ResultType /\ i \in DOMAIN before
    BY DEF Results
  <2>2. CASE isMetricDue(before[i])
    <3>1. res(i) = sampleMetric(i, before[i], a[i])
      BY <2>2
    <3> QED  BY <1>1, <2>1, <3>1, SampleFacts
  <2>3. CASE ~isMetricDue(before[i])
    <3>1. res(i) = before[i]
      BY <2>3
    <3> QED  BY <1>1, <2>1, <3>1 DEF Earned
  <2> QED  BY <2>2, <2>3
<1>2. Swept(before, a) = [i \in N |-> res(i)]
  BY DEF Swept
<1> HIDE DEF res
<1> QED  BY <1>1, <1>2 DEF Earned

LEMMA CountsInit == Init => Counts
<1> SUFFICES ASSUME Init PROVE Counts
  OBVIOUS
<1>1. NewRun.results = <<>> /\ run = NewRun /\ seen = NewRun /\ mine = NewRun
  BY DEF Init, NewRun
<1>2. \A i \in N : taken[i].ok = 0 /\ taken[i].bad = 0
  BY DEF Init
<1>3. SamplesCounted /\ NothingTaken
  BY <1>1, <1>2 DEF SamplesCounted, NothingTaken
<1>4. Earned(<<>>)
  BY DEF Earned
<1> QED  BY <1>1, <1>3, <1>4, BaseInit DEF Counts

(* A sweep that is stored adds to the counters what it adds to the history. *)
LEMMA SweepCounts ==
  ASSUME DistinctNames, Counts, Sweep
  PROVE  SamplesCounted' /\ NothingTaken' /\ Earned(run'.results)
<1>1. PICK a \in [N -> Answers] :
         /\ UpdateStatus(SweepOf(mine, a))
         /\ taken' = IF run' = run THEN taken
                     ELSE Counted(ensureMetricResults(mine.results),
                                  Swept(ensureMetricResults(mine.results), a))
  BY SweepShape
<1>2. CASE run' = run
  <2>1. taken' = taken
    BY <1>1, <1>2
  <2> QED  BY <1>2, <2>1 DEF Counts, SamplesCounted, NothingTaken
<1>3. CASE run' # run
  <2> DEFINE before == ensureMetricResults(run.results)
             after == Swept(before, a)
  <2>1. mineCur /\ run' = SweepOf(mine, a)
    BY <1>1, <1>3 DEF UpdateStatus, Store
  <2>2. mine = run
    BY <2>1 DEF Counts, Base, Snapshot
  <2>3. taken' = Counted(before, after)
    BY <1>1, <1>3, <2>2
  <2>4. run'.results = after
    BY <2>1, <2>2 DEF SweepOf, Counts, Base, TypeOK, RunType
  <2>5. run.results \in {<<>>} \cup Results /\ Placed(run.results) /\ Earned(run.results)
    BY DEF Counts, Base, TypeOK, RunType, Results, Sound
  <2>6. before \in Results /\ Placed(before) /\ Earned(before)
    BY <2>5, EnsureType, EnsureEarned
  <2>7. ASSUME NEW i \in N
        PROVE  before[i].ok = taken[i].ok /\ before[i].bad = taken[i].bad
    <3>1. CASE run.results = <<>>
      BY <3>1, EnsureNew, NewResultType DEF Counts, NothingTaken
    <3>2. CASE run.results \in Results
      <4>1. before = run.results /\ i \in DOMAIN run.results
        BY <2>5, <3>2, EnsureStable DEF Results
      <4> QED  BY <4>1 DEF Counts, SamplesCounted
    <3> QED  BY <2>5, <3>1, <3>2
  <2> HIDE DEF before
  <2>8. after \in Results /\ Earned(after)
    BY <2>6, SweptFacts, SweptEarned
  <2> HIDE DEF after
  <2>9. ASSUME NEW i \in N
        PROVE  after[i].ok = taken'[i].ok /\ after[i].bad = taken'[i].bad
    <3>1. /\ before[i].ok \in Nat /\ before[i].bad \in Nat
          /\ after[i].ok \in Nat /\ after[i].bad \in Nat
      BY <2>6, <2>8, MetricsAssumption DEF Results, ResultType
    <3>2. /\ taken'[i].ok = taken[i].ok + after[i].ok - before[i].ok
          /\ taken'[i].bad = taken[i].bad + after[i].bad - before[i].bad
      BY <2>3 DEF Counted
    <3> QED  BY <2>7, <3>1, <3>2
  <2>10. DOMAIN after = N
    BY <2>8 DEF Results
  <2>11. SamplesCounted'
    BY <2>4, <2>9, <2>10 DEF SamplesCounted
  <2>12. NothingTaken'
    BY <2>4, <2>10 DEF NothingTaken
  <2> QED  BY <2>4, <2>8, <2>11, <2>12
<1> QED  BY <1>2, <1>3

(* Time changes no result but its due mark. *)
LEMMA AgedEarned ==
  ASSUME NEW r \in RunType, Sound(r)
  PROVE  /\ Earned(r.results) => Earned(Aged(r).results)
         /\ DOMAIN Aged(r).results = DOMAIN r.results
         /\ \A i \in DOMAIN r.results :
              /\ Aged(r).results[i].ok = r.results[i].ok
              /\ Aged(r).results[i].bad = r.results[i].bad
         /\ Aged(r).results = <<>> => r.results = <<>>
<1>1. /\ DOMAIN Aged(r).results = DOMAIN r.results
      /\ \A i \in DOMAIN r.results : Aged(r).results[i] = [r.results[i] EXCEPT !.due = TRUE]
  BY AgedFacts
<1>2. \A i \in DOMAIN r.results : r.results[i] \in ResultType
  <2>1. r.results \in {<<>>} \cup [N -> ResultType]
    BY DEF RunType
  <2>2. CASE r.results = <<>>
    BY <2>2
  <2>3. CASE r.results \in [N -> ResultType]
    BY <2>3
  <2> QED  BY <2>1, <2>2, <2>3
<1>3. \A i \in DOMAIN r.results :
        /\ Aged(r).results[i].ok = r.results[i].ok
        /\ Aged(r).results[i].bad = r.results[i].bad
        /\ Aged(r).results[i].phase = r.results[i].phase
  BY <1>1, <1>2 DEF ResultType
<1>4. Aged(r).results = <<>> => r.results = <<>>
  <2>1. SUFFICES ASSUME Aged(r).results = <<>> PROVE r.results = <<>>
    OBVIOUS
  <2>2. DOMAIN r.results = {}
    BY <1>1, <2>1
  <2>3. r.results \in {<<>>} \cup [N -> ResultType]
    BY DEF RunType
  <2> QED  BY <2>2, <2>3
<1> QED  BY <1>1, <1>3, <1>4 DEF Earned

LEMMA CountsStep ==
  ASSUME DistinctNames, Counts, [Next]_vars
  PROVE  Counts'
<1>1. Base'
  BY BaseStep DEF Counts
<1>2. CASE Sweep
  <2>1. SamplesCounted' /\ NothingTaken' /\ Earned(run'.results)
    BY <1>2, SweepCounts
  <2>2. mine' = mine /\ seen' = seen
    BY <1>2, SweepShape DEF Sweep, UpdateStatus, Store
  <2> QED  BY <1>1, <2>1, <2>2 DEF Counts
<1>3. CASE terminate \/ SetTerminate
  <2>1. taken' = taken /\ mine' = mine /\ seen' = seen
    BY <1>3 DEF terminate, SetTerminate, UpdateStatus, Store
  <2>2. run'.results = run.results
    <3>1. run' = run \/ (mineCur /\ run' = [mine EXCEPT !.phase = "Failed"])
                     \/ run' = [run EXCEPT !.terminate = TRUE]
      BY <1>3 DEF terminate, SetTerminate, UpdateStatus, Store
    <3>2. mineCur => mine = run
      BY DEF Counts, Base, Snapshot
    <3> QED  BY <3>1, <3>2 DEF Counts, Base, TypeOK, RunType
  <2>3. SamplesCounted' /\ NothingTaken'
    BY <2>1, <2>2 DEF Counts, SamplesCounted, NothingTaken
  <2> QED  BY <1>1, <2>1, <2>2, <2>3 DEF Counts
<1>4. CASE Tick
  <2>1. /\ run \in RunType /\ Sound(run) /\ seen \in RunType /\ Sound(seen)
        /\ mine \in RunType /\ Sound(mine)
    BY DEF Counts, Base, TypeOK
  <2>2. run' = Aged(run) /\ seen' = Aged(seen) /\ mine' = Aged(mine) /\ taken' = taken
    BY <1>4 DEF Tick
  <2>3. Earned(run'.results) /\ Earned(seen'.results) /\ Earned(mine'.results)
    BY <2>1, <2>2, AgedEarned DEF Counts
  <2>4. /\ DOMAIN run'.results = DOMAIN run.results
        /\ \A i \in DOMAIN run.results :
             /\ run'.results[i].ok = run.results[i].ok
             /\ run'.results[i].bad = run.results[i].bad
        /\ run'.results = <<>> => run.results = <<>>
    BY <2>1, <2>2, AgedEarned
  <2>5. SamplesCounted' /\ NothingTaken'
    BY <2>2, <2>4 DEF Counts, SamplesCounted, NothingTaken
  <2> QED  BY <1>1, <2>3, <2>5 DEF Counts
<1>5. CASE Start \/ Skip \/ Sync \/ TimerFires \/ Resync \/ Interrupt \/ UNCHANGED vars
  <2>1. /\ run' = run /\ taken' = taken
        /\ seen' \in {seen, run} /\ mine' \in {mine, seen}
    BY <1>5 DEF Start, Skip, Sync, TimerFires, Resync, Interrupt, vars
  <2>2. SamplesCounted' /\ NothingTaken'
    BY <2>1 DEF Counts, SamplesCounted, NothingTaken
  <2>3. Earned(run'.results) /\ Earned(seen'.results) /\ Earned(mine'.results)
    BY <2>1 DEF Counts
  <2> QED  BY <1>1, <2>2, <2>3 DEF Counts
<1> QED  BY <1>2, <1>3, <1>4, <1>5 DEF Next, Reconcile

(* With different names no sample is lost or counted twice. *)
THEOREM NoSampleLost ==
  ASSUME DistinctNames
  PROVE  SafetySpec => []SamplesCounted
<1>1. Counts /\ [Next]_vars => Counts'
  BY CountsStep
<1>2. Counts => SamplesCounted
  BY DEF Counts
<1> QED  BY <1>1, <1>2, CountsInit, PTL DEF SafetySpec

(* With different names a successful run has earned it. *)
THEOREM SuccessEarned ==
  ASSUME DistinctNames
  PROVE  SafetySpec => []SuccessIsEarned
<1>1. Counts /\ [Next]_vars => Counts'
  BY CountsStep
<1>2. ASSUME Counts, run.phase = "Successful",
             NEW i \in N, Metrics[i].name \notin DryRun
      PROVE  taken[i].bad = 0 /\ taken[i].ok >= Metrics[i].count
  <2>1. run.results[i].phase = "Successful" /\ i \in DOMAIN run.results
    BY <1>2 DEF Counts, Base, Sound, Results
  <2> QED  BY <1>2, <2>1 DEF Counts, Earned, SamplesCounted
<1>3. Counts => SuccessIsEarned
  BY <1>2 DEF SuccessIsEarned
<1> QED  BY <1>1, <1>3, CountsInit, PTL DEF SafetySpec
=============================================================================
