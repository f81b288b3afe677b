----------------------------- MODULE AnalysisRun ----------------------------
(***************************************************************************)
(* The AnalysisRun controller (pkg/controller/analysis) and one run.  A    *)
(* reconcile reads the run through the informer cache, samples the metrics *)
(* that are due and writes the whole status back.  Between the read and    *)
(* the write the user may set spec.terminate, the cache may deliver, time  *)
(* may pass and the controller may fail.                                   *)
(*                                                                         *)
(* A measurement is kept as what the phases are derived from: how many     *)
(* samples met the success and the failure condition, and how many         *)
(* provider errors end the list.                                           *)
(***************************************************************************)
EXTENDS Sampling, FiniteSets

CONSTANTS
  Metrics,     (* spec.metrics                                             *)
  DryRun,      (* names of the dry-run metrics                             *)
  Answers,     (* what the provider may answer to a query                  *)
  MaxOk,       (* bound on the successes counted of a metric without count *)
  MaxFaults    (* bound on failed calls and restarts                       *)

NoCount == -1

(* A metric: count is NoCount when spec.count is not set. *)
MetricType ==
  [name: STRING, provider: STRING, success: ConditionType, failure: ConditionType,
   count: Nat \cup {NoCount}, failureLimit: Nat, errorLimit: Nat, delayed: BOOLEAN]

ASSUME MetricsAssumption ==
  /\ Metrics \in Seq(MetricType)
  /\ Answers \subseteq AnswerType
  /\ MaxOk \in Nat /\ MaxFaults \in Nat
  /\ \A i \in DOMAIN Metrics : Metrics[i].count <= MaxOk

N == DOMAIN Metrics

Ended == {"Successful", "Failed", "Error", "Inconclusive"}
isTerminalPhase(p) == p \in Ended

VARIABLES
  run,        (* the AnalysisRun on the API server                         *)
  seen,       (* the run in the informer cache                             *)
  seenCur,    (* seen carries the current resourceVersion                  *)
  mine,       (* the copy the reconcile in progress works on               *)
  mineCur,    (* mine carries the current resourceVersion                  *)
  busy,       (* a reconcile is in progress                                *)
  queued,     (* the run's key is in the work queue                        *)
  timer,      (* a RequeueAfter is pending                                 *)
  taken,      (* history: the samples stored, by metric                    *)
  faults      (* faults suffered                                           *)

vars == <<run, seen, seenCur, mine, mineCur, busy, queued, timer, taken, faults>>

(* The MetricResult of metric i.  due: its interval, or before the first    *)
(* sample its initial delay, has passed.                                    *)
ResultType ==
  [name: STRING, phase: {"Pending", "Running"} \cup Ended,
   ok: 0..MaxOk, bad: Nat, streak: Nat, due: BOOLEAN]

RunType ==
  [phase: {"", "Running"} \cup Ended, terminate: BOOLEAN,
   results: {<<>>} \cup [N -> ResultType]]

TypeOK ==
  /\ run \in RunType /\ seen \in RunType /\ mine \in RunType
  /\ {seenCur, mineCur, busy, queued, timer} \subseteq BOOLEAN
  /\ taken \in [N -> [ok: Nat, bad: Nat]]
  /\ faults \in 0..MaxFaults

NewResult(i) ==
  [name |-> Metrics[i].name, phase |-> "Pending", ok |-> 0, bad |-> 0, streak |-> 0,
   due |-> ~Metrics[i].delayed]

(* results is empty until the first sweep. *)
NewRun == [phase |-> "", terminate |-> FALSE, results |-> <<>>]

Init ==
  /\ run = NewRun
  /\ seen = run /\ seenCur = TRUE
  /\ mine = run /\ mineCur = FALSE
  /\ busy = FALSE /\ queued = TRUE /\ timer = FALSE
  /\ taken = [i \in N |-> [ok |-> 0, bad |-> 0]]
  /\ faults = 0

-----------------------------------------------------------------------------
(***************************************************************************)
(* The phase of a metric, and of the run.                                  *)
(***************************************************************************)
(* A metric that passes when its failures are within the limit. *)
derivePerMetricPhaseLenient(m, r) ==
  CASE r.streak > m.errorLimit -> "Error"
    [] r.streak <= m.errorLimit /\ r.bad > m.failureLimit -> "Failed"
    [] OTHER -> IF m.count # NoCount /\ r.ok + r.bad >= m.count THEN "Successful" ELSE "Running"

derivePerMetricPhase(m, r) ==
  CASE r.streak > m.errorLimit -> "Error"
    [] r.streak <= m.errorLimit /\ r.bad > m.failureLimit -> "Failed"
    [] OTHER -> IF m.count # NoCount /\ r.ok + r.bad >= m.count
                THEN IF r.bad > 0 THEN "Failed" ELSE "Successful"
                ELSE "Running"

(* A fold in which a dry-run failure counts. *)
aggregatePhaseDry(results) ==
  LET failed == {i \in DOMAIN results : results[i].phase \in {"Failed", "Error"}}
      open == {i \in DOMAIN results : results[i].phase \in {"Pending", "Running"}}
  IN  IF failed # {} THEN results[CHOOSE i \in failed : \A j \in failed : i <= j].phase
      ELSE IF open # {} THEN "Running" ELSE "Successful"

aggregatePhase(results) ==
  LET failed == {i \in DOMAIN results : /\ results[i].phase \in {"Failed", "Error"}
                                        /\ results[i].name \notin DryRun}
      open == {i \in DOMAIN results : results[i].phase \in {"Pending", "Running"}}
      unclear == {i \in DOMAIN results : results[i].phase = "Inconclusive"}
  IN  IF failed # {} THEN results[CHOOSE i \in failed : \A j \in failed : i <= j].phase
      ELSE IF open # {} THEN "Running"
      ELSE IF unclear # {} THEN "Inconclusive"
      ELSE "Successful"

(***************************************************************************)
(* ensureMetricResults: the results of before, found by name (of several   *)
(* the last), or new ones.                                                 *)
(***************************************************************************)
ensureMetricResults(old) ==
  [i \in N |->
     LET same == {j \in DOMAIN old : old[j].name = Metrics[i].name}
     IN  IF same = {} THEN NewResult(i) ELSE old[CHOOSE j \in same : \A k \in same : k <= j]]

(* A metric that is sampled once. *)
isMetricDueOnce(r) == r.phase = "Pending" /\ r.due

isMetricDue(r) == ~isTerminalPhase(r.phase) /\ r.due

(* sampleMetric: the result after one more sample, which a answers. *)
sampleMetric(i, r, a) ==
  LET o == measured(Metrics[i], a)
      s == [r EXCEPT !.ok = IF o = "ok" /\ r.ok < MaxOk THEN r.ok + 1 ELSE r.ok,
                     !.bad = IF o = "bad" THEN r.bad + 1 ELSE r.bad,
                     !.streak = IF o = "error" THEN r.streak + 1 ELSE 0,
                     !.due = FALSE]
  IN  [s EXCEPT !.phase = derivePerMetricPhase(Metrics[i], s)]

-----------------------------------------------------------------------------
(***************************************************************************)
(* The API server (external): a write from a stale copy is a conflict.     *)
(***************************************************************************)
Store(new) ==
  /\ run' = new
  /\ seenCur' = FALSE
  /\ mineCur' = FALSE
  /\ UNCHANGED seen

(* A write that a stale copy wins too. *)
UpdateStatusBlind(new) ==
  /\ Store([new EXCEPT !.terminate = run.terminate])
  /\ UNCHANGED queued

UpdateStatus(new) ==
  \/ /\ mineCur /\ new # run
     /\ Store(new)
     /\ UNCHANGED queued
  \/ /\ mineCur /\ new = run
     /\ UNCHANGED <<run, seen, seenCur, mineCur, queued>>
  \/ /\ ~mineCur
     /\ queued' = TRUE
     /\ UNCHANGED <<run, seen, seenCur, mineCur>>

(* Reconcile: take the key and read the cache. *)
Start ==
  /\ ~busy /\ queued
  /\ mine' = seen /\ mineCur' = seenCur
  /\ busy' = TRUE /\ queued' = FALSE
  /\ UNCHANGED <<run, seen, seenCur, timer, taken, faults>>

(* A run with a verdict is left alone. *)
Skip ==
  /\ busy /\ isTerminalPhase(mine.phase)
  /\ busy' = FALSE
  /\ UNCHANGED <<run, seen, seenCur, mine, mineCur, queued, timer, taken, faults>>

(* A terminate that does not look at the phase. *)
terminateAlways ==
  /\ busy /\ mine.terminate
  /\ UpdateStatus([mine EXCEPT !.phase = "Failed"])
  /\ busy' = FALSE
  /\ UNCHANGED <<mine, timer, taken, faults>>

(* A terminate that acts only on a run that has started. *)
terminateRunning ==
  /\ busy /\ mine.terminate /\ mine.phase = "Running"
  /\ UpdateStatus([mine EXCEPT !.phase = "Failed"])
  /\ busy' = FALSE
  /\ UNCHANGED <<mine, timer, taken, faults>>

terminate ==
  /\ busy /\ mine.terminate /\ ~isTerminalPhase(mine.phase)
  /\ UpdateStatus([mine EXCEPT !.phase = "Failed"])
  /\ busy' = FALSE
  /\ UNCHANGED <<mine, timer, taken, faults>>

(* The results after a sweep in which the query of metric i, if due, is     *)
(* answered by a[i].                                                        *)
Swept(before, a) ==
  [i \in N |-> IF isMetricDue(before[i]) THEN sampleMetric(i, before[i], a[i])
               ELSE before[i]]

(* History: the samples a sweep that was stored has added. *)
Counted(before, after) ==
  [i \in N |-> [ok  |-> taken[i].ok + after[i].ok - before[i].ok,
                bad |-> taken[i].bad + after[i].bad - before[i].bad]]

(* Sample what is due, derive the phase, write the status and, unless the   *)
(* run has ended, come back when the next sample is due.                    *)
Sweep ==
  /\ busy /\ ~mine.terminate /\ ~isTerminalPhase(mine.phase)
  /\ \E a \in [N -> Answers] :
       LET before == ensureMetricResults(mine.results)
           after == Swept(before, a)
           new == [mine EXCEPT !.results = after, !.phase = aggregatePhase(after)]
       IN  /\ \A i \in N : ~isMetricDue(before[i]) => a[i] = CHOOSE x \in Answers : TRUE
           /\ UpdateStatus(new)
           /\ taken' = IF run' = run THEN taken ELSE Counted(before, after)
           /\ timer' = (timer \/ (mineCur /\ ~isTerminalPhase(new.phase)))
  /\ busy' = FALSE
  /\ UNCHANGED <<mine, faults>>

-----------------------------------------------------------------------------
(* The informer catches up and enqueues the key. *)
Sync ==
  /\ ~seenCur
  /\ seen' = run /\ seenCur' = TRUE
  /\ queued' = TRUE
  /\ UNCHANGED <<run, mine, mineCur, busy, timer, taken, faults>>

TimerFires ==
  /\ timer
  /\ timer' = FALSE /\ queued' = TRUE
  /\ UNCHANGED <<run, seen, seenCur, mine, mineCur, busy, taken, faults>>

(* The informer's periodic resync. *)
Resync ==
  /\ ~busy /\ ~queued
  /\ queued' = TRUE
  /\ UNCHANGED <<run, seen, seenCur, mine, mineCur, busy, timer, taken, faults>>

(* An interval or an initial delay passes, in every copy of the result. *)
Aged(r) == [r EXCEPT !.results = [i \in DOMAIN r.results |-> [r.results[i] EXCEPT !.due = TRUE]]]

Tick ==
  /\ run' = Aged(run) /\ seen' = Aged(seen) /\ mine' = Aged(mine)
  /\ UNCHANGED <<seenCur, mineCur, busy, queued, timer, taken, faults>>

(* A call fails or the controller restarts. *)
Interrupt ==
  /\ busy /\ faults < MaxFaults
  /\ busy' = FALSE /\ queued' = TRUE
  /\ faults' = faults + 1
  /\ UNCHANGED <<run, seen, seenCur, mine, mineCur, timer, taken>>

(* The user sets spec.terminate. *)
SetTerminate ==
  /\ ~run.terminate
  /\ Store([run EXCEPT !.terminate = TRUE])
  /\ UNCHANGED <<mine, busy, queued, timer, taken, faults>>

Reconcile == Start \/ Skip \/ terminate \/ Sweep

Next == Reconcile \/ Sync \/ TimerFires \/ Resync \/ Tick \/ Interrupt \/ SetTerminate

(***************************************************************************)
(* The work queue, the informer, the timers and the clock go on.  The      *)
(* resync is hours away and nothing is assumed of it or of the user.       *)
(***************************************************************************)
Fairness ==
  WF_vars(Reconcile) /\ WF_vars(Sync) /\ WF_vars(TimerFires) /\ WF_vars(Tick)

SafetySpec == Init /\ [][Next]_vars
Spec == SafetySpec /\ Fairness

-----------------------------------------------------------------------------
(***************************************************************************)
(* Properties.                                                             *)
(***************************************************************************)
ShownPhase == IF run.phase = "" THEN "Running" ELSE run.phase

Verdict == INSTANCE RunVerdict
             WITH phase <- ShownPhase, Verdicts <- {"Successful", "Failed", "Error"}

(* The run implements what the Rollout controller gates on: one verdict,    *)
(* never withdrawn, although a reconcile may start from a cached copy of    *)
(* before the verdict and spec.terminate may come late.                     *)
OneVerdict == Verdict!Spec

(* No sample is lost or counted twice: the counters in the status are those *)
(* of the samples stored, metric by metric, however often a sweep was       *)
(* repeated from an old copy (the comment above ensureMetricResults).       *)
SamplesCounted ==
  \A i \in DOMAIN run.results :
     /\ run.results[i].ok = taken[i].ok
     /\ run.results[i].bad = taken[i].bad

(* A run that fails without having been terminated has a metric outside     *)
(* the dry run that failed or erred.                                        *)
DryRunHarmless ==
  run.phase \in {"Failed", "Error"} /\ ~run.terminate =>
     \E i \in DOMAIN run.results :
        Metrics[i].name \notin DryRun /\ run.results[i].phase = run.phase

(* A run ends Successful only if every metric outside the dry run with a    *)
(* count took that many samples and none of them failed once.               *)
SuccessIsEarned ==
  run.phase = "Successful" =>
     \A i \in N : Metrics[i].name \notin DryRun =>
        taken[i].bad = 0 /\ taken[i].ok >= Metrics[i].count

(* spec.terminate ends the run, started or not. *)
TerminateEnds == run.terminate ~> isTerminalPhase(run.phase)

(* A sample of metric i is stored that no condition decided. *)
Undecided(i) ==
  /\ i \in DOMAIN run.results
  /\ run.results[i].due /\ ~run'.results[i].due
  /\ run'.results[i].ok = run.results[i].ok /\ run'.results[i].bad = run.results[i].bad
  /\ run'.results[i].streak = 0

(* Metrics with a count come to a verdict unless undecided samples go on    *)
(* for ever: the timer brings the controller back for every next sample,    *)
(* after failures, conflicts and cached copies of an earlier sweep.         *)
ConclusiveEnds ==
  <>[][\A i \in N : ~Undecided(i)]_vars => <>isTerminalPhase(run.phase)
=============================================================================
