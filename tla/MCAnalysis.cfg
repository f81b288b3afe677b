SPECIFICATION Spec
CONSTANTS
  Metrics <- TwoMetrics
  DryRun = {"latency"}
  Answers <- SomeAnswers
  MaxOk = 2
  MaxFaults = 1
INVARIANTS SamplesCounted DryRunHarmless SuccessIsEarned
PROPERTIES OneVerdict TerminateEnds ConclusiveEnds
