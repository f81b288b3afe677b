----------------------------- MODULE MCAnalysis -----------------------------
(***************************************************************************)
(* Metrics and answers for model checking the AnalysisRun controller.      *)
(***************************************************************************)
EXTENDS AnalysisRun

AtLeast(index, n) == [op |-> ">=", index |-> index, bound |-> n]
Below(index, n) == [op |-> "<", index |-> index, bound |-> n]
Truth == [op |-> "truth", index |-> 0, bound |-> 0]

(* A gate of two samples with a delayed start, on a number; and one of a    *)
(* single sample, on the second of several.                                 *)
TwoMetrics ==
  <<[name |-> "rate", provider |-> "prometheus", success |-> AtLeast(0, 3),
     failure |-> Below(0, 2), count |-> 2, failureLimit |-> 1, errorLimit |-> 1,
     delayed |-> TRUE],
    [name |-> "latency", provider |-> "prometheus", success |-> Below(2, 1),
     failure |-> Truth, count |-> 1, failureLimit |-> 0, errorLimit |-> 0,
     delayed |-> FALSE]>>

Scalar(x) == [ok |-> TRUE, resultType |-> "scalar", samples |-> <<x>>]
Vector(s) == [ok |-> TRUE, resultType |-> "vector", samples |-> s]

(* Numbers above, between and below the bounds, no number, no sample, text, *)
(* several samples, and an outage.                                          *)
SomeAnswers ==
  {Scalar(3), Scalar(2), Vector(<<0>>), Scalar(NaN), Vector(<<>>), Vector(<<3, Unparsable>>),
   Vector(<<3, 0>>), [Scalar(3) EXCEPT !.ok = FALSE]}
=============================================================================
