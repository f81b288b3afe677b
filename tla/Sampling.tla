------------------------------ MODULE Sampling ------------------------------
(***************************************************************************)
(* One sample of a metric: the Prometheus query, the success and failure   *)
(* conditions, and what the sample counts as.                              *)
(*                                                                         *)
(* A value is the sequence of the numbers a query returned: one number is  *)
(* bound to the expression variable result as a scalar (a vector of one    *)
(* sample is unwrapped), several as a slice.  The empty sequence stands    *)
(* for the error of a query.                                               *)
(***************************************************************************)
EXTENDS Integers, Sequences

NaN == -1           (* a number to ParseFloat, in no order with another     *)
Unparsable == -2    (* not a number to ParseFloat                          *)

(* What Prometheus answers.  An answer that is not ok is a failed request,  *)
(* a status other than 200 or a body without "success".                     *)
AnswerType ==
  [ok: BOOLEAN, resultType: {"scalar", "vector", "matrix"}, samples: Seq(Int)]

(* A condition compares result (index 0) or result[index - 1] with a bound, *)
(* or is that number itself ("truth"), or does not compile ("broken").      *)
ConditionType ==
  [op: {"empty", "broken", ">=", "<", "truth"}, index: Nat, bound: Nat]

NoValue(v) == v = <<>>

parseQueryResponse(a) ==
  IF \/ a.resultType \notin {"scalar", "vector"}
     \/ \E i \in DOMAIN a.samples : a.samples[i] = Unparsable
  THEN <<>>
  ELSE a.samples

Query(a) == IF a.ok THEN parseQueryResponse(a) ELSE <<>>

dispatch(provider, a) == IF provider = "prometheus" THEN Query(a) ELSE <<>>

(* The number a condition looks at is there: the scalar, or an element of   *)
(* a slice within its range.                                                *)
Bound(c, v) ==
  IF c.index = 0 THEN Len(v) = 1 ELSE Len(v) > 1 /\ c.index <= Len(v)

truthy(c, x) ==
  CASE c.op = ">="    -> x # NaN /\ x >= c.bound
    [] c.op = "<"     -> x # NaN /\ x < c.bound
    [] c.op = "truth" -> x # 0

Evaluate(c, v) ==
  IF c.op = "empty" THEN "ExprNotMatched"
  ELSE IF c.op = "broken" \/ ~Bound(c, v) THEN "ExprError"
  ELSE IF truthy(c, v[IF c.index = 0 THEN 1 ELSE c.index]) THEN "ExprMatched"
  ELSE "ExprNotMatched"

(* What the sample of metric m counts as when a is the answer; a condition  *)
(* in error decides nothing.                                                *)
measured(m, a) ==
  LET v == dispatch(m.provider, a)
  IN  IF NoValue(v) THEN "error"
      ELSE IF Evaluate(m.success, v) = "ExprMatched" THEN "ok"
      ELSE IF Evaluate(m.failure, v) = "ExprMatched" THEN "bad"
      ELSE "unclear"
=============================================================================
