----------------------------- MODULE MCRollout -----------------------------
(***************************************************************************)
(* Progressions for model checking the Rollout reconciler.                 *)
(***************************************************************************)
EXTENDS RolloutClaims

Blank(name, kind) ==
  [name |-> name, kind |-> kind, weight |-> 0, by |-> "replicas", count |-> 0,
   timed |-> FALSE, onFailure |-> "Rollback", onInconclusive |-> "Pause"]

Weight(name, w) == [Blank(name, "setWeight") EXCEPT !.weight = w]
TimedPause(name) == [Blank(name, "pause") EXCEPT !.timed = TRUE]
Hold(name) == Blank(name, "pause")
Gate(name, onFailure, onInconclusive) ==
  [Blank(name, "analysis") EXCEPT !.onFailure = onFailure, !.onInconclusive = onInconclusive]
Promote(name) == Blank(name, "promote")
Trial(name) == Blank(name, "experiment")
CanaryScale(name, by, n) == [Blank(name, "setCanaryScale") EXCEPT !.by = by, !.count = n]

(* The canary of the quickstart, a weight, a soak, a gate and a promotion,  *)
(* with a canary sized by percent.                                          *)
CanaryPlan == <<Weight("w50", 50), CanaryScale("half", "percent", 50), TimedPause("soak"),
                Gate("gate", "Rollback", "Pause"), Promote("go")>>
CanaryPlans == {CanaryPlan}

(* Half the traffic, then a pause without end. *)
ParkedPlan == <<Weight("w50", 50), Hold("park")>>
ParkedPlans == {ParkedPlan}

(* Two weights and a promotion, for caches that trail. *)
ShortPlan == <<Weight("w50", 50), Promote("go")>>
ShortPlans == {ShortPlan}

(* Every kind of step and policy but Rollback; replanned, the step the      *)
(* Rollout may be held at becomes a promotion.                              *)
MixedPlan == <<Trial("trial"), Gate("gate", "Pause", "Ignore"), Hold("park")>>
HeldPlan == <<Gate("gate", "Ignore", "Abort"), Promote("park")>>
MixedPlans == {MixedPlan, HeldPlan}

(* Half the traffic and as many pods, then a pause without end. *)
SizingPlan == <<Weight("w50", 50), CanaryScale("match", "match", 0), Hold("park")>>
SizingPlans == {SizingPlan}

GatePlan == <<Gate("gate", "Rollback", "Pause"), Hold("park")>>
GatePlans == {GatePlan}
=============================================================================
