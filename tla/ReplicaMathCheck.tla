------------------------- MODULE ReplicaMathCheck --------------------------
(***************************************************************************)
(* The replica arithmetic over its inputs.  A behaviour fixes the inputs   *)
(* that a step or the user sets and lets an autoscaler raise spec.replicas *)
(* one by one, so that the results for neighbouring counts can be related. *)
(***************************************************************************)
EXTENDS DeploymentMath

CONSTANTS
  MaxDesired,   (* the largest spec.replicas; bounds the model             *)
  Weights,      (* traffic weights that setWeight steps may ask for        *)
  Surges        (* maxSurge, in percent                                    *)

ASSUME MathAssumption ==
  /\ MaxDesired \in Nat
  /\ Weights \subseteq 0..100
  /\ Surges \subseteq 0..100

VARIABLES
  desired,      (* spec.replicas                                           *)
  weight,       (* status.currentWeight                                    *)
  strategy,     (* spec.hpaStrategy; Disabled never reaches the split      *)
  keep,         (* the canary's current count                              *)
  surge         (* progression.maxSurge                                    *)

inputs == <<weight, strategy, keep, surge>>
vars == <<desired, inputs>>

Strategies == {"Preserve", "StableOnly"}

TypeOK ==
  /\ desired \in 0..MaxDesired
  /\ weight \in Weights
  /\ strategy \in Strategies
  /\ keep \in 0..MaxDesired
  /\ surge \in Surges

Init ==
  /\ desired = 0
  /\ weight \in Weights
  /\ strategy \in Strategies
  /\ keep \in 0..MaxDesired
  /\ surge \in Surges

(* The autoscaler adds one replica. *)
ScaleUp ==
  /\ desired < MaxDesired
  /\ desired' = desired + 1
  /\ UNCHANGED inputs

Spec == Init /\ [][ScaleUp]_vars

Split == splitReplicas(desired, weight, strategy, keep)

-----------------------------------------------------------------------------
(* splitReplicas hands out exactly spec.replicas pods and never a negative *)
(* count, whatever the strategy and however large the canary already is.   *)
SplitExact ==
  /\ Split.canary + Split.stable = desired
  /\ Split.canary >= 0
  /\ Split.stable >= 0

(* Under Preserve the canary is the least number of pods that carries its  *)
(* weight; in particular a non-zero weight never leaves it without a pod.  *)
CanaryCarriesWeight ==
  strategy = "Preserve" =>
     /\ 100 * Split.canary >= desired * weight
     /\ 100 * Split.canary < desired * weight + 100
     /\ weight > 0 /\ desired > 0 => Split.canary > 0

(* A ReplicaSet created beside keep running pods stays inside the surge    *)
(* budget and asks for no more than spec.replicas.                         *)
CreateWithinSurge ==
  LET n == NewRSNewReplicas(desired, surge, keep)
  IN  /\ n \in 0..desired
      /\ n > 0 => n + keep <= desired + CeilPercent(desired, surge)

(* Raising spec.replicas takes pods from neither side of the split.        *)
ScaleUpTakesNothing ==
  [][Split'.canary >= Split.canary /\ Split'.stable >= Split.stable]_vars

(* The active ReplicaSets of a Deployment that is being scaled in the       *)
(* middle of a rollout, in the order of scale(): two or three, larger ones  *)
(* first, last sized for was replicas and their surge.                      *)
Actives(was) ==
  LET max == was + ResolveSurge(surge, was)
      sizes(n) == {s \in [1..n -> 1..max] :
                     /\ \A i, j \in 1..n : i < j => s[i] >= s[j]
                     /\ Total(s, 1..n) <= max}
  IN  UNION {{[i \in 1..n |-> [replicas |-> s[i], max |-> max]] : s \in sizes(n)} : n \in 2..3}

(* scale() hands out exactly the pods that spec.replicas and the surge      *)
(* allow, in spite of rounding; a Deployment that grows takes a pod from    *)
(* no ReplicaSet, and one that shrinks from its full surge gives to none.   *)
(* With four active ReplicaSets the roundings can add up to more than the   *)
(* first of them can make good.  Traffic weight and strategy are not among  *)
(* the inputs.                                                              *)
ProportionalFair ==
  strategy = "Preserve" /\ weight = 50 => \A rss \in Actives(keep) :
     LET extra == ResolveSurge(surge, desired)
         size == ProportionalSizes(rss, desired, extra)
         total == Total([i \in DOMAIN rss |-> rss[i].replicas], DOMAIN rss)
     IN  /\ Total(size, DOMAIN rss) = IF desired = 0 THEN 0 ELSE desired + extra
         /\ desired > keep => \A i \in DOMAIN rss : size[i] >= rss[i].replicas
         /\ desired < keep /\ total = rss[1].max =>
              \A i \in DOMAIN rss : size[i] \in 0..rss[i].replicas
=============================================================================
