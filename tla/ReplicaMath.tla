---------------------------- MODULE ReplicaMath ----------------------------
(***************************************************************************)
(* The replica arithmetic of the Rollout reconciler: the canary/stable     *)
(* split of scaling.go, the setCanaryScale target of steps.go and the size *)
(* the forked deployment controller gives a ReplicaSet it creates.         *)
(*                                                                         *)
(* Percentages are rounded up on integers.  The code computes the split in *)
(* float64; the product of an int32 and a weight is below 2^38, so the     *)
(* quotient is far enough from the next integer for Ceil to be exact.      *)
(***************************************************************************)
EXTENDS Integers

CeilPercent(total, p) == (total * p + 99) \div 100

Smaller(a, b) == IF a < b THEN a ELSE b

(***************************************************************************)
(* The replica counts of the two sides of a rollout.                       *)
(***************************************************************************)
Pair(c, s) == [canary |-> c, stable |-> s]

(* A split that rounds the canary down. *)
splitReplicasRoundedDown(desired, weight, strategy, canaryKeep) ==
  LET c == IF strategy = "StableOnly" THEN Smaller(canaryKeep, desired)
           ELSE (desired * weight) \div 100
  IN  Pair(c, desired - c)

(* A StableOnly split that does not clamp the canary to the desired count. *)
splitReplicasUnclamped(desired, weight, strategy, canaryKeep) ==
  LET c == IF strategy = "StableOnly" THEN canaryKeep ELSE CeilPercent(desired, weight)
  IN  Pair(c, desired - c)

(* A StableOnly split that drops a canary larger than the desired count. *)
splitReplicasDropped(desired, weight, strategy, canaryKeep) ==
  LET c == CASE strategy # "StableOnly" -> CeilPercent(desired, weight)
             [] strategy = "StableOnly" -> IF canaryKeep > desired THEN 0 ELSE canaryKeep
  IN  Pair(c, desired - c)

splitReplicas(desired, weight, strategy, canaryKeep) ==
  LET c == IF strategy = "StableOnly" THEN Smaller(canaryKeep, desired)
           ELSE IF weight <= 0   THEN 0
           ELSE IF weight >= 100 THEN desired
           ELSE Smaller(CeilPercent(desired, weight), desired)
  IN  IF desired <= 0 THEN Pair(0, 0) ELSE Pair(c, desired - c)

percentOf(total, p) == Smaller(CeilPercent(total, p), total)

(* NewRSNewReplicas without the clamp to the desired count. *)
NewRSNewReplicasUnclamped(replicas, surge, current) ==
  LET maxTotal == replicas + CeilPercent(replicas, surge)
  IN  IF current >= maxTotal THEN 0 ELSE maxTotal - current

(* NewRSNewReplicas that does not see that the budget is used up. *)
NewRSNewReplicasOverdrawn(replicas, surge, current) ==
  Smaller(replicas + CeilPercent(replicas, surge) - current, replicas)

(***************************************************************************)
(* The size of a ReplicaSet being created (its own count is still zero):   *)
(* what the surge budget leaves beside the current pods, at most replicas. *)
(***************************************************************************)
NewRSNewReplicas(replicas, surge, current) ==
  LET maxTotal == replicas + CeilPercent(replicas, surge)
  IN  IF current >= maxTotal THEN 0 ELSE Smaller(maxTotal - current, replicas)
=============================================================================
