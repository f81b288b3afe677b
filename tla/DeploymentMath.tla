--------------------------- MODULE DeploymentMath ---------------------------
(***************************************************************************)
(* The arithmetic of the forked deployment controller: the fenceposts of a *)
(* rolling update, the proportional split of a scaling event, and the two  *)
(* greedy loops that take pods from old ReplicaSets.                       *)
(***************************************************************************)
EXTENDS ReplicaMath, Sequences, FiniteSets

Larger(a, b) == IF a > b THEN a ELSE b

(***************************************************************************)
(* Sums and sorted lists, as sets and functions a proof can reason about.  *)
(***************************************************************************)
(* The sum of the natural numbers f[u], u in S: the pods u is to have are   *)
(* numbered and counted.                                                    *)
Total(f, S) == Cardinality(UNION {{u} \X (1..f[u]) : u \in S})

(* S as a list in the order of the relation before. *)
Sorted(S, before) ==
  CHOOSE s \in [1..Cardinality(S) -> S] :
     \A i, j \in 1..Cardinality(S) : i < j => <<s[i], s[j]>> \in before

(* The members of list s at the places in I, in their order. *)
Pick(s, I) ==
  LET at == Sorted(I, {p \in I \X I : p[1] < p[2]})
  IN  [k \in 1..Cardinality(I) |-> s[at[k]]]

-----------------------------------------------------------------------------
(***************************************************************************)
(* ResolveFenceposts: the surge is rounded up, the unavailability down;    *)
(* they are never both zero.                                               *)
(***************************************************************************)
ResolveSurge(surge, desired) == CeilPercent(desired, surge)

ResolveUnavailable(surge, unavailable, desired) ==
  LET u == (desired * unavailable) \div 100
  IN  IF ResolveSurge(surge, desired) = 0 /\ u = 0 THEN 1 ELSE u

(* A new ReplicaSet that looks at its own replicas only. *)
NewRSReplicasAlone(desired, surge, current, own) ==
  own + Smaller(desired + ResolveSurge(surge, desired) - own, desired - own)

(* NewRSNewReplicas for a ReplicaSet that may already have own replicas: it *)
(* is given what the surge budget leaves, up to the desired count.          *)
NewRSReplicas(desired, surge, current, own) ==
  LET maxTotal == desired + ResolveSurge(surge, desired)
  IN  IF current >= maxTotal THEN own
      ELSE own + Smaller(maxTotal - current, desired - own)

-----------------------------------------------------------------------------
(***************************************************************************)
(* Proportional scaling.  rss is the list of active ReplicaSets, each with *)
(* its replicas and its max-replicas annotation, in the order of scale().  *)
(***************************************************************************)
RoundToInt32(num, den) == (2 * num + den) \div (2 * den)

getReplicaSetFraction(r, desired, allowed) ==
  IF desired = 0 THEN -r.replicas
  ELSE RoundToInt32(r.replicas * allowed, r.max) - r.replicas

GetProportion(r, desired, allowed, toAdd, added) ==
  LET fraction == getReplicaSetFraction(r, desired, allowed)
      left == toAdd - added
  IN  IF r.replicas = 0 \/ toAdd = 0 \/ toAdd = added THEN 0
      ELSE IF toAdd > 0 THEN Smaller(fraction, left) ELSE Larger(fraction, left)

(* deploymentReplicasAdded after the first i of rss: what scale() has added *)
(* to (or taken from) them before the leftover.                             *)
Added(rss, desired, surge, toAdd) ==
  LET added[i \in 0..Len(rss)] ==
        IF i = 0 THEN 0
        ELSE added[i - 1]
               + GetProportion(rss[i], desired, desired + surge, toAdd, added[i - 1])
  IN  added

(* What scale() may hand out beyond, or has to take from, the total. *)
ToAdd(rss, desired, surge) ==
  (IF desired > 0 THEN desired + surge ELSE 0)
    - Total([i \in DOMAIN rss |-> rss[i].replicas], DOMAIN rss)

(* Sizes that forget what the rounding leaves over. *)
ProportionalSizesRounded(rss, desired, surge) ==
  LET added == Added(rss, desired, surge, ToAdd(rss, desired, surge))
  IN  [i \in DOMAIN rss |-> rss[i].replicas + added[i] - added[i - 1]]

(* The sizes scale() gives rss; the leftover goes to the first, which is    *)
(* the largest.                                                             *)
ProportionalSizes(rss, desired, surge) ==
  LET toAdd == ToAdd(rss, desired, surge)
      added == Added(rss, desired, surge, toAdd)
      leftover == toAdd - added[Len(rss)]
  IN  [i \in DOMAIN rss |->
         IF i = 1 THEN Larger(0, rss[i].replicas + added[1] + leftover)
         ELSE rss[i].replicas + added[i] - added[i - 1]]

-----------------------------------------------------------------------------
(***************************************************************************)
(* A loop that takes amounts[i] from each in turn until cap is used up.    *)
(***************************************************************************)
Before(amounts, i) == Total(amounts, 1..(i - 1))

(* A loop that does not look at what there is to take. *)
TakenBlind(amounts, cap) ==
  [i \in DOMAIN amounts |-> Larger(0, cap - Before(amounts, i))]

Taken(amounts, cap) ==
  [i \in DOMAIN amounts |->
     Larger(0, Smaller(amounts[i], cap - Before(amounts, i)))]
=============================================================================
