------------------------- MODULE ReplicaMathProofs -------------------------
(***************************************************************************)
(* The properties of ReplicaMathCheck for every spec.replicas, every       *)
(* weight and every surge.                                                 *)
(***************************************************************************)
EXTENDS ReplicaMathCheck, MathLemmas

(* The inputs keep their ranges. *)
THEOREM InputsTyped == Spec => []TypeOK
<1>1. Init => TypeOK
  BY MathAssumption DEF Init, TypeOK
<1>2. TypeOK /\ [ScaleUp]_vars => TypeOK'
  BY MathAssumption DEF TypeOK, ScaleUp, vars, inputs
<1> QED  BY <1>1, <1>2, PTL DEF Spec

(* What the lemmas need of the inputs. *)
LEMMA InputRanges ==
  ASSUME TypeOK
  PROVE  /\ desired \in Nat /\ weight \in 0..100 /\ keep \in Nat
         /\ surge \in 0..100
BY MathAssumption DEF TypeOK

(* splitReplicas hands out exactly spec.replicas, for every input.         *)
THEOREM SplitIsExact == Spec => []SplitExact
<1>1. TypeOK => SplitExact
  <2> SUFFICES ASSUME TypeOK PROVE SplitExact
    OBVIOUS
  <2> QED  BY InputRanges, SplitBounds, SMTT(30) DEF SplitExact, Split
<1> QED  BY <1>1, InputsTyped, PTL

(* Under Preserve the canary is the least count that carries its weight.   *)
THEOREM CanaryCarries == Spec => []CanaryCarriesWeight
<1>1. TypeOK => CanaryCarriesWeight
  <2> SUFFICES ASSUME TypeOK, strategy = "Preserve"
               PROVE  /\ 100 * Split.canary >= desired * weight
                      /\ 100 * Split.canary < desired * weight + 100
                      /\ weight > 0 /\ desired > 0 => Split.canary > 0
    BY DEF CanaryCarriesWeight
  <2>1. desired \in Nat /\ weight \in 0..100 /\ keep \in Nat
    BY InputRanges
  <2>2. Split.canary = CeilPercent(desired, weight)
    BY <2>1, PreserveSplit DEF Split
  <2>3. /\ Split.canary \in Nat
        /\ 100 * Split.canary >= desired * weight
        /\ 100 * Split.canary < desired * weight + 100
    <3>1. /\ CeilPercent(desired, weight) \in 0..desired
          /\ 100 * CeilPercent(desired, weight) >= desired * weight
          /\ 100 * CeilPercent(desired, weight) < desired * weight + 100
      BY <2>1, CeilPercentBounds, Zenon
    <3> QED  BY <2>1, <2>2, <3>1
  <2>4. weight > 0 /\ desired > 0 => desired * weight > 0
    BY <2>1
  <2> QED  BY <2>1, <2>3, <2>4
<1> QED  BY <1>1, InputsTyped, PTL

(* A new ReplicaSet stays inside the surge budget.                         *)
THEOREM CreateInBudget == Spec => []CreateWithinSurge
<1>1. TypeOK => CreateWithinSurge
  <2> SUFFICES ASSUME TypeOK PROVE CreateWithinSurge
    OBVIOUS
  <2> QED  BY InputRanges, NewRSBounds DEF CreateWithinSurge
<1> QED  BY <1>1, InputsTyped, PTL

(* One more replica takes a pod from neither side: the canary's share      *)
(* grows by one pod at most.                                               *)
THEOREM ScaleUpIsMonotone == Spec => ScaleUpTakesNothing
<1>1. ASSUME TypeOK, [ScaleUp]_vars
      PROVE  [Split'.canary >= Split.canary /\ Split'.stable >= Split.stable]_vars
  <2> SUFFICES ASSUME ScaleUp
               PROVE  Split'.canary >= Split.canary /\ Split'.stable >= Split.stable
    BY <1>1
  <2> USE <1>1
  <2>1. /\ desired \in Nat /\ weight \in 0..100 /\ keep \in Nat
        /\ strategy \in Strategies
    BY InputRanges DEF TypeOK
  <2>2. desired' = desired + 1 /\ weight' = weight /\ keep' = keep /\ strategy' = strategy
    BY DEF ScaleUp, inputs
  <2> DEFINE w == weight
             k == keep
             a == splitReplicas(desired, w, strategy, k)
             b == splitReplicas(desired + 1, w, strategy, k)
  <2>3. Split = a /\ Split' = b
    BY <2>2 DEF Split
  <2>4. /\ a.canary \in 0..desired /\ a.stable = desired - a.canary
        /\ b.canary \in 0..(desired + 1) /\ b.stable = desired + 1 - b.canary
    <3>1. /\ a.canary \in 0..desired /\ a.stable \in 0..desired
          /\ a.canary + a.stable = desired
      BY <2>1, SplitBounds
    <3>2. /\ b.canary \in 0..(desired + 1) /\ b.stable \in 0..(desired + 1)
          /\ b.canary + b.stable = desired + 1
      BY <2>1, SplitBounds, SMTT(30)
    <3> QED  BY <2>1, <3>1, <3>2
  <2> HIDE DEF a, b, w, k
  <2>5. desired + 1 \in Nat /\ w \in 0..100 /\ k \in Nat
    BY <2>1 DEF w, k
  <2>6. b.canary \in {a.canary, a.canary + 1}
    <3>1. CASE strategy = "StableOnly"
      BY <2>1, <2>5, <3>1 DEF a, b, splitReplicas, Smaller, Pair
    <3>2. CASE strategy # "StableOnly"
      <4>1. a.canary = CeilPercent(desired, w) /\ b.canary = CeilPercent(desired + 1, w)
        BY <2>1, <2>5, <3>2, PreserveSplit, Zenon DEF a, b
      <4>2. /\ 100 * a.canary >= desired * w /\ 100 * a.canary < desired * w + 100
            /\ 100 * b.canary >= (desired + 1) * w
            /\ 100 * b.canary < (desired + 1) * w + 100
        BY <2>1, <2>5, <4>1, CeilPercentBounds, Zenon
      <4>3. (desired + 1) * w = desired * w + w /\ desired * w \in Int
        BY <2>1, <2>5
      <4> QED  BY <2>1, <2>4, <2>5, <4>2, <4>3
    <3> QED  BY <3>1, <3>2
  <2> QED  BY <2>1, <2>3, <2>4, <2>6
<1> QED  BY <1>1, InputsTyped, PTL DEF Spec, ScaleUpTakesNothing
-----------------------------------------------------------------------------
(***************************************************************************)
(* Proportional scaling of two or three active ReplicaSets.                *)
(***************************************************************************)
(* A share rounded to the nearest exceeds the exact one by a half at most,  *)
(* and is no more than what it is a share of.                               *)
LEMMA RoundShare ==
  ASSUME NEW r \in Nat, NEW a \in Nat, NEW m \in Nat \ {0}
  PROVE  LET q == RoundToInt32(r * a, m)
         IN  /\ q \in Nat /\ 2 * (m * q) <= 2 * (r * a) + m
             /\ a <= m => q <= r
<1> DEFINE p == r * a
           q == (2 * p + m) \div (2 * m)
<1>1. p \in Nat
  OBVIOUS
<1>2. a <= m => p <= r * m
  <2> SUFFICES ASSUME a <= m PROVE p <= r * m
    OBVIOUS
  <2>1. r * (m - a) \in Nat
    OBVIOUS
  <2>2. r * (m - a) = r * m - r * a
    OBVIOUS
  <2> QED  BY <2>1, <2>2
<1>3. r * m \in Nat
  OBVIOUS
<1>4. q \in Nat
  <2> HIDE DEF p
  <2> QED  BY <1>1
<1>5. (2 * m) * q <= 2 * p + m
  <2> HIDE DEF p
  <2> QED  BY <1>1
<1>6. (2 * m) * q = 2 * (m * q) /\ m * q \in Nat
  <2> HIDE DEF q
  <2> QED  BY <1>4
<1>7. a <= m => q <= r
  <2> SUFFICES ASSUME a <= m, q > r PROVE FALSE
    BY <1>4
  <2> HIDE DEF p, q
  <2>1. m * (q - r - 1) \in Nat
    BY <1>4
  <2>2. m * (q - r - 1) = m * q - r * m - m
    BY <1>4
  <2> QED  BY <1>1, <1>2, <1>3, <1>5, <1>6, <2>1, <2>2
<1> HIDE DEF q
<1> QED  BY <1>4, <1>5, <1>6, <1>7 DEF q, RoundToInt32

(* What scale() takes from one ReplicaSet when there is something to take:  *)
(* its whole share, unless that is more than is left to take.               *)
TakesShare(r, d, a, toAdd, added) ==
  LET part == GetProportion(r, d, a, toAdd, added)
  IN  /\ part \in Int /\ part <= 0 /\ added + part >= toAdd /\ r.replicas + part >= 0
      /\ added = toAdd => part = 0
      /\ \/ added + part = toAdd
         \/ part = RoundToInt32(r.replicas * a, r.max) - r.replicas

(* It does so from any ReplicaSet that was sized for at least as much as    *)
(* the Deployment may have now.                                             *)
LEMMA TakenShare ==
  ASSUME NEW r, r.replicas \in Nat, r.max \in Nat \ {0}, NEW d \in Nat, d > 0, NEW a \in Nat,
         a <= r.max, NEW toAdd \in Int, toAdd < 0, NEW added \in Int, added >= toAdd
  PROVE  TakesShare(r, d, a, toAdd, added)
<1> DEFINE q == RoundToInt32(r.replicas * a, r.max)
           k == r.replicas
           part == GetProportion(r, d, a, toAdd, added)
<1>1. q \in Nat /\ q <= k /\ k \in Nat
  BY RoundShare
<1> HIDE DEF q
<1>2. part = IF k = 0 \/ toAdd = 0 \/ toAdd = added THEN 0
             ELSE IF toAdd > 0 THEN Smaller(q - k, toAdd - added) ELSE Larger(q - k, toAdd - added)
  BY DEF GetProportion, getReplicaSetFraction, q
<1> HIDE DEF part, k
<1>3. /\ part \in Int /\ part <= 0 /\ added + part >= toAdd /\ k + part >= 0
      /\ added = toAdd => part = 0
      /\ added + part = toAdd \/ part = q - k
  BY <1>1, <1>2 DEF Smaller, Larger
<1> QED  BY <1>3 DEF TakesShare, q, k, part

(* Two shares of the smaller ReplicaSets together, each rounded: no more    *)
(* than there is to share.                                                  *)
LEMMA SharesFit ==
  ASSUME NEW r1 \in Nat, NEW r2 \in Nat, NEW r3 \in Nat, r1 >= r2, r2 >= r3,
         NEW m \in Nat \ {0}, r1 + r2 + r3 <= m, NEW a \in Nat \ {0},
         NEW q2 \in Nat, NEW q3 \in Nat,
         2 * (m * q2) <= 2 * (r2 * a) + m, 2 * (m * q3) <= 2 * (r3 * a) + m
  PROVE  q2 + q3 <= a
<1> SUFFICES ASSUME q2 + q3 > a PROVE FALSE
  OBVIOUS
<1>1. a * (2 * m - 3 * (r2 + r3)) \in Nat
  <2>1. 2 * m - 3 * (r2 + r3) \in Nat
    OBVIOUS
  <2> QED  BY <2>1
<1>2. a * (2 * m - 3 * (r2 + r3)) = 2 * (m * a) - 3 * (r2 * a) - 3 * (r3 * a)
  OBVIOUS
<1>3. m * (q2 + q3 - a - 1) \in Nat
  OBVIOUS
<1>4. m * (q2 + q3 - a - 1) = m * q2 + m * q3 - m * a - m
  OBVIOUS
<1>5. m * a >= m
  <2>1. m * (a - 1) \in Nat
    OBVIOUS
  <2>2. m * (a - 1) = m * a - m
    OBVIOUS
  <2> QED  BY <2>1, <2>2
<1>6. /\ m * q2 \in Nat /\ m * q3 \in Nat /\ r2 * a \in Nat /\ r3 * a \in Nat
      /\ m * a \in Nat
  OBVIOUS
<1> DEFINE x == m * q2
           y == m * q3
           u == r2 * a
           v == r3 * a
           c == m * a
<1>7. /\ x \in Nat /\ y \in Nat /\ u \in Nat /\ v \in Nat /\ c \in Nat /\ m \in Nat \ {0}
      /\ 2 * x <= 2 * u + m /\ 2 * y <= 2 * v + m
      /\ 2 * c - 3 * u - 3 * v >= 0 /\ x + y - c - m >= 0 /\ c >= m
  BY <1>1, <1>2, <1>3, <1>4, <1>5, <1>6
<1> HIDE DEF x, y, u, v, c
<1> QED  BY ONLY <1>7

(* The sum of two or three numbers. *)
LEMMA TotalOfThree ==
  ASSUME NEW n, n \in {2, 3}, NEW f, \A i \in 1..n : f[i] \in Nat
  PROVE  Total(f, 1..n) = f[1] + f[2] + (IF n = 3 THEN f[3] ELSE 0)
<1>1. n \in Nat /\ 0 \in 0..(n - 1) /\ 1 \in 0..(n - 1) /\ f[1] \in Nat /\ f[2] \in Nat
  OBVIOUS
<1>2. Total(f, 1..(0 + 1)) = Total(f, 1..0) + f[0 + 1]
  BY <1>1, TotalNext
<1>3. Total(f, 1..(1 + 1)) = Total(f, 1..1) + f[1 + 1]
  BY <1>1, TotalNext
<1>4. Total(f, 1..2) = f[1] + f[2]
  <2>1. Total(f, 1..0) = 0
    BY TotalNone
  <2> QED  BY <1>1, <1>2, <1>3, <2>1
<1>5. CASE n = 3
  <2>1. 2 \in 0..(n - 1)
    BY <1>5
  <2>2. Total(f, 1..(2 + 1)) = Total(f, 1..2) + f[2 + 1]
    BY <1>1, <2>1, TotalNext
  <2> QED  BY <1>4, <1>5, <2>2
<1>6. CASE n = 2
  BY <1>1, <1>4, <1>6
<1> QED  BY <1>5, <1>6

(* Two or three ReplicaSets with the sizes r, larger ones first, that were  *)
(* sized together for m replicas.                                           *)
SizedTogether(rss, n, r, m) ==
  /\ n \in {2, 3} /\ Sized(rss, n) /\ m \in Nat \ {0}
  /\ \A i \in 1..n : rss[i].max = m
  /\ r = [i \in 1..n |-> rss[i].replicas]
  /\ \A i, j \in 1..n : i < j => r[i] >= r[j]
  /\ Total(r, 1..n) <= m

(* Of these, scale() makes exactly what the Deployment may have: when it    *)
(* takes, the others keep no more than that, so that the first can make     *)
(* good what rounding leaves.                                               *)
LEMMA ScaledExactly ==
  ASSUME NEW rss, NEW n, NEW r, NEW m, SizedTogether(rss, n, r, m),
         NEW d \in Nat, d > 0, NEW s \in Nat
  PROVE  LET z == ProportionalSizes(rss, d, s)
         IN  /\ Total(z, 1..n) = d + s
             /\ d + s <= Total(r, 1..n) => \A i \in 1..n : z[i] <= r[i]
<1>given.
  /\ n \in {2, 3} /\ Sized(rss, n) /\ m \in Nat \ {0}
  /\ \A i \in 1..n : rss[i].max = m
  /\ r = [i \in 1..n |-> rss[i].replicas]
  /\ \A i, j \in 1..n : i < j => r[i] >= r[j]
  /\ Total(r, 1..n) <= m
  BY DEF SizedTogether
<1> USE <1>given
<1> DEFINE a == d + s
           toAdd == ToAdd(rss, d, s)
           added == Added(rss, d, s, toAdd)
           z == ProportionalSizes(rss, d, s)
           part(i, k) == GetProportion(rss[i], d, a, toAdd, k)
           r3 == IF n = 3 THEN r[3] ELSE 0
           p1 == part(1, 0)
           p2 == part(2, p1)
           p3 == IF n = 3 THEN part(3, p1 + p2) ELSE 0
           left == toAdd - (p1 + p2 + p3)
           z3 == IF n = 3 THEN z[3] ELSE 0
<1>1. /\ n \in Nat /\ Len(rss) = n /\ DOMAIN rss = 1..n /\ 1 \in 1..n /\ 2 \in 1..n
      /\ n = 3 => 3 \in 1..n
  BY DEF Sized
<1>2. \A i \in 1..n : r[i] \in Nat /\ r[i] = rss[i].replicas /\ rss[i].max = m
  BY DEF Sized
<1>3. /\ r[1] \in Nat /\ r[2] \in Nat /\ r3 \in Nat /\ r[1] >= r[2] /\ r[2] >= r3
      /\ Total(r, 1..n) = r[1] + r[2] + r3 /\ r[1] + r[2] + r3 <= m
  <2>1. \A i \in 1..n : r[i] \in Nat
    BY <1>2
  <2>2. Total(r, 1..n) = r[1] + r[2] + r3
    BY ONLY n \in {2, 3}, <2>1, TotalOfThree
  <2> QED  BY <1>1, <1>2, <2>2
<1>4. toAdd = a - (r[1] + r[2] + r3) /\ toAdd \in Int /\ a \in Nat \ {0}
  <2>1. toAdd = a - Total(r, 1..n)
    BY <1>1 DEF ToAdd
  <2> HIDE DEF toAdd, r3
  <2> QED  BY <1>3, <2>1
<1> HIDE DEF toAdd, a
<1>5. /\ added \in [0..n -> Int] /\ added[0] = 0
      /\ \A i \in 1..n : added[i] = added[i - 1] + part(i, added[i - 1])
  <2>1. LET g == Added(rss, d, s, toAdd)
        IN  /\ g \in [0..n -> Int] /\ g[0] = 0
            /\ \A i \in 1..n : g[i] = g[i - 1] + GetProportion(rss[i], d, d + s, toAdd, g[i - 1])
    <3>1. toAdd \in Int
      BY <1>4
    <3> QED  BY ONLY <3>1, d \in Nat, s \in Nat, Sized(rss, n), AddedRuns
  <2> QED  BY <2>1 DEF a
<1>6. z = [i \in 1..n |-> IF i = 1 THEN Larger(0, rss[i].replicas + added[1] + (toAdd - added[n]))
                          ELSE rss[i].replicas + added[i] - added[i - 1]]
  BY <1>1 DEF ProportionalSizes, toAdd
<1>7. z \in [1..n -> Nat]
  BY <1>1, SizesBounds
<1> HIDE DEF z, added
<1>8. /\ added[1] = p1 /\ added[2] = p1 + p2 /\ added[n] = p1 + p2 + p3
      /\ p1 \in Int /\ p2 \in Int /\ p3 \in Int
  <2>1. \A i \in 1..n, k \in Int : part(i, k) \in Int
    <3> TAKE i \in 1..n, k \in Int
    <3>1. rss[i].replicas \in Nat /\ rss[i].max \in Nat \ {0}
      BY <1>2
    <3> QED  BY <1>4, <3>1, ProportionBounds
  <2> HIDE DEF part
  <2>2. added[1] = added[0] + part(1, added[0]) /\ p1 \in Int
    BY <1>1, <1>5, <2>1
  <2>3. added[1] = p1
    BY <1>5, <2>2
  <2> HIDE DEF p1
  <2>4. added[2] = p1 + p2 /\ p2 \in Int
    <3>1. added[2] = added[1] + part(2, added[1])
      BY <1>1, <1>5
    <3> QED  BY <1>1, <2>1, <2>2, <2>3, <3>1
  <2> HIDE DEF p2
  <2>5. CASE n = 3
    <3>1. added[3] = added[2] + part(3, added[2])
      BY <1>1, <1>5, <2>5
    <3>2. p3 = part(3, p1 + p2) /\ p1 + p2 \in Int
      BY <2>2, <2>4, <2>5
    <3>3. p3 \in Int
      BY <1>1, <2>1, <2>5, <3>2
    <3> HIDE DEF p3
    <3> QED  BY <2>2, <2>3, <2>4, <2>5, <3>1, <3>2, <3>3
  <2>6. CASE n = 2
    BY <2>2, <2>3, <2>4, <2>6
  <2> QED  BY <2>5, <2>6
<1>9. /\ z[1] = Larger(0, r[1] + p1 + left) /\ z[2] = r[2] + p2 /\ z3 = r3 + p3
      /\ Total(z, 1..n) = z[1] + z[2] + z3
      /\ z[1] \in Nat /\ z[2] \in Nat /\ z3 \in Nat
  <2>1. Total(z, 1..n) = z[1] + z[2] + z3
    BY <1>7, TotalOfThree
  <2>2. z[1] \in Nat /\ z[2] \in Nat /\ z3 \in Nat
    BY <1>1, <1>7
  <2> HIDE DEF p1, p2, part
  <2>3. z[1] = Larger(0, r[1] + p1 + left) /\ z[2] = r[2] + p2
    <3> HIDE DEF p3
    <3>1. /\ z[1] = Larger(0, r[1] + added[1] + (toAdd - added[n]))
          /\ z[2] = r[2] + added[2] - added[1]
      BY <1>1, <1>2, <1>6
    <3>2. r[2] \in Nat
      BY <1>3
    <3> QED  BY <1>8, <3>1, <3>2
  <2>4. z3 = r3 + p3
    <3>1. CASE n = 3
      <4>1. z[3] = r[3] + added[3] - added[2] /\ r[3] \in Nat
        BY <1>1, <1>2, <1>6, <3>1
      <4> HIDE DEF p3
      <4> QED  BY <1>8, <3>1, <4>1
    <3>2. CASE n = 2
      BY <3>2
    <3> QED  BY <3>1, <3>2
  <2> QED  BY <2>1, <2>2, <2>3, <2>4
<1> DEFINE r1 == r[1]
           r2 == r[2]
           z1 == z[1]
           z2 == z[2]
<1>sums.
  /\ a \in Nat /\ toAdd \in Int
  /\ r1 \in Nat /\ r2 \in Nat /\ r3 \in Nat /\ r1 >= r2 /\ r2 >= r3
  /\ Total(r, 1..n) = r1 + r2 + r3 /\ toAdd = a - (r1 + r2 + r3)
  /\ z1 = Larger(0, r1 + p1 + left) /\ z2 = r2 + p2 /\ z3 = r3 + p3
  /\ Total(z, 1..n) = z1 + z2 + z3
  BY <1>3, <1>4, <1>9
<1>10. \A i \in 1..n : rss[i].replicas = r[i] /\ r[i] \in Nat /\ rss[i].max = m /\ m \in Nat \ {0}
  BY <1>2
<1>11. CASE toAdd >= 0
  <2>1. ASSUME NEW i \in 1..n, NEW k \in Int, k <= toAdd
        PROVE  /\ k + part(i, k) <= toAdd /\ r[i] + part(i, k) >= 0
               /\ toAdd = 0 => part(i, k) = 0
    <3>1. /\ toAdd > 0 => k + part(i, k) <= toAdd /\ rss[i].replicas + part(i, k) >= 0
          /\ toAdd = 0 => part(i, k) = 0
      <4>1. rss[i].replicas \in Nat /\ rss[i].max \in Nat \ {0} /\ d \in Nat /\ a \in Nat
        BY <1>4, <1>10
      <4> QED  BY ONLY <1>4, <2>1, <4>1, ProportionBounds
    <3> HIDE DEF part
    <3> QED  BY <1>4, <1>10, <1>11, <2>1, <3>1
  <2> HIDE DEF part
  <2>2. p1 <= toAdd /\ r[1] + p1 >= 0 /\ (toAdd = 0 => p1 = 0)
    BY <1>1, <1>4, <1>8, <1>11, <2>1
  <2> HIDE DEF p1
  <2>3. p1 + p2 <= toAdd /\ (toAdd = 0 => p2 = 0)
    BY <1>1, <1>8, <2>1, <2>2
  <2> HIDE DEF p2
  <2>4. p1 + p2 + p3 <= toAdd /\ (toAdd = 0 => p3 = 0)
    <3>1. n = 3 => p1 + p2 + part(3, p1 + p2) <= toAdd /\ (toAdd = 0 => part(3, p1 + p2) = 0)
      BY <1>1, <1>8, <2>1, <2>3
    <3> QED  BY <1>8, <2>3, <3>1
  <2> HIDE DEF p3, r3, z3
  <2>5. r1 + p1 + left >= 0 /\ left \in Int
    <3>1. r1 + p1 >= 0
      BY <2>2
    <3> HIDE DEF r1, r2, z1, z2
    <3> QED  BY ONLY <1>8, <1>sums, <2>4, <3>1
  <2> HIDE DEF left, r1, r2, z1, z2
  <2>6. Total(z, 1..n) = a
    BY ONLY <1>8, <1>sums, <2>5 DEF left, Larger
  <2>7. ASSUME a <= Total(r, 1..n) PROVE z1 <= r1 /\ z2 <= r2 /\ z3 <= r3
    <3>1. toAdd = 0
      BY ONLY <1>3, <1>4, <1>11, <2>7
    <3>2. p1 = 0 /\ p2 = 0 /\ p3 = 0 /\ left = 0
      BY <2>2, <2>3, <2>4, <3>1 DEF left
    <3> QED  BY ONLY <1>8, <1>sums, <2>5, <3>2 DEF left, Larger
  <2>8. ASSUME a <= Total(r, 1..n), NEW i \in 1..n PROVE z[i] <= r[i]
    <3>1. i = 1 \/ i = 2 \/ (n = 3 /\ i = 3)
      OBVIOUS
    <3> QED  BY <2>7, <2>8, <3>1 DEF z1, z2, z3, r1, r2, r3
  <2> QED  BY <2>6, <2>8 DEF a, z
<1>12. CASE toAdd < 0
  <2> DEFINE q(i) == RoundToInt32(r[i] * a, m)
             q3 == IF n = 3 THEN q(3) ELSE 0
  <2>1. a <= m
    <3> HIDE DEF r3
    <3> QED  BY <1>3, <1>4, <1>12
  <2>2. ASSUME NEW i \in 1..n, NEW k \in Int, k >= toAdd
        PROVE  /\ part(i, k) <= 0 /\ k + part(i, k) >= toAdd /\ r[i] + part(i, k) >= 0
               /\ k = toAdd => part(i, k) = 0
               /\ k + part(i, k) = toAdd \/ part(i, k) = q(i) - r[i]
    <3>1. /\ rss[i].replicas \in Nat /\ rss[i].max \in Nat \ {0} /\ a \in Nat /\ a <= rss[i].max
          /\ d \in Nat /\ d > 0
      BY <1>4, <1>10, <2>1
    <3>2. /\ part(i, k) <= 0 /\ k + part(i, k) >= toAdd /\ rss[i].replicas + part(i, k) >= 0
          /\ k = toAdd => part(i, k) = 0
          /\ \/ k + part(i, k) = toAdd
             \/ part(i, k) = RoundToInt32(rss[i].replicas * a, rss[i].max) - rss[i].replicas
      <4>1. toAdd \in Int /\ toAdd < 0
        BY <1>4, <1>12
      <4> DEFINE e == rss[i]
      <4>2. e.replicas \in Nat /\ e.max \in Nat \ {0} /\ a <= e.max
        BY <3>1
      <4> HIDE DEF e
      <4>3. TakesShare(e, d, a, toAdd, k)
        BY <2>2, <3>1, <4>1, <4>2, TakenShare, Zenon
      <4> QED  BY <4>3 DEF e, TakesShare
    <3> HIDE DEF part
    <3> QED  BY <1>10, <3>2
  <2>3. \A i \in 1..n : q(i) \in Nat /\ 2 * (m * q(i)) <= 2 * (r[i] * a) + m
    BY <1>4, <1>10, RoundShare
  <2> HIDE DEF part, q
  <2>4. p1 <= 0 /\ p1 >= toAdd /\ r[1] + p1 >= 0 /\ (p1 = toAdd \/ p1 = q(1) - r[1])
    <3>1. 0 >= toAdd /\ 0 \in Int
      BY <1>4, <1>12
    <3>2. p1 <= 0 /\ 0 + p1 >= toAdd /\ r[1] + p1 >= 0 /\ (0 + p1 = toAdd \/ p1 = q(1) - r[1])
      BY <1>1, <2>2, <3>1
    <3> HIDE DEF p1
    <3> QED  BY <1>8, <3>2
  <2> HIDE DEF p1
  <2>5. /\ p2 <= 0 /\ p1 + p2 >= toAdd /\ (p1 = toAdd => p2 = 0)
        /\ p1 + p2 = toAdd \/ p2 = q(2) - r[2]
    BY <1>1, <1>8, <2>2, <2>4
  <2> HIDE DEF p2
  <2>6. /\ p3 <= 0 /\ p1 + p2 + p3 >= toAdd /\ (p1 + p2 = toAdd => p3 = 0)
        /\ p1 + p2 + p3 = toAdd \/ p3 = q3 - r3
    <3>1. CASE n = 3
      <4>1. p1 + p2 \in Int /\ p3 = part(3, p1 + p2) /\ q3 = q(3) /\ r3 = r[3] /\ 3 \in 1..n
        BY <1>1, <1>8, <3>1
      <4> HIDE DEF p3, q3, r3
      <4> QED  BY <1>8, <2>2, <2>5, <4>1
    <3>2. CASE n = 2
      BY <1>8, <2>5, <3>2
    <3> QED  BY <3>1, <3>2
  <2>7. q(2) + q3 <= a
    <3>1. q3 \in Nat /\ 2 * (m * q3) <= 2 * (r3 * a) + m
      BY <1>1, <1>4, <2>3
    <3>2. q(2) \in Nat /\ 2 * (m * q(2)) <= 2 * (r[2] * a) + m
      BY <1>1, <2>3
    <3> HIDE DEF q3, r3
    <3> QED  BY <1>3, <1>4, <3>1, <3>2, SharesFit
  <2>8. q(1) \in Nat /\ q(2) \in Nat /\ q3 \in Nat
    BY <1>1, <2>3
  <2> HIDE DEF p3, q3, r3, z3
  <2> DEFINE q1 == q(1)
             q2 == q(2)
  <2>shares.
    /\ q1 \in Nat /\ q2 \in Nat /\ q3 \in Nat /\ q2 + q3 <= a
    /\ r1 + p1 >= 0 /\ (p1 = toAdd \/ p1 = q1 - r1)
    /\ p1 + p2 = toAdd \/ p2 = q2 - r2
    BY <2>4, <2>5, <2>7, <2>8
  <2> HIDE DEF r1, r2, z1, z2, q1, q2
  <2>9. r1 + p1 + left >= 0
    BY ONLY <1>8, <1>sums, <2>5, <2>6, <2>shares
  <2>10. left <= 0 /\ left \in Int
    BY ONLY <1>4, <1>8, <2>6
  <2> HIDE DEF left
  <2>11. Total(z, 1..n) = a
    BY ONLY <1>8, <1>sums, <2>9 DEF left, Larger
  <2>12. z1 <= r1 /\ z2 <= r2 /\ z3 <= r3
    BY ONLY <1>8, <1>sums, <2>4, <2>5, <2>6, <2>9, <2>10 DEF left, Larger
  <2>13. \A i \in 1..n : z[i] <= r[i]
    <3> TAKE i \in 1..n
    <3>1. i = 1 \/ i = 2 \/ (n = 3 /\ i = 3)
      OBVIOUS
    <3> QED  BY <2>12, <3>1 DEF z1, z2, z3, r1, r2, r3
  <2> QED  BY <2>11, <2>13 DEF a, z
<1> QED  BY <1>4, <1>11, <1>12

(* What scale() does to them. *)
ScaledFairly(rss, n, r, m, d, s) ==
  LET z == ProportionalSizes(rss, d, s)
  IN  /\ Total(z, 1..n) = IF d = 0 THEN 0 ELSE d + s
      /\ d > 0 /\ m <= d + s => \A i \in 1..n : z[i] >= r[i]
      /\ d + s <= Total(r, 1..n) => \A i \in 1..n : z[i] \in 0..r[i]

(* It does so whatever size the Deployment gets. *)
LEMMA FairSizes ==
  ASSUME NEW rss, NEW n, NEW r, NEW m, SizedTogether(rss, n, r, m),
         NEW d \in Nat, NEW s \in Nat
  PROVE  ScaledFairly(rss, n, r, m, d, s)
<1> DEFINE z == ProportionalSizes(rss, d, s)
<1>given.
  /\ n \in {2, 3} /\ Sized(rss, n) /\ m \in Nat \ {0}
  /\ \A i \in 1..n : rss[i].max = m
  /\ r = [i \in 1..n |-> rss[i].replicas]
  /\ Total(r, 1..n) <= m
  BY DEF SizedTogether
<1>1. \A i \in 1..n : r[i] \in Nat
  BY <1>given DEF Sized
<1>2. IsFiniteSet(1..n)
  <2>1. n \in Int
    BY <1>given
  <2> QED  BY <2>1, RangeFinite
<1>3. Total(r, 1..n) \in Nat
  BY <1>1, <1>2, TotalNat
<1>4. /\ z \in [1..n -> Nat]
      /\ d = 0 => \A i \in 1..n : z[i] = 0
      /\ /\ d > 0 /\ Total(r, 1..n) <= d + s
         /\ \A i \in 1..n : rss[i].max <= d + s
         => \A i \in 1..n : r[i] <= z[i]
  <2>1. z \in [1..n -> Nat]
    BY <1>given, SizesBounds
  <2>2. d = 0 => \A i \in 1..n : z[i] = 0
    BY <1>given, SizesBounds
  <2>3. ASSUME d > 0, Total(r, 1..n) <= d + s, \A i \in 1..n : rss[i].max <= d + s
        PROVE  \A i \in 1..n : r[i] <= z[i]
    BY <1>given, <2>3, SizesBounds
  <2> QED  BY <2>1, <2>2, <2>3
<1>5. d > 0 => /\ Total(z, 1..n) = d + s
               /\ d + s <= Total(r, 1..n) => \A i \in 1..n : z[i] <= r[i]
  BY ScaledExactly
<1> HIDE DEF z
<1>6. Total(z, 1..n) = IF d = 0 THEN 0 ELSE d + s
  <2>1. CASE d = 0
    <3>1. Total(z, 1..n) = 0
      BY <1>2, <1>4, <2>1, TotalZero
    <3> QED  BY <2>1, <3>1
  <2> QED  BY <1>5, <2>1
<1>7. d > 0 /\ m <= d + s => \A i \in 1..n : z[i] >= r[i]
  <2> SUFFICES ASSUME d > 0, m <= d + s, NEW i \in 1..n PROVE z[i] >= r[i]
    OBVIOUS
  <2>1. Total(r, 1..n) <= d + s
    BY <1>3, <1>given
  <2>2. r[i] <= z[i] /\ r[i] \in Nat /\ z[i] \in Nat
    BY <1>1, <1>4, <1>given, <2>1
  <2> QED  BY <2>2
<1>8. d + s <= Total(r, 1..n) => \A i \in 1..n : z[i] \in 0..r[i]
  <2> SUFFICES ASSUME d + s <= Total(r, 1..n), NEW i \in 1..n PROVE z[i] \in 0..r[i]
    OBVIOUS
  <2>1. z[i] \in Nat /\ r[i] \in Nat
    BY <1>1, <1>4
  <2>2. z[i] <= r[i]
    <3>1. CASE d = 0
      BY <1>4, <2>1, <3>1
    <3>2. CASE d > 0
      BY <1>5, <2>1, <3>2
    <3> QED  BY <3>1, <3>2
  <2> QED  BY <2>1, <2>2
<1> QED  BY <1>6, <1>7, <1>8 DEF z, ScaledFairly

(* What a Deployment may have grows with its replicas. *)
LEMMA SurgeGrows ==
  ASSUME NEW d \in Nat, NEW e \in Nat, d <= e, NEW p \in 0..100
  PROVE  /\ d + ResolveSurge(p, d) <= e + ResolveSurge(p, e)
         /\ ResolveSurge(p, d) \in Nat /\ ResolveSurge(p, e) \in Nat
<1> DEFINE c == CeilPercent(d, p)
           f == CeilPercent(e, p)
<1>1. c \in 0..d /\ 100 * c < d * p + 100
  BY CeilPercentBounds
<1>2. f \in 0..e /\ 100 * f >= e * p
  BY CeilPercentBounds
<1>3. d * p <= e * p /\ d * p \in Nat /\ e * p \in Nat
  <2>1. (e - d) * p \in Nat /\ d * p \in Nat /\ e * p \in Nat
    OBVIOUS
  <2>2. (e - d) * p = e * p - d * p
    OBVIOUS
  <2> QED  BY <2>1, <2>2
<1> HIDE DEF c, f
<1>4. c <= f
  BY <1>1, <1>2, <1>3
<1> QED  BY <1>1, <1>2, <1>4 DEF ResolveSurge, c, f

(* Scaling two or three active ReplicaSets in proportion hands out exactly  *)
(* what the Deployment may have, and moves none of them the wrong way, for  *)
(* every size, surge and former size.                                       *)
THEOREM ProportionalIsFair == Spec => []ProportionalFair
<1>1. TypeOK => ProportionalFair
  <2> SUFFICES ASSUME TypeOK, NEW rss \in Actives(keep)
               PROVE  LET extra == ResolveSurge(surge, desired)
                          size == ProportionalSizes(rss, desired, extra)
                          total == Total([i \in DOMAIN rss |-> rss[i].replicas], DOMAIN rss)
                      IN  /\ Total(size, DOMAIN rss) = IF desired = 0 THEN 0 ELSE desired + extra
                          /\ desired > keep => \A i \in DOMAIN rss : size[i] >= rss[i].replicas
                          /\ desired < keep /\ total = rss[1].max =>
                               \A i \in DOMAIN rss : size[i] \in 0..rss[i].replicas
    BY DEF ProportionalFair
  <2> DEFINE max == keep + ResolveSurge(surge, keep)
             extra == ResolveSurge(surge, desired)
             size == ProportionalSizes(rss, desired, extra)
             r == [i \in DOMAIN rss |-> rss[i].replicas]
  <2>1. desired \in Nat /\ keep \in Nat /\ surge \in 0..100
    BY InputRanges
  <2>2. PICK n \in {2, 3} : \E s \in [1..n -> 1..max] :
          /\ \A i, j \in 1..n : i < j => s[i] >= s[j]
          /\ Total(s, 1..n) <= max
          /\ rss = [i \in 1..n |-> [replicas |-> s[i], max |-> max]]
    BY DEF Actives
  <2>3. PICK s \in [1..n -> 1..max] :
          /\ \A i, j \in 1..n : i < j => s[i] >= s[j]
          /\ Total(s, 1..n) <= max
          /\ rss = [i \in 1..n |-> [replicas |-> s[i], max |-> max]]
    BY <2>2
  <2>4. extra \in Nat /\ ResolveSurge(surge, keep) \in Nat
    BY <2>1, SurgeGrows, desired <= desired, keep <= keep
  <2>5. /\ keep <= desired => max <= desired + extra
        /\ desired <= keep => desired + extra <= max
    BY <2>1, SurgeGrows
  <2>6. max \in Nat
    BY <2>1, <2>4
  <2> HIDE DEF max, extra
  <2>7. DOMAIN rss = 1..n /\ \A i \in 1..n : rss[i].replicas = s[i] /\ rss[i].max = max
    BY <2>3
  <2>8. n \in Nat /\ n \in {2, 3} /\ 1 \in 1..n
    OBVIOUS
  <2>9. \A i \in 1..n : s[i] \in 1..max /\ s[i] \in Nat /\ r[i] = s[i]
    BY <2>3, <2>6, <2>7
  <2>10. max \in Nat \ {0}
    BY <2>6, <2>8, <2>9
  <2>11. r = s
    BY <2>3, <2>7
  <2>12. Len(rss) = n
    <3>1. rss \in [1..n -> [replicas: Nat, max: Nat]]
      BY <2>3, <2>6, <2>9
    <3> QED  BY <2>8, <3>1, ListIsSeq
  <2>13. Sized(rss, n)
    BY <2>7, <2>8, <2>9, <2>10, <2>12 DEF Sized
  <2>14. SizedTogether(rss, n, s, max)
    <3>1. s = [i \in 1..n |-> rss[i].replicas]
      BY <2>3, <2>7
    <3> QED  BY <2>3, <2>7, <2>8, <2>10, <2>13, <3>1 DEF SizedTogether
  <2>15. ScaledFairly(rss, n, s, max, desired, extra)
    BY <2>1, <2>4, <2>14, FairSizes
  <2>16. /\ Total(size, 1..n) = IF desired = 0 THEN 0 ELSE desired + extra
         /\ desired > 0 /\ max <= desired + extra => \A i \in 1..n : size[i] >= s[i]
         /\ desired + extra <= Total(s, 1..n) => \A i \in 1..n : size[i] \in 0..s[i]
    BY <2>15 DEF ScaledFairly
  <2> HIDE DEF r, size
  <2>17. desired > keep => \A i \in 1..n : size[i] >= s[i]
    BY <2>1, <2>5, <2>16
  <2>18. desired < keep /\ Total(s, 1..n) = max => \A i \in 1..n : size[i] \in 0..s[i]
    BY <2>1, <2>5, <2>16
  <2>19. rss[1].max = max
    BY <2>7, <2>8
  <2> QED  BY <2>7, <2>11, <2>16, <2>17, <2>18, <2>19 DEF r, size, extra
<1> QED  BY <1>1, InputsTyped, PTL
=============================================================================
