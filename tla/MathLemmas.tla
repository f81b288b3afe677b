----------------------------- MODULE MathLemmas -----------------------------
(***************************************************************************)
(* Facts about numbers, finite sets and lists that the proofs share, and   *)
(* about the arithmetic of ReplicaMath and DeploymentMath, for every count *)
(* and weight.                                                             *)
(***************************************************************************)
EXTENDS DeploymentMath, FiniteSetTheorems, SequenceTheorems, WellFoundedInduction, TLAPS

-----------------------------------------------------------------------------
(***************************************************************************)
(* A non-empty set of bounded natural numbers has a least and a greatest   *)
(* member, which the CHOOSE expressions of the models pick.                *)
(***************************************************************************)
(* The least member. *)
LEMMA LeastExists ==
  ASSUME NEW S, S \subseteq Nat, S # {}
  PROVE  \E m \in S : \A x \in S : m <= x
<1>1. PICK m \in S : \A y \in S : ~(<<y, m>> \in OpToRel(<, Nat))
  BY NatLessThanWellFounded, WFMin
<1>2. \A y \in S : ~(y < m)
  BY <1>1 DEF OpToRel
<1> QED  BY <1>2

(* The greatest member: the one whose distance from the bound is least. *)
LEMMA GreatestExists ==
  ASSUME NEW n \in Nat, NEW S, S \subseteq 0..n, S # {}
  PROVE  \E m \in S : \A x \in S : x <= m
<1> DEFINE D == {y \in Nat : n - y \in S}
<1>1. PICK s \in S : TRUE
  OBVIOUS
<1>2. n - s \in D /\ D \subseteq Nat
  BY <1>1
<1>3. PICK d \in D : \A y \in D : d <= y
  BY <1>2, LeastExists
<1>4. \A x \in S : n - x \in D /\ d <= n - x
  BY <1>3
<1>5. n - d \in S /\ \A x \in S : x <= n - d
  BY <1>3, <1>4
<1> QED  BY <1>5

-----------------------------------------------------------------------------
(***************************************************************************)
(* The replica arithmetic.                                                 *)
(***************************************************************************)
(* A percentage of a natural number is one; CeilPercent is the least       *)
(* integer that reaches it, and at most the total up to 100 percent.       *)
LEMMA CeilPercentBounds ==
  ASSUME NEW d \in Nat, NEW w \in 0..100
  PROVE  /\ CeilPercent(d, w) \in 0..d
         /\ 100 * CeilPercent(d, w) >= d * w
         /\ 100 * CeilPercent(d, w) < d * w + 100
<1>1. d * w \in Nat /\ d * w <= 100 * d
  <2>1. d * w \in Nat
    OBVIOUS
  <2>2. d * (100 - w) \in Nat
    OBVIOUS
  <2>3. d * (100 - w) = 100 * d - d * w
    OBVIOUS
  <2> QED  BY <2>1, <2>2, <2>3
<1>2. ASSUME NEW x \in Nat, x <= 100 * d
      PROVE  /\ (x + 99) \div 100 \in 0..d
             /\ 100 * ((x + 99) \div 100) >= x
             /\ 100 * ((x + 99) \div 100) < x + 100
  BY <1>2
<1> QED  BY <1>1, <1>2 DEF CeilPercent

(* splitReplicas for the weights and counts it can meet: the whole of      *)
(* spec.replicas is handed out, neither side gets a negative count.        *)
LEMMA SplitBounds ==
  ASSUME NEW d \in Nat, NEW w \in 0..100, NEW s, NEW k \in Nat
  PROVE  /\ splitReplicas(d, w, s, k).canary \in 0..d
         /\ splitReplicas(d, w, s, k).stable \in 0..d
         /\ splitReplicas(d, w, s, k).canary + splitReplicas(d, w, s, k).stable = d
<1>1. CeilPercent(d, w) \in 0..d
  BY CeilPercentBounds
<1>2. Smaller(k, d) \in 0..d
  BY DEF Smaller
<1>3. Smaller(CeilPercent(d, w), d) \in 0..d
  BY <1>1 DEF Smaller
<1> DEFINE c == IF s = "StableOnly" THEN Smaller(k, d)
                ELSE IF w <= 0   THEN 0
                ELSE IF w >= 100 THEN d
                ELSE Smaller(CeilPercent(d, w), d)
<1>4. c \in 0..d
  BY <1>2, <1>3
<1>5. splitReplicas(d, w, s, k) = IF d <= 0 THEN Pair(0, 0) ELSE Pair(c, d - c)
  BY DEF splitReplicas
<1> HIDE DEF c
<1> QED  BY <1>4, <1>5 DEF Pair

(* Under a weight-driven strategy the canary is what the weight asks for.  *)
LEMMA PreserveSplit ==
  ASSUME NEW d \in Nat, NEW w \in 0..100, NEW k \in Nat, NEW s, s # "StableOnly"
  PROVE  splitReplicas(d, w, s, k).canary = CeilPercent(d, w)
<1>1. /\ CeilPercent(d, w) \in 0..d
      /\ 100 * CeilPercent(d, w) >= d * w
      /\ 100 * CeilPercent(d, w) < d * w + 100
  BY CeilPercentBounds
<1>2. Smaller(CeilPercent(d, w), d) = CeilPercent(d, w)
  BY <1>1 DEF Smaller
<1>3. CASE w = 0
  BY <1>1, <1>3 DEF splitReplicas, Pair
<1>4. CASE w = 100
  <2>1. d * w = 100 * d
    BY <1>4
  <2>2. CeilPercent(d, w) = d
    BY <1>1, <2>1
  <2> QED  BY <1>4, <2>2 DEF splitReplicas, Pair
<1>5. CASE w \notin {0, 100}
  BY <1>1, <1>2, <1>5 DEF splitReplicas, Pair
<1> QED  BY <1>3, <1>4, <1>5

(* percentOf stays within the total. *)
LEMMA PercentOfBounds ==
  ASSUME NEW d \in Nat, NEW p \in 0..100
  PROVE  percentOf(d, p) \in 0..d /\ percentOf(d, p) = CeilPercent(d, p)
<1>1. CeilPercent(d, p) \in 0..d
  BY CeilPercentBounds
<1> QED  BY <1>1 DEF percentOf, Smaller

(* A ReplicaSet is created inside the surge budget.                        *)
LEMMA NewRSBounds ==
  ASSUME NEW d \in Nat, NEW u \in 0..100, NEW c \in Nat
  PROVE  /\ NewRSNewReplicas(d, u, c) \in 0..d
         /\ NewRSNewReplicas(d, u, c) > 0 =>
              NewRSNewReplicas(d, u, c) + c <= d + CeilPercent(d, u)
<1>1. CeilPercent(d, u) \in 0..d
  BY CeilPercentBounds
<1> QED  BY <1>1 DEF NewRSNewReplicas, Smaller

-----------------------------------------------------------------------------
(***************************************************************************)
(* Sums, which Total counts as sets of numbered pods.                      *)
(***************************************************************************)
Numbered(f, S) == UNION {{u} \X (1..f[u]) : u \in S}

(* The numbered pods of Total. *)
LEMMA NumberedMember ==
  ASSUME NEW f, NEW S, NEW p
  PROVE  p \in Numbered(f, S) <=> \E u \in S : \E k \in 1..f[u] : p = <<u, k>>
BY DEF Numbered

(* They are finitely many. *)
LEMMA NumberedFinite ==
  ASSUME NEW S, IsFiniteSet(S), NEW f, \A u \in S : f[u] \in Nat
  PROVE  IsFiniteSet(Numbered(f, S))
<1> DEFINE piece(u) == {u} \X (1..f[u])
           pieces == {piece(u) : u \in S}
           g == [u \in S |-> piece(u)]
<1>1. \A u \in S : IsFiniteSet(piece(u))
  <2> SUFFICES ASSUME NEW u \in S PROVE IsFiniteSet(piece(u))
    OBVIOUS
  <2>1. IsFiniteSet({u})
    BY FS_Singleton
  <2>2. IsFiniteSet(1..f[u])
    BY FS_Interval
  <2> QED  BY <2>1, <2>2, FS_Product
<1>2. g \in Surjection(S, pieces)
  BY DEF Surjection
<1>3. IsFiniteSet(pieces)
  BY <1>2, FS_Surjection
<1>4. \A x \in pieces : IsFiniteSet(x)
  BY <1>1
<1> QED  BY <1>3, <1>4, FS_UNION DEF Numbered

(* A sum of natural numbers is one. *)
LEMMA TotalNat ==
  ASSUME NEW S, IsFiniteSet(S), NEW f, \A u \in S : f[u] \in Nat
  PROVE  Total(f, S) \in Nat
<1>1. IsFiniteSet(Numbered(f, S))
  BY NumberedFinite
<1> QED  BY <1>1, FS_CardinalityType DEF Total, Numbered

(* A sum grows with its terms and with the set it is over.                  *)
LEMMA TotalMonotone ==
  ASSUME NEW R, IsFiniteSet(R), NEW g, \A u \in R : g[u] \in Nat,
         NEW S, S \subseteq R, NEW f, \A u \in S : f[u] \in Nat /\ f[u] <= g[u]
  PROVE  Total(f, S) <= Total(g, R)
<1>1. IsFiniteSet(Numbered(g, R))
  BY NumberedFinite
<1>2. Numbered(f, S) \subseteq Numbered(g, R)
  <2> SUFFICES ASSUME NEW p \in Numbered(f, S) PROVE p \in Numbered(g, R)
    OBVIOUS
  <2>1. PICK u \in S : \E k \in 1..f[u] : p = <<u, k>>
    BY NumberedMember
  <2>2. PICK k \in 1..f[u] : p = <<u, k>>
    BY <2>1
  <2>3. u \in R /\ k \in 1..g[u]
    <3>1. f[u] \in Nat /\ g[u] \in Nat /\ f[u] <= g[u]
      OBVIOUS
    <3> QED  BY <3>1
  <2> QED  BY <2>2, <2>3, NumberedMember
<1> QED  BY <1>1, <1>2, FS_Subset DEF Total, Numbered

(* Only the terms that are not zero count.                                  *)
LEMMA TotalSame ==
  ASSUME NEW R, NEW g, \A u \in R : g[u] \in Nat,
         NEW S, S \subseteq R, NEW f, \A u \in S : f[u] = g[u],
         \A u \in R \ S : g[u] = 0
  PROVE  Total(f, S) = Total(g, R)
<1>1. \A p : p \in Numbered(f, S) <=> p \in Numbered(g, R)
  <2> SUFFICES ASSUME NEW p PROVE p \in Numbered(f, S) <=> p \in Numbered(g, R)
    OBVIOUS
  <2>1. ASSUME p \in Numbered(f, S) PROVE p \in Numbered(g, R)
    <3>1. PICK u \in S : \E k \in 1..f[u] : p = <<u, k>>
      BY <2>1, NumberedMember
    <3> QED  BY <3>1, NumberedMember
  <2>2. ASSUME p \in Numbered(g, R) PROVE p \in Numbered(f, S)
    <3>1. PICK u \in R : \E k \in 1..g[u] : p = <<u, k>>
      BY <2>2, NumberedMember
    <3>2. PICK k \in 1..g[u] : p = <<u, k>>
      BY <3>1
    <3>3. u \in S
      BY <3>2
    <3> QED  BY <3>2, <3>3, NumberedMember
  <2> QED  BY <2>1, <2>2
<1>2. Numbered(f, S) = Numbered(g, R)
  BY <1>1, Zenon
<1> QED  BY <1>2 DEF Total, Numbered

(* The sum of nothing. *)
LEMMA TotalEmpty ==
  ASSUME NEW f
  PROVE  Total(f, {}) = 0
<1>1. Numbered(f, {}) = {}
  BY DEF Numbered
<1> QED  BY <1>1, FS_EmptySet DEF Total, Numbered

(* A sum with one more term. *)
LEMMA TotalAddElement ==
  ASSUME NEW S, IsFiniteSet(S), NEW u, u \notin S, NEW f, \A v \in S \cup {u} : f[v] \in Nat
  PROVE  Total(f, S \cup {u}) = Total(f, S) + f[u]
<1> DEFINE A == Numbered(f, S)
           B == {u} \X (1..f[u])
<1>1. IsFiniteSet(A)
  BY NumberedFinite
<1>2. IsFiniteSet(B) /\ Cardinality(B) = f[u]
  <2>1. IsFiniteSet({u}) /\ Cardinality({u}) = 1
    BY FS_Singleton
  <2>2. IsFiniteSet(1..f[u]) /\ Cardinality(1..f[u]) = f[u]
    <3>1. f[u] \in Nat
      OBVIOUS
    <3>2. /\ IsFiniteSet(1..f[u])
          /\ Cardinality(1..f[u]) = IF 1 > f[u] THEN 0 ELSE f[u] - 1 + 1
      BY <3>1, FS_Interval
    <3> QED  BY <3>1, <3>2
  <2>3. IsFiniteSet(B) /\ Cardinality(B) = Cardinality({u}) * Cardinality(1..f[u])
    BY <2>1, <2>2, FS_Product
  <2> QED  BY <2>1, <2>2, <2>3
<1>3. A \cap B = {}
  <2> SUFFICES ASSUME NEW p, p \in A, p \in B PROVE FALSE
    OBVIOUS
  <2>1. PICK v \in S : \E k \in 1..f[v] : p = <<v, k>>
    BY NumberedMember
  <2> QED  BY <2>1
<1>4. Numbered(f, S \cup {u}) = A \cup B
  <2>1. {{v} \X (1..f[v]) : v \in S \cup {u}} = {{v} \X (1..f[v]) : v \in S} \cup {B}
    OBVIOUS
  <2> QED  BY <2>1 DEF Numbered
<1> HIDE DEF A, B
<1>5. Cardinality(A \cup B) = Cardinality(A) + Cardinality(B) - Cardinality(A \cap B)
  BY <1>1, <1>2, FS_Union
<1>6. Cardinality(A \cap B) = 0
  BY <1>3, FS_EmptySet
<1>7. Cardinality(A) \in Nat /\ f[u] \in Nat
  BY <1>1, FS_CardinalityType
<1>8. Total(f, S) = Cardinality(A) /\ Total(f, S \cup {u}) = Cardinality(A \cup B)
  BY <1>4 DEF Total, Numbered, A
<1> QED  BY <1>2, <1>5, <1>6, <1>7, <1>8

(* A sum is no less than each of its terms. *)
LEMMA TotalTerm ==
  ASSUME NEW S, IsFiniteSet(S), NEW f, \A u \in S : f[u] \in Nat, NEW v \in S
  PROVE  f[v] <= Total(f, S)
<1>1. IsFiniteSet(S \ {v}) /\ v \notin S \ {v} /\ (S \ {v}) \cup {v} = S
  BY FS_RemoveElement
<1>2. Total(f, (S \ {v}) \cup {v}) = Total(f, S \ {v}) + f[v]
  BY <1>1, TotalAddElement
<1>3. Total(f, S \ {v}) \in Nat /\ f[v] \in Nat
  BY <1>1, TotalNat
<1>4. Total(f, S) = Total(f, S \ {v}) + f[v]
  BY <1>1, <1>2, Zenon
<1> QED  BY <1>3, <1>4

(* A sum of zeros. *)
LEMMA TotalZero ==
  ASSUME NEW S, NEW f, \A u \in S : f[u] = 0
  PROVE  Total(f, S) = 0
<1>1. Total(f, {}) = Total(f, S)
  BY TotalSame
<1> QED  BY <1>1, TotalEmpty

(* The sum of sums.                                                         *)
LEMMA TotalSum ==
  ASSUME NEW S, IsFiniteSet(S), NEW f, NEW g, NEW h,
         \A u \in S : f[u] \in Nat /\ g[u] \in Nat /\ h[u] = f[u] + g[u]
  PROVE  Total(h, S) = Total(f, S) + Total(g, S)
<1> DEFINE P(X) == Total(h, X) = Total(f, X) + Total(g, X)
           Bad == {n \in Nat : \E X \in SUBSET S : Cardinality(X) = n /\ ~P(X)}
<1> SUFFICES ASSUME ~P(S) PROVE FALSE
  OBVIOUS
<1>1. Cardinality(S) \in Bad
  BY FS_CardinalityType
<1>2. PICK n \in Bad : \A m \in Bad : n <= m
  BY <1>1, LeastExists
<1>3. PICK X \in SUBSET S : Cardinality(X) = n /\ ~P(X)
  BY <1>2
<1>4. IsFiniteSet(X)
  BY FS_Subset
<1>5. X # {}
  BY <1>3, TotalEmpty
<1>6. PICK v \in X : TRUE
  BY <1>5
<1> DEFINE Y == X \ {v}
<1>7. IsFiniteSet(Y) /\ Cardinality(Y) = n - 1 /\ Y \cup {v} = X /\ v \notin Y /\ Y \in SUBSET S
  BY <1>3, <1>4, <1>6, FS_RemoveElement, SMTT(30)
<1>8. n \in Nat /\ n - 1 \in Nat
  BY <1>7, <1>2, FS_CardinalityType
<1>9. P(Y)
  <2> SUFFICES ASSUME ~P(Y) PROVE FALSE
    OBVIOUS
  <2>1. n - 1 \in Bad
    BY <1>7, <1>8
  <2> QED  BY <1>2, <1>8, <2>1
<1> HIDE DEF Y
<1>10. v \in S
  BY <1>6
<1>11. /\ Total(h, X) = Total(h, Y) + h[v]
       /\ Total(f, X) = Total(f, Y) + f[v]
       /\ Total(g, X) = Total(g, Y) + g[v]
  <2>1. \A u \in Y \cup {v} : f[u] \in Nat /\ g[u] \in Nat /\ h[u] \in Nat
    BY <1>7, <1>10
  <2> QED  BY <1>7, <2>1, TotalAddElement
<1>12. Total(f, Y) \in Nat /\ Total(g, Y) \in Nat
  BY <1>7, TotalNat
<1>13. f[v] \in Nat /\ g[v] \in Nat /\ h[v] = f[v] + g[v]
  BY <1>10
<1> QED  BY <1>3, <1>9, <1>11, <1>12, <1>13

-----------------------------------------------------------------------------
(***************************************************************************)
(* Lists: sorted ones, parts of them, and sums taken along them.           *)
(***************************************************************************)
(* Induction up to n, on the set of the numbers for which a fact holds.     *)
LEMMA CountUp ==
  ASSUME NEW n \in Nat, NEW S, 0 \in S, \A m \in 0..(n - 1) : m \in S => m + 1 \in S
  PROVE  \A m \in 0..n : m \in S
<1> DEFINE Bad == {m \in 0..n : m \notin S}
<1> SUFFICES ASSUME Bad # {} PROVE FALSE
  OBVIOUS
<1>1. PICK m \in Bad : \A k \in Bad : m <= k
  <2>1. Bad \subseteq Nat
    OBVIOUS
  <2> QED  BY <2>1, LeastExists
<1>2. m # 0 /\ m - 1 \in 0..(n - 1)
  BY <1>1
<1>3. m - 1 \in S
  <2>1. m - 1 \notin Bad
    BY <1>1, <1>2
  <2> QED  BY <1>2, <2>1
<1>4. (m - 1) + 1 \in S
  BY <1>2, <1>3
<1> QED  BY <1>1, <1>2, <1>4

(* A function on 1..n is a list.                                            *)
LEMMA ListIsSeq ==
  ASSUME NEW n \in Nat, NEW S, NEW s \in [1..n -> S]
  PROVE  s \in Seq(S) /\ Len(s) = n /\ DOMAIN s = 1..n /\ (s = <<>> <=> n = 0)
<1>1. s \in Seq(S)
  BY SeqDef
<1>2. DOMAIN s = 1..n /\ DOMAIN s = 1..Len(s) /\ Len(s) \in Nat
  BY <1>1, LenProperties
<1>3. Len(s) = n
  <2>1. CASE n = 0
    <3>1. 1 \notin 1..Len(s)
      BY <1>2, <2>1
    <3> QED  BY <1>2, <2>1, <3>1
  <2>2. CASE n > 0
    <3>1. n \in 1..Len(s) /\ n + 1 \notin 1..Len(s)
      BY <1>2, <2>2
    <3> QED  BY <1>2, <3>1
  <2> QED  BY <2>1, <2>2
<1>4. s # <<>> => n # 0
  BY <1>1, <1>3, EmptySeq
<1>5. s = <<>> => n = 0
  BY <1>3, EmptySeq
<1> QED  BY <1>1, <1>2, <1>3, <1>4, <1>5

(* A strict total order on S, a list of the members of S, each once, and    *)
(* one in the order of a relation.                                          *)
Orders(before, S) ==
  /\ \A a \in S : <<a, a>> \notin before
  /\ \A a, b, c \in S : <<a, b>> \in before /\ <<b, c>> \in before => <<a, c>> \in before
  /\ \A a, b \in S : a = b \/ <<a, b>> \in before \/ <<b, a>> \in before

Lists(s, S) ==
  /\ Cardinality(S) \in Nat /\ s \in [1..Cardinality(S) -> S]
  /\ \A i, j \in 1..Cardinality(S) : s[i] = s[j] => i = j
  /\ \A u \in S : \E i \in 1..Cardinality(S) : s[i] = u

Ascends(s, before) ==
  \A i, j \in DOMAIN s : i < j => <<s[i], s[j]>> \in before

(* A finite set sorted by a strict total order is a list of all its members *)
(* in that order, each once: the place of a member is the number of those   *)
(* before it.                                                               *)
LEMMA SortedList ==
  ASSUME NEW S, IsFiniteSet(S), NEW before, Orders(before, S)
  PROVE  Lists(Sorted(S, before), S) /\ Ascends(Sorted(S, before), before)
<1> USE DEF Orders
<1> DEFINE n == Cardinality(S)
           below(u) == {v \in S : <<v, u>> \in before}
           place == [u \in S |-> Cardinality(below(u)) + 1]
<1>1. n \in Nat
  BY FS_CardinalityType
<1>2. \A u \in S : IsFiniteSet(below(u)) /\ Cardinality(below(u)) \in Nat /\ Cardinality(below(u)) < n
  <2> SUFFICES ASSUME NEW u \in S
               PROVE  /\ IsFiniteSet(below(u)) /\ Cardinality(below(u)) \in Nat
                      /\ Cardinality(below(u)) < n
    OBVIOUS
  <2>1. below(u) \in SUBSET S /\ u \notin below(u)
    OBVIOUS
  <2>2. /\ IsFiniteSet(below(u)) /\ Cardinality(below(u)) <= n
        /\ (n = Cardinality(below(u)) => S = below(u))
    BY <2>1, FS_Subset
  <2>3. Cardinality(below(u)) \in Nat
    BY <2>2, FS_CardinalityType
  <2> HIDE DEF below
  <2> QED  BY <1>1, <2>1, <2>2, <2>3
<1>3. \A u, v \in S : <<u, v>> \in before => place[u] < place[v]
  <2> SUFFICES ASSUME NEW u \in S, NEW v \in S, <<u, v>> \in before
               PROVE  place[u] < place[v]
    OBVIOUS
  <2>1. below(u) \in SUBSET below(v) /\ u \in below(v) /\ u \notin below(u)
    OBVIOUS
  <2>2. /\ Cardinality(below(u)) <= Cardinality(below(v))
        /\ (Cardinality(below(v)) = Cardinality(below(u)) => below(v) = below(u))
    BY <1>2, <2>1, FS_Subset
  <2>3. Cardinality(below(u)) \in Nat /\ Cardinality(below(v)) \in Nat
    BY <1>2
  <2>4. Cardinality(below(u)) # Cardinality(below(v))
    <3> HIDE DEF below
    <3> QED  BY <2>1, <2>2
  <2>5. place[u] = Cardinality(below(u)) + 1 /\ place[v] = Cardinality(below(v)) + 1
    OBVIOUS
  <2> HIDE DEF below, place
  <2> QED  BY <2>2, <2>3, <2>4, <2>5
<1>4. place \in [S -> 1..n]
  <2> SUFFICES ASSUME NEW u \in S PROVE Cardinality(below(u)) + 1 \in 1..n
    OBVIOUS
  <2>1. Cardinality(below(u)) \in Nat /\ Cardinality(below(u)) < n
    BY <1>2
  <2> HIDE DEF below, n
  <2> QED  BY <1>1, <2>1
<1> HIDE DEF place
<1>5. \A u, v \in S : place[u] = place[v] => u = v
  <2> SUFFICES ASSUME NEW u \in S, NEW v \in S, u # v PROVE place[u] # place[v]
    OBVIOUS
  <2>1. place[u] \in Nat /\ place[v] \in Nat
    BY <1>1, <1>4
  <2>2. place[u] < place[v] \/ place[v] < place[u]
    BY <1>3
  <2> QED  BY <2>1, <2>2
<1>6. place \in Surjection(S, 1..n)
  <2>1. place \in Injection(S, 1..n)
    BY <1>4, <1>5 DEF Injection, IsInjective
  <2>2. IsFiniteSet(1..n) /\ Cardinality(1..n) = n
    BY <1>1, FS_Interval
  <2> QED  BY <2>1, <2>2, FS_Injection
<1>7. \A i \in 1..n : \E u \in S : place[u] = i
  BY <1>6 DEF Surjection
<1> DEFINE Order(s) == \A i, j \in 1..n : i < j => <<s[i], s[j]>> \in before
           list == [i \in 1..n |-> CHOOSE u \in S : place[u] = i]
<1>8. list \in [1..n -> S] /\ \A i \in 1..n : place[list[i]] = i
  BY <1>7
<1>9. Order(list)
  <2> SUFFICES ASSUME NEW i \in 1..n, NEW j \in 1..n, i < j
               PROVE  <<list[i], list[j]>> \in before
    OBVIOUS
  <2>1. list[i] \in S /\ list[j] \in S /\ place[list[i]] = i /\ place[list[j]] = j
    BY <1>8
  <2> HIDE DEF list
  <2>2. list[i] # list[j]
    BY <2>1
  <2>3. <<list[j], list[i]>> \notin before
    BY <1>3, <2>1
  <2> QED  BY <2>1, <2>2, <2>3
<1> DEFINE s == Sorted(S, before)
<1> HIDE DEF list
<1>10. s \in [1..n -> S] /\ Order(s)
  BY <1>8, <1>9 DEF Sorted
<1> HIDE DEF s
<1>11. \A i, j \in 1..n : s[i] = s[j] => i = j
  <2> SUFFICES ASSUME NEW i \in 1..n, NEW j \in 1..n, i # j PROVE s[i] # s[j]
    OBVIOUS
  <2>1. i < j \/ j < i
    BY <1>1
  <2>2. <<s[i], s[j]>> \in before \/ <<s[j], s[i]>> \in before
    BY <1>10, <2>1
  <2> QED  BY <1>10, <2>2
<1>12. \A u \in S : \E i \in 1..n : s[i] = u
  <2>1. s \in Injection(1..n, S)
    BY <1>10, <1>11 DEF Injection, IsInjective
  <2>2. IsFiniteSet(1..n) /\ Cardinality(1..n) = n
    BY <1>1, FS_Interval
  <2>3. s \in Surjection(1..n, S)
    BY <2>1, <2>2, FS_Injection
  <2> QED  BY <2>3 DEF Surjection
<1>13. Lists(s, S)
  BY <1>1, <1>10, <1>11, <1>12 DEF Lists
<1>14. Ascends(s, before)
  BY <1>10 DEF Ascends
<1> QED  BY <1>13, <1>14 DEF s

(* The sum over a list of the members of a set is that over the set.        *)
LEMMA TotalReindex ==
  ASSUME NEW S, NEW s, Lists(s, S), NEW f, \A u \in S : f[u] \in Nat,
         NEW g, \A i \in 1..Cardinality(S) : g[i] = f[s[i]]
  PROVE  Total(g, 1..Cardinality(S)) = Total(f, S)
<1> DEFINE n == Cardinality(S)
<1>0. /\ n \in Nat /\ s \in [1..n -> S]
      /\ \A i, j \in 1..n : s[i] = s[j] => i = j
      /\ \A u \in S : \E i \in 1..n : s[i] = u
      /\ \A i \in 1..n : g[i] = f[s[i]]
  BY DEF Lists
<1> SUFFICES Total(g, 1..n) = Total(f, S)
  OBVIOUS
<1> HIDE DEF n
<1> USE <1>0
<1> DEFINE A == Numbered(g, 1..n)
           B == Numbered(f, S)
           b == [p \in A |-> <<s[p[1]], p[2]>>]
<1>1. IsFiniteSet(A)
  <2>1. IsFiniteSet(1..n)
    BY FS_Interval
  <2>2. \A i \in 1..n : g[i] \in Nat
    OBVIOUS
  <2> QED  BY <2>1, <2>2, NumberedFinite
<1>2. \A p \in A : p[1] \in 1..n /\ p[2] \in 1..f[s[p[1]]] /\ p = <<p[1], p[2]>>
  <2> SUFFICES ASSUME NEW p \in A
               PROVE  p[1] \in 1..n /\ p[2] \in 1..f[s[p[1]]] /\ p = <<p[1], p[2]>>
    OBVIOUS
  <2>1. PICK i \in 1..n : \E k \in 1..g[i] : p = <<i, k>>
    BY NumberedMember
  <2>2. PICK k \in 1..g[i] : p = <<i, k>>
    BY <2>1
  <2> QED  BY <2>2
<1>3. b \in [A -> B]
  <2> SUFFICES ASSUME NEW p \in A PROVE <<s[p[1]], p[2]>> \in B
    OBVIOUS
  <2>1. s[p[1]] \in S /\ p[2] \in 1..f[s[p[1]]]
    BY <1>2
  <2> QED  BY <2>1, NumberedMember
<1>4. \A p, q \in A : b[p] = b[q] => p = q
  <2> SUFFICES ASSUME NEW p \in A, NEW q \in A, <<s[p[1]], p[2]>> = <<s[q[1]], q[2]>>
               PROVE  p = q
    OBVIOUS
  <2>1. s[p[1]] = s[q[1]] /\ p[2] = q[2]
    OBVIOUS
  <2>2. p[1] = q[1]
    BY <1>2, <2>1
  <2> QED  BY <1>2, <2>1, <2>2
<1>5. \A r \in B : \E p \in A : b[p] = r
  <2> SUFFICES ASSUME NEW r \in B PROVE \E p \in A : b[p] = r
    OBVIOUS
  <2>1. PICK u \in S : \E k \in 1..f[u] : r = <<u, k>>
    BY NumberedMember
  <2>2. PICK k \in 1..f[u] : r = <<u, k>>
    BY <2>1
  <2>3. PICK i \in 1..n : s[i] = u
    BY <2>1
  <2>4. k \in 1..g[i]
    BY <2>2, <2>3
  <2>5. <<i, k>> \in A
    BY <2>4, NumberedMember
  <2>6. b[<<i, k>>] = r
    BY <2>2, <2>3, <2>5
  <2> QED  BY <2>5, <2>6
<1> HIDE DEF A, B, b
<1>6. b \in Bijection(A, B)
  BY <1>3, <1>4, <1>5 DEF Bijection, Injection, Surjection, IsInjective
<1>7. Cardinality(B) = Cardinality(A)
  BY <1>1, <1>6, FS_Bijection DEF ExistsBijection
<1> QED  BY <1>7 DEF A, B, Total, Numbered

(* The list p has the members of s at the places in I, each once.           *)
PickedFrom(p, s, I) ==
  /\ p = <<>> <=> I = {}
  /\ \A k \in DOMAIN p : \E i \in I : p[k] = s[i]
  /\ \A k, m \in DOMAIN p : k # m => \E i, j \in I : i # j /\ p[k] = s[i] /\ p[m] = s[j]

(* Pick does what it is to do.                                              *)
LEMMA PickList ==
  ASSUME NEW n \in Nat, NEW I, I \subseteq 1..n, NEW E, NEW s \in [1..n -> E]
  PROVE  Pick(s, I) \in Seq(E) /\ PickedFrom(Pick(s, I), s, I)
<1> DEFINE lt == {p \in I \X I : p[1] < p[2]}
           at == Sorted(I, lt)
           N == Cardinality(I)
<1>1. IsFiniteSet(I)
  <2>1. IsFiniteSet(1..n)
    BY FS_Interval
  <2> QED  BY <2>1, FS_Subset
<1>2. \A a, b \in I : <<a, b>> \in lt <=> a < b
  OBVIOUS
<1>3. \A a, b, c \in I : a \in Int /\ b \in Int /\ c \in Int
  OBVIOUS
<1> HIDE DEF lt
<1>4. /\ N \in Nat /\ at \in [1..N -> I]
      /\ \A i, j \in 1..N : i < j => <<at[i], at[j]>> \in lt
      /\ \A u \in I : \E i \in 1..N : at[i] = u
  <2>1. \A a \in I : <<a, a>> \notin lt
    BY <1>2, <1>3
  <2>2. \A a, b, c \in I : <<a, b>> \in lt /\ <<b, c>> \in lt => <<a, c>> \in lt
    BY <1>2, <1>3
  <2>3. \A a, b \in I : a = b \/ <<a, b>> \in lt \/ <<b, a>> \in lt
    <3> SUFFICES ASSUME NEW a \in I, NEW b \in I, a # b
                 PROVE  <<a, b>> \in lt \/ <<b, a>> \in lt
      OBVIOUS
    <3>1. a < b \/ b < a
      BY <1>3
    <3> QED  BY <1>2, <3>1
  <2>4. Orders(lt, I)
    BY <2>1, <2>2, <2>3 DEF Orders
  <2>5. Lists(at, I) /\ Ascends(at, lt)
    BY <1>1, <2>4, SortedList
  <2> HIDE DEF at
  <2> QED  BY <2>5 DEF Lists, Ascends
<1>5. Pick(s, I) = [k \in 1..N |-> s[at[k]]]
  BY DEF Pick, lt
<1> HIDE DEF at, N
<1>6. \A k, m \in 1..N : k < m => at[k] < at[m]
  BY <1>2, <1>4
<1>7. Pick(s, I) \in [1..N -> E]
  BY <1>4, <1>5
<1>8. Pick(s, I) \in Seq(E) /\ Len(Pick(s, I)) = N /\ DOMAIN Pick(s, I) = 1..N
      /\ (Pick(s, I) = <<>> <=> N = 0)
  BY <1>4, <1>7, ListIsSeq
<1>9. N = 0 <=> I = {}
  BY <1>1, FS_EmptySet DEF N
<1>10. \A k \in 1..N : Pick(s, I)[k] = s[at[k]]
  BY <1>5
<1>11. \A k, m \in 1..N : k # m =>
          \E i, j \in I : i # j /\ Pick(s, I)[k] = s[i] /\ Pick(s, I)[m] = s[j]
  <2> SUFFICES ASSUME NEW k \in 1..N, NEW m \in 1..N, k # m
               PROVE  \E i, j \in I : i # j /\ Pick(s, I)[k] = s[i] /\ Pick(s, I)[m] = s[j]
    OBVIOUS
  <2>1. at[k] \in I /\ at[m] \in I
    BY <1>4
  <2>2. at[k] \in Int /\ at[m] \in Int
    BY <1>3, <2>1
  <2>3. k < m \/ m < k
    BY <1>4
  <2>4. at[k] # at[m]
    BY <1>6, <2>2, <2>3
  <2> QED  BY <1>10, <2>1, <2>4
<1>12. \A k \in 1..N : \E i \in I : Pick(s, I)[k] = s[i]
  BY <1>4, <1>10
<1> QED  BY <1>8, <1>9, <1>11, <1>12 DEF PickedFrom

(* A range of numbers is finite.                                            *)
LEMMA RangeFinite ==
  ASSUME NEW m \in Int
  PROVE  IsFiniteSet(1..m)
BY FS_Interval

(* A sum along a list, one member further.                                  *)
LEMMA TotalNext ==
  ASSUME NEW n \in Nat, NEW f, \A i \in 1..n : f[i] \in Nat, NEW m \in 0..(n - 1)
  PROVE  /\ Total(f, 1..m) \in Nat /\ f[m + 1] \in Nat
         /\ Total(f, 1..(m + 1)) = Total(f, 1..m) + f[m + 1]
<1>1. 1..(m + 1) = (1..m) \cup {m + 1} /\ m + 1 \notin 1..m
  OBVIOUS
<1>2. IsFiniteSet(1..m)
  BY RangeFinite
<1>3. \A i \in (1..m) \cup {m + 1} : f[i] \in Nat
  OBVIOUS
<1>4. Total(f, (1..m) \cup {m + 1}) = Total(f, 1..m) + f[m + 1]
  BY <1>1, <1>2, <1>3, TotalAddElement
<1>5. Total(f, 1..m) \in Nat
  BY <1>2, <1>3, TotalNat
<1> QED  BY <1>1, <1>3, <1>4, <1>5

(* Nothing has been added up at the start of a list.                        *)
LEMMA TotalNone ==
  ASSUME NEW f
  PROVE  Total(f, 1..0) = 0
<1>1. 1..0 = {}
  OBVIOUS
<1> QED  BY <1>1, TotalEmpty

(* What Taken takes: no more of any than there is, nor than cap in all.     *)
LEMMA TakenBounds ==
  ASSUME NEW n \in Nat, NEW a \in [1..n -> Nat], NEW cap \in Int
  PROVE  /\ Taken(a, cap) \in [1..n -> Nat]
         /\ \A i \in 1..n : Taken(a, cap)[i] <= a[i]
         /\ cap >= 0 => Total(Taken(a, cap), 1..n) <= cap
         /\ cap <= 0 => \A i \in 1..n : Taken(a, cap)[i] = 0
<1> DEFINE t == Taken(a, cap)
           S == {m \in Nat : Total(t, 1..m) = Larger(0, Smaller(Total(a, 1..m), cap))}
<1>1. \A i \in 1..n : Before(a, i) \in Nat
  <2> SUFFICES ASSUME NEW i \in 1..n PROVE Total(a, 1..(i - 1)) \in Nat
    BY DEF Before
  <2>1. \A j \in 1..(i - 1) : a[j] \in Nat
    OBVIOUS
  <2>2. IsFiniteSet(1..(i - 1))
    BY RangeFinite
  <2> QED  BY <2>1, <2>2, TotalNat
<1>2. \A i \in 1..n : t[i] = Larger(0, Smaller(a[i], cap - Before(a, i)))
  BY DEF Taken
<1>3. \A i \in 1..n : t[i] \in Nat /\ t[i] <= a[i] /\ (cap <= 0 => t[i] = 0)
  <2> SUFFICES ASSUME NEW i \in 1..n
               PROVE  t[i] \in Nat /\ t[i] <= a[i] /\ (cap <= 0 => t[i] = 0)
    OBVIOUS
  <2>1. t[i] = Larger(0, Smaller(a[i], cap - Before(a, i)))
    BY <1>2
  <2>2. a[i] \in Nat /\ Before(a, i) \in Nat
    BY <1>1
  <2> HIDE DEF t
  <2> QED  BY <2>1, <2>2 DEF Larger, Smaller
<1>4. t \in [1..n -> Nat]
  <2>1. DOMAIN t = 1..n /\ t = [i \in 1..n |-> t[i]]
    BY DEF Taken
  <2> HIDE DEF t
  <2> QED  BY <1>3, <2>1
<1> HIDE DEF t
<1>5. 0 \in S
  BY TotalNone DEF Larger, Smaller
<1>6. ASSUME NEW m \in 0..(n - 1), m \in S PROVE m + 1 \in S
  <2>1. /\ Total(t, 1..m) \in Nat /\ t[m + 1] \in Nat
        /\ Total(t, 1..(m + 1)) = Total(t, 1..m) + t[m + 1]
    BY <1>3, TotalNext
  <2>2. /\ Total(a, 1..m) \in Nat /\ a[m + 1] \in Nat
        /\ Total(a, 1..(m + 1)) = Total(a, 1..m) + a[m + 1]
    BY TotalNext
  <2>3. t[m + 1] = Larger(0, Smaller(a[m + 1], cap - Total(a, 1..m)))
    <3>1. Before(a, m + 1) = Total(a, 1..m)
      BY DEF Before
    <3> QED  BY <1>2, <3>1
  <2>4. Total(t, 1..m) = Larger(0, Smaller(Total(a, 1..m), cap))
    BY <1>6
  <2>5. Total(t, 1..(m + 1)) = Larger(0, Smaller(Total(a, 1..(m + 1)), cap))
    BY <2>1, <2>2, <2>3, <2>4 DEF Larger, Smaller
  <2> QED  BY <2>5
<1>7. n \in S
  <2> HIDE DEF S
  <2>1. \A m \in 0..(n - 1) : m \in S => m + 1 \in S
    BY <1>6
  <2>2. \A m \in 0..n : m \in S
    BY <1>5, <2>1, CountUp
  <2> QED  BY <2>2
<1>8. Total(a, 1..n) \in Nat
  <2>1. IsFiniteSet(1..n)
    BY FS_Interval
  <2> QED  BY <2>1, TotalNat
<1>9. cap >= 0 => Total(t, 1..n) <= cap
  BY <1>7, <1>8 DEF Larger, Smaller
<1> QED  BY <1>3, <1>4, <1>9 DEF t

-----------------------------------------------------------------------------
(***************************************************************************)
(* Proportional scaling.  A list of active ReplicaSets: each has replicas  *)
(* and was given room for some.                                            *)
(***************************************************************************)
Sized(rss, n) ==
  /\ n \in Nat /\ Len(rss) = n /\ DOMAIN rss = 1..n
  /\ \A i \in 1..n : rss[i].replicas \in Nat /\ rss[i].max \in Nat \ {0}

(* The quotient of natural numbers, rounded to the nearest.                 *)
LEMMA RoundBounds ==
  ASSUME NEW r \in Nat, NEW a \in Nat, NEW m \in Nat \ {0}
  PROVE  /\ RoundToInt32(r * a, m) \in Nat
         /\ m <= a => RoundToInt32(r * a, m) >= r
<1> DEFINE p == r * a
           q == (2 * p + m) \div (2 * m)
<1>1. p \in Nat
  OBVIOUS
<1>2. m <= a => p >= r * m
  <2> SUFFICES ASSUME m <= a PROVE p >= r * m
    OBVIOUS
  <2>1. r * (a - m) \in Nat
    OBVIOUS
  <2>2. r * (a - m) = r * a - r * m
    OBVIOUS
  <2> QED  BY <2>1, <2>2
<1>3. r * m \in Nat
  OBVIOUS
<1> DEFINE z == r * m
<1>4. q \in Nat
  <2> HIDE DEF p
  <2> QED  BY <1>1
<1>5. (2 * m) * q <= 2 * p + m /\ 2 * p + m < (2 * m) * q + 2 * m
  <2> HIDE DEF p
  <2> QED  BY <1>1
<1>6. m <= a => q >= r
  <2> SUFFICES ASSUME m <= a, q < r PROVE FALSE
    BY <1>4
  <2>1. (2 * m) * (r - q - 1) \in Nat
    BY <1>4
  <2>2. (2 * m) * (r - q - 1) = 2 * (r * m) - (2 * m) * q - 2 * m
    <3> HIDE DEF q
    <3> QED  BY <1>4
  <2>3. (2 * m) * q \in Nat
    BY <1>4
  <2> DEFINE y == (2 * m) * q
  <2> HIDE DEF p, q
  <2> QED  BY <1>1, <1>2, <1>3, <1>5, <2>1, <2>2, <2>3
<1> QED  BY <1>4, <1>6 DEF RoundToInt32

(* What GetProportion gives one ReplicaSet: never less than taking all it   *)
(* has, and never more than is left to give.  When the Deployment may have  *)
(* more than the ReplicaSet was sized for, nothing is taken from it.        *)
LEMMA ProportionBounds ==
  ASSUME NEW r, r.replicas \in Nat, r.max \in Nat \ {0}, NEW d \in Nat, NEW a \in Nat,
         NEW toAdd \in Int, NEW added \in Int
  PROVE  LET part == GetProportion(r, d, a, toAdd, added)
         IN  /\ part \in Int
             /\ toAdd > 0 /\ added <= toAdd => /\ added + part <= toAdd
                                               /\ r.replicas + part >= 0
             /\ toAdd <= 0 => r.replicas + part >= 0
             /\ toAdd = 0 => part = 0
             /\ toAdd > 0 /\ added <= toAdd /\ d > 0 /\ r.max <= a => part >= 0
             /\ d = 0 /\ toAdd < 0 /\ toAdd - added <= -r.replicas => part = -r.replicas
<1> DEFINE f == getReplicaSetFraction(r, d, a)
           round == RoundToInt32(r.replicas * a, r.max)
<1>1. round \in Nat /\ (r.max <= a => round >= r.replicas)
  BY RoundBounds
<1> HIDE DEF round
<1>2. f \in Int /\ r.replicas + f >= 0 /\ (d > 0 /\ r.max <= a => f >= 0) /\ (d = 0 => f = -r.replicas)
  BY <1>1 DEF getReplicaSetFraction, round
<1> DEFINE part == GetProportion(r, d, a, toAdd, added)
<1>3. part = IF r.replicas = 0 \/ toAdd = 0 \/ toAdd = added THEN 0
             ELSE IF toAdd > 0 THEN Smaller(f, toAdd - added) ELSE Larger(f, toAdd - added)
  BY DEF GetProportion
<1> HIDE DEF f, part
<1> DEFINE k == r.replicas
<1>4. k \in Nat
  OBVIOUS
<1>5. /\ part \in Int
      /\ toAdd > 0 /\ added <= toAdd => added + part <= toAdd /\ k + part >= 0
      /\ toAdd <= 0 => k + part >= 0
      /\ toAdd = 0 => part = 0
      /\ toAdd > 0 /\ added <= toAdd /\ d > 0 /\ r.max <= a => part >= 0
  BY <1>2, <1>3, <1>4 DEF Smaller, Larger
<1>6. d = 0 /\ toAdd < 0 /\ toAdd - added <= -k => part = -k
  BY <1>2, <1>3, <1>4 DEF Smaller, Larger
<1> QED  BY <1>5, <1>6 DEF part

(* The running count of scale() is defined for every list: one member       *)
(* further, it grows by what that member is given.                          *)
LEMMA AddedRuns ==
  ASSUME NEW n, NEW rss, Sized(rss, n), NEW d \in Nat, NEW surge \in Nat, NEW toAdd \in Int
  PROVE  LET added == Added(rss, d, surge, toAdd)
         IN  /\ added \in [0..n -> Int] /\ added[0] = 0
             /\ \A i \in 1..n :
                   added[i] = added[i - 1]
                                + GetProportion(rss[i], d, d + surge, toAdd, added[i - 1])
<1> DEFINE part(i, k) == GetProportion(rss[i], d, d + surge, toAdd, k)
           Runs(f, m) == /\ f \in [0..m -> Int] /\ f[0] = 0
                         /\ \A i \in 1..m : f[i] = f[i - 1] + part(i, f[i - 1])
           S == {m \in Nat : \E f \in [0..m -> Int] : Runs(f, m)}
<1>1. n \in Nat /\ Len(rss) = n
  BY DEF Sized
<1>2. \A i \in 1..n, k \in Int : part(i, k) \in Int
  <2> SUFFICES ASSUME NEW i \in 1..n, NEW k \in Int PROVE part(i, k) \in Int
    OBVIOUS
  <2>1. rss[i].replicas \in Nat /\ rss[i].max \in Nat \ {0}
    BY DEF Sized
  <2>2. d + surge \in Nat
    OBVIOUS
  <2> QED  BY <2>1, <2>2, ProportionBounds
<1> HIDE DEF part
<1>3. 0 \in S
  <2>1. Runs([j \in 0..0 |-> 0], 0)
    OBVIOUS
  <2> QED  BY <2>1
<1>4. ASSUME NEW m \in 0..(n - 1), m \in S PROVE m + 1 \in S
  <2>1. PICK f \in [0..m -> Int] : Runs(f, m)
    BY <1>4
  <2> DEFINE g == [j \in 0..(m + 1) |-> IF j <= m THEN f[j] ELSE f[m] + part(m + 1, f[m])]
  <2>2. m \in Nat /\ m + 1 \in 1..n
    BY <1>1
  <2>3. g \in [0..(m + 1) -> Int]
    <3>1. f[m] \in Int
      BY <2>2
    <3>2. part(m + 1, f[m]) \in Int
      BY <1>2, <2>2, <3>1
    <3> QED  BY <3>1, <3>2, <2>2
  <2>4. \A i \in 1..(m + 1) : g[i] = g[i - 1] + part(i, g[i - 1])
    <3> SUFFICES ASSUME NEW i \in 1..(m + 1) PROVE g[i] = g[i - 1] + part(i, g[i - 1])
      OBVIOUS
    <3>1. CASE i = m + 1
      <4>1. g[i - 1] = f[m] /\ g[i] = f[m] + part(m + 1, f[m])
        BY <2>2, <3>1
      <4> QED  BY <3>1, <4>1
    <3>2. CASE i # m + 1
      <4>1. i \in 1..m /\ i - 1 \in 0..m
        BY <2>2, <3>2
      <4>2. g[i] = f[i] /\ g[i - 1] = f[i - 1]
        BY <2>2, <4>1
      <4> QED  BY <2>1, <4>1, <4>2
    <3> QED  BY <3>1, <3>2
  <2>5. g[0] = 0
    BY <2>1, <2>2
  <2>6. Runs(g, m + 1)
    BY <2>3, <2>4, <2>5
  <2> HIDE DEF g, Runs
  <2> QED  BY <2>2, <2>3, <2>6
<1>5. n \in S
  <2> HIDE DEF S
  <2>1. \A m \in 0..(n - 1) : m \in S => m + 1 \in S
    BY <1>4
  <2>2. \A m \in 0..n : m \in S
    BY <1>1, <1>3, <2>1, CountUp
  <2> QED  BY <1>1, <2>2
<1>6. PICK f \in [0..n -> Int] : Runs(f, n)
  BY <1>5
<1> DEFINE Eq(g) == g = [i \in 0..n |-> IF i = 0 THEN 0 ELSE g[i - 1] + part(i, g[i - 1])]
           added == Added(rss, d, surge, toAdd)
<1>7. Eq(f)
  <2>1. \A i \in 0..n : f[i] = IF i = 0 THEN 0 ELSE f[i - 1] + part(i, f[i - 1])
    BY <1>1, <1>6
  <2> QED  BY <2>1
<1>8. added = CHOOSE g : Eq(g)
  BY <1>1 DEF Added, part
<1>9. Eq(added)
  <2> HIDE DEF Eq
  <2> QED  BY <1>7, <1>8
<1> HIDE DEF added
<1>10. added[0] = 0 /\ \A i \in 1..n : added[i] = added[i - 1] + part(i, added[i - 1])
  BY <1>1, <1>9
<1> DEFINE Q == {m \in Nat : added[m] \in Int}
<1>11. \A m \in 0..n : m \in Q
  <2>1. 0 \in Q
    BY <1>10
  <2>2. ASSUME NEW m \in 0..(n - 1), m \in Q PROVE m + 1 \in Q
    <3>1. m + 1 \in 1..n /\ (m + 1) - 1 = m
      BY <1>1
    <3>2. added[m + 1] = added[m] + part(m + 1, added[m])
      BY <1>10, <3>1
    <3>3. part(m + 1, added[m]) \in Int
      BY <1>2, <2>2, <3>1
    <3> QED  BY <2>2, <3>1, <3>2, <3>3
  <2>3. \A m \in 0..(n - 1) : m \in Q => m + 1 \in Q
    BY <2>2
  <2> HIDE DEF Q
  <2> QED  BY <1>1, <2>1, <2>3, CountUp
<1>12. added \in [0..n -> Int]
  BY <1>9, <1>11
<1> QED  BY <1>10, <1>12 DEF added, part

(* The sizes of a proportional scaling are natural numbers, all zero for a  *)
(* Deployment of zero replicas.  When the Deployment may have more than it  *)
(* has and than every ReplicaSet was sized for, none loses replicas and all *)
(* together stay within what the Deployment may have.                       *)
LEMMA SizesBounds ==
  ASSUME NEW n, NEW rss, Sized(rss, n), NEW d \in Nat, NEW surge \in Nat,
         NEW r, r = [i \in 1..n |-> rss[i].replicas]
  PROVE  LET z == ProportionalSizes(rss, d, surge)
         IN  /\ z \in [1..n -> Nat]
             /\ d = 0 => \A i \in 1..n : z[i] = 0
             /\ /\ d > 0 /\ Total(r, 1..n) <= d + surge
                /\ \A i \in 1..n : rss[i].max <= d + surge
                => /\ \A i \in 1..n : r[i] <= z[i]
                   /\ Total(z, 1..n) <= d + surge
<1> DEFINE toAdd == ToAdd(rss, d, surge)
           added == Added(rss, d, surge, toAdd)
           left == toAdd - added[n]
           part(i) == GetProportion(rss[i], d, d + surge, toAdd, added[i - 1])
           total == Total(r, 1..n)
           z == ProportionalSizes(rss, d, surge)
           grow == /\ d > 0 /\ total <= d + surge
                   /\ \A i \in 1..n : rss[i].max <= d + surge
<1>1. n \in Nat /\ Len(rss) = n /\ DOMAIN rss = 1..n
  BY DEF Sized
<1>2. \A i \in 1..n : r[i] \in Nat /\ r[i] = rss[i].replicas /\ rss[i].max \in Nat \ {0}
  BY DEF Sized
<1>3. total \in Nat
  BY <1>1, <1>2, RangeFinite, TotalNat
<1>4. toAdd = (IF d > 0 THEN d + surge ELSE 0) - total
  BY <1>1 DEF ToAdd
<1> HIDE DEF total, toAdd
<1>5. toAdd \in Int
  BY <1>3, <1>4
<1>6. /\ added \in [0..n -> Int] /\ added[0] = 0
      /\ \A i \in 1..n : added[i] = added[i - 1] + part(i)
  BY <1>5, AddedRuns, SMTT(30)
<1>7. z = [i \in 1..n |-> IF i = 1 THEN Larger(0, rss[i].replicas + added[1] + left)
                          ELSE rss[i].replicas + added[i] - added[i - 1]]
  BY <1>1 DEF ProportionalSizes, toAdd
<1> HIDE DEF added, z
<1>8. \A i \in 1..n : i - 1 \in 0..n /\ i \in 0..n /\ added[i - 1] \in Int /\ added[i] \in Int
  BY <1>1, <1>6
<1>9. \A i \in 1..n :
        /\ part(i) \in Int
        /\ toAdd > 0 /\ added[i - 1] <= toAdd => added[i] <= toAdd /\ r[i] + part(i) >= 0
        /\ toAdd <= 0 => r[i] + part(i) >= 0
        /\ toAdd = 0 => part(i) = 0
        /\ toAdd > 0 /\ added[i - 1] <= toAdd /\ d > 0 /\ rss[i].max <= d + surge => part(i) >= 0
        /\ d = 0 /\ toAdd < 0 /\ toAdd - added[i - 1] <= -r[i] => part(i) = -r[i]
  <2> TAKE i \in 1..n
  <2>1. rss[i].replicas \in Nat /\ rss[i].max \in Nat \ {0} /\ d + surge \in Nat
    BY <1>2
  <2>2. added[i - 1] \in Int /\ added[i] = added[i - 1] + part(i) /\ r[i] = rss[i].replicas
    BY <1>2, <1>6, <1>8
  <2>3. /\ part(i) \in Int
        /\ toAdd > 0 /\ added[i - 1] <= toAdd => /\ added[i - 1] + part(i) <= toAdd
                                                  /\ rss[i].replicas + part(i) >= 0
        /\ toAdd <= 0 => rss[i].replicas + part(i) >= 0
        /\ toAdd = 0 => part(i) = 0
        /\ toAdd > 0 /\ added[i - 1] <= toAdd /\ d > 0 /\ rss[i].max <= d + surge => part(i) >= 0
        /\ d = 0 /\ toAdd < 0 /\ toAdd - added[i - 1] <= -rss[i].replicas
             => part(i) = -rss[i].replicas
    BY ONLY <1>5, <2>1, <2>2, ProportionBounds, d \in Nat, surge \in Nat
  <2> HIDE DEF part
  <2> QED  BY <2>2, <2>3
<1> HIDE DEF part
<1>10. toAdd > 0 => \A m \in 0..n : added[m] <= toAdd
  <2> DEFINE S == {m \in Nat : added[m] <= toAdd}
  <2> SUFFICES ASSUME toAdd > 0 PROVE \A m \in 0..n : m \in S
    OBVIOUS
  <2>1. 0 \in S
    BY <1>5, <1>6
  <2>2. \A m \in 0..(n - 1) : m \in S => m + 1 \in S
    <3> TAKE m \in 0..(n - 1)
    <3>1. m + 1 \in 1..n /\ (m + 1) - 1 = m
      BY <1>1
    <3> QED  BY <1>9, <3>1
  <2> HIDE DEF S
  <2> QED  BY <1>1, <2>1, <2>2, CountUp
<1>11. \A i \in 1..n : r[i] + part(i) >= 0
  <2> TAKE i \in 1..n
  <2>1. CASE toAdd > 0
    BY <1>8, <1>9, <1>10, <2>1
  <2>2. CASE toAdd <= 0
    BY <1>9, <2>2
  <2> QED  BY <1>5, <2>1, <2>2
<1>12. \A i \in 1..n : /\ z[i] \in Nat
                       /\ i # 1 => z[i] = r[i] + part(i)
                       /\ i = 1 => z[i] = Larger(0, r[i] + part(i) + left)
  <2> TAKE i \in 1..n
  <2>1. z[i] = IF i = 1 THEN Larger(0, r[i] + added[i] + left)
               ELSE r[i] + added[i] - added[i - 1]
    BY <1>2, <1>7
  <2>2. added[i] = added[i - 1] + part(i) /\ added[i - 1] \in Int /\ part(i) \in Int
    BY <1>6, <1>8, <1>9
  <2>3. i = 1 => added[i] = part(i)
    BY <1>6, <2>2
  <2>4. left \in Int /\ r[i] \in Nat /\ r[i] + part(i) >= 0
    BY <1>1, <1>2, <1>5, <1>6, <1>11
  <2> HIDE DEF left
  <2>5. CASE i = 1
    <3>1. z[i] = Larger(0, r[i] + part(i) + left)
      BY <2>1, <2>3, <2>5
    <3>2. Larger(0, r[i] + part(i) + left) \in Nat
      BY <2>2, <2>4 DEF Larger
    <3> QED  BY <2>5, <3>1, <3>2
  <2>6. CASE i # 1
    <3>1. z[i] = r[i] + part(i)
      BY <2>1, <2>2, <2>4, <2>6
    <3> QED  BY <2>2, <2>4, <2>6, <3>1
  <2> QED  BY <2>5, <2>6
<1>13. z \in [1..n -> Nat]
  BY <1>7, <1>12
<1>14. d = 0 => \A i \in 1..n : z[i] = 0
  <2> SUFFICES ASSUME d = 0 PROVE \A i \in 1..n : z[i] = 0
    OBVIOUS
  <2>1. toAdd = -total
    BY <1>3, <1>4
  <2> DEFINE S == {m \in Nat : added[m] = -Total(r, 1..m)}
  <2>2. 0 \in S
    BY <1>6, TotalNone
  <2>3. \A m \in 0..(n - 1) : m \in S => m + 1 \in S /\ part(m + 1) = -r[m + 1]
    <3> SUFFICES ASSUME NEW m \in 0..(n - 1), m \in S
                 PROVE  m + 1 \in S /\ part(m + 1) = -r[m + 1]
      OBVIOUS
    <3>1. m + 1 \in 1..n /\ (m + 1) - 1 = m /\ added[m] \in Int /\ r[m + 1] \in Nat
      BY <1>1, <1>2, <1>8
    <3>2. /\ Total(r, 1..m) \in Nat
          /\ Total(r, 1..(m + 1)) = Total(r, 1..m) + r[m + 1]
      BY <1>1, <1>2, TotalNext
    <3>3. Total(r, 1..(m + 1)) <= total
      <4>1. 1..(m + 1) \subseteq 1..n
        BY <1>1
      <4>2. IsFiniteSet(1..n)
        BY <1>1, RangeFinite
      <4>3. \A j \in 1..n : r[j] \in Nat
        BY <1>2
      <4>4. \A j \in 1..(m + 1) : r[j] \in Nat /\ r[j] <= r[j]
        BY <4>1, <4>3
      <4>5. Total(r, 1..(m + 1)) <= Total(r, 1..n)
        BY <4>1, <4>2, <4>3, <4>4, TotalMonotone
      <4> QED  BY <4>5 DEF total
    <3>4. part(m + 1) = -r[m + 1]
      <4>1. CASE toAdd < 0
        <5>1. toAdd - added[m] <= -r[m + 1]
          BY <1>3, <2>1, <3>1, <3>2, <3>3
        <5> QED  BY <1>9, <3>1, <4>1, <5>1
      <4>2. CASE toAdd = 0
        <5>1. r[m + 1] = 0
          BY <1>3, <2>1, <3>1, <3>2, <3>3, <4>2
        <5>2. part(m + 1) = 0
          BY <1>9, <3>1, <4>2
        <5> QED  BY <5>1, <5>2
      <4> QED  BY <1>3, <2>1, <4>1, <4>2
    <3>5. added[m + 1] = added[m] + part(m + 1)
      BY <1>6, <3>1
    <3>6. added[m + 1] = -Total(r, 1..(m + 1))
      BY <3>1, <3>2, <3>4, <3>5
    <3> QED  BY <3>4, <3>6
  <2>4. \A m \in 0..n : m \in S
    <3>1. \A m \in 0..(n - 1) : m \in S => m + 1 \in S
      BY <2>3
    <3> HIDE DEF S
    <3> QED  BY <1>1, <2>2, <3>1, CountUp
  <2>5. left = 0
    BY <1>1, <1>3, <2>1, <2>4 DEF total
  <2> TAKE i \in 1..n
  <2>6. part(i) = -r[i]
    <3>1. i - 1 \in 0..(n - 1) /\ (i - 1) + 1 = i
      BY <1>1
    <3>2. i - 1 \in S
      BY <1>1, <2>4, <3>1
    <3> HIDE DEF S
    <3> QED  BY <2>3, <3>1, <3>2
  <2> HIDE DEF left
  <2> QED  BY <1>2, <1>12, <2>5, <2>6 DEF Larger
<1>15. grow => /\ \A i \in 1..n : r[i] <= z[i]
               /\ Total(z, 1..n) <= d + surge
  <2> SUFFICES ASSUME grow PROVE (\A i \in 1..n : r[i] <= z[i]) /\ Total(z, 1..n) <= d + surge
    OBVIOUS
  <2>1. toAdd >= 0 /\ toAdd + total = d + surge
    BY <1>3, <1>4
  <2>2. \A i \in 1..n : part(i) \in Nat
    <3> TAKE i \in 1..n
    <3>1. CASE toAdd > 0
      BY <1>8, <1>9, <1>10, <3>1
    <3>2. CASE toAdd = 0
      BY <1>9, <3>2
    <3> QED  BY <1>5, <2>1, <3>1, <3>2
  <2>3. left \in Nat
    <3>1. CASE toAdd > 0
      BY <1>1, <1>5, <1>6, <1>10, <3>1
    <3>2. CASE toAdd = 0
      <4> DEFINE S == {m \in Nat : added[m] = 0}
      <4>1. 0 \in S
        BY <1>6
      <4>2. \A m \in 0..(n - 1) : m \in S => m + 1 \in S
        <5> TAKE m \in 0..(n - 1)
        <5>1. m + 1 \in 1..n /\ (m + 1) - 1 = m
          BY <1>1
        <5>2. added[m + 1] = added[m] + part(m + 1) /\ part(m + 1) = 0
          BY <1>6, <1>9, <3>2, <5>1
        <5> QED  BY <5>1, <5>2
      <4>3. \A m \in 0..n : m \in S
        <5> HIDE DEF S
        <5> QED  BY <1>1, <4>1, <4>2, CountUp
      <4>4. added[n] = 0
        BY <1>1, <4>3
      <4> QED  BY <3>2, <4>4
    <3> QED  BY <1>5, <2>1, <3>1, <3>2
  <2>4. \A i \in 1..n : z[i] = r[i] + part(i) + (IF i = 1 THEN left ELSE 0)
    <3> HIDE DEF left
    <3> QED  BY <1>2, <1>12, <2>2, <2>3 DEF Larger
  <2>5. \A i \in 1..n : r[i] <= z[i]
    <3> HIDE DEF left
    <3> QED  BY <1>2, <2>2, <2>3, <2>4
  <2> DEFINE S == {m \in Nat : m = 0 \/ Total(z, 1..m) = Total(r, 1..m) + added[m] + left}
  <2>6. \A m \in 0..n : m \in S
    <3>1. 0 \in S
      OBVIOUS
    <3>2. \A m \in 0..(n - 1) : m \in S => m + 1 \in S
      <4> SUFFICES ASSUME NEW m \in 0..(n - 1), m \in S
                   PROVE  Total(z, 1..(m + 1)) = Total(r, 1..(m + 1)) + added[m + 1] + left
        OBVIOUS
      <4>1. m + 1 \in 1..n /\ (m + 1) - 1 = m /\ added[m] \in Int
        BY <1>1, <1>8
      <4>2. /\ Total(r, 1..m) \in Nat /\ r[m + 1] \in Nat
            /\ Total(r, 1..(m + 1)) = Total(r, 1..m) + r[m + 1]
        BY <1>1, <1>2, TotalNext
      <4>3. /\ Total(z, 1..m) \in Nat /\ z[m + 1] \in Nat
            /\ Total(z, 1..(m + 1)) = Total(z, 1..m) + z[m + 1]
        BY <1>1, <1>12, TotalNext
      <4>4. added[m + 1] = added[m] + part(m + 1) /\ part(m + 1) \in Nat
        BY <1>6, <2>2, <4>1
      <4>5. z[m + 1] = r[m + 1] + part(m + 1) + (IF m = 0 THEN left ELSE 0)
        BY <2>4, <4>1
      <4>6. CASE m = 0
        <5>1. Total(z, 1..m) = 0 /\ Total(r, 1..m) = 0 /\ added[m] = 0
          BY <1>6, <4>6, TotalNone
        <5> HIDE DEF left
        <5> QED  BY <2>3, <4>2, <4>3, <4>4, <4>5, <4>6, <5>1
      <4>7. CASE m # 0
        <5>1. Total(z, 1..m) = Total(r, 1..m) + added[m] + left
          BY <4>7
        <5>2. z[m + 1] = r[m + 1] + part(m + 1)
          BY <4>2, <4>4, <4>5, <4>7
        <5> HIDE DEF left, S
        <5>3. Total(z, 1..(m + 1)) = (Total(r, 1..m) + added[m] + left) + (r[m + 1] + part(m + 1))
          BY <4>3, <5>1, <5>2
        <5>4. Total(r, 1..(m + 1)) = Total(r, 1..m) + r[m + 1]
          BY <4>2
        <5> QED  BY ONLY <2>3, <4>1, <4>2, <4>4, <5>3, <5>4
      <4> QED  BY <4>6, <4>7
    <3> HIDE DEF S
    <3> QED  BY <1>1, <3>1, <3>2, CountUp
  <2>7. CASE n = 0
    <3>1. Total(z, 1..n) = 0
      BY <2>7, TotalNone
    <3> QED  BY <2>5, <3>1
  <2>8. CASE n # 0
    <3>1. Total(z, 1..n) = total + added[n] + left
      BY <1>1, <2>6, <2>8 DEF total
    <3>2. added[n] \in Int
      BY <1>1, <1>6
    <3> QED  BY <1>3, <1>5, <2>1, <2>5, <3>1, <3>2
  <2> QED  BY <2>7, <2>8
<1> QED  BY <1>13, <1>14, <1>15 DEF z, total

-----------------------------------------------------------------------------
(***************************************************************************)
(* The fenceposts of a rolling update, and sums that differ in one term.   *)
(***************************************************************************)
(* The surge and the unavailability are at most the desired count.          *)
LEMMA FencepostBounds ==
  ASSUME NEW d \in Nat, NEW s \in 0..100, NEW u \in 0..100
  PROVE  /\ ResolveSurge(s, d) \in 0..d
         /\ ResolveUnavailable(s, u, d) \in Nat
         /\ Smaller(ResolveUnavailable(s, u, d), d) \in 0..d
<1>1. ResolveSurge(s, d) \in 0..d
  BY CeilPercentBounds DEF ResolveSurge
<1>2. d * u \in Nat
  OBVIOUS
<1>3. (d * u) \div 100 \in Nat
  BY <1>2
<1>4. ResolveUnavailable(s, u, d) \in Nat
  BY <1>1, <1>3 DEF ResolveUnavailable
<1> QED  BY <1>1, <1>4 DEF Smaller

(* A new ReplicaSet grows at most to the desired count and within what the  *)
(* surge leaves beside the others.                                          *)
LEMMA NewSizeBounds ==
  ASSUME NEW d \in Nat, NEW s \in 0..100, NEW c \in Nat, NEW own \in 0..d
  PROVE  /\ NewRSReplicas(d, s, c, own) \in own..d
         /\ NewRSReplicas(d, s, c, own) # own =>
              NewRSReplicas(d, s, c, own) + c <= d + ResolveSurge(s, d) + own
<1>1. ResolveSurge(s, d) \in 0..d
  BY CeilPercentBounds DEF ResolveSurge
<1> QED  BY <1>1 DEF NewRSReplicas, Smaller

(* Two sums whose terms agree but for one differ as that one does.          *)
LEMMA TotalChange ==
  ASSUME NEW S, IsFiniteSet(S), NEW u \in S, NEW f, NEW g,
         \A v \in S : f[v] \in Nat /\ g[v] \in Nat,
         \A v \in S \ {u} : f[v] = g[v]
  PROVE  Total(g, S) = Total(f, S) - f[u] + g[u]
<1>1. IsFiniteSet(S \ {u}) /\ u \notin S \ {u} /\ (S \ {u}) \cup {u} = S
  BY FS_RemoveElement
<1>2. \A v \in (S \ {u}) \cup {u} : f[v] \in Nat /\ g[v] \in Nat
  BY <1>1
<1>3. /\ Total(f, (S \ {u}) \cup {u}) = Total(f, S \ {u}) + f[u]
      /\ Total(g, (S \ {u}) \cup {u}) = Total(g, S \ {u}) + g[u]
  BY <1>1, <1>2, TotalAddElement
<1>4. Total(f, S \ {u}) = Total(g, S \ {u})
  <2>1. (S \ {u}) \ (S \ {u}) = {}
    OBVIOUS
  <2> QED  BY <1>2, <2>1, TotalSame
<1>5. Total(f, S \ {u}) \in Nat /\ f[u] \in Nat /\ g[u] \in Nat
  BY <1>1, <1>2, TotalNat
<1>6. Total(f, S) = Total(f, S \ {u}) + f[u] /\ Total(g, S) = Total(g, S \ {u}) + g[u]
  BY <1>1, <1>3
<1> QED  BY ONLY <1>4, <1>5, <1>6

(* A sum with one term.                                                     *)
LEMMA TotalOne ==
  ASSUME NEW S, IsFiniteSet(S), NEW u \in S, NEW f, f[u] \in Nat,
         \A v \in S \ {u} : f[v] = 0
  PROVE  Total(f, S) = f[u]
<1> DEFINE g == [v \in S |-> 0]
<1>1. \A v \in S : g[v] \in Nat /\ f[v] \in Nat
  OBVIOUS
<1>2. \A v \in S \ {u} : g[v] = f[v]
  OBVIOUS
<1>3. Total(f, S) = Total(g, S) - g[u] + f[u]
  <2> HIDE DEF g
  <2> QED  BY <1>1, <1>2, TotalChange
<1>4. Total(g, S) = 0 /\ g[u] = 0
  BY TotalZero
<1> QED  BY <1>3, <1>4
=============================================================================
