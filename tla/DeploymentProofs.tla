-------------------------- MODULE DeploymentProofs --------------------------
(***************************************************************************)
(* Proofs about the forked deployment controller: its types, the surge and *)
(* the availability of a rolling update, the order of a Recreate update    *)
(* and the target of a rollback, for every set of templates, size, surge,  *)
(* unavailability and number of edits and faults.                          *)
(*                                                                         *)
(* A write is judged by what the worker planned when it read its copies.   *)
(* The inductive invariant therefore says what the worker's list of sizes  *)
(* still to write may do to the ReplicaSets as they are now.               *)
(***************************************************************************)
EXTENDS DeploymentSystem, MathLemmas

-----------------------------------------------------------------------------
(***************************************************************************)
(* The inductive invariant.                                                *)
(***************************************************************************)
(* A ReplicaSet that is not there has nothing, one that is there has a      *)
(* revision, and one with replicas was sized for a Deployment with some, so *)
(* that the annotation scale() divides by is positive.                      *)
Sane(e) ==
  /\ e.exists => e.rev > 0
  /\ ~e.exists => e.replicas = 0 /\ e.pods = 0 /\ e.avail = 0
  /\ e.replicas > 0 => e.desired > 0 /\ e.max > 0

(* The ReplicaSet of t in the copies r, q and l. *)
Told(t, r, q, l) == {r[t], q[t], l[t]}

(* ReplicaSets of two templates were not created at the same time, whatever *)
(* copies they are in: births, b of them so far, are numbered.              *)
CopiesOK(r, q, l, b) ==
  /\ \A t \in Tmpls : \A e \in Told(t, r, q, l) : Sane(e) /\ e.born <= b
  /\ \A t, u \in Tmpls : t # u =>
        \A e \in Told(t, r, q, l), f \in Told(u, r, q, l) :
           e.exists /\ f.exists => e.born # f.born

(* What worker x takes for current in r is.  A copy that                    *)
(* reconcileOldReplicaSets works on with differs only in what that sync     *)
(* itself has written.                                                      *)
Current(x, r) ==
  \A t \in x.lCur :
     /\ r[t].exists = x.l[t].exists /\ r[t].avail = x.l[t].avail
     /\ r[t].replicas <= x.l[t].replicas
     /\ x.pc \notin {"shrink", "status", "cleanup"} => r[t] = x.l[t]

(* The old ReplicaSets were sized for the Deployment's replicas. *)
Settled(x) == \A u \in FilterActive(x, Old(x)) : x.l[u].desired = x.d.replicas

ViaOK(x) ==
  /\ x.via = "rolling" /\ x.pc \in {"newRS", "stampNew"} => Settled(x)
  /\ x.via \in {"recreate", "recreateNew"} => ~IsRollingUpdate(x.d)
  /\ x.via = "event" => x.pc \in {"idle", "conditions", "newRS"}
  /\ x.pc = "conditions" => x.via \in {"deleted", "paused", "rollback", "event"}
  /\ x.pc = "rollback" => x.via = "rollback"
  /\ x.pc = "stampNew" => /\ Creating(x) /\ x.l[T(x)].exists
                          /\ x.l[T(x)].rev = NewRevision(x)

(* The sizes a worker is about to write, from its own copies. *)
TodoOK(x) ==
  /\ x.pc \in {"resize", "shrink", "cleanup"} => x.todo # <<>>
  /\ x.pc \in {"resize", "shrink"} =>
       \A i \in DOMAIN x.todo : /\ x.l[x.todo[i].t].exists
                                /\ x.todo[i].n > 0 => x.d.replicas > 0
  /\ x.pc = "shrink" =>
       \A i \in DOMAIN x.todo : x.todo[i].n <= x.l[x.todo[i].t].replicas
  /\ x.pc = "cleanup" =>
       \A i \in DOMAIN x.todo : x.l[x.todo[i].t].replicas = 0
  /\ x.pc = "resize" /\ x.via = "rolling" =>
       \A i \in DOMAIN x.todo : \/ x.todo[i].n >= x.l[x.todo[i].t].replicas
                                \/ x.todo[i].n >= x.d.replicas
  /\ x.pc = "resize" /\ x.via \in {"recreate", "recreateNew"} =>
       \/ \A i \in DOMAIN x.todo : x.todo[i].n = 0
       \/ \A i \in DOMAIN x.todo : x.todo[i].t = T(x)

PlanOK(x) == ViaOK(x) /\ TodoOK(x)

(* What the ReplicaSets of a copy have. *)
Spread(l) == [t \in Tmpls |-> l[t].replicas]

(* No write of the list raises a size. *)
Falls(x, sizes) ==
  /\ \A i \in DOMAIN x.todo : x.todo[i].n <= sizes[x.todo[i].t]
  /\ \A i, j \in DOMAIN x.todo : i < j /\ x.todo[i].t = x.todo[j].t => x.todo[j].n <= x.todo[i].n

(* Sizes that neither the present ones nor the writes exceed, and that stay *)
(* within the surge together.                                               *)
Ceiling(x, sizes) ==
  \E top \in [Tmpls -> Nat] :
     /\ \A t \in Tmpls : sizes[t] <= top[t]
     /\ \A i \in DOMAIN x.todo : x.todo[i].n <= top[x.todo[i].t]
     /\ Total(top, Tmpls) <= x.d.replicas + MaxSurge(x.d)

WithinSurge(x, sizes) ==
  x.pc \in {"resize", "shrink"} =>
    \/ Falls(x, sizes)
    \/ /\ x.pc = "resize"
       /\ IsRollingUpdate(x.d) /\ (x.via \in {"paused", "scaling"} => Grows(x))
            => Ceiling(x, sizes)

(* Sizes that neither the present ones nor the writes fall below, and that  *)
(* leave the availability the Deployment asks for.                          *)
Leaves(x, low) ==
  Total([t \in Tmpls |-> Smaller(x.l[t].avail, low[t])], Tmpls) >= MinAvailable(x.d)

Floor(x, sizes) ==
  \E low \in [Tmpls -> Nat] :
     /\ \A t \in Tmpls : low[t] <= sizes[t]
     /\ \A i \in DOMAIN x.todo : low[x.todo[i].t] <= x.todo[i].n
     /\ Leaves(x, low)

KeepsAvailable(x, sizes) ==
  x.pc = "shrink" /\ (\A t \in Tmpls : x.l[t].avail <= x.l[t].replicas) =>
    \/ \A i \in DOMAIN x.todo : x.l[x.todo[i].t].avail <= x.todo[i].n
    \/ Floor(x, sizes)

(* The sizes that worker x read are those of r; so are the revisions that   *)
(* a rollback goes by.                                                      *)
Mirror(x, r) ==
  \A t \in Tmpls : /\ r[t].exists = x.l[t].exists /\ r[t].replicas = x.l[t].replicas
                   /\ x.via = "rollback" => r[t].rev = x.l[t].rev

(* Nothing of an old template runs. *)
Clear(x, r, run) ==
  \A t \in Tmpls : t # T(x) /\ r[t].exists => run[t] = 0 /\ r[t].replicas = 0

(* podMap had the pods of the old ReplicaSets. *)
PodsSeen(x, run) ==
  ~x.oldRuns =>
    \A t \in Tmpls : t # T(x) /\ x.l[t].exists /\ x.l[t].replicas = 0 /\ x.l[t].pods = 0
                       => run[t] = 0

(* The newest revision is that of the Deployment's template. *)
Topmost(x) ==
  x.l[T(x)].exists /\ \A u \in Old(x) : x.l[u].rev < x.l[T(x)].rev

(* A sync whose copies were current when it read them. *)
Fresh(x, r, run) ==
  x.fresh =>
    /\ x.pc \in {"conditions", "newRS", "stampNew", "rollback"} => Mirror(x, r)
    /\ x.pc = "rollback" => Topmost(x)
    /\ WithinSurge(x, Spread(r))
    /\ x.pc \in {"conditions", "newRS", "stampNew"} => PodsSeen(x, run)
    /\ x.via = "recreateNew" /\ x.pc \in {"newRS", "stampNew", "resize"} => Clear(x, r, run)
    /\ x.via = "recreate" /\ x.pc = "resize" =>
         Clear(x, r, run) \/ \A i \in DOMAIN x.todo : x.todo[i].n = 0

(* The worker x beside the ReplicaSets r, their pods and the Deployment d. *)
Works(x, r, run, d) ==
  /\ x \in WorkerType /\ (x.dCur => x.d = d) /\ Current(x, r)
  /\ PlanOK(x) /\ Fresh(x, r, run)
  /\ x.lCur = Tmpls => KeepsAvailable(x, Spread(r))

DeploymentsOK ==
  /\ dep \in DepType /\ seen \in DepType /\ seenCur \in BOOLEAN
  /\ seenCur => seen = dep

ReplicaSetsOK ==
  /\ rs \in [Tmpls -> RSType] /\ seenRS \in [Tmpls -> RSType] /\ seenRSCur \subseteq Tmpls
  /\ \A t \in seenRSCur : seenRS[t] = rs[t]

QueueOK ==
  /\ queued \in BOOLEAN /\ timer \in BOOLEAN /\ retries \in 0..MaxRetries
  /\ stalled \subseteq Watches

CountsOK ==
  /\ running \in [Tmpls -> Nat] /\ births \in 0..MaxRev /\ scenario \in Scenarios
  /\ edits \in 0..scenario.maxEdits /\ faults \in 0..scenario.maxFaults

IInv ==
  /\ DeploymentsOK /\ ReplicaSetsOK /\ QueueOK /\ CountsOK
  /\ CopiesOK(rs, seenRS, w.l, births)
  /\ Works(w, rs, running, dep)

-----------------------------------------------------------------------------
(***************************************************************************)
(* The worker's record.                                                    *)
(***************************************************************************)
Item == [t: Tmpls, n: Nat]

(* The fields of a worker. *)
LEMMA WorkerFields ==
  ASSUME NEW x \in WorkerType
  PROVE  /\ x.pc \in PCs /\ x.via \in Vias /\ x.d \in DepType /\ x.dCur \in BOOLEAN
         /\ x.l \in [Tmpls -> RSType] /\ x.lCur \in SUBSET Tmpls /\ x.oldRuns \in BOOLEAN
         /\ x.todo \in Seq(Item) /\ x.then \in {"status", "finish", "cleanup"}
         /\ x.fresh \in BOOLEAN
         /\ T(x) \in Tmpls
BY DEF WorkerType, Item, DepType, T

(* What a worker keeps while it plans. *)
Kept(x, y) ==
  /\ y.d = x.d /\ y.dCur = x.dCur /\ y.l = x.l /\ y.lCur = x.lCur
  /\ y.oldRuns = x.oldRuns /\ y.fresh = x.fresh

(* A worker whose copy of the ReplicaSets is as the invariant says. *)
Good(x) ==
  /\ x \in WorkerType
  /\ \A t \in Tmpls : Sane(x.l[t])
  /\ \A t, u \in Tmpls : t # u /\ x.l[t].exists /\ x.l[u].exists => x.l[t].born # x.l[u].born

(* A worker that has no more sizes to write. *)
Closes(x, y) ==
  /\ y \in WorkerType /\ Kept(x, y) /\ y.via = x.via
  /\ y.pc \in {"status", "cleanup"}
  /\ y.pc = "cleanup" => /\ y.todo # <<>>
                         /\ \A i \in DOMAIN y.todo : x.l[y.todo[i].t].replicas = 0

(* The fields of a Deployment and of a ReplicaSet. *)
LEMMA ObjectFields ==
  ASSUME NEW x \in WorkerType
  PROVE  /\ x.d.replicas \in Sizes /\ x.d.replicas \in Nat /\ x.d.tmpl \in Tmpls
         /\ \A t \in Tmpls :
               /\ x.l[t] \in RSType /\ x.l[t].exists \in BOOLEAN
               /\ x.l[t].replicas \in Nat /\ x.l[t].desired \in Nat /\ x.l[t].max \in Nat
               /\ x.l[t].rev \in 0..MaxRev /\ x.l[t].born \in 0..MaxRev
               /\ x.l[t].pods \in Nat /\ x.l[t].avail \in Nat
<1>1. x.d \in DepType /\ x.l \in [Tmpls -> RSType]
  BY WorkerFields
<1>2. x.d.replicas \in Sizes /\ x.d.tmpl \in Tmpls
  BY <1>1 DEF DepType
<1>3. \A t \in Tmpls : x.l[t] \in RSType
  BY <1>1
<1> QED  BY <1>2, <1>3, DeploymentAssumption DEF RSType

(* The numbers of a Deployment. *)
LEMMA Fenceposts ==
  ASSUME NEW x \in WorkerType
  PROVE  /\ MaxSurge(x.d) \in 0..x.d.replicas
         /\ MinAvailable(x.d) \in 0..x.d.replicas
<1>1. x.d.replicas \in Nat /\ Surge \in 0..100 /\ Unavailable \in 0..100
  BY ObjectFields, DeploymentAssumption
<1>2. /\ ResolveSurge(Surge, x.d.replicas) \in 0..x.d.replicas
      /\ Smaller(ResolveUnavailable(Surge, Unavailable, x.d.replicas), x.d.replicas)
           \in 0..x.d.replicas
  BY <1>1, FencepostBounds
<1> QED  BY <1>1, <1>2 DEF MaxSurge, MinAvailable, MaxUnavailable

-----------------------------------------------------------------------------
(***************************************************************************)
(* Lists of ReplicaSets: in every order of the code each is listed once,   *)
(* because no two were created at the same time.                           *)
(***************************************************************************)
(* The order of a number and, for the same number, of the creation.         *)
LEMMA OrderByTwo ==
  ASSUME NEW S, NEW f, NEW g, \A u \in S : f[u] \in Int /\ g[u] \in Int,
         \A u, v \in S : u # v => g[u] # g[v],
         NEW R, R = {p \in S \X S : \/ f[p[1]] < f[p[2]]
                                    \/ f[p[1]] = f[p[2]] /\ g[p[1]] < g[p[2]]}
  PROVE  Orders(R, S)
<1>1. \A a, b \in S : <<a, b>> \in R <=> (f[a] < f[b] \/ (f[a] = f[b] /\ g[a] < g[b]))
  OBVIOUS
<1>2. \A a \in S : <<a, a>> \notin R
  BY <1>1
<1>3. \A a, b, c \in S : <<a, b>> \in R /\ <<b, c>> \in R => <<a, c>> \in R
  <2> SUFFICES ASSUME NEW a \in S, NEW b \in S, NEW c \in S, <<a, b>> \in R, <<b, c>> \in R
               PROVE  <<a, c>> \in R
    OBVIOUS
  <2>1. f[a] < f[c] \/ (f[a] = f[c] /\ g[a] < g[c])
    BY <1>1
  <2> QED  BY <1>1, <2>1
<1>4. \A a, b \in S : a = b \/ <<a, b>> \in R \/ <<b, a>> \in R
  <2> SUFFICES ASSUME NEW a \in S, NEW b \in S, a # b PROVE <<a, b>> \in R \/ <<b, a>> \in R
    OBVIOUS
  <2>1. \/ f[a] < f[b] \/ (f[a] = f[b] /\ g[a] < g[b])
        \/ f[b] < f[a] \/ (f[b] = f[a] /\ g[b] < g[a])
    OBVIOUS
  <2> QED  BY <1>1, <2>1
<1> QED  BY <1>2, <1>3, <1>4 DEF Orders

(* Each of the lists of Deployment has the members of S, each once.         *)
LEMMA EveryListed ==
  ASSUME NEW x, Good(x), NEW S, S \subseteq All(x)
  PROVE  /\ IsFiniteSet(S) /\ S \subseteq Tmpls
         /\ Lists(ByCreation(x, S), S) /\ Lists(NewestFirst(x, S), S)
         /\ Lists(BySizeNewer(x, S), S) /\ Lists(BySizeOlder(x, S), S)
         /\ Lists(ByRevision(x, S), S)
<1>1. S \subseteq Tmpls /\ \A u \in S : x.l[u].exists
  BY DEF All
<1>2. IsFiniteSet(S)
  BY <1>1, DeploymentAssumption, FS_Subset
<1>3. \A u \in S : x.l[u].replicas \in Nat /\ x.l[u].rev \in Nat /\ x.l[u].born \in Nat
  BY <1>1, ObjectFields, DeploymentAssumption DEF Good
<1>4. \A u, v \in S : u # v => x.l[u].born # x.l[v].born
  BY <1>1 DEF Good
<1> DEFINE zero == [u \in S |-> 0]
           born == [u \in S |-> x.l[u].born]
           age == [u \in S |-> -x.l[u].born]
           size == [u \in S |-> -x.l[u].replicas]
           rev == [u \in S |-> x.l[u].rev]
           R(f, g) == {p \in S \X S : \/ f[p[1]] < f[p[2]]
                                      \/ f[p[1]] = f[p[2]] /\ g[p[1]] < g[p[2]]}
<1>5. /\ \A u \in S : /\ zero[u] \in Int /\ born[u] \in Int /\ age[u] \in Int
                      /\ size[u] \in Int /\ rev[u] \in Int
      /\ \A u, v \in S : u # v => born[u] # born[v] /\ age[u] # age[v]
  BY <1>3, <1>4
<1>6. \A p \in S \X S : p[1] \in S /\ p[2] \in S
  OBVIOUS
<1>7. /\ R(zero, born) = {p \in S \X S : x.l[p[1]].born < x.l[p[2]].born}
      /\ R(zero, age) = {p \in S \X S : x.l[p[1]].born > x.l[p[2]].born}
  BY <1>3, <1>6
<1>8. /\ R(size, age) = {p \in S \X S : \/ x.l[p[1]].replicas > x.l[p[2]].replicas
                                        \/ /\ x.l[p[1]].replicas = x.l[p[2]].replicas
                                           /\ x.l[p[1]].born > x.l[p[2]].born}
      /\ R(size, born) = {p \in S \X S : \/ x.l[p[1]].replicas > x.l[p[2]].replicas
                                         \/ /\ x.l[p[1]].replicas = x.l[p[2]].replicas
                                            /\ x.l[p[1]].born < x.l[p[2]].born}
      /\ R(rev, born) = {p \in S \X S : \/ x.l[p[1]].rev < x.l[p[2]].rev
                                        \/ /\ x.l[p[1]].rev = x.l[p[2]].rev
                                           /\ x.l[p[1]].born < x.l[p[2]].born}
  BY <1>3, <1>6
<1>9. /\ Orders(R(zero, born), S) /\ Orders(R(zero, age), S) /\ Orders(R(size, age), S)
      /\ Orders(R(size, born), S) /\ Orders(R(rev, born), S)
  <2> HIDE DEF zero, born, age, size, rev
  <2> QED  BY <1>5, OrderByTwo
<1> HIDE DEF zero, born, age, size, rev, R
<1>10. /\ Lists(Sorted(S, R(zero, born)), S) /\ Lists(Sorted(S, R(zero, age)), S)
       /\ Lists(Sorted(S, R(size, age)), S) /\ Lists(Sorted(S, R(size, born)), S)
       /\ Lists(Sorted(S, R(rev, born)), S)
  BY <1>2, <1>9, SortedList
<1>11. /\ ByCreation(x, S) = Sorted(S, R(zero, born))
       /\ NewestFirst(x, S) = Sorted(S, R(zero, age))
       /\ BySizeNewer(x, S) = Sorted(S, R(size, age))
       /\ BySizeOlder(x, S) = Sorted(S, R(size, born))
       /\ ByRevision(x, S) = Sorted(S, R(rev, born))
  BY <1>7, <1>8 DEF ByCreation, NewestFirst, BySizeNewer, BySizeOlder, ByRevision
<1> QED  BY <1>1, <1>2, <1>10, <1>11

-----------------------------------------------------------------------------
(***************************************************************************)
(* What a worker does after its last size.                                 *)
(***************************************************************************)
(* The list s of ReplicaSets with the sizes z, as a list of writes. *)
Writes(s, z) == [i \in DOMAIN s |-> [t |-> s[i], n |-> z[i]]]

(* It has the ReplicaSets of S, and so has a part of it. *)
LEMMA WritesListed ==
  ASSUME NEW S, S \subseteq Tmpls, NEW s, Lists(s, S),
         NEW z, \A i \in 1..Cardinality(S) : z[i] \in Nat
  PROVE  /\ DOMAIN s = 1..Cardinality(S) /\ Cardinality(S) \in Nat
         /\ \A i \in DOMAIN s : s[i] \in S
         /\ \A i, j \in DOMAIN s : s[i] = s[j] => i = j
         /\ s = <<>> <=> S = {}
         /\ Writes(s, z) \in Seq(Item) /\ DOMAIN Writes(s, z) = DOMAIN s
         /\ Writes(s, z) = <<>> <=> S = {}
         /\ \A i \in DOMAIN s : Writes(s, z)[i].t = s[i] /\ Writes(s, z)[i].n = z[i]
         /\ \A I \in SUBSET DOMAIN s :
               /\ Pick(Writes(s, z), I) \in Seq(Item)
               /\ PickedFrom(Pick(Writes(s, z), I), Writes(s, z), I)
<1> DEFINE N == Cardinality(S)
           all == Writes(s, z)
<1>1. /\ N \in Nat /\ s \in [1..N -> S] /\ \A u \in S : \E i \in 1..N : s[i] = u
      /\ \A i, j \in 1..N : s[i] = s[j] => i = j
  BY DEF Lists
<1> HIDE DEF N
<1>2. DOMAIN s = 1..N
  BY <1>1
<1>3. S = {} <=> N = 0
  <2>1. N = 0 => 1..N = {}
    BY <1>1
  <2>2. N # 0 => 1 \in 1..N
    BY <1>1
  <2> QED  BY <1>1, <2>1, <2>2
<1>4. all \in [1..N -> Item] /\ \A i \in DOMAIN s : all[i].t = s[i] /\ all[i].n = z[i]
  BY <1>1, <1>2 DEF N, Item, Writes
<1>5. s = <<>> <=> N = 0
  BY <1>1, ListIsSeq
<1> HIDE DEF all
<1>6. all \in Seq(Item) /\ DOMAIN all = 1..N /\ (all = <<>> <=> N = 0)
  BY <1>1, <1>4, ListIsSeq
<1>7. \A I \in SUBSET DOMAIN s : Pick(all, I) \in Seq(Item) /\ PickedFrom(Pick(all, I), all, I)
  BY <1>1, <1>2, <1>4, PickList
<1>8. \A i \in DOMAIN s : s[i] \in S
  BY <1>1
<1> QED  BY <1>1, <1>2, <1>3, <1>4, <1>5, <1>6, <1>7, <1>8 DEF N, all

(* The status is next. *)
LEMMA StatusCloses ==
  ASSUME NEW x \in WorkerType
  PROVE  Closes(x, AtStatus(x)) /\ AtStatus(x).pc = "status"
<1>1. <<>> \in Seq(Item)
  BY EmptySeq
<1>2. AtStatus(x) \in WorkerType /\ AtStatus(x).pc = "status"
  BY <1>1 DEF AtStatus, WorkerType, PCs, Item
<1>3. Kept(x, AtStatus(x)) /\ AtStatus(x).via = x.via
  BY DEF AtStatus, WorkerType, Kept
<1> QED  BY <1>2, <1>3 DEF Closes

(* cleanupDeployment is next: it deletes ReplicaSets of zero replicas. *)
LEMMA CleanupCloses ==
  ASSUME NEW x, Good(x), scenario \in Scenarios
  PROVE  Closes(x, AtCleanup(x))
<1> DEFINE S == Old(x)
           s == ByRevision(x, S)
           diff == Len(s) - scenario.history
           gone == {i \in DOMAIN s : i <= diff /\ x.l[s[i]].replicas = 0 /\ x.l[s[i]].pods = 0}
           z == [i \in 1..Cardinality(S) |-> 0]
           all == Writes(s, z)
           list == Pick(all, gone)
<1>1. x \in WorkerType
  BY DEF Good
<1>2. S \subseteq Tmpls /\ Lists(s, S)
  BY EveryListed DEF Old
<1>3. DOMAIN s = 1..Cardinality(S)
  BY <1>2 DEF Lists
<1> HIDE DEF s, diff
<1>4. cleanupDeployment(x) = list
  <2>1. all = [i \in DOMAIN s |-> [t |-> s[i], n |-> 0]]
    BY <1>3 DEF Writes
  <2> HIDE DEF all
  <2> QED  BY <2>1 DEF cleanupDeployment, s, diff
<1>5. /\ list \in Seq(Item) /\ PickedFrom(list, all, gone)
      /\ \A i \in DOMAIN s : all[i].t = s[i]
  <2>1. gone \in SUBSET DOMAIN s
    OBVIOUS
  <2>2. \A i \in 1..Cardinality(S) : z[i] \in Nat
    OBVIOUS
  <2> HIDE DEF gone, z, S
  <2> QED  BY <1>2, <2>1, <2>2, WritesListed
<1>6. \A k \in DOMAIN list : x.l[list[k].t].replicas = 0
  <2> HIDE DEF list, all
  <2> SUFFICES ASSUME NEW k \in DOMAIN list PROVE x.l[list[k].t].replicas = 0
    OBVIOUS
  <2>1. PICK i \in gone : list[k] = all[i]
    BY <1>5 DEF PickedFrom
  <2>2. i \in DOMAIN s /\ x.l[s[i]].replicas = 0
    OBVIOUS
  <2> QED  BY <1>5, <2>1, <2>2
<1> HIDE DEF list
<1>7. CASE list = <<>>
  BY <1>1, <1>4, <1>7, StatusCloses DEF AtCleanup
<1>8. CASE list # <<>>
  <2> DEFINE y == [x EXCEPT !.pc = "cleanup", !.todo = list]
  <2>1. AtCleanup(x) = y
    BY <1>4, <1>8 DEF AtCleanup
  <2>2. y \in WorkerType /\ y.pc = "cleanup" /\ y.todo = list /\ y.via = x.via
    BY <1>1, <1>5 DEF WorkerType, PCs, Item
  <2>3. Kept(x, y)
    BY <1>1 DEF WorkerType, Kept
  <2> HIDE DEF y
  <2> QED  BY <1>6, <1>8, <2>1, <2>2, <2>3 DEF Closes
<1> QED  BY <1>7, <1>8

(* What follows the last size. *)
LEMMA SizesClose ==
  ASSUME NEW x, Good(x), scenario \in Scenarios
  PROVE  Closes(x, AfterSizes(x))
<1>1. x \in WorkerType /\ x.then \in {"status", "finish", "cleanup"}
  BY WorkerFields DEF Good
<1>2. Closes(x, AtStatus(x)) /\ Closes(x, AtCleanup(x))
  BY <1>1, StatusCloses, CleanupCloses
<1> QED  BY <1>1, <1>2 DEF AfterSizes

(* Sizes are written, or there are none. *)
LEMMA SizesWritten ==
  ASSUME NEW x, Good(x), scenario \in Scenarios, NEW p \in {"resize", "shrink"},
         NEW list \in Seq(Item), NEW next \in {"status", "finish", "cleanup"}
  PROVE  LET y == WriteSizes(x, p, list, next)
         IN  /\ y \in WorkerType /\ Kept(x, y) /\ y.via = x.via
             /\ list = <<>> => Closes(x, y)
             /\ list # <<>> => y.pc = p /\ y.todo = list
<1> DEFINE y == [x EXCEPT !.pc = p, !.todo = list, !.then = next]
<1>1. /\ y \in WorkerType /\ y.via = x.via /\ y.pc = p /\ y.todo = list /\ y.d = x.d
      /\ y.dCur = x.dCur /\ y.l = x.l /\ y.lCur = x.lCur /\ y.oldRuns = x.oldRuns
      /\ y.fresh = x.fresh
  <2>1. x \in WorkerType /\ p \in PCs
    BY DEF Good, PCs
  <2> QED  BY <2>1 DEF WorkerType, Item
<1>2. WriteSizes(x, p, list, next) = IF list = <<>> THEN AfterSizes(y) ELSE y
  BY DEF WriteSizes
<1> HIDE DEF y
<1>3. Kept(x, y)
  BY <1>1 DEF Kept
<1>4. Good(y)
  BY <1>1 DEF Good
<1>5. Closes(y, AfterSizes(y))
  BY <1>4, SizesClose
<1>6. Closes(x, AfterSizes(y))
  BY <1>1, <1>3, <1>5 DEF Closes, Kept
<1> QED  BY <1>1, <1>2, <1>3, <1>6 DEF Closes

(* There is no size to write. *)
LEMMA NothingWritten ==
  ASSUME NEW x, Good(x), scenario \in Scenarios, NEW p \in {"resize", "shrink"},
         NEW next \in {"status", "finish", "cleanup"}
  PROVE  Closes(x, WriteSizes(x, p, <<>>, next))
<1> DEFINE list == <<>>
<1>1. list \in Seq(Item) /\ list = <<>>
  BY EmptySeq
<1> HIDE DEF list
<1>2. Closes(x, WriteSizes(x, p, list, next))
  BY <1>1, SizesWritten
<1> QED  BY <1>1, <1>2

(* Numbers given along a list of ReplicaSets, by template. *)
LEMMA ByTemplate ==
  ASSUME NEW S, S \subseteq Tmpls, NEW s, Lists(s, S),
         NEW z, \A i \in 1..Cardinality(S) : z[i] \in Nat
  PROVE  \E f \in [Tmpls -> Nat] :
            /\ \A i \in 1..Cardinality(S) : f[s[i]] = z[i]
            /\ \A t \in Tmpls \ S : f[t] = 0
            /\ Total(f, Tmpls) = Total(z, 1..Cardinality(S))
<1> DEFINE N == Cardinality(S)
           at(t) == CHOOSE i \in 1..N : s[i] = t
           f == [t \in Tmpls |-> IF t \in S THEN z[at(t)] ELSE 0]
<1>1. /\ N \in Nat /\ s \in [1..N -> S]
      /\ \A i, j \in 1..N : s[i] = s[j] => i = j
      /\ \A u \in S : \E i \in 1..N : s[i] = u
  BY DEF Lists
<1>2. \A t \in S : at(t) \in 1..N /\ s[at(t)] = t
  BY <1>1
<1>3. \A i \in 1..N : s[i] \in S /\ at(s[i]) = i
  BY <1>1
<1> HIDE DEF at
<1>4. f \in [Tmpls -> Nat]
  BY <1>2
<1>5. \A i \in 1..N : f[s[i]] = z[i]
  BY <1>3
<1>6. \A t \in Tmpls \ S : f[t] = 0
  OBVIOUS
<1> HIDE DEF f
<1>7. Total(z, 1..N) = Total(f, S)
  <2>1. \A u \in S : f[u] \in Nat
    BY <1>4
  <2>2. \A i \in 1..N : z[i] = f[s[i]]
    BY <1>5
  <2> QED  BY <2>1, <2>2, TotalReindex
<1>8. Total(f, S) = Total(f, Tmpls)
  BY <1>4, <1>6, TotalSame
<1> QED  BY <1>4, <1>5, <1>6, <1>7, <1>8

(* One more at the end of a list. *)
LEMMA ListAppended ==
  ASSUME NEW S, IsFiniteSet(S), NEW s, Lists(s, S), NEW u, u \notin S
  PROVE  Lists(s \o <<u>>, S \cup {u})
<1> DEFINE N == Cardinality(S)
           R == S \cup {u}
           r == s \o <<u>>
<1>1. /\ N \in Nat /\ s \in [1..N -> S]
      /\ \A i, j \in 1..N : s[i] = s[j] => i = j
      /\ \A v \in S : \E i \in 1..N : s[i] = v
  BY DEF Lists
<1>2. Cardinality(R) = N + 1
  BY FS_AddElement
<1> HIDE DEF N
<1>3. s \in [1..N -> R]
  BY <1>1
<1>4. s \in Seq(R) /\ Len(s) = N
  BY <1>1, <1>3, ListIsSeq
<1>5. <<u>> \in Seq(R) /\ Len(<<u>>) = 1 /\ <<u>>[1] = u
  OBVIOUS
<1>6. r \in Seq(R) /\ Len(r) = N + 1
      /\ \A i \in 1..(N + 1) : r[i] = IF i <= N THEN s[i] ELSE <<u>>[i - N]
  BY <1>4, <1>5, ConcatProperties
<1>7. \A i \in 1..N : r[i] = s[i] /\ s[i] \in S
  BY <1>1, <1>6
<1>8. r[N + 1] = u
  BY <1>1, <1>5, <1>6
<1>9. r \in [1..(N + 1) -> R]
  BY <1>6, LenProperties
<1> HIDE DEF r
<1>10. \A i, j \in 1..(N + 1) : r[i] = r[j] => i = j
  <2> SUFFICES ASSUME NEW i \in 1..(N + 1), NEW j \in 1..(N + 1), r[i] = r[j] PROVE i = j
    OBVIOUS
  <2>1. (i \in 1..N \/ i = N + 1) /\ (j \in 1..N \/ j = N + 1)
    BY <1>1
  <2> QED  BY <1>1, <1>7, <1>8, <2>1
<1>11. \A v \in R : \E i \in 1..(N + 1) : r[i] = v
  <2> SUFFICES ASSUME NEW v \in R PROVE \E i \in 1..(N + 1) : r[i] = v
    OBVIOUS
  <2>1. CASE v = u
    BY <1>1, <1>8, <2>1
  <2>2. CASE v \in S
    <3>1. PICK i \in 1..N : s[i] = v
      BY <1>1, <2>2
    <3>2. i \in 1..(N + 1)
      BY <1>1
    <3> QED  BY <1>7, <3>1, <3>2
  <2> QED  BY <2>1, <2>2
<1>12. N + 1 \in Nat
  BY <1>1
<1> QED  BY <1>2, <1>9, <1>10, <1>11, <1>12 DEF Lists, r

(* Sums over the ReplicaSets there are, over the active ones, and over all  *)
(* templates.                                                               *)
LEMMA ReplicaSums ==
  ASSUME NEW x, Good(x)
  PROVE  /\ \A t \in Tmpls : Replicas(x)[t] \in Nat /\ Replicas(x)[t] = x.l[t].replicas
         /\ Spread(x.l) = Replicas(x)
         /\ \A t \in Tmpls \ FilterActive(x, All(x)) : Replicas(x)[t] = 0
         /\ Total(Replicas(x), Tmpls) \in Nat
         /\ Total(Replicas(x), All(x)) = Total(Replicas(x), Tmpls)
         /\ Total(Replicas(x), FilterActive(x, All(x))) = Total(Replicas(x), Tmpls)
<1>1. \A t \in Tmpls : x.l[t].replicas \in Nat
  BY ObjectFields DEF Good
<1>2. \A t \in Tmpls : Replicas(x)[t] \in Nat /\ Replicas(x)[t] = x.l[t].replicas
  BY <1>1 DEF Replicas
<1>3. All(x) \subseteq Tmpls /\ FilterActive(x, All(x)) \subseteq Tmpls
  BY DEF All, FilterActive
<1>4. /\ \A t \in Tmpls \ All(x) : Replicas(x)[t] = 0
      /\ \A t \in Tmpls \ FilterActive(x, All(x)) : Replicas(x)[t] = 0
  BY <1>1, <1>2 DEF Good, Sane, All, FilterActive
<1>5. Total(Replicas(x), Tmpls) \in Nat
  BY <1>2, DeploymentAssumption, TotalNat
<1>6. Total(Replicas(x), All(x)) = Total(Replicas(x), Tmpls)
  BY <1>2, <1>3, <1>4, TotalSame
<1>7. Total(Replicas(x), FilterActive(x, All(x))) = Total(Replicas(x), Tmpls)
  BY <1>2, <1>3, <1>4, TotalSame
<1>8. Spread(x.l) = Replicas(x)
  BY DEF Spread, Replicas
<1> QED  BY <1>2, <1>4, <1>5, <1>6, <1>7, <1>8

-----------------------------------------------------------------------------
(***************************************************************************)
(* What a worker plans, from its copies alone.                             *)
(***************************************************************************)
(* The old ReplicaSets of x are at zero and it has seen no pod of theirs. *)
Ready(x) == FilterActive(x, Old(x)) = {} /\ ~oldPodsRunning(x)

RecreateInTurn(x, y) ==
  /\ y.via = "recreateNew" /\ x.via # "recreateNew" => Ready(x)
  /\ y.via = "recreate" /\ y.pc = "resize" =>
       Ready(x) \/ \A i \in DOMAIN y.todo : y.todo[i].n = 0

Planned(x, y) ==
  /\ y \in WorkerType /\ Kept(x, y) /\ y.pc \notin {"idle", "conditions", "stampNew"}
  /\ PlanOK(y) /\ WithinSurge(y, Spread(x.l)) /\ KeepsAvailable(y, Spread(x.l))
  /\ RecreateInTurn(x, y)
  /\ y.via = "rollback" => x.via = "rollback"

(* A worker that may go on planning. *)
Fit(x) ==
  /\ Good(x)
  /\ x.via = "rolling" => Settled(x)
  /\ x.via \in {"recreate", "recreateNew"} => ~IsRollingUpdate(x.d)

(* Having no size to write is a plan. *)
LEMMA ClosePlanned ==
  ASSUME NEW x, Fit(x), x.via # "event", NEW y, Closes(x, y)
  PROVE  Planned(x, y)
<1>1. /\ y \in WorkerType /\ Kept(x, y) /\ y.via = x.via /\ y.pc \in {"status", "cleanup"}
      /\ y.pc = "cleanup" => /\ y.todo # <<>>
                             /\ \A i \in DOMAIN y.todo : x.l[y.todo[i].t].replicas = 0
  BY DEF Closes
<1>2. ViaOK(y)
  BY <1>1 DEF ViaOK, Fit, Kept
<1>3. TodoOK(y)
  BY <1>1 DEF TodoOK, Kept
<1>4. WithinSurge(y, Spread(x.l)) /\ KeepsAvailable(y, Spread(x.l))
  BY <1>1 DEF WithinSurge, KeepsAvailable
<1>5. RecreateInTurn(x, y)
  BY <1>1 DEF RecreateInTurn
<1> QED  BY <1>1, <1>2, <1>3, <1>4, <1>5 DEF Planned, PlanOK

(* So is a list of sizes that keeps its promises. *)
LEMMA ResizePlanned ==
  ASSUME NEW x, Fit(x), x.via \in {"paused", "scaling"}, NEW y \in WorkerType, Kept(x, y),
         y.via = x.via, y.pc = "resize", y.todo # <<>>,
         \A i \in DOMAIN y.todo : /\ x.l[y.todo[i].t].exists
                                  /\ y.todo[i].n > 0 => x.d.replicas > 0,
         Falls(y, Spread(x.l)) \/ (IsRollingUpdate(x.d) /\ Grows(x) => Ceiling(y, Spread(x.l)))
  PROVE  Planned(x, y)
<1>1. ViaOK(y)
  BY DEF ViaOK
<1>2. TodoOK(y)
  BY DEF TodoOK, Kept
<1>3. Grows(y) = Grows(x) /\ IsRollingUpdate(y.d) = IsRollingUpdate(x.d)
  BY DEF Grows, Kept, FilterActive, All, Replicas
<1>4. WithinSurge(y, Spread(x.l)) /\ KeepsAvailable(y, Spread(x.l))
  BY <1>3 DEF WithinSurge, KeepsAvailable
<1>5. RecreateInTurn(x, y)
  BY DEF RecreateInTurn
<1> QED  BY <1>1, <1>2, <1>4, <1>5 DEF Planned, PlanOK

(* The list with one size, if it changes. *)
LEMMA ChangedList ==
  ASSUME NEW x \in WorkerType, NEW u \in Tmpls, NEW k \in Nat
  PROVE  LET list == Changed(x, [t |-> u, n |-> k])
         IN  /\ list \in Seq(Item)
             /\ list = <<>> <=> x.l[u].replicas = k
             /\ \A i \in DOMAIN list : i = 1 /\ list[i].t = u /\ list[i].n = k
<1>1. [t |-> u, n |-> k] \in Item
  BY DEF Item
<1> DEFINE e == [t |-> u, n |-> k]
<1>2. e.t = u /\ e.n = k
  OBVIOUS
<1> HIDE DEF e
<1>3. <<e>> \in Seq(Item) /\ <<e>> # <<>> /\ \A i \in DOMAIN <<e>> : i = 1 /\ <<e>>[i] = e
  BY <1>1 DEF e
<1>4. <<>> \in Seq(Item) /\ \A i \in DOMAIN <<>> : FALSE
  BY EmptySeq
<1> QED  BY <1>2, <1>3, <1>4 DEF Changed, e

(* One ReplicaSet is sized for the Deployment. *)
LEMMA ScaleOnePlanned ==
  ASSUME NEW x, Fit(x), scenario \in Scenarios, x.via \in {"paused", "scaling"},
         NEW u \in All(x), \A t \in Tmpls \ {u} : x.l[t].replicas = 0,
         NEW next \in {"status", "finish", "cleanup"}
  PROVE  Planned(x, WriteSizes(x, "resize", Changed(x, [t |-> u, n |-> x.d.replicas]), next))
<1> DEFINE list == Changed(x, [t |-> u, n |-> x.d.replicas])
           y == WriteSizes(x, "resize", list, next)
           k == x.d.replicas
<1> SUFFICES Planned(x, y)
  OBVIOUS
<1>1. /\ x \in WorkerType /\ Good(x) /\ k \in Nat
      /\ u \in Tmpls /\ x.l[u].exists /\ x.l[u].replicas \in Nat
  BY ObjectFields DEF Fit, Good, All
<1>2. /\ list \in Seq(Item)
      /\ \A i \in DOMAIN list : i = 1 /\ list[i].t = u /\ list[i].n = k
  BY <1>1, ChangedList
<1> HIDE DEF list
<1>3. /\ y \in WorkerType /\ Kept(x, y) /\ y.via = x.via
      /\ list = <<>> => Closes(x, y)
      /\ list # <<>> => y.pc = "resize" /\ y.todo = list
  BY <1>1, <1>2, SizesWritten
<1> HIDE DEF y
<1>4. CASE list = <<>>
  BY <1>3, <1>4, ClosePlanned
<1>5. CASE list # <<>>
  <2>1. y.pc = "resize" /\ y.todo = list
    BY <1>3, <1>5
  <2>2. CASE k <= x.l[u].replicas
    <3>1. Falls(y, Spread(x.l))
      BY <1>1, <1>2, <2>1, <2>2 DEF Falls, Spread
    <3> QED  BY <1>1, <1>2, <1>3, <1>5, <2>1, <3>1, ResizePlanned
  <2>3. CASE k > x.l[u].replicas
    <3> DEFINE top == [t \in Tmpls |-> IF t = u THEN k ELSE 0]
    <3>1. top \in [Tmpls -> Nat] /\ top[u] = k
      BY <1>1
    <3>2. \A t \in Tmpls : Spread(x.l)[t] <= top[t]
      BY <1>1, <2>3 DEF Spread
    <3>3. \A t \in Tmpls \ {u} : top[t] = 0
      OBVIOUS
    <3> HIDE DEF top
    <3>4. Total(top, Tmpls) = k
      <4>1. top[u] \in Nat /\ IsFiniteSet(Tmpls)
        BY <1>1, <3>1, DeploymentAssumption
      <4>2. Total(top, Tmpls) = top[u]
        BY <1>1, <3>3, <4>1, TotalOne
      <4> QED  BY <3>1, <4>2
    <3>5. MaxSurge(y.d) \in Nat /\ y.d.replicas = k
      BY <1>1, <1>3, Fenceposts DEF Kept
    <3>6. \A i \in DOMAIN y.todo : y.todo[i].n <= top[y.todo[i].t]
      BY <1>1, <1>2, <2>1, <3>1
    <3>7. Total(top, Tmpls) <= y.d.replicas + MaxSurge(y.d)
      BY <1>1, <3>4, <3>5
    <3>8. Ceiling(y, Spread(x.l))
      BY <3>1, <3>2, <3>6, <3>7 DEF Ceiling
    <3> QED  BY <1>1, <1>2, <1>3, <1>5, <2>1, <3>8, ResizePlanned
  <2> QED  BY <1>1, <2>2, <2>3
<1> QED  BY <1>4, <1>5

(* Old ReplicaSets are all sized to zero. *)
LEMMA ZeroPlanned ==
  ASSUME NEW x, Fit(x), scenario \in Scenarios, NEW S, S \subseteq All(x), NEW s, Lists(s, S),
         x.via \in {"paused", "scaling", "recreate"},
         NEW next \in {"status", "finish", "cleanup"}
  PROVE  Planned(x, WriteSizes(x, "resize", [i \in DOMAIN s |-> [t |-> s[i], n |-> 0]], next))
<1> DEFINE list == [i \in DOMAIN s |-> [t |-> s[i], n |-> 0]]
           y == WriteSizes(x, "resize", list, next)
           z == [i \in 1..Cardinality(S) |-> 0]
<1> SUFFICES Planned(x, y)
  OBVIOUS
<1>1. x \in WorkerType /\ Good(x) /\ x.l \in [Tmpls -> RSType]
      /\ S \subseteq Tmpls /\ \A u \in S : x.l[u].exists
  BY WorkerFields DEF Fit, Good, All
<1>2. list = Writes(s, z)
  <2>1. DOMAIN s = 1..Cardinality(S)
    BY DEF Lists
  <2> QED  BY <2>1 DEF Writes
<1>3. /\ list \in Seq(Item) /\ DOMAIN list = DOMAIN s
      /\ \A i \in DOMAIN s : list[i].n = 0 /\ list[i].t \in S
  <2>1. \A i \in 1..Cardinality(S) : z[i] \in Nat /\ z[i] = 0
    OBVIOUS
  <2> HIDE DEF z, list
  <2>2. DOMAIN s = 1..Cardinality(S) /\ \A i \in DOMAIN s : s[i] \in S
    BY DEF Lists
  <2>3. /\ Writes(s, z) \in Seq(Item) /\ DOMAIN Writes(s, z) = DOMAIN s
        /\ \A i \in DOMAIN s : Writes(s, z)[i].t = s[i] /\ Writes(s, z)[i].n = z[i]
    BY <1>1, <2>1, WritesListed
  <2> QED  BY <1>2, <2>1, <2>2, <2>3
<1> HIDE DEF list
<1>4. /\ y \in WorkerType /\ Kept(x, y) /\ y.via = x.via
      /\ list = <<>> => Closes(x, y)
      /\ list # <<>> => y.pc = "resize" /\ y.todo = list
  BY <1>1, <1>3, SizesWritten
<1> HIDE DEF y
<1>5. CASE list = <<>>
  BY <1>4, <1>5, ClosePlanned
<1>6. CASE list # <<>>
  <2>1. y.pc = "resize" /\ y.todo = list
    BY <1>4, <1>6
  <2>2. \A i \in DOMAIN y.todo : /\ y.todo[i].n = 0 /\ y.todo[i].t \in Tmpls
                                 /\ x.l[y.todo[i].t].exists /\ y.l = x.l
    BY <1>1, <1>3, <1>4, <2>1 DEF Kept
  <2>3. \A t \in Tmpls : x.l[t].replicas \in Nat
    BY <1>1, ObjectFields
  <2>4. Falls(y, Spread(x.l))
    BY <2>2, <2>3 DEF Falls, Spread
  <2>5. CASE x.via # "recreate"
    BY <1>4, <1>6, <2>1, <2>2, <2>4, <2>5, ResizePlanned
  <2>6. CASE x.via = "recreate"
    <3>1. ~IsRollingUpdate(y.d)
      BY <1>4, <2>6 DEF Fit, Kept
    <3>2. ViaOK(y)
      BY <1>4, <2>1, <2>6, <3>1 DEF ViaOK
    <3>3. TodoOK(y)
      BY <1>4, <1>6, <2>1, <2>2, <2>6 DEF TodoOK
    <3>4. WithinSurge(y, Spread(x.l)) /\ KeepsAvailable(y, Spread(x.l))
      BY <2>1, <2>4 DEF WithinSurge, KeepsAvailable
    <3>5. RecreateInTurn(x, y)
      BY <1>4, <2>2, <2>6 DEF RecreateInTurn
    <3> QED  BY <1>4, <2>1, <2>6, <3>2, <3>3, <3>4, <3>5 DEF Planned, PlanOK
  <2> QED  BY <2>5, <2>6
<1> QED  BY <1>5, <1>6

(* The active ReplicaSets are scaled in proportion. *)
LEMMA ProportionalPlanned ==
  ASSUME NEW x, Fit(x), scenario \in Scenarios, x.via \in {"paused", "scaling"},
         NEW next \in {"status", "finish", "cleanup"}
  PROVE  Planned(x, WriteSizes(x, "resize", ProportionalWrites(x), next))
<1> DEFINE active == FilterActive(x, All(x))
           surge == MaxSurge(x.d)
           d == x.d.replicas
           allowed == IF d > 0 THEN d + surge ELSE 0
           total == Total(Replicas(x), active)
           order == CASE allowed < total -> BySizeOlder(x, active)
                      [] allowed > total -> BySizeNewer(x, active)
                      [] allowed = total -> NewestFirst(x, active \ {T(x)})
                                              \o IF T(x) \in active THEN <<T(x)>> ELSE <<>>
           N == Cardinality(active)
           rss == [i \in DOMAIN order |-> x.l[order[i]]]
           r == [i \in 1..N |-> rss[i].replicas]
           z == ProportionalSizes(rss, d, surge)
           all == Writes(order, z)
           needed == {i \in DOMAIN order : \/ x.l[all[i].t].replicas # all[i].n
                                           \/ x.l[all[i].t].desired # d
                                           \/ x.l[all[i].t].max # d + surge}
           list == Pick(all, needed)
           y == WriteSizes(x, "resize", list, next)
<1>1. Good(x) /\ x \in WorkerType /\ d \in Nat /\ surge \in Nat
  BY ObjectFields, Fenceposts DEF Fit, Good
<1>2. active \subseteq All(x) /\ active \subseteq Tmpls
  BY DEF FilterActive, All
<1>3. total \in Nat /\ total = Total(Replicas(x), Tmpls) /\ total = Total(Replicas(x), All(x))
  BY <1>1, ReplicaSums
<1>4. ProportionalWrites(x) = list
  BY DEF ProportionalWrites, Writes
<1> SUFFICES Planned(x, y)
  BY <1>4
<1>5. Lists(order, active)
  <2> HIDE DEF active, total, d, surge
  <2>1. allowed < total \/ allowed > total \/ allowed = total
    BY <1>1, <1>3
  <2>2. /\ Lists(BySizeOlder(x, active), active) /\ Lists(BySizeNewer(x, active), active)
    BY <1>1, <1>2, EveryListed
  <2>3. Lists(NewestFirst(x, active \ {T(x)}), active \ {T(x)}) /\ IsFiniteSet(active \ {T(x)})
    <3>1. active \ {T(x)} \subseteq All(x)
      BY <1>2
    <3> QED  BY <1>1, <3>1, EveryListed
  <2>4. Lists(NewestFirst(x, active \ {T(x)}) \o IF T(x) \in active THEN <<T(x)>> ELSE <<>>, active)
    <3> DEFINE A == active \ {T(x)}
               s == NewestFirst(x, A)
    <3>1. CASE T(x) \in active
      <4>1. A \cup {T(x)} = active /\ T(x) \notin A
        BY <3>1
      <4> HIDE DEF A, s
      <4>2. Lists(s \o <<T(x)>>, A \cup {T(x)})
        BY <2>3, <4>1, ListAppended DEF s, A
      <4> QED  BY <3>1, <4>1, <4>2 DEF s, A
    <3>2. CASE T(x) \notin active
      <4>1. A = active
        BY <3>2
      <4>2. s \in Seq(A)
        <5> HIDE DEF s, A
        <5>1. Cardinality(A) \in Nat /\ s \in [1..Cardinality(A) -> A]
          BY <2>3 DEF Lists, s, A
        <5> QED  BY <5>1, ListIsSeq
      <4> HIDE DEF s, A
      <4>3. s \o <<>> = s
        BY <4>2, ConcatEmptySeq
      <4> QED  BY <2>3, <3>2, <4>1, <4>3 DEF s, A
    <3> QED  BY <3>1, <3>2
  <2>5. CASE allowed < total
    <3>1. ~(allowed > total) /\ allowed # total
      BY <1>1, <1>3, <2>5
    <3> HIDE DEF allowed
    <3> QED  BY <2>2, <2>5, <3>1
  <2>6. CASE allowed > total
    <3>1. ~(allowed < total)
      BY <1>1, <1>3, <2>6
    <3> HIDE DEF allowed
    <3> QED  BY <2>2, <2>6, <3>1
  <2>7. CASE allowed = total
    <3>1. ~(allowed < total) /\ ~(allowed > total)
      BY <1>1, <1>3, <2>7
    <3> HIDE DEF allowed
    <3> QED  BY <2>4, <2>7, <3>1
  <2> QED  BY <2>1, <2>5, <2>6, <2>7
<1> HIDE DEF order, total
<1>6. /\ N \in Nat /\ order \in [1..N -> active] /\ DOMAIN order = 1..N
      /\ \A u \in active : \E i \in 1..N : order[i] = u
  BY <1>5 DEF Lists
<1>7. \A u \in active : /\ u \in Tmpls /\ x.l[u].exists /\ x.l[u].replicas \in Nat
                        /\ x.l[u].max \in Nat \ {0}
  BY <1>1, <1>2, ObjectFields DEF Good, Sane, FilterActive, All
<1> HIDE DEF N, active
<1>8. Sized(rss, N)
  <2>1. rss \in [1..N -> RSType]
    <3>1. \A u \in active : x.l[u] \in RSType
      BY <1>1, <1>2, ObjectFields
    <3> QED  BY <1>6, <3>1
  <2>2. Len(rss) = N /\ DOMAIN rss = 1..N
    BY <1>6, <2>1, ListIsSeq
  <2>3. \A i \in 1..N : rss[i].replicas \in Nat /\ rss[i].max \in Nat \ {0}
    BY <1>6, <1>7
  <2> HIDE DEF rss
  <2> QED  BY <1>6, <2>2, <2>3 DEF Sized
<1>9. \A i \in 1..N : rss[i] = x.l[order[i]] /\ order[i] \in active
  BY <1>6
<1>10. \A i \in 1..N : r[i] = x.l[order[i]].replicas
  BY <1>9
<1> HIDE DEF rss, surge, d
<1>11. /\ z \in [1..N -> Nat]
       /\ d = 0 => \A i \in 1..N : z[i] = 0
       /\ /\ d > 0 /\ Total(r, 1..N) <= d + surge
          /\ \A i \in 1..N : rss[i].max <= d + surge
          => /\ \A i \in 1..N : r[i] <= z[i]
             /\ Total(z, 1..N) <= d + surge
  BY <1>1, <1>8, SizesBounds
<1> HIDE DEF z, r, all, needed
<1>12. /\ \A i \in 1..N : all[i].t = order[i] /\ all[i].n = z[i]
       /\ list \in Seq(Item) /\ PickedFrom(list, all, needed)
  <2>1. needed \in SUBSET DOMAIN order
    BY DEF needed
  <2>2. \A i \in 1..Cardinality(active) : z[i] \in Nat
    BY <1>11 DEF N
  <2>3. /\ \A i \in DOMAIN order : Writes(order, z)[i].t = order[i] /\ Writes(order, z)[i].n = z[i]
        /\ \A I \in SUBSET DOMAIN order :
               /\ Pick(Writes(order, z), I) \in Seq(Item)
               /\ PickedFrom(Pick(Writes(order, z), I), Writes(order, z), I)
    BY <1>2, <1>5, <2>2, WritesListed
  <2> QED  BY <1>6, <2>1, <2>3 DEF all
<1> HIDE DEF list
<1>13. \A k \in DOMAIN list : \E i \in 1..N : list[k].t = order[i] /\ list[k].n = z[i]
  <2> SUFFICES ASSUME NEW k \in DOMAIN list
               PROVE  \E i \in 1..N : list[k].t = order[i] /\ list[k].n = z[i]
    OBVIOUS
  <2>1. PICK i \in needed : list[k] = all[i]
    BY <1>12 DEF PickedFrom
  <2>2. i \in 1..N
    BY <1>6 DEF needed
  <2> QED  BY <1>12, <2>1, <2>2
<1>14. /\ y \in WorkerType /\ Kept(x, y) /\ y.via = x.via
       /\ list = <<>> => Closes(x, y)
       /\ list # <<>> => y.pc = "resize" /\ y.todo = list
  BY <1>1, <1>12, SizesWritten
<1> HIDE DEF y
<1>15. CASE list = <<>>
  BY <1>14, <1>15, ClosePlanned
<1>16. CASE list # <<>>
  <2>0. y.pc = "resize" /\ y.todo = list /\ y.d = x.d
    BY <1>14, <1>16 DEF Kept
  <2>1. /\ y.pc = "resize" /\ y.todo = list /\ y.d = x.d
        /\ \A k \in DOMAIN y.todo : x.l[y.todo[k].t].exists
    BY <1>7, <1>9, <1>13, <2>0
  <2>2. CASE d = 0
    <3>1. \A k \in DOMAIN list : list[k].n = 0 /\ list[k].t \in Tmpls
      BY <1>2, <1>6, <1>11, <1>13, <2>2
    <3>2. \A t \in Tmpls : x.l[t].replicas \in Nat
      BY <1>1, ObjectFields
    <3>3. Falls(y, Spread(x.l))
      BY <2>1, <3>1, <3>2 DEF Falls, Spread
    <3>4. \A k \in DOMAIN y.todo : y.todo[k].n > 0 => x.d.replicas > 0
      BY <2>1, <3>1
    <3> QED  BY <1>14, <1>16, <2>1, <3>3, <3>4, ResizePlanned
  <2>3. CASE d > 0
    <3>1. ASSUME Grows(x) PROVE Ceiling(y, Spread(x.l))
      <4>1. \A i \in 1..N : rss[i].max <= d + surge
        BY <1>9, <3>1 DEF Grows, d, surge, active
      <4>2. Total(r, 1..N) = total
        <5>1. \A u \in active : Replicas(x)[u] \in Nat /\ Replicas(x)[u] = x.l[u].replicas
          BY <1>1, <1>2, ReplicaSums
        <5>2. \A i \in 1..Cardinality(active) : r[i] = Replicas(x)[order[i]]
          BY <1>9, <1>10, <5>1 DEF N
        <5> QED  BY <1>5, <5>1, <5>2, TotalReindex DEF total, N
      <4>3. total <= d + surge
        BY <1>3, <3>1 DEF Grows, d, surge
      <4>4. (\A i \in 1..N : r[i] <= z[i]) /\ Total(z, 1..N) <= d + surge
        BY <1>11, <2>3, <4>1, <4>2, <4>3
      <4>5. \A i \in 1..Cardinality(active) : z[i] \in Nat
        BY <1>11 DEF N
      <4>6. PICK top \in [Tmpls -> Nat] :
               /\ \A i \in 1..N : top[order[i]] = z[i]
               /\ \A t \in Tmpls \ active : top[t] = 0
               /\ Total(top, Tmpls) = Total(z, 1..N)
        BY <1>2, <1>5, <4>5, ByTemplate DEF N
      <4>7. \A t \in Tmpls : Spread(x.l)[t] <= top[t]
        <5> SUFFICES ASSUME NEW t \in Tmpls PROVE x.l[t].replicas <= top[t]
          BY DEF Spread
        <5>1. CASE t \in active
          <6>1. PICK i \in 1..N : order[i] = t
            BY <1>6, <5>1
          <6> QED  BY <1>10, <4>4, <4>6, <6>1
        <5>2. CASE t \notin active
          <6>1. Replicas(x)[t] = 0 /\ Replicas(x)[t] = x.l[t].replicas
            BY <1>1, <5>2, ReplicaSums DEF active
          <6> QED  BY <4>6, <6>1
        <5> QED  BY <5>1, <5>2
      <4>8. \A k \in DOMAIN y.todo : y.todo[k].n <= top[y.todo[k].t]
        <5> SUFFICES ASSUME NEW k \in DOMAIN list PROVE list[k].n <= top[list[k].t]
          BY <2>1
        <5>1. PICK i \in 1..N : list[k].t = order[i] /\ list[k].n = z[i]
          BY <1>13
        <5>2. z[i] \in Nat /\ top[list[k].t] = z[i]
          BY <1>11, <4>6, <5>1
        <5> QED  BY <5>1, <5>2
      <4>9. Total(top, Tmpls) <= y.d.replicas + MaxSurge(y.d)
        BY <2>1, <4>4, <4>6 DEF d, surge
      <4> QED  BY <4>6, <4>7, <4>8, <4>9 DEF Ceiling
    <3>2. x.d.replicas > 0
      BY <2>3 DEF d
    <3> QED  BY <1>14, <1>16, <2>1, <3>1, <3>2, ResizePlanned
  <2> QED  BY <1>1, <2>2, <2>3
<1> QED  BY <1>15, <1>16

(* scale() plans well. *)
LEMMA ScalePlanned ==
  ASSUME NEW x, Fit(x), scenario \in Scenarios, x.via \in {"paused", "scaling"}
  PROVE  Planned(x, AtScale(x))
<1> DEFINE next == IF x.d.paused /\ x.d.rollbackTo = NoRollback THEN "cleanup" ELSE "status"
           one == FindActiveOrLatest(x)
           active == FilterActive(x, All(x))
           olds == NewestFirst(x, FilterActive(x, Old(x)))
<1>1. Good(x) /\ x \in WorkerType /\ T(x) \in Tmpls
  BY WorkerFields DEF Fit, Good
<1>2. next \in {"status", "finish", "cleanup"}
  OBVIOUS
<1>3. AtScale(x) = WriteSizes(x, "resize", scale(x), next)
  BY DEF AtScale
<1>4. \A t \in Tmpls \ active : x.l[t].replicas = 0
  <2>1. /\ \A t \in Tmpls : Replicas(x)[t] = x.l[t].replicas
        /\ \A t \in Tmpls \ FilterActive(x, All(x)) : Replicas(x)[t] = 0
    BY <1>1, ReplicaSums
  <2> QED  BY <2>1
<1>5. active \subseteq All(x) /\ Old(x) \subseteq All(x) /\ IsFiniteSet(active)
  <2>1. active \subseteq All(x) /\ Old(x) \subseteq All(x) /\ active \subseteq Tmpls
    BY DEF FilterActive, All, Old
  <2> QED  BY <2>1, DeploymentAssumption, FS_Subset
<1> HIDE DEF active, next
<1>6. CASE one # {}
  <2> DEFINE u == CHOOSE v \in one : TRUE
  <2>1. u \in one
    BY <1>6
  <2>2. u \in All(x) /\ \A t \in Tmpls \ {u} : x.l[t].replicas = 0
    <3>1. Cardinality(active) \in Nat /\ (Cardinality(active) = 0 <=> active = {})
      BY <1>5, FS_CardinalityType, FS_EmptySet
    <3>2. CASE Cardinality(active) = 1
      <4>1. one = active
        BY <3>1, <3>2 DEF FindActiveOrLatest, active
      <4>2. PICK v : active = {v}
        BY <1>5, <3>2, FS_Singleton
      <4> QED  BY <1>4, <1>5, <2>1, <4>1, <4>2
    <3>3. CASE Cardinality(active) > 1
      <4>1. one = {}
        BY <3>1, <3>3 DEF FindActiveOrLatest, active
      <4> QED  BY <1>6, <4>1
    <3>4. CASE Cardinality(active) = 0
      <4>1. active = {}
        BY <1>5, <3>4, FS_EmptySet
      <4>2. one \subseteq All(x)
        BY <1>1, <1>5, <3>4, <4>1 DEF FindActiveOrLatest, active
      <4> QED  BY <1>4, <2>1, <4>1, <4>2
    <3> QED  BY <3>1, <3>2, <3>3, <3>4
  <2>3. scale(x) = Changed(x, [t |-> u, n |-> x.d.replicas])
    BY <1>6 DEF scale
  <2> HIDE DEF u
  <2> QED  BY <1>2, <1>3, <2>2, <2>3, ScaleOnePlanned
<1>7. CASE one = {} /\ IsSaturated(x)
  <2>1. scale(x) = [i \in DOMAIN olds |-> [t |-> olds[i], n |-> 0]]
    BY <1>7 DEF scale
  <2>2. Lists(olds, FilterActive(x, Old(x))) /\ FilterActive(x, Old(x)) \subseteq All(x)
    <3>1. FilterActive(x, Old(x)) \subseteq All(x)
      BY DEF FilterActive, Old
    <3> QED  BY <1>1, <3>1, EveryListed
  <2> HIDE DEF olds
  <2> QED  BY <1>2, <1>3, <2>1, <2>2, ZeroPlanned
<1>8. CASE one = {} /\ ~IsSaturated(x) /\ IsRollingUpdate(x.d)
  <2>1. scale(x) = ProportionalWrites(x)
    BY <1>8 DEF scale
  <2> QED  BY <1>2, <1>3, <2>1, ProportionalPlanned
<1>9. CASE one = {} /\ ~IsSaturated(x) /\ ~IsRollingUpdate(x.d)
  <2>1. scale(x) = <<>>
    BY <1>9 DEF scale
  <2>2. Closes(x, AtScale(x))
    BY <1>1, <1>2, <1>3, <2>1, NothingWritten
  <2> QED  BY <2>2, ClosePlanned
<1> QED  BY <1>6, <1>7, <1>8, <1>9

(* A list of smaller sizes for active old ReplicaSets. *)
LEMMA ShrinkPlanned ==
  ASSUME NEW x, Fit(x), x.via = "rolling", NEW y \in WorkerType, Kept(x, y),
         y.via = x.via, y.pc = "shrink", y.todo # <<>>,
         \A i \in DOMAIN y.todo : y.todo[i].t \in FilterActive(x, Old(x)),
         Falls(y, Spread(x.l)), KeepsAvailable(y, Spread(x.l))
  PROVE  Planned(x, y)
<1>1. Good(x) /\ x \in WorkerType
  BY DEF Fit, Good
<1>2. ViaOK(y)
  BY DEF ViaOK
<1>3. \A t \in Tmpls : x.l[t].replicas \in Nat /\ x.l[t].desired \in Nat
  BY <1>1, ObjectFields
<1>4. \A i \in DOMAIN y.todo : /\ y.todo[i].t \in Tmpls /\ x.d.replicas > 0
                               /\ x.l[y.todo[i].t].exists
  <2> SUFFICES ASSUME NEW i \in DOMAIN y.todo
               PROVE  /\ y.todo[i].t \in Tmpls /\ x.d.replicas > 0
                      /\ x.l[y.todo[i].t].exists
    OBVIOUS
  <2> DEFINE t == y.todo[i].t
  <2>1. t \in FilterActive(x, Old(x))
    OBVIOUS
  <2> HIDE DEF t
  <2>2. t \in Tmpls /\ x.l[t].replicas > 0 /\ x.l[t].exists
    BY <2>1 DEF FilterActive, Old, All
  <2>3. x.l[t].desired > 0
    BY <1>1, <2>2 DEF Good, Sane
  <2>4. x.l[t].desired = x.d.replicas
    BY <2>1 DEF Fit, Settled
  <2> QED  BY <2>2, <2>3, <2>4 DEF t
<1>5. \A i \in DOMAIN y.todo : y.todo[i].n <= x.l[y.todo[i].t].replicas
  BY <1>4 DEF Falls, Spread
<1>6. TodoOK(y)
  BY <1>4, <1>5 DEF TodoOK, Kept
<1>7. WithinSurge(y, Spread(x.l))
  BY DEF WithinSurge
<1>8. RecreateInTurn(x, y)
  BY DEF RecreateInTurn
<1> QED  BY <1>2, <1>6, <1>7, <1>8 DEF Planned, PlanOK

(* The writes at the places in I of a list of sizes for S. *)
LEMMA PickedWrites ==
  ASSUME NEW S, S \subseteq Tmpls, NEW s, Lists(s, S),
         NEW z, \A i \in 1..Cardinality(S) : z[i] \in Nat,
         NEW I, I \subseteq 1..Cardinality(S)
  PROVE  LET list == Pick(Writes(s, z), I)
         IN  /\ list \in Seq(Item)
             /\ list = <<>> <=> I = {}
             /\ \A k \in DOMAIN list : \E i \in I : list[k].t = s[i] /\ list[k].n = z[i]
             /\ \A k, m \in DOMAIN list : k # m => list[k].t # list[m].t
<1> DEFINE all == Writes(s, z)
           list == Pick(all, I)
<1>1. DOMAIN s = 1..Cardinality(S)
  BY DEF Lists
<1>2. /\ \A i \in DOMAIN s : all[i].t = s[i] /\ all[i].n = z[i]
      /\ \A i, j \in DOMAIN s : s[i] = s[j] => i = j
      /\ \A J \in SUBSET DOMAIN s : Pick(all, J) \in Seq(Item) /\ PickedFrom(Pick(all, J), all, J)
  BY WritesListed
<1>3. list \in Seq(Item) /\ PickedFrom(list, all, I)
  BY <1>1, <1>2
<1> HIDE DEF all, list
<1>4. \A k \in DOMAIN list : \E i \in I : list[k].t = s[i] /\ list[k].n = z[i]
  <2> SUFFICES ASSUME NEW k \in DOMAIN list
               PROVE  \E i \in I : list[k].t = s[i] /\ list[k].n = z[i]
    OBVIOUS
  <2>1. PICK i \in I : list[k] = all[i]
    BY <1>3 DEF PickedFrom
  <2> QED  BY <1>1, <1>2, <2>1
<1>5. \A k, m \in DOMAIN list : k # m => list[k].t # list[m].t
  <2> SUFFICES ASSUME NEW k \in DOMAIN list, NEW m \in DOMAIN list, k # m
               PROVE  list[k].t # list[m].t
    OBVIOUS
  <2>1. PICK i \in I, j \in I : i # j /\ list[k] = all[i] /\ list[m] = all[j]
    BY <1>3 DEF PickedFrom
  <2> QED  BY <1>1, <1>2, <2>1
<1> QED  BY <1>3, <1>4, <1>5 DEF list, all, PickedFrom

(* The first loop leaves the available pods, the second takes more. *)
Spared(x, S, s, rest, more) ==
  /\ \A t \in Tmpls : x.l[t].avail <= x.l[t].replicas
  /\ \A i \in 1..Cardinality(S) :
        /\ rest[i] \in Nat /\ more[i] \in Nat /\ more[i] <= rest[i]
        /\ x.l[s[i]].avail <= rest[i] /\ rest[i] <= x.l[s[i]].replicas

(* The availability that the second loop of reconcileOldReplicaSets leaves: *)
(* it takes available pods only as far as there are more than needed.       *)
LEMMA FloorFound ==
  ASSUME NEW x, Good(x), NEW S, S = FilterActive(x, Old(x)), NEW s, Lists(s, S),
         NEW rest, NEW more, Spared(x, S, s, rest, more),
         Total(more, 1..Cardinality(S)) <= scaleDownCount(x)
  PROVE  \E low \in [Tmpls -> Nat] :
            /\ \A t \in Tmpls : low[t] <= x.l[t].replicas
            /\ \A i \in 1..Cardinality(S) : low[s[i]] = rest[i] - more[i]
            /\ Leaves(x, low)
<1>0. /\ \A t \in Tmpls : x.l[t].avail <= x.l[t].replicas
      /\ \A i \in 1..Cardinality(S) :
            /\ rest[i] \in Nat /\ more[i] \in Nat /\ more[i] <= rest[i]
            /\ x.l[s[i]].avail <= rest[i] /\ rest[i] <= x.l[s[i]].replicas
  BY DEF Spared
<1> DEFINE N == Cardinality(S)
           left == [i \in 1..N |-> rest[i] - more[i]]
<1>1. x \in WorkerType /\ S \subseteq Tmpls /\ IsFiniteSet(Tmpls)
  BY DeploymentAssumption DEF Good, FilterActive, Old, All
<1>2. \A t \in Tmpls : x.l[t].avail \in Nat /\ x.l[t].replicas \in Nat
  BY <1>1, ObjectFields
<1>3. \A i \in 1..N : left[i] \in Nat /\ left[i] = rest[i] - more[i]
  BY <1>0
<1> HIDE DEF left
<1>4. PICK g \in [Tmpls -> Nat] : \A i \in 1..N : g[s[i]] = left[i]
  BY <1>1, <1>3, ByTemplate
<1>5. PICK given \in [Tmpls -> Nat] :
         /\ \A i \in 1..N : given[s[i]] = more[i]
         /\ \A t \in Tmpls \ S : given[t] = 0
         /\ Total(given, Tmpls) = Total(more, 1..N)
  <2>1. \A i \in 1..Cardinality(S) : more[i] \in Nat
    BY <1>0
  <2> QED  BY <1>1, <2>1, ByTemplate
<1> DEFINE low == [t \in Tmpls |-> IF t \in S THEN g[t] ELSE x.l[t].replicas]
           kept == [t \in Tmpls |-> Smaller(x.l[t].avail, low[t])]
           sum == [t \in Tmpls |-> kept[t] + given[t]]
<1>6. N \in Nat /\ s \in [1..N -> S] /\ \A u \in S : \E i \in 1..N : s[i] = u
  BY DEF Lists
<1> HIDE DEF N
<1>7. low \in [Tmpls -> Nat]
  BY <1>2
<1>8. \A i \in 1..N : s[i] \in S /\ s[i] \in Tmpls /\ low[s[i]] = rest[i] - more[i]
  BY <1>1, <1>3, <1>4, <1>6
<1>9. \A t \in Tmpls : /\ low[t] <= x.l[t].replicas
                       /\ x.l[t].avail <= low[t] + given[t]
  <2> SUFFICES ASSUME NEW t \in Tmpls
               PROVE  low[t] <= x.l[t].replicas /\ x.l[t].avail <= low[t] + given[t]
    OBVIOUS
  <2>1. CASE t \in S
    <3>1. PICK i \in 1..N : s[i] = t
      BY <1>6, <2>1
    <3>2. low[t] = rest[i] - more[i] /\ given[t] = more[i]
      BY <1>5, <1>8, <3>1
    <3>3. /\ rest[i] \in Nat /\ more[i] \in Nat /\ more[i] <= rest[i]
          /\ x.l[t].avail <= rest[i] /\ rest[i] <= x.l[t].replicas
      BY <1>0, <3>1 DEF N
    <3> HIDE DEF low
    <3> QED  BY <1>2, <3>2, <3>3
  <2>2. CASE t \notin S
    <3>1. low[t] = x.l[t].replicas /\ given[t] = 0
      BY <1>5, <2>2
    <3> HIDE DEF low
    <3> QED  BY <1>0, <1>2, <3>1
  <2> QED  BY <2>1, <2>2
<1> HIDE DEF low
<1>10. \A t \in Tmpls : kept[t] \in Nat /\ given[t] \in Nat /\ sum[t] = kept[t] + given[t]
  BY <1>2, <1>7 DEF Smaller
<1>11. \A t \in Tmpls : Avail(x)[t] \in Nat /\ sum[t] \in Nat /\ Avail(x)[t] <= sum[t]
  <2> SUFFICES ASSUME NEW t \in Tmpls
               PROVE  Avail(x)[t] \in Nat /\ sum[t] \in Nat /\ Avail(x)[t] <= sum[t]
    OBVIOUS
  <2>1. Avail(x)[t] = x.l[t].avail
    BY DEF Avail
  <2>2. kept[t] = Smaller(x.l[t].avail, low[t]) /\ low[t] \in Nat
    BY <1>7
  <2>3. x.l[t].avail <= kept[t] + given[t]
    BY <1>2, <1>9, <1>10, <2>2 DEF Smaller
  <2> HIDE DEF kept, sum
  <2> QED  BY <1>2, <1>10, <2>1, <2>3
<1> HIDE DEF kept, sum
<1>12. Total(sum, Tmpls) = Total(kept, Tmpls) + Total(given, Tmpls)
  BY <1>1, <1>10, TotalSum
<1> DEFINE counted == S \cup {T(x)}
<1>13. Total(Avail(x), counted) <= Total(sum, Tmpls)
  <2>1. counted \subseteq Tmpls
    BY <1>1, WorkerFields
  <2> HIDE DEF counted
  <2>2. \A t \in counted : Avail(x)[t] \in Nat /\ Avail(x)[t] <= sum[t]
    BY <1>11, <2>1
  <2>3. \A t \in Tmpls : sum[t] \in Nat
    BY <1>11
  <2> QED  BY <1>1, <2>1, <2>2, <2>3, TotalMonotone
<1>14. scaleDownCount(x) = Total(Avail(x), counted) - MinAvailable(x.d)
  BY DEF scaleDownCount
<1>15. /\ Total(kept, Tmpls) \in Nat /\ Total(given, Tmpls) \in Nat
       /\ Total(Avail(x), counted) \in Nat /\ MinAvailable(x.d) \in Int
  <2>1. counted \subseteq Tmpls /\ IsFiniteSet(counted)
    <3>1. counted \subseteq Tmpls
      BY <1>1, WorkerFields
    <3> QED  BY <1>1, <3>1, FS_Subset
  <2> HIDE DEF counted
  <2>2. Total(Avail(x), counted) \in Nat
    <3>1. \A t \in counted : Avail(x)[t] \in Nat
      BY <1>11, <2>1
    <3> QED  BY <2>1, <3>1, TotalNat
  <2>3. Total(kept, Tmpls) \in Nat /\ Total(given, Tmpls) \in Nat
    BY <1>1, <1>10, TotalNat
  <2>4. MinAvailable(x.d) \in Int
    BY <1>1, ObjectFields, Fenceposts
  <2> QED  BY <2>2, <2>3, <2>4
<1>16. Total(given, Tmpls) <= scaleDownCount(x)
  BY <1>5 DEF N
<1>17. Total(kept, Tmpls) >= MinAvailable(x.d)
  <2> HIDE DEF counted
  <2> QED  BY <1>12, <1>13, <1>14, <1>15, <1>16
<1>18. Leaves(x, low)
  BY <1>17 DEF Leaves, kept
<1> QED  BY <1>7, <1>8, <1>9, <1>18 DEF N

(* Smaller sizes are written, or there are none to write. *)
LEMMA ShrinkWritten ==
  ASSUME NEW x, Fit(x), scenario \in Scenarios, x.via = "rolling",
         NEW list \in Seq(Item), NEW next \in {"status", "finish", "cleanup"},
         \A k \in DOMAIN list : /\ list[k].t \in FilterActive(x, Old(x))
                                /\ list[k].n <= x.l[list[k].t].replicas,
         \A k, m \in DOMAIN list : k < m /\ list[k].t = list[m].t => list[m].n <= list[k].n,
         (\A t \in Tmpls : x.l[t].avail <= x.l[t].replicas) =>
           \/ \A k \in DOMAIN list : x.l[list[k].t].avail <= list[k].n
           \/ \E low \in [Tmpls -> Nat] :
                 /\ \A t \in Tmpls : low[t] <= x.l[t].replicas
                 /\ \A k \in DOMAIN list : low[list[k].t] <= list[k].n
                 /\ Leaves(x, low)
  PROVE  Planned(x, WriteSizes(x, "shrink", list, next))
<1> DEFINE y == WriteSizes(x, "shrink", list, next)
<1> SUFFICES Planned(x, y)
  OBVIOUS
<1>1. Good(x)
  BY DEF Fit
<1>2. /\ y \in WorkerType /\ Kept(x, y) /\ y.via = x.via
      /\ list = <<>> => Closes(x, y)
      /\ list # <<>> => y.pc = "shrink" /\ y.todo = list
  BY <1>1, SizesWritten
<1> HIDE DEF y
<1>3. CASE list = <<>>
  BY <1>2, <1>3, ClosePlanned
<1>4. CASE list # <<>>
  <2>1. y.pc = "shrink" /\ y.todo = list /\ y.l = x.l /\ y.d = x.d
    BY <1>2, <1>4 DEF Kept
  <2>2. \A k \in DOMAIN list : Spread(x.l)[list[k].t] = x.l[list[k].t].replicas
    BY DEF Spread, FilterActive, Old, All
  <2>3. Falls(y, Spread(x.l))
    BY <2>1, <2>2 DEF Falls
  <2>4. KeepsAvailable(y, Spread(x.l))
    <3> SUFFICES ASSUME \A t \in Tmpls : x.l[t].avail <= x.l[t].replicas
                 PROVE  \/ \A k \in DOMAIN list : x.l[list[k].t].avail <= list[k].n
                        \/ Floor(y, Spread(x.l))
      BY <2>1 DEF KeepsAvailable
    <3>1. CASE \A k \in DOMAIN list : x.l[list[k].t].avail <= list[k].n
      BY <3>1
    <3>2. CASE \E low \in [Tmpls -> Nat] :
                 /\ \A t \in Tmpls : low[t] <= x.l[t].replicas
                 /\ \A k \in DOMAIN list : low[list[k].t] <= list[k].n
                 /\ Leaves(x, low)
      <4>1. \A t \in Tmpls : Spread(x.l)[t] = x.l[t].replicas
        BY DEF Spread
      <4>2. \A low : Leaves(y, low) = Leaves(x, low)
        BY <2>1 DEF Leaves
      <4> QED  BY <2>1, <3>2, <4>1, <4>2 DEF Floor
    <3> QED  BY <3>1, <3>2
  <2> QED  BY <1>2, <1>4, <2>1, <2>3, <2>4, ShrinkPlanned
<1> QED  BY <1>3, <1>4

(* Two lists of writes, one after the other. *)
LEMMA Appended ==
  ASSUME NEW a \in Seq(Item), NEW b \in Seq(Item)
  PROVE  /\ a \o b \in Seq(Item)
         /\ \A k \in DOMAIN (a \o b) :
               \/ k \in DOMAIN a /\ (a \o b)[k] = a[k]
               \/ k > Len(a) /\ k - Len(a) \in DOMAIN b /\ (a \o b)[k] = b[k - Len(a)]
<1>1. /\ a \o b \in Seq(Item) /\ Len(a \o b) = Len(a) + Len(b)
      /\ \A i \in 1..(Len(a) + Len(b)) :
            (a \o b)[i] = IF i <= Len(a) THEN a[i] ELSE b[i - Len(a)]
  BY ConcatProperties
<1>2. /\ DOMAIN a = 1..Len(a) /\ DOMAIN b = 1..Len(b) /\ Len(a) \in Nat /\ Len(b) \in Nat
      /\ DOMAIN (a \o b) = 1..Len(a \o b)
  BY <1>1, LenProperties
<1> HIDE DEF Item
<1> DEFINE c == a \o b
<1>3. /\ DOMAIN c = 1..(Len(a) + Len(b))
      /\ \A i \in 1..(Len(a) + Len(b)) : c[i] = IF i <= Len(a) THEN a[i] ELSE b[i - Len(a)]
  BY <1>1, <1>2
<1> HIDE DEF c
<1>4. \A k \in DOMAIN c : \/ k \in DOMAIN a /\ c[k] = a[k]
                          \/ k > Len(a) /\ k - Len(a) \in DOMAIN b /\ c[k] = b[k - Len(a)]
  BY <1>2, <1>3
<1> QED  BY <1>1, <1>4 DEF c

(* The budgets of the two loops are numbers. *)
LEMMA Budgets ==
  ASSUME NEW x, Good(x)
  PROVE  maxScaledDown(x) \in Int /\ scaleDownCount(x) \in Int
<1>1. x \in WorkerType /\ IsFiniteSet(Tmpls)
  BY DeploymentAssumption DEF Good
<1>2. /\ Total(Replicas(x), All(x)) \in Nat /\ MinAvailable(x.d) \in Int
      /\ x.l[T(x)].replicas \in Nat /\ x.l[T(x)].avail \in Nat
  BY <1>1, ReplicaSums, Fenceposts, ObjectFields, WorkerFields
<1>3. maxScaledDown(x) \in Int
  BY <1>2 DEF maxScaledDown
<1> DEFINE counted == FilterActive(x, Old(x)) \cup {T(x)}
<1>4. counted \subseteq Tmpls /\ IsFiniteSet(counted)
  <2>1. counted \subseteq Tmpls
    BY <1>1, WorkerFields DEF FilterActive, Old, All
  <2> QED  BY <1>1, <2>1, FS_Subset
<1>5. \A t \in Tmpls : Avail(x)[t] \in Nat
  BY <1>1, ObjectFields DEF Avail
<1>6. scaleDownCount(x) = Total(Avail(x), counted) - MinAvailable(x.d)
  BY DEF scaleDownCount
<1> HIDE DEF counted
<1>7. Total(Avail(x), counted) \in Nat
  <2>1. \A t \in counted : Avail(x)[t] \in Nat
    BY <1>4, <1>5
  <2> QED  BY <1>4, <2>1, TotalNat
<1> QED  BY <1>2, <1>3, <1>6, <1>7

(* reconcileOldReplicaSets plans well. *)
LEMMA ReconcilePlanned ==
  ASSUME NEW x, Fit(x), scenario \in Scenarios, x.via = "rolling"
  PROVE  Planned(x, reconcileOldReplicaSets(x))
<1> DEFINE S == FilterActive(x, Old(x))
           s == ByCreation(x, S)
           N == Cardinality(S)
           budget == maxScaledDown(x)
           cap == scaleDownCount(x)
           surplus == {i \in DOMAIN s : x.l[s[i]].avail > x.l[s[i]].replicas}
           need == [i \in DOMAIN s |->
                      IF i \in surplus THEN 0 ELSE x.l[s[i]].replicas - x.l[s[i]].avail]
           sick == Taken(need, budget)
           rest == [i \in DOMAIN s |-> x.l[s[i]].replicas - sick[i]]
           more == Taken(rest, cap)
           left == [i \in DOMAIN s |-> rest[i] - more[i]]
           bad == {i \in surplus : Before(need, i) < budget}
           untilBad == [i \in DOMAIN s |-> IF \E j \in bad : j <= i THEN 0 ELSE sick[i]]
           List(take, size) == Pick(Writes(s, size), {i \in DOMAIN s : take[i] > 0})
           writes == List(sick, rest) \o List(more, left)
           next == IF writes = <<>> THEN "finish" ELSE "status"
<1>1. reconcileOldReplicaSets(x) =
        IF s = <<>> \/ budget <= 0 THEN WriteSizes(x, "shrink", <<>>, "finish")
        ELSE IF bad # {} THEN WriteSizes(x, "shrink", List(untilBad, rest), "finish")
        ELSE WriteSizes(x, "shrink", writes, next)
  BY DEF reconcileOldReplicaSets, Writes
<1>2. Good(x) /\ x \in WorkerType
  BY DEF Fit, Good
<1>3. S \subseteq Tmpls /\ Lists(s, S)
  <2>1. S \subseteq All(x)
    BY DEF FilterActive, Old
  <2> QED  BY <1>2, <2>1, EveryListed
<1> HIDE DEF s, budget, cap, S
<1>4. N \in Nat /\ s \in [1..N -> S] /\ DOMAIN s = 1..N
      /\ \A i, j \in 1..N : s[i] = s[j] => i = j
  BY <1>3 DEF Lists
<1>5. budget \in Int /\ cap \in Int
  BY <1>2, Budgets DEF budget, cap
<1> HIDE DEF N
<1>6. \A i \in 1..N : /\ s[i] \in S /\ s[i] \in Tmpls
                      /\ x.l[s[i]].replicas \in Nat /\ x.l[s[i]].avail \in Nat
  BY <1>2, <1>3, <1>4, ObjectFields
<1>7. /\ need \in [1..N -> Nat]
      /\ \A i \in 1..N : /\ need[i] <= x.l[s[i]].replicas
                         /\ x.l[s[i]].avail <= x.l[s[i]].replicas =>
                              need[i] = x.l[s[i]].replicas - x.l[s[i]].avail
  BY <1>4, <1>6, SMTT(30)
<1> HIDE DEF need
<1>8. sick \in [1..N -> Nat] /\ \A i \in 1..N : sick[i] <= need[i]
  BY <1>4, <1>5, <1>7, TakenBounds
<1> HIDE DEF sick
<1>9. /\ rest \in [1..N -> Nat]
      /\ \A i \in 1..N : /\ rest[i] <= x.l[s[i]].replicas
                         /\ x.l[s[i]].avail <= x.l[s[i]].replicas => x.l[s[i]].avail <= rest[i]
  <2>1. \A i \in 1..N : sick[i] \in Nat /\ need[i] \in Nat /\ rest[i] = x.l[s[i]].replicas - sick[i]
    BY <1>4, <1>7, <1>8
  <2>2. rest \in [1..N -> Int]
    BY <1>4, <1>6, <2>1
  <2> HIDE DEF rest
  <2>3. \A i \in 1..N : rest[i] \in Nat
    BY <1>6, <1>7, <1>8, <2>1
  <2>4. rest \in [1..N -> Nat]
    BY <2>2, <2>3
  <2> QED  BY <1>6, <1>7, <1>8, <2>1, <2>4
<1> HIDE DEF rest
<1>10. /\ more \in [1..N -> Nat]
       /\ \A i \in 1..N : more[i] <= rest[i]
       /\ cap >= 0 => Total(more, 1..N) <= cap
       /\ cap <= 0 => \A i \in 1..N : more[i] = 0
  <2>1. rest \in [1..N -> Nat]
    BY <1>9
  <2>2. /\ Taken(rest, cap) \in [1..N -> Nat]
        /\ \A i \in 1..N : Taken(rest, cap)[i] <= rest[i]
        /\ cap >= 0 => Total(Taken(rest, cap), 1..N) <= cap
        /\ cap <= 0 => \A i \in 1..N : Taken(rest, cap)[i] = 0
    <3>1. N \in Nat /\ cap \in Int
      BY <1>4, <1>5
    <3> QED  BY ONLY <2>1, <3>1, TakenBounds, Zenon
  <2>3. more = Taken(rest, cap)
    OBVIOUS
  <2> HIDE DEF more
  <2> QED  BY <2>2, <2>3
<1> HIDE DEF more
<1>11. \A i \in 1..N : left[i] \in Nat /\ left[i] = rest[i] - more[i] /\ left[i] <= rest[i]
  <2>1. \A i \in 1..N : left[i] = rest[i] - more[i] /\ rest[i] \in Nat /\ more[i] \in Nat
    BY <1>4, <1>9, <1>10
  <2> HIDE DEF left
  <2> QED  BY <1>10, <2>1
<1> HIDE DEF left
<1>12. \A take, size : (\A i \in 1..N : size[i] \in Nat) =>
          /\ List(take, size) \in Seq(Item)
          /\ \A k \in DOMAIN List(take, size) :
                \E i \in 1..N : List(take, size)[k].t = s[i] /\ List(take, size)[k].n = size[i]
          /\ \A k, m \in DOMAIN List(take, size) :
                k # m => List(take, size)[k].t # List(take, size)[m].t
  <2> SUFFICES ASSUME NEW take, NEW size, \A i \in 1..N : size[i] \in Nat
               PROVE  /\ List(take, size) \in Seq(Item)
                      /\ \A k \in DOMAIN List(take, size) :
                            \E i \in 1..N : /\ List(take, size)[k].t = s[i]
                                            /\ List(take, size)[k].n = size[i]
                      /\ \A k, m \in DOMAIN List(take, size) :
                            k # m => List(take, size)[k].t # List(take, size)[m].t
    OBVIOUS
  <2> DEFINE I == {i \in DOMAIN s : take[i] > 0}
             list == Pick(Writes(s, size), I)
  <2>1. I \subseteq 1..Cardinality(S) /\ I \subseteq 1..N
    BY <1>4 DEF N
  <2> HIDE DEF I
  <2>2. \A i \in 1..Cardinality(S) : size[i] \in Nat
    BY DEF N
  <2>3. /\ list \in Seq(Item)
        /\ \A k \in DOMAIN list : \E i \in I : list[k].t = s[i] /\ list[k].n = size[i]
        /\ \A k, m \in DOMAIN list : k # m => list[k].t # list[m].t
    BY <1>3, <2>1, <2>2, PickedWrites
  <2>4. List(take, size) = list
    BY DEF I
  <2> HIDE DEF list, List
  <2> QED  BY <2>1, <2>3, <2>4
<1> HIDE DEF List
<1>13. CASE s = <<>> \/ budget <= 0
  <2>1. Closes(x, reconcileOldReplicaSets(x))
    BY <1>1, <1>2, <1>13, NothingWritten
  <2> QED  BY <2>1, ClosePlanned
<1>14. CASE ~(s = <<>> \/ budget <= 0) /\ bad # {}
  <2> DEFINE list == List(untilBad, rest)
  <2>1. /\ list \in Seq(Item)
        /\ \A k \in DOMAIN list : \E i \in 1..N : list[k].t = s[i] /\ list[k].n = rest[i]
        /\ \A k, m \in DOMAIN list : k # m => list[k].t # list[m].t
    <3>1. \A i \in 1..N : rest[i] \in Nat
      BY <1>9
    <3> HIDE DEF untilBad
    <3> QED  BY <1>12, <3>1
  <2>2. reconcileOldReplicaSets(x) = WriteSizes(x, "shrink", list, "finish")
    BY <1>1, <1>14
  <2> HIDE DEF list
  <2>3. \A k \in DOMAIN list : /\ list[k].t \in FilterActive(x, Old(x))
                               /\ list[k].n <= x.l[list[k].t].replicas
    BY <1>6, <1>9, <2>1 DEF S
  <2>4. \A k, m \in DOMAIN list : k < m /\ list[k].t = list[m].t => list[m].n <= list[k].n
    <3>1. \A k, m \in DOMAIN list : k < m => k # m
      <4>1. DOMAIN list = 1..Len(list) /\ Len(list) \in Nat
        BY <2>1, LenProperties
      <4> QED  BY <4>1
    <3> QED  BY <2>1, <3>1
  <2>5. ~(\A t \in Tmpls : x.l[t].avail <= x.l[t].replicas)
    <3>1. PICK i \in 1..N : x.l[s[i]].avail > x.l[s[i]].replicas
      BY <1>4, <1>14
    <3> QED  BY <1>6, <3>1
  <2> QED  BY <2>1, <2>2, <2>3, <2>4, <2>5, ShrinkWritten
<1>15. CASE ~(s = <<>> \/ budget <= 0) /\ bad = {}
  <2> DEFINE a == List(sick, rest)
             b == List(more, left)
  <2>1. /\ a \in Seq(Item)
        /\ \A k \in DOMAIN a : \E i \in 1..N : a[k].t = s[i] /\ a[k].n = rest[i]
        /\ \A k, m \in DOMAIN a : k # m => a[k].t # a[m].t
    <3>1. \A i \in 1..N : rest[i] \in Nat
      BY <1>9
    <3> QED  BY <1>12, <3>1
  <2>2. /\ b \in Seq(Item)
        /\ \A k \in DOMAIN b : \E i \in 1..N : b[k].t = s[i] /\ b[k].n = left[i]
        /\ \A k, m \in DOMAIN b : k # m => b[k].t # b[m].t
    <3>1. \A i \in 1..N : left[i] \in Nat
      BY <1>11
    <3> QED  BY <1>12, <3>1
  <2>3. writes = a \o b /\ next \in {"status", "finish", "cleanup"}
    OBVIOUS
  <2>4. reconcileOldReplicaSets(x) = WriteSizes(x, "shrink", writes, next)
    BY <1>1, <1>15
  <2> HIDE DEF a, b, writes, next
  <2>5. /\ writes \in Seq(Item)
        /\ \A k \in DOMAIN writes :
              \/ k \in DOMAIN a /\ writes[k] = a[k]
              \/ k > Len(a) /\ k - Len(a) \in DOMAIN b /\ writes[k] = b[k - Len(a)]
    BY <2>1, <2>2, <2>3, Appended
  <2>6. \A k \in DOMAIN writes : \E i \in 1..N :
           writes[k].t = s[i] /\ (writes[k].n = rest[i] \/ writes[k].n = left[i])
    <3> SUFFICES ASSUME NEW k \in DOMAIN writes
                 PROVE  \E i \in 1..N : /\ writes[k].t = s[i]
                                        /\ writes[k].n = rest[i] \/ writes[k].n = left[i]
      OBVIOUS
    <3>1. CASE k \in DOMAIN a /\ writes[k] = a[k]
      BY <2>1, <3>1
    <3>2. CASE k - Len(a) \in DOMAIN b /\ writes[k] = b[k - Len(a)]
      BY <2>2, <3>2
    <3> QED  BY <2>5, <3>1, <3>2
  <2>7. \A k \in DOMAIN writes : /\ writes[k].t \in FilterActive(x, Old(x))
                                 /\ writes[k].n <= x.l[writes[k].t].replicas
    <3> SUFFICES ASSUME NEW k \in DOMAIN writes
                 PROVE  writes[k].t \in S /\ writes[k].n <= x.l[writes[k].t].replicas
      BY DEF S
    <3>1. PICK i \in 1..N : writes[k].t = s[i] /\ (writes[k].n = rest[i] \/ writes[k].n = left[i])
      BY <2>6
    <3>2. rest[i] \in Nat /\ left[i] \in Nat
      BY <1>9, <1>11
    <3> QED  BY <1>6, <1>9, <1>11, <3>1, <3>2
  <2>8. \A k, m \in DOMAIN writes :
           k < m /\ writes[k].t = writes[m].t => writes[m].n <= writes[k].n
    <3> SUFFICES ASSUME NEW k \in DOMAIN writes, NEW m \in DOMAIN writes, k < m,
                        writes[k].t = writes[m].t
                 PROVE  writes[m].n <= writes[k].n
      OBVIOUS
    <3>0. /\ DOMAIN writes = 1..Len(writes) /\ Len(writes) \in Nat
          /\ DOMAIN a = 1..Len(a) /\ Len(a) \in Nat
      BY <2>1, <2>5, LenProperties
    <3>1. k \in Nat /\ m \in Nat
      BY <3>0
    <3>2. CASE k \in DOMAIN a /\ m \in DOMAIN a
      <4>1. writes[k] = a[k] /\ writes[m] = a[m]
        BY <2>5, <3>0, <3>1, <3>2
      <4> QED  BY <2>1, <3>1, <3>2, <4>1
    <3>3. CASE k \notin DOMAIN a /\ m \notin DOMAIN a
      <4>1. /\ k - Len(a) \in DOMAIN b /\ writes[k] = b[k - Len(a)]
            /\ m - Len(a) \in DOMAIN b /\ writes[m] = b[m - Len(a)]
        BY <2>5, <3>3
      <4>2. k - Len(a) # m - Len(a)
        BY <3>0, <3>1
      <4> QED  BY <2>2, <4>1, <4>2
    <3>4. CASE k \in DOMAIN a /\ m \notin DOMAIN a
      <4>1. writes[k] = a[k] /\ m - Len(a) \in DOMAIN b /\ writes[m] = b[m - Len(a)]
        BY <2>5, <3>0, <3>1, <3>4
      <4>2. PICK i \in 1..N : writes[k].t = s[i] /\ writes[k].n = rest[i]
        BY <2>1, <3>4, <4>1
      <4>3. PICK j \in 1..N : writes[m].t = s[j] /\ writes[m].n = left[j]
        BY <2>2, <4>1
      <4>4. i = j
        BY <1>4, <4>2, <4>3
      <4> QED  BY <1>11, <4>2, <4>3, <4>4
    <3>5. CASE k \notin DOMAIN a /\ m \in DOMAIN a
      <4>1. FALSE
        BY <2>5, <3>0, <3>1, <3>5
      <4> QED  BY <4>1
    <3> QED  BY <3>2, <3>3, <3>4, <3>5
  <2>9. ASSUME \A t \in Tmpls : x.l[t].avail <= x.l[t].replicas
        PROVE  \/ \A k \in DOMAIN writes : x.l[writes[k].t].avail <= writes[k].n
               \/ \E low \in [Tmpls -> Nat] :
                     /\ \A t \in Tmpls : low[t] <= x.l[t].replicas
                     /\ \A k \in DOMAIN writes : low[writes[k].t] <= writes[k].n
                     /\ Leaves(x, low)
    <3>1. \A i \in 1..N : /\ rest[i] \in Nat /\ more[i] \in Nat /\ more[i] <= rest[i]
                          /\ x.l[s[i]].avail <= rest[i] /\ rest[i] <= x.l[s[i]].replicas
      BY <1>6, <1>9, <1>10, <2>9
    <3>2. CASE cap <= 0
      <4>1. \A i \in 1..N : left[i] = rest[i]
        BY <1>10, <1>11, <3>1, <3>2
      <4> QED  BY <2>6, <3>1, <4>1
    <3>3. CASE cap > 0
      <4>1. Total(more, 1..Cardinality(S)) <= scaleDownCount(x)
        BY <1>5, <1>10, <3>3 DEF N, cap
      <4>2. Spared(x, S, s, rest, more)
        BY <2>9, <3>1 DEF Spared, N
      <4>3. PICK low \in [Tmpls -> Nat] :
               /\ \A t \in Tmpls : low[t] <= x.l[t].replicas
               /\ \A i \in 1..Cardinality(S) : low[s[i]] = rest[i] - more[i]
               /\ Leaves(x, low)
        <5>1. S = FilterActive(x, Old(x))
          BY DEF S
        <5> QED  BY ONLY <1>2, <1>3, <4>1, <4>2, <5>1, FloorFound
      <4>4. \A k \in DOMAIN writes : low[writes[k].t] <= writes[k].n
        <5> SUFFICES ASSUME NEW k \in DOMAIN writes PROVE low[writes[k].t] <= writes[k].n
          OBVIOUS
        <5>1. PICK i \in 1..N :
                 writes[k].t = s[i] /\ (writes[k].n = rest[i] \/ writes[k].n = left[i])
          BY <2>6
        <5>2. low[s[i]] = left[i]
          BY <1>11, <4>3 DEF N
        <5>3. left[i] \in Nat /\ rest[i] \in Nat /\ left[i] <= rest[i]
          BY <1>11, <3>1
        <5> QED  BY <5>1, <5>2, <5>3
      <4> QED  BY <4>3, <4>4
    <3>4. cap <= 0 \/ cap > 0
      BY <1>5
    <3> QED  BY <3>2, <3>3, <3>4
  <2> QED  BY <2>3, <2>4, <2>5, <2>7, <2>8, <2>9, ShrinkWritten
<1> QED  BY <1>13, <1>14, <1>15

(* rolloutRolling plans well: the new ReplicaSet grows within the surge, or *)
(* it does not change and the old ones shrink.                              *)
LEMMA RollingPlanned ==
  ASSUME NEW x, Fit(x), scenario \in Scenarios, x.via = "rolling", x.l[T(x)].exists
  PROVE  Planned(x, AtRolling(x))
<1> DEFINE u == T(x)
           k == NewRSSize(x)
           own == x.l[u].replicas
           d == x.d.replicas
           c == Total(Replicas(x), All(x))
           list == Changed(x, [t |-> u, n |-> k])
           y == WriteSizes(x, "resize", list, "status")
<1>1. Good(x) /\ x \in WorkerType /\ u \in Tmpls /\ own \in Nat /\ d \in Nat
  BY ObjectFields, WorkerFields DEF Fit, Good
<1>2. c \in Nat /\ c = Total(Replicas(x), Tmpls)
  BY <1>1, ReplicaSums
<1>3. /\ k \in 0..d
      /\ k < own => k = d
      /\ k > own => k + c <= d + ResolveSurge(Surge, d) + own
  <2> HIDE DEF c, own, d
  <2>1. Surge \in 0..100
    BY DeploymentAssumption
  <2>2. CASE own > d
    <3>1. k = d
      BY <2>2 DEF NewRSSize, own, d
    <3> HIDE DEF k
    <3> QED  BY <1>1, <2>2, <3>1
  <2>3. CASE own <= d
    <3>1. k = NewRSReplicas(d, Surge, c, own)
      BY <1>1, <2>3 DEF NewRSSize, own, d, c
    <3>2. own \in 0..d
      BY <1>1, <2>3
    <3>3. /\ NewRSReplicas(d, Surge, c, own) \in own..d
          /\ NewRSReplicas(d, Surge, c, own) # own =>
               NewRSReplicas(d, Surge, c, own) + c <= d + ResolveSurge(Surge, d) + own
      BY <1>1, <1>2, <2>1, <3>2, NewSizeBounds
    <3> HIDE DEF k
    <3> QED  BY <1>1, <3>1, <3>3
  <2> QED  BY <1>1, <2>2, <2>3
<1>4. k \in Nat
  BY <1>1, <1>3
<1> HIDE DEF k
<1>5. /\ list \in Seq(Item) /\ (list = <<>> <=> own = k)
      /\ \A i \in DOMAIN list : i = 1 /\ list[i].t = u /\ list[i].n = k
  BY <1>1, <1>4, ChangedList
<1>6. AtRolling(x) = IF list # <<>> THEN y ELSE reconcileOldReplicaSets(x)
  BY DEF AtRolling, k
<1> HIDE DEF list
<1>7. CASE list = <<>>
  BY <1>6, <1>7, ReconcilePlanned
<1>8. CASE list # <<>>
  <2>1. y \in WorkerType /\ Kept(x, y) /\ y.via = "rolling" /\ y.pc = "resize" /\ y.todo = list
    BY <1>1, <1>5, <1>8, SizesWritten
  <2>2. AtRolling(x) = y
    BY <1>6, <1>8
  <2> HIDE DEF y
  <2>3. ViaOK(y)
    BY <2>1 DEF ViaOK
  <2>4. TodoOK(y)
    <3>1. \A i \in DOMAIN list : /\ x.l[list[i].t].exists
                                 /\ list[i].n > 0 => d > 0
                                 /\ list[i].n >= x.l[list[i].t].replicas \/ list[i].n >= d
      BY <1>1, <1>3, <1>4, <1>5
    <3> QED  BY <1>8, <2>1, <3>1 DEF TodoOK, Kept
  <2>5. KeepsAvailable(y, Spread(x.l)) /\ RecreateInTurn(x, y)
    BY <2>1 DEF KeepsAvailable, RecreateInTurn
  <2>6. WithinSurge(y, Spread(x.l))
    <3>1. CASE k < own
      <4>1. Falls(y, Spread(x.l))
        BY <1>1, <1>4, <1>5, <2>1, <3>1 DEF Falls, Spread
      <4> QED  BY <4>1 DEF WithinSurge
    <3>2. CASE k > own
      <4> SUFFICES ASSUME IsRollingUpdate(y.d) PROVE Ceiling(y, Spread(x.l))
        BY <2>1 DEF WithinSurge
      <4> DEFINE top == [t \in Tmpls |-> IF t = u THEN k ELSE x.l[t].replicas]
      <4>1. \A t \in Tmpls : x.l[t].replicas \in Nat
        BY <1>1, ObjectFields
      <4>2. /\ top \in [Tmpls -> Nat] /\ top[u] = k
            /\ \A t \in Tmpls \ {u} : top[t] = x.l[t].replicas
        BY <1>1, <1>4, <4>1
      <4> HIDE DEF top
      <4>3. \A t \in Tmpls : Spread(x.l)[t] <= top[t]
        <5> SUFFICES ASSUME NEW t \in Tmpls PROVE x.l[t].replicas <= top[t]
          BY DEF Spread
        <5> QED  BY <1>1, <1>4, <3>2, <4>1, <4>2
      <4>4. \A i \in DOMAIN y.todo : y.todo[i].n <= top[y.todo[i].t]
        BY <1>4, <1>5, <2>1, <4>2
      <4>5. Total(top, Tmpls) = c - own + k
        <5>1. \A t \in Tmpls : Replicas(x)[t] \in Nat /\ top[t] \in Nat
          BY <4>1, <4>2 DEF Replicas
        <5>2. \A t \in Tmpls \ {u} : Replicas(x)[t] = top[t]
          BY <4>2 DEF Replicas
        <5>3. Replicas(x)[u] = own
          BY <1>1 DEF Replicas
        <5>4. Total(top, Tmpls) = Total(Replicas(x), Tmpls) - Replicas(x)[u] + top[u]
          BY <1>1, <5>1, <5>2, DeploymentAssumption, TotalChange
        <5> HIDE DEF c, own
        <5> QED  BY <1>2, <4>2, <5>3, <5>4
      <4>6. /\ y.d.replicas = d /\ MaxSurge(y.d) = ResolveSurge(Surge, d)
            /\ ResolveSurge(Surge, d) \in Int
        <5>1. y.d = x.d
          BY <2>1 DEF Kept
        <5>2. MaxSurge(x.d) = ResolveSurge(Surge, d)
          BY <5>1 DEF MaxSurge
        <5>3. MaxSurge(x.d) \in Int
          BY <1>1, Fenceposts
        <5> QED  BY <5>1, <5>2, <5>3
      <4>7. Total(top, Tmpls) <= y.d.replicas + MaxSurge(y.d)
        <5> HIDE DEF c, own, d
        <5> QED  BY <1>1, <1>2, <1>3, <1>4, <3>2, <4>5, <4>6
      <4> QED  BY <4>2, <4>3, <4>4, <4>7 DEF Ceiling
    <3>3. k < own \/ k > own
      BY <1>1, <1>4, <1>5, <1>8
    <3> QED  BY <3>1, <3>2, <3>3
  <2> QED  BY <2>1, <2>2, <2>3, <2>4, <2>5, <2>6 DEF Planned, PlanOK
<1> QED  BY <1>7, <1>8

(* rolloutRecreate scales up its new ReplicaSet. *)
LEMMA ScaleUpPlanned ==
  ASSUME NEW x, Fit(x), scenario \in Scenarios, x.via \in {"recreate", "recreateNew"},
         x.via = "recreate" => Ready(x), x.l[T(x)].exists
  PROVE  Planned(x, AtScaleUp(x))
<1> DEFINE list == Changed(x, [t |-> T(x), n |-> x.d.replicas])
           y == WriteSizes(x, "resize", list, "finish")
<1>1. Good(x) /\ x \in WorkerType /\ T(x) \in Tmpls /\ x.d.replicas \in Nat
  BY ObjectFields, WorkerFields DEF Fit, Good
<1>2. /\ list \in Seq(Item)
      /\ \A i \in DOMAIN list : list[i].t = T(x) /\ list[i].n = x.d.replicas
  BY <1>1, ChangedList
<1>3. AtScaleUp(x) = y
  BY DEF AtScaleUp
<1> HIDE DEF list
<1>4. /\ y \in WorkerType /\ Kept(x, y) /\ y.via = x.via
      /\ list = <<>> => Closes(x, y)
      /\ list # <<>> => y.pc = "resize" /\ y.todo = list
  BY <1>1, <1>2, SizesWritten
<1> HIDE DEF y
<1>5. CASE list = <<>>
  BY <1>3, <1>4, <1>5, ClosePlanned
<1>6. CASE list # <<>>
  <2>1. y.pc = "resize" /\ y.todo = list /\ y.d = x.d /\ ~IsRollingUpdate(y.d) /\ T(y) = T(x)
    BY <1>4, <1>6 DEF Fit, Kept, T
  <2>2. ViaOK(y)
    BY <1>4, <2>1 DEF ViaOK
  <2>3. TodoOK(y)
    BY <1>2, <1>4, <1>6, <2>1 DEF TodoOK, Kept
  <2>4. WithinSurge(y, Spread(x.l)) /\ KeepsAvailable(y, Spread(x.l))
    BY <2>1 DEF WithinSurge, KeepsAvailable
  <2>5. RecreateInTurn(x, y)
    BY <1>4 DEF RecreateInTurn
  <2> QED  BY <1>3, <1>4, <2>1, <2>2, <2>3, <2>4, <2>5 DEF Planned, PlanOK
<1> QED  BY <1>5, <1>6

(* The worker asks for the new ReplicaSet. *)
LEMMA NewRSPlanned ==
  ASSUME NEW x, NEW y \in WorkerType, Kept(x, y), y.pc = "newRS",
         y.via = "rolling" => Settled(x),
         y.via \in {"recreate", "recreateNew"} => ~IsRollingUpdate(x.d),
         y.via = "recreateNew" /\ x.via # "recreateNew" => Ready(x),
         y.via = "rollback" => x.via = "rollback"
  PROVE  Planned(x, y)
<1>1. Settled(y) = Settled(x) /\ IsRollingUpdate(y.d) = IsRollingUpdate(x.d)
  BY DEF Settled, FilterActive, Old, All, T, Kept
<1>2. PlanOK(y)
  BY <1>1 DEF PlanOK, ViaOK, TodoOK
<1>3. WithinSurge(y, Spread(x.l)) /\ KeepsAvailable(y, Spread(x.l)) /\ RecreateInTurn(x, y)
  BY DEF WithinSurge, KeepsAvailable, RecreateInTurn
<1> QED  BY <1>2, <1>3 DEF Planned

(* rolloutRecreate plans well. *)
LEMMA RecreatePlanned ==
  ASSUME NEW x, Fit(x), scenario \in Scenarios, x.via = "recreate"
  PROVE  Planned(x, AtRecreate(x))
<1> DEFINE S == FilterActive(x, Old(x))
           s == ByCreation(x, S)
<1>1. Good(x) /\ x \in WorkerType
  BY DEF Fit, Good
<1>2. S \subseteq All(x) /\ Lists(s, S)
  <2>1. S \subseteq All(x)
    BY DEF FilterActive, Old
  <2> QED  BY <1>1, <2>1, EveryListed
<1>3. AtRecreate(x) =
        IF s # <<>>
        THEN WriteSizes(x, "resize", [i \in DOMAIN s |-> [t |-> s[i], n |-> 0]], "status")
        ELSE IF oldPodsRunning(x) THEN AtStatus(x)
        ELSE IF ~x.l[T(x)].exists THEN [x EXCEPT !.pc = "newRS", !.via = "recreateNew"]
        ELSE AtScaleUp(x)
  BY DEF AtRecreate
<1> HIDE DEF s
<1>4. CASE s # <<>>
  <2>1. AtRecreate(x) =
          WriteSizes(x, "resize", [i \in DOMAIN s |-> [t |-> s[i], n |-> 0]], "status")
    BY <1>3, <1>4
  <2> HIDE DEF S
  <2> QED  BY <1>2, <2>1, ZeroPlanned
<1>5. CASE s = <<>> /\ oldPodsRunning(x)
  <2>1. Closes(x, AtRecreate(x))
    BY <1>1, <1>3, <1>5, StatusCloses
  <2> QED  BY <2>1, ClosePlanned
<1>6. CASE s = <<>> /\ ~oldPodsRunning(x)
  <2>1. Ready(x)
    <3>1. S = {}
      <4> HIDE DEF S
      <4>1. Cardinality(S) \in Nat /\ s \in [1..Cardinality(S) -> S]
            /\ \A v \in S : \E i \in 1..Cardinality(S) : s[i] = v
        BY <1>2 DEF Lists
      <4>2. Cardinality(S) = 0
        BY <1>6, <4>1, ListIsSeq
      <4> QED  BY <4>1, <4>2
    <3> QED  BY <1>6, <3>1 DEF Ready
  <2>2. CASE ~x.l[T(x)].exists
    <3>1. AtRecreate(x) = [x EXCEPT !.pc = "newRS", !.via = "recreateNew"]
      BY <1>3, <1>6, <2>2
    <3> DEFINE y == [x EXCEPT !.pc = "newRS", !.via = "recreateNew"]
    <3>2. y \in WorkerType /\ y.pc = "newRS" /\ y.via = "recreateNew"
      BY <1>1 DEF WorkerType, PCs, Vias
    <3>3. Kept(x, y)
      BY <1>1 DEF WorkerType, Kept
    <3>4. ~IsRollingUpdate(x.d)
      BY DEF Fit
    <3> HIDE DEF y
    <3>5. Planned(x, y)
      BY <2>1, <3>2, <3>3, <3>4, NewRSPlanned
    <3> QED  BY <3>1, <3>5 DEF y
  <2>3. CASE x.l[T(x)].exists
    <3>1. AtRecreate(x) = AtScaleUp(x)
      BY <1>3, <1>6, <2>3
    <3> QED  BY <2>1, <2>3, <3>1, ScaleUpPlanned
  <2> QED  BY <2>2, <2>3
<1> QED  BY <1>4, <1>5, <1>6

(* The revision of a new ReplicaSet is above those of the old ones. *)
LEMMA RevisionAbove ==
  ASSUME NEW x \in WorkerType
  PROVE  /\ NewRevision(x) \in Nat \ {0}
         /\ \A u \in Old(x) : x.l[u].rev < NewRevision(x)
<1> DEFINE revs == {0} \cup {x.l[u].rev : u \in Old(x)}
           m == CHOOSE r \in revs : \A q \in revs : q <= r
<1>1. IsFiniteSet(Old(x)) /\ Old(x) \subseteq Tmpls
  <2>1. Old(x) \subseteq Tmpls
    BY DEF Old, All
  <2> QED  BY <2>1, DeploymentAssumption, FS_Subset
<1>2. revs \subseteq 0..MaxRev /\ MaxRev \in Nat
  BY <1>1, ObjectFields, DeploymentAssumption
<1>3. \E r \in revs : \A q \in revs : q <= r
  <2>1. revs # {} /\ revs \subseteq Nat /\ \A q \in revs : q <= MaxRev
    BY <1>2
  <2> HIDE DEF revs
  <2> QED  BY <1>2, <2>1, GreatestExists
<1>4. m \in revs /\ \A q \in revs : q <= m
  BY <1>3
<1>5. NewRevision(x) = m + 1
  BY DEF NewRevision, MaxOldRevision
<1>6. m \in Nat
  BY <1>2, <1>4
<1>7. \A u \in Old(x) : x.l[u].rev \in revs /\ x.l[u].rev \in Nat
  BY <1>2
<1> HIDE DEF m, revs
<1> QED  BY <1>4, <1>5, <1>6, <1>7

(* A ReplicaSet whose revision is above the old ones is the newest. *)
LEMMA NewestTopmost ==
  ASSUME NEW x \in WorkerType, x.l[T(x)].exists, ~(x.l[T(x)].rev < NewRevision(x))
  PROVE  Topmost(x)
<1>1. x.l[T(x)].rev \in Nat
  BY WorkerFields, ObjectFields, DeploymentAssumption
<1>2. \A u \in Old(x) : x.l[u].rev \in Nat
  BY ObjectFields, DeploymentAssumption DEF Old, All
<1> QED  BY <1>1, <1>2, RevisionAbove DEF Topmost

(* Whatever function asked for the ReplicaSets goes on as planned. *)
LEMMA CallerPlanned ==
  ASSUME NEW x, Fit(x), scenario \in Scenarios, x.via # "event",
         Creating(x) => x.l[T(x)].exists
  PROVE  Planned(x, Caller(x))
<1>1. Good(x) /\ x \in WorkerType /\ x.via \in Vias
  BY WorkerFields DEF Fit, Good
<1>2. CASE x.via = "deleted"
  <2>1. Caller(x) = AtStatus(x)
    BY <1>2 DEF Caller
  <2>2. Closes(x, AtStatus(x))
    BY <1>1, StatusCloses
  <2> QED  BY <1>2, <2>1, <2>2, ClosePlanned
<1>3. CASE x.via \in {"paused", "scaling"}
  <2>1. Caller(x) = AtScale(x)
    BY <1>3 DEF Caller
  <2> QED  BY <1>3, <2>1, ScalePlanned
<1>4. CASE x.via = "rollback"
  <2> DEFINE y == [x EXCEPT !.pc = "rollback"]
  <2>1. Caller(x) = y
    BY <1>4 DEF Caller
  <2>2. y \in WorkerType /\ y.via = "rollback" /\ y.pc = "rollback"
    BY <1>1, <1>4 DEF WorkerType, PCs
  <2>3. Kept(x, y)
    BY <1>1 DEF WorkerType, Kept
  <2> HIDE DEF y
  <2>4. PlanOK(y)
    BY <2>2 DEF PlanOK, ViaOK, TodoOK
  <2>5. WithinSurge(y, Spread(x.l)) /\ KeepsAvailable(y, Spread(x.l)) /\ RecreateInTurn(x, y)
    BY <2>2 DEF WithinSurge, KeepsAvailable, RecreateInTurn
  <2> QED  BY <1>4, <2>1, <2>2, <2>3, <2>4, <2>5 DEF Planned
<1>5. CASE x.via = "rolling"
  <2>1. Caller(x) = AtRolling(x) /\ x.l[T(x)].exists
    BY <1>5 DEF Caller, Creating
  <2> QED  BY <1>5, <2>1, RollingPlanned
<1>6. CASE x.via = "recreate"
  <2>1. Caller(x) = AtRecreate(x)
    BY <1>6 DEF Caller
  <2> QED  BY <1>6, <2>1, RecreatePlanned
<1>7. CASE x.via = "recreateNew"
  <2>1. Caller(x) = AtScaleUp(x) /\ x.l[T(x)].exists
    BY <1>7 DEF Caller, Creating
  <2> QED  BY <1>7, <2>1, ScaleUpPlanned
<1> QED  BY <1>1, <1>2, <1>3, <1>4, <1>5, <1>6, <1>7 DEF Vias

(* A plan after isScalingEvent has chosen the function. *)
LEMMA ChosenPlanned ==
  ASSUME NEW x, NEW z, NEW y, Kept(x, z), z.via \notin {"recreateNew", "rollback"}, Planned(z, y)
  PROVE  Planned(x, y)
<1>1. Kept(x, y) /\ y.via # "rollback"
  BY DEF Kept, Planned
<1>2. Ready(x) = Ready(z) /\ Spread(x.l) = Spread(z.l)
  BY DEF Kept, Ready, FilterActive, Old, All, T, oldPodsRunning, Pods, Spread
<1>3. RecreateInTurn(x, y)
  BY <1>2 DEF Planned, RecreateInTurn
<1> QED  BY <1>1, <1>2, <1>3 DEF Planned

(* What syncDeployment goes on to after its conditions. *)
LEMMA ContinuePlanned ==
  ASSUME NEW x, Fit(x), scenario \in Scenarios, Creating(x) => x.l[T(x)].exists
  PROVE  Planned(x, Continue(x))
<1>1. CASE x.via # "event"
  <2>1. Continue(x) = Caller(x)
    BY <1>1 DEF Continue
  <2> QED  BY <1>1, <2>1, CallerPlanned
<1>2. CASE x.via = "event"
  <2> DEFINE v == IF isScalingEvent(x) THEN "scaling"
                  ELSE IF IsRollingUpdate(x.d) THEN "rolling" ELSE "recreate"
             z == [x EXCEPT !.via = v]
  <2>1. Continue(x) = AtNewRS(z)
    BY <1>2 DEF Continue
  <2>2. /\ v \in Vias /\ v \notin {"recreateNew", "rollback", "event"}
        /\ v = "rolling" => ~isScalingEvent(x)
        /\ v = "recreate" => ~IsRollingUpdate(x.d)
    BY DEF Vias
  <2> HIDE DEF v
  <2>3. x \in WorkerType /\ Good(x)
    BY DEF Fit, Good
  <2>4. z \in WorkerType /\ z.via = v /\ Kept(x, z)
    BY <2>2, <2>3 DEF WorkerType, Kept
  <2> DEFINE y == [z EXCEPT !.pc = "newRS"]
  <2>5. y \in WorkerType /\ y.pc = "newRS" /\ y.via = v /\ Kept(z, y)
    BY <2>4 DEF WorkerType, PCs, Kept
  <2> HIDE DEF z
  <2>6. v = "rolling" => Settled(z)
    BY <2>2, <2>4 DEF Settled, isScalingEvent, FilterActive, Old, All, T, Kept
  <2>7. Fit(z)
    <3>1. Good(z)
      BY <2>3, <2>4 DEF Good, Kept
    <3> QED  BY <2>2, <2>4, <2>6, <3>1 DEF Fit, Kept
  <2>8. Planned(z, AtNewRS(z))
    <3>1. CASE NeedsCall(z)
      <4>1. AtNewRS(z) = y
        BY <3>1 DEF AtNewRS
      <4>2. v \in {"recreate", "recreateNew"} => ~IsRollingUpdate(z.d)
        BY <2>2, <2>4 DEF Kept
      <4> HIDE DEF y
      <4>3. Planned(z, y)
        BY <2>2, <2>5, <2>6, <4>2, NewRSPlanned
      <4> QED  BY <4>1, <4>3
    <3>2. CASE ~NeedsCall(z)
      <4>1. AtNewRS(z) = Caller(z) /\ (Creating(z) => z.l[T(z)].exists)
        BY <3>2 DEF AtNewRS, NeedsCall
      <4> QED  BY <2>2, <2>4, <2>7, <4>1, CallerPlanned
    <3> QED  BY <3>1, <3>2
  <2> QED  BY <2>1, <2>2, <2>4, <2>8, ChosenPlanned
<1> QED  BY <1>1, <1>2

(* A worker that waits for a write to the Deployment goes on as planned;    *)
(* when that is to its rollback, the newest revision is the template's.     *)
LEMMA BeginPlanned ==
  ASSUME NEW x, Fit(x), scenario \in Scenarios
  PROVE  Planned(x, Begin(x)) /\ (Begin(x).pc = "rollback" => Topmost(x))
<1>1. x \in WorkerType /\ x.via \in Vias
  BY WorkerFields DEF Fit, Good
<1>2. CASE NeedsCall(x)
  <2> DEFINE y == [x EXCEPT !.pc = "newRS"]
  <2>1. y \in WorkerType /\ y.pc = "newRS" /\ y.via = x.via /\ Kept(x, y)
    BY <1>1 DEF WorkerType, PCs, Kept
  <2>2. Begin(x) = y
    BY <1>2 DEF Begin
  <2>3. /\ x.via = "rolling" => Settled(x)
        /\ x.via \in {"recreate", "recreateNew"} => ~IsRollingUpdate(x.d)
    BY DEF Fit
  <2> HIDE DEF y
  <2>4. Planned(x, y)
    BY <2>1, <2>3, NewRSPlanned
  <2> QED  BY <2>1, <2>2, <2>4
<1>3. CASE ~NeedsCall(x)
  <2>1. Begin(x) = Continue(x)
    BY <1>3 DEF Begin
  <2>2. Planned(x, Continue(x))
    <3>1. Creating(x) => x.l[T(x)].exists
      BY <1>3 DEF NeedsCall
    <3> QED  BY <3>1, ContinuePlanned
  <2>3. ASSUME Continue(x).pc = "rollback" PROVE Topmost(x)
    <3>1. x.via = "rollback"
      BY <2>2, <2>3 DEF Planned, PlanOK, ViaOK
    <3>2. x.l[T(x)].exists /\ ~(x.l[T(x)].rev < NewRevision(x))
      BY <1>3, <3>1 DEF NeedsCall, Creating
    <3> QED  BY <1>1, <3>2, NewestTopmost
  <2> QED  BY <2>1, <2>2, <2>3
<1> QED  BY <1>2, <1>3

-----------------------------------------------------------------------------
(***************************************************************************)
(* The worker beside the state it works on.                                *)
(***************************************************************************)
(* A worker that does nothing promises nothing. *)
LEMMA IdleWorks ==
  ASSUME NEW r, NEW run, NEW d
  PROVE  /\ Works(Idle, r, run, d) /\ Idle.pc = "idle" /\ Idle.l = [t \in Tmpls |-> NoRS]
         /\ Idle.lCur = {} /\ Idle.dCur = FALSE
<1> DEFINE c == CHOOSE c \in Scenarios : TRUE
<1>1. c \in ScenarioType
  BY DeploymentAssumption
<1> HIDE DEF c
<1>2. c.size \in Sizes /\ c.strategy \in {"RollingUpdate", "Recreate"}
  BY <1>1 DEF ScenarioType
<1>3. FirstTmpl \in Tmpls /\ MaxRev \in Nat
  BY DeploymentAssumption
<1>4. NewStatus \in StatusType
  BY DEF NewStatus, StatusType, Reasons
<1>5. Created(c) \in DepType
  BY <1>2, <1>3, <1>4 DEF Created, DepType, NoRollback
<1>6. [t \in Tmpls |-> NoRS] \in [Tmpls -> RSType]
  BY <1>3 DEF NoRS, RSType
<1>7. /\ Idle.pc = "idle" /\ Idle.via = "event" /\ Idle.d = Created(c) /\ Idle.dCur = FALSE
      /\ Idle.l = [t \in Tmpls |-> NoRS] /\ Idle.lCur = {} /\ Idle.fresh = FALSE
  BY DEF Idle, c
<1>8. Idle \in WorkerType
  <2>1. <<>> \in Seq(Item)
    BY EmptySeq
  <2> QED  BY <1>5, <1>6, <2>1 DEF Idle, c, WorkerType, PCs, Vias, Item
<1> HIDE DEF Idle
<1>9. PlanOK(Idle)
  BY <1>7 DEF PlanOK, ViaOK, TodoOK
<1>10. Current(Idle, r) /\ Fresh(Idle, r, run) /\ KeepsAvailable(Idle, Spread(r))
  BY <1>7 DEF Current, Fresh, KeepsAvailable
<1> QED  BY <1>7, <1>8, <1>9, <1>10 DEF Works

(* A worker whose copy is one of the three is as the plans need it. *)
LEMMA CopyGood ==
  ASSUME NEW r, NEW q, NEW l, NEW b, CopiesOK(r, q, l, b),
         NEW x \in WorkerType, \A t \in Tmpls : x.l[t] \in Told(t, r, q, l)
  PROVE  Good(x)
BY DEF CopiesOK, Good

(* Every entry of the new copies is an old one, none, or e for template t:  *)
(* a ReplicaSet that was known, or one born just now.                       *)
LEMMA CopiesStep ==
  ASSUME NEW r, NEW q, NEW l, NEW b \in Int, CopiesOK(r, q, l, b),
         NEW r1, NEW q1, NEW l1, NEW b1 \in Nat, b <= b1,
         \A u \in Tmpls : \A a \in Told(u, r, q, l) : a.born \in Int,
         NEW t \in Tmpls, NEW e, Sane(e), e.born <= b1, e.born \in Int,
         e.exists => \/ \E a \in Told(t, r, q, l) : a.exists /\ a.born = e.born
                     \/ e.born > b,
         \A u \in Tmpls : Told(u, r1, q1, l1) \subseteq
                            Told(u, r, q, l) \cup {NoRS} \cup IF u = t THEN {e} ELSE {}
  PROVE  CopiesOK(r1, q1, l1, b1)
<1>1. Sane(NoRS) /\ ~NoRS.exists /\ NoRS.born = 0
  BY DEF Sane, NoRS
<1>2. ASSUME NEW u \in Tmpls, NEW a \in Told(u, r1, q1, l1)
      PROVE  /\ Sane(a) /\ a.born <= b1
             /\ a.exists => \/ \E c \in Told(u, r, q, l) : c.exists /\ c.born = a.born
                            \/ u = t /\ a.born > b
  <2>1. CASE a \in Told(u, r, q, l)
    BY <2>1 DEF CopiesOK
  <2>2. CASE a = NoRS
    BY <1>1, <2>2
  <2>3. CASE u = t /\ a = e
    BY <2>3
  <2> QED  BY <1>2, <2>1, <2>2, <2>3
<1>3. ASSUME NEW u \in Tmpls, NEW v \in Tmpls, u # v,
             NEW a \in Told(u, r1, q1, l1), NEW c \in Told(v, r1, q1, l1), a.exists, c.exists
      PROVE  a.born # c.born
  <2>1. \/ \E a0 \in Told(u, r, q, l) : a0.exists /\ a0.born = a.born
        \/ u = t /\ a.born > b
    BY <1>2, <1>3
  <2>2. \/ \E c0 \in Told(v, r, q, l) : c0.exists /\ c0.born = c.born
        \/ v = t /\ c.born > b
    BY <1>2, <1>3
  <2>3. CASE \E a0 \in Told(u, r, q, l) : a0.exists /\ a0.born = a.born
    <3>1. PICK a0 \in Told(u, r, q, l) : a0.exists /\ a0.born = a.born
      BY <2>3
    <3>2. a.born <= b /\ a.born \in Int
      BY <3>1 DEF CopiesOK
    <3>3. CASE \E c0 \in Told(v, r, q, l) : c0.exists /\ c0.born = c.born
      BY <1>3, <3>1, <3>3 DEF CopiesOK
    <3>4. CASE c.born > b
      BY <3>2, <3>4
    <3> QED  BY <2>2, <3>3, <3>4
  <2>4. CASE u = t /\ a.born > b
    <3>1. PICK c0 \in Told(v, r, q, l) : c0.exists /\ c0.born = c.born
      BY <1>3, <2>2, <2>4
    <3>2. c.born <= b /\ c.born \in Int
      BY <3>1 DEF CopiesOK
    <3> QED  BY <2>4, <3>2
  <2> QED  BY <2>1, <2>3, <2>4
<1> QED  BY <1>2, <1>3 DEF CopiesOK

(* A plan from copies that are current keeps the invariant. *)
LEMMA PlanWorks ==
  ASSUME NEW x, Good(x), NEW y, Planned(x, y), NEW r \in [Tmpls -> RSType], NEW run, NEW d,
         x.dCur => x.d = d,
         \A t \in x.lCur : r[t] = x.l[t],
         x.fresh => /\ Mirror(x, r) /\ PodsSeen(x, run)
                    /\ x.via = "recreateNew" => Clear(x, r, run)
                    /\ y.pc = "rollback" => Topmost(x)
  PROVE  Works(y, r, run, d)
<1>1. /\ y \in WorkerType /\ Kept(x, y) /\ PlanOK(y) /\ RecreateInTurn(x, y)
      /\ WithinSurge(y, Spread(x.l)) /\ KeepsAvailable(y, Spread(x.l))
      /\ y.via = "rollback" => x.via = "rollback"
  BY DEF Planned
<1>2. /\ y.d = x.d /\ y.dCur = x.dCur /\ y.l = x.l /\ y.lCur = x.lCur
      /\ y.oldRuns = x.oldRuns /\ y.fresh = x.fresh /\ T(y) = T(x)
  BY <1>1 DEF Kept, T
<1>3. x \in WorkerType /\ x.lCur \subseteq Tmpls
  BY WorkerFields DEF Good
<1>4. \A t \in Tmpls : /\ x.l[t].exists \in BOOLEAN /\ x.l[t].replicas \in Nat
                       /\ x.l[t].pods \in Nat
  BY <1>3, ObjectFields
<1>5. Current(y, r)
  BY <1>2, <1>3, <1>4 DEF Current
<1>6. y.lCur = Tmpls => KeepsAvailable(y, Spread(r))
  <2> SUFFICES ASSUME x.lCur = Tmpls PROVE KeepsAvailable(y, Spread(r))
    BY <1>2
  <2>1. Spread(r) = Spread(x.l)
    BY DEF Spread
  <2> QED  BY <1>1, <2>1
<1>7. Fresh(y, r, run)
  <2> SUFFICES ASSUME x.fresh
               PROVE  /\ Mirror(y, r) /\ (y.pc = "rollback" => Topmost(y))
                      /\ WithinSurge(y, Spread(r)) /\ PodsSeen(y, run)
                      /\ y.via = "recreateNew" => Clear(y, r, run)
                      /\ y.via = "recreate" /\ y.pc = "resize" =>
                           Clear(y, r, run) \/ \A i \in DOMAIN y.todo : y.todo[i].n = 0
    BY <1>2 DEF Fresh
  <2>1. Mirror(y, r)
    BY <1>1, <1>2 DEF Mirror
  <2>2. y.pc = "rollback" => Topmost(y)
    BY <1>2 DEF Topmost, Old, All
  <2>3. WithinSurge(y, Spread(r))
    <3>1. Spread(r) = Spread(x.l)
      BY DEF Spread, Mirror
    <3> QED  BY <1>1, <3>1
  <2>4. PodsSeen(y, run)
    BY <1>2 DEF PodsSeen
  <2>5. ASSUME Ready(x) PROVE Clear(y, r, run)
    <3> SUFFICES ASSUME NEW t \in Tmpls, t # T(x), r[t].exists
                 PROVE  run[t] = 0 /\ r[t].replicas = 0
      BY <1>2 DEF Clear
    <3>1. x.l[t].exists /\ t \in Old(x) /\ r[t].replicas = x.l[t].replicas
      BY DEF Mirror, Old, All
    <3>2. x.l[t].replicas = 0
      BY <1>4, <2>5, <3>1 DEF Ready, FilterActive
    <3>3. ~x.oldRuns /\ ~(Total(Pods(x), Old(x)) > 0)
      BY <2>5 DEF Ready, oldPodsRunning
    <3>4. x.l[t].pods = 0
      <4>1. Old(x) \subseteq Tmpls /\ IsFiniteSet(Old(x))
        <5>1. Old(x) \subseteq Tmpls
          BY DEF Old, All
        <5> QED  BY <5>1, DeploymentAssumption, FS_Subset
      <4>2. \A u \in Old(x) : Pods(x)[u] \in Nat
        BY <1>4, <4>1 DEF Pods
      <4>3. Pods(x)[t] <= Total(Pods(x), Old(x)) /\ Total(Pods(x), Old(x)) \in Nat
        BY <3>1, <4>1, <4>2, TotalNat, TotalTerm
      <4>4. Pods(x)[t] = x.l[t].pods
        BY DEF Pods
      <4> QED  BY <1>4, <3>3, <4>3, <4>4
    <3> QED  BY <3>1, <3>2, <3>3, <3>4 DEF PodsSeen
  <2>6. y.via = "recreateNew" => Clear(y, r, run)
    <3>1. Clear(x, r, run) => Clear(y, r, run)
      BY <1>2 DEF Clear
    <3> QED  BY <1>1, <2>5, <3>1 DEF RecreateInTurn
  <2>7. y.via = "recreate" /\ y.pc = "resize" =>
          Clear(y, r, run) \/ \A i \in DOMAIN y.todo : y.todo[i].n = 0
    BY <1>1, <2>5 DEF RecreateInTurn
  <2> QED  BY <2>1, <2>2, <2>3, <2>4, <2>6, <2>7
<1> QED  BY <1>1, <1>2, <1>5, <1>6, <1>7 DEF Works

(* A worker that only takes less for current. *)
LEMMA LessCurrent ==
  ASSUME NEW x, NEW r, NEW run, NEW d, Works(x, r, run, d),
         NEW y \in WorkerType, NEW d1,
         y.pc = x.pc, y.via = x.via, y.d = x.d, y.l = x.l, y.oldRuns = x.oldRuns,
         y.todo = x.todo, y.fresh = x.fresh,
         y.lCur \subseteq x.lCur, y.dCur => x.d = d1
  PROVE  Works(y, r, run, d1)
<1>1. /\ x \in WorkerType /\ Current(x, r) /\ PlanOK(x) /\ Fresh(x, r, run)
      /\ x.lCur = Tmpls => KeepsAvailable(x, Spread(r))
      /\ x.lCur \subseteq Tmpls
  BY WorkerFields DEF Works
<1>2. T(y) = T(x) /\ All(y) = All(x) /\ Old(y) = Old(x) /\ NewRevision(y) = NewRevision(x)
  BY DEF T, All, Old, NewRevision, MaxOldRevision
<1>3. PlanOK(y)
  BY <1>1, <1>2 DEF PlanOK, ViaOK, TodoOK, Settled, Creating, FilterActive
<1>4. Current(y, r)
  BY <1>1 DEF Current
<1>5. /\ WithinSurge(y, Spread(r)) = WithinSurge(x, Spread(r))
      /\ KeepsAvailable(y, Spread(r)) = KeepsAvailable(x, Spread(r))
  <2>1. Grows(y) = Grows(x)
    BY <1>2 DEF Grows, FilterActive, Replicas
  <2>2. Falls(y, Spread(r)) = Falls(x, Spread(r)) /\ Ceiling(y, Spread(r)) = Ceiling(x, Spread(r))
    BY DEF Falls, Ceiling
  <2>3. Floor(y, Spread(r)) = Floor(x, Spread(r))
    BY DEF Floor, Leaves
  <2> QED  BY <2>1, <2>2, <2>3 DEF WithinSurge, KeepsAvailable
<1>6. Fresh(y, r, run)
  <2>1. Mirror(y, r) = Mirror(x, r) /\ Topmost(y) = Topmost(x)
    BY <1>2 DEF Mirror, Topmost
  <2>2. PodsSeen(y, run) = PodsSeen(x, run) /\ Clear(y, r, run) = Clear(x, r, run)
    BY <1>2 DEF PodsSeen, Clear
  <2> QED  BY <1>1, <1>5, <2>1, <2>2 DEF Fresh
<1>7. y.lCur = Tmpls => KeepsAvailable(y, Spread(r))
  BY <1>1, <1>5
<1> QED  BY <1>3, <1>4, <1>6, <1>7 DEF Works

(* What the invariant says of the worker and its copies. *)
LEMMA WorkerState ==
  ASSUME IInv
  PROVE  /\ w \in WorkerType /\ Good(w) /\ scenario \in Scenarios
         /\ (w.dCur => w.d = dep) /\ Current(w, rs) /\ ViaOK(w) /\ TodoOK(w)
         /\ Fresh(w, rs, running)
         /\ w.lCur = Tmpls => KeepsAvailable(w, Spread(rs))
         /\ \A t \in Tmpls : /\ rs[t] \in RSType /\ seenRS[t] \in RSType
                             /\ Sane(rs[t]) /\ Sane(seenRS[t])
<1>1. w \in WorkerType
  BY DEF IInv, Works
<1>2. Good(w)
  <2>1. CopiesOK(rs, seenRS, w.l, births)
    BY DEF IInv
  <2>2. \A t \in Tmpls : w.l[t] \in Told(t, rs, seenRS, w.l)
    BY DEF Told
  <2> QED  BY <1>1, <2>1, <2>2, CopyGood
<1>3. \A t \in Tmpls : Sane(rs[t]) /\ Sane(seenRS[t])
  BY DEF IInv, CopiesOK, Told
<1> QED  BY <1>1, <1>2, <1>3 DEF IInv, Works, PlanOK, ReplicaSetsOK, CountsOK

(* The entries of the copies have numbers. *)
LEMMA CopyTypes ==
  ASSUME IInv
  PROVE  /\ births \in Nat
         /\ \A u \in Tmpls : \A a \in Told(u, rs, seenRS, w.l) : a.born \in Int
<1>1. w.l \in [Tmpls -> RSType] /\ rs \in [Tmpls -> RSType] /\ seenRS \in [Tmpls -> RSType]
  BY WorkerState, WorkerFields DEF IInv, ReplicaSetsOK
<1>2. MaxRev \in Nat /\ births \in 0..MaxRev
  BY DeploymentAssumption DEF IInv, CountsOK
<1>3. \A u \in Tmpls : \A a \in Told(u, rs, seenRS, w.l) : a \in RSType
  BY <1>1 DEF Told
<1> QED  BY <1>2, <1>3 DEF RSType

(* Nothing was written to a ReplicaSet, and the worker took its copies from *)
(* the others.                                                              *)
LEMMA CopiesKept ==
  ASSUME IInv, NEW q1, NEW l1,
         \A u \in Tmpls : /\ q1[u] \in Told(u, rs, seenRS, w.l)
                          /\ l1[u] \in Told(u, rs, seenRS, w.l) \cup {NoRS}
  PROVE  CopiesOK(rs, q1, l1, births)
<1>1. births \in Nat /\ \A u \in Tmpls : \A a \in Told(u, rs, seenRS, w.l) : a.born \in Int
  BY CopyTypes
<1>2. CopiesOK(rs, seenRS, w.l, births)
  BY DEF IInv
<1> DEFINE e == NoRS
<1>3. Sane(e) /\ ~e.exists /\ e.born \in Int /\ e.born <= births
  BY <1>1 DEF NoRS, Sane
<1>4. \A u \in Tmpls : Told(u, rs, q1, l1) \subseteq
                         Told(u, rs, seenRS, w.l) \cup {NoRS} \cup
                           IF u = FirstTmpl THEN {e} ELSE {}
  BY DEF Told
<1> HIDE DEF e
<1> QED  BY <1>1, <1>2, <1>3, <1>4, DeploymentAssumption, CopiesStep

(* The sync is over. *)
LEMMA ToIdle ==
  ASSUME IInv, w' = Idle, UNCHANGED <<rsVars, births>>, DeploymentsOK', QueueOK', CountsOK'
  PROVE  IInv'
<1>1. Works(Idle, rs, running', dep') /\ Idle.l = [t \in Tmpls |-> NoRS]
  BY IdleWorks
<1>2. CopiesOK(rs, seenRS, Idle.l, births)
  <2>1. \A u \in Tmpls : seenRS[u] \in Told(u, rs, seenRS, w.l) /\ Idle.l[u] = NoRS
    BY <1>1 DEF Told
  <2> HIDE DEF Idle
  <2> QED  BY <2>1, CopiesKept
<1>3. ReplicaSetsOK'
  BY DEF IInv, ReplicaSetsOK, rsVars
<1> HIDE DEF Idle
<1> QED  BY <1>1, <1>2, <1>3 DEF IInv, rsVars

(* Deployments.UpdateStatus and Update. *)
LEMMA UpdateDepStep ==
  ASSUME DeploymentsOK, QueueOK, NEW o \in DepType, NEW y, UpdateDep(o, y)
  PROVE  /\ DeploymentsOK' /\ queued' \in BOOLEAN /\ retries' \in 0..MaxRetries
         /\ \/ w' = Idle
            \/ w' = [y EXCEPT !.d = o, !.dCur = FALSE]
<1>1. MaxRetries \in Nat /\ retries \in 0..MaxRetries /\ queued \in BOOLEAN
  BY DeploymentAssumption DEF QueueOK
<1>2. CASE /\ w.dCur /\ StoreDep(o) /\ Event("deployments")
           /\ Become(IF y = Idle THEN y ELSE [y EXCEPT !.d = o, !.dCur = FALSE])
  <2>1. queued' \in BOOLEAN
    BY <1>2 DEF Event
  <2>2. retries' \in 0..MaxRetries
    BY <1>1, <1>2 DEF Become
  <2>3. DeploymentsOK'
    BY <1>2 DEF StoreDep, DeploymentsOK
  <2>4. \/ w' = Idle
        \/ w' = [y EXCEPT !.d = o, !.dCur = FALSE]
    BY <1>2 DEF Become
  <2> QED  BY <2>1, <2>2, <2>3, <2>4
<1>3. CASE ~w.dCur /\ ReturnErr /\ UNCHANGED depVars
  <2>1. queued' \in BOOLEAN
    BY <1>3 DEF ReturnErr, ReturnErrAfter
  <2>2. retries' \in 0..MaxRetries
    BY <1>1, <1>3 DEF ReturnErr, ReturnErrAfter
  <2>3. DeploymentsOK' /\ w' = Idle
    BY <1>3 DEF depVars, DeploymentsOK, ReturnErr, ReturnErrAfter
  <2> QED  BY <2>1, <2>2, <2>3
<1> QED  BY <1>2, <1>3 DEF UpdateDep

(* The Deployment is written and the worker goes on as planned. *)
LEMMA DepWritten ==
  ASSUME IInv, NEW o \in DepType, NEW x, Good(x), x.d = o, NEW y, Planned(x, y), UpdateDep(o, y),
         \A t \in Tmpls : x.l[t] \in Told(t, rs, seenRS, w.l),
         \A t \in x.lCur : rs[t] = x.l[t],
         x.fresh => /\ Mirror(x, rs) /\ PodsSeen(x, running)
                    /\ x.via = "recreateNew" => Clear(x, rs, running)
                    /\ y.pc = "rollback" => Topmost(x),
         UNCHANGED <<rsVars, running, births, stalled, timer, scenario, bounds>>
  PROVE  IInv'
<1>1. /\ DeploymentsOK' /\ queued' \in BOOLEAN /\ retries' \in 0..MaxRetries
      /\ w' = Idle \/ w' = [y EXCEPT !.d = o, !.dCur = FALSE]
  BY UpdateDepStep DEF IInv
<1>2. QueueOK' /\ CountsOK' /\ ReplicaSetsOK'
  BY <1>1 DEF IInv, QueueOK, CountsOK, ReplicaSetsOK, rsVars, bounds
<1>3. CASE w' = Idle
  BY <1>1, <1>2, <1>3, ToIdle DEF rsVars
<1>4. CASE w' = [y EXCEPT !.d = o, !.dCur = FALSE]
  <2>1. Works(y, rs, running, x.d)
    <3>1. rs \in [Tmpls -> RSType]
      BY DEF IInv, ReplicaSetsOK
    <3> QED  BY <3>1, PlanWorks
  <2>2. y \in WorkerType /\ Kept(x, y)
    BY DEF Planned
  <2>3. /\ w' \in WorkerType /\ w'.pc = y.pc /\ w'.via = y.via /\ w'.d = y.d /\ w'.l = y.l
        /\ w'.oldRuns = y.oldRuns /\ w'.todo = y.todo /\ w'.fresh = y.fresh
        /\ w'.lCur = y.lCur /\ w'.dCur = FALSE
    <3>1. y.d = o
      BY <2>2 DEF Kept
    <3> QED  BY <1>4, <2>2, <3>1 DEF WorkerType
  <2>4. Works(w', rs, running, dep')
    BY <2>1, <2>3, LessCurrent
  <2>5. CopiesOK(rs, seenRS, w'.l, births)
    <3>1. \A u \in Tmpls : w'.l[u] \in Told(u, rs, seenRS, w.l) /\ seenRS[u] \in Told(u, rs, seenRS, w.l)
      BY <2>2, <2>3 DEF Kept, Told
    <3> QED  BY <3>1, CopiesKept
  <2> QED  BY <1>1, <1>2, <2>4, <2>5 DEF IInv, rsVars
<1> QED  BY <1>1, <1>3, <1>4

(* A worker that asks for its ReplicaSets. *)
LEMMA Asking ==
  ASSUME IInv, w.pc \in {"conditions", "newRS", "stampNew"}
  PROVE  /\ Fit(w)
         /\ \A t \in w.lCur : rs[t] = w.l[t]
         /\ w.fresh => /\ Mirror(w, rs) /\ PodsSeen(w, running)
                       /\ w.via = "recreateNew" => Clear(w, rs, running)
<1>1. Good(w) /\ Current(w, rs) /\ ViaOK(w) /\ Fresh(w, rs, running)
  BY WorkerState
<1>2. Fit(w)
  BY <1>1 DEF ViaOK, Fit
<1>3. \A t \in w.lCur : rs[t] = w.l[t]
  BY <1>1 DEF Current
<1>4. w.pc = "conditions" => w.via # "recreateNew"
  BY <1>1 DEF ViaOK
<1> QED  BY <1>1, <1>2, <1>3, <1>4 DEF Fresh

(* A copy of the Deployment with the same spec changes no plan. *)
LEMMA SameSpec ==
  ASSUME NEW x \in WorkerType, NEW o \in DepType, o.tmpl = x.d.tmpl,
         o.replicas = x.d.replicas, o.strategy = x.d.strategy,
         NEW y, y = [x EXCEPT !.d = o]
  PROVE  /\ y \in WorkerType /\ y.d = o /\ y.pc = x.pc /\ y.via = x.via /\ y.l = x.l
         /\ y.lCur = x.lCur /\ y.fresh = x.fresh /\ T(y) = T(x)
         /\ NewRevision(y) = NewRevision(x) /\ Creating(y) = Creating(x)
         /\ Fit(x) => Fit(y)
         /\ \A r : Mirror(y, r) = Mirror(x, r)
         /\ \A run : PodsSeen(y, run) = PodsSeen(x, run)
         /\ \A r, run : Clear(y, r, run) = Clear(x, r, run)
<1>1. /\ y \in WorkerType /\ y.d = o /\ y.pc = x.pc /\ y.via = x.via /\ y.l = x.l
      /\ y.lCur = x.lCur /\ y.fresh = x.fresh /\ y.oldRuns = x.oldRuns
  BY DEF WorkerType
<1>2. T(y) = T(x) /\ All(y) = All(x)
  BY <1>1 DEF T, All
<1>3. Old(y) = Old(x)
  BY <1>2 DEF Old
<1>4. NewRevision(y) = NewRevision(x) /\ Creating(y) = Creating(x)
  <2>1. y.l = x.l /\ y.via = x.via
    BY <1>1
  <2> QED  BY ONLY <1>3, <2>1 DEF NewRevision, MaxOldRevision, Creating
<1>5. Fit(x) => Fit(y)
  BY <1>1, <1>3 DEF Fit, Good, Settled, FilterActive, IsRollingUpdate
<1>6. \A r : Mirror(y, r) = Mirror(x, r)
  BY <1>1 DEF Mirror
<1>7. \A run : PodsSeen(y, run) = PodsSeen(x, run)
  BY <1>1, <1>2 DEF PodsSeen
<1>8. \A r, run : Clear(y, r, run) = Clear(x, r, run)
  BY <1>2 DEF Clear
<1> QED  BY <1>1, <1>2, <1>4, <1>5, <1>6, <1>7, <1>8

(* A Deployment with another status or revision. *)
LEMMA DeploymentWith ==
  ASSUME NEW d \in DepType
  PROVE  /\ \A s \in StatusType :
               LET o == [d EXCEPT !.st = s]
               IN  /\ o \in DepType /\ o.tmpl = d.tmpl /\ o.replicas = d.replicas
                   /\ o.strategy = d.strategy /\ o.rollbackTo = d.rollbackTo
         /\ \A v \in 0..MaxRev, s \in StatusType :
               LET o == [d EXCEPT !.rev = v, !.st = s]
               IN  /\ o \in DepType /\ o.tmpl = d.tmpl /\ o.replicas = d.replicas
                   /\ o.strategy = d.strategy /\ o.rollbackTo = d.rollbackTo
         /\ \A v \in 0..MaxRev :
               LET o == [d EXCEPT !.rev = v]
               IN  /\ o \in DepType /\ o.tmpl = d.tmpl /\ o.replicas = d.replicas
                   /\ o.strategy = d.strategy /\ o.rollbackTo = d.rollbackTo
         /\ d.st \in StatusType
BY DEF DepType

(* A condition set is a status. *)
LEMMA ProgressingStatus ==
  ASSUME NEW s \in StatusType, NEW reason \in Reasons
  PROVE  SetProgressing(s, reason) \in StatusType
BY DEF SetProgressing, StatusType

(* The worker of an action that writes the Deployment's status or revision  *)
(* goes on as it had planned.                                               *)
LEMMA SyncGoesOn ==
  ASSUME IInv, w.pc \in {"conditions", "newRS", "stampNew"},
         NEW o \in DepType, o.tmpl = w.d.tmpl, o.replicas = w.d.replicas, o.strategy = w.d.strategy,
         NEW x, x = [w EXCEPT !.d = o], NEW y, Planned(x, y), UpdateDep(o, y),
         y.pc = "rollback" => Topmost(x),
         UNCHANGED <<rsVars, running, births, stalled, timer, scenario, bounds>>
  PROVE  IInv'
<1>1. w \in WorkerType
  BY WorkerState
<1>2. /\ Fit(w) /\ \A t \in w.lCur : rs[t] = w.l[t]
      /\ w.fresh => /\ Mirror(w, rs) /\ PodsSeen(w, running)
                    /\ w.via = "recreateNew" => Clear(w, rs, running)
  BY Asking
<1>3. /\ x.d = o /\ x.via = w.via /\ x.l = w.l /\ x.lCur = w.lCur /\ x.fresh = w.fresh
      /\ Fit(x) /\ Mirror(x, rs) = Mirror(w, rs)
      /\ PodsSeen(x, running) = PodsSeen(w, running)
      /\ Clear(x, rs, running) = Clear(w, rs, running)
  BY <1>1, <1>2, SameSpec
<1>4. Good(x)
  BY <1>3 DEF Fit
<1>5. \A t \in Tmpls : x.l[t] \in Told(t, rs, seenRS, w.l)
  BY <1>3 DEF Told
<1>6. x.fresh => /\ Mirror(x, rs) /\ PodsSeen(x, running)
                 /\ x.via = "recreateNew" => Clear(x, rs, running)
                 /\ y.pc = "rollback" => Topmost(x)
  BY <1>2, <1>3
<1>7. \A t \in x.lCur : rs[t] = x.l[t]
  BY <1>2, <1>3
<1> QED  BY <1>3, <1>4, <1>5, <1>6, <1>7, DepWritten

(* checkPausedConditions, FoundNewRS and StampNew keep the invariant. *)
LEMMA PausedInv ==
  ASSUME IInv, checkPausedConditions PROVE IInv'
<1> DEFINE reason == IF w.d.paused THEN "DeploymentPaused" ELSE "DeploymentResumed"
           o == [w.d EXCEPT !.st = SetProgressing(@, reason)]
           x == [w EXCEPT !.d = o]
<1>1. w \in WorkerType /\ w.d \in DepType /\ scenario \in Scenarios
  BY WorkerState, WorkerFields
<1>2. w.pc = "conditions" /\ UpdateDep(o, Begin(x))
      /\ UNCHANGED <<rsVars, running, births, stalled, timer, scenario, bounds>>
  BY DEF checkPausedConditions
<1>3. o \in DepType /\ o.tmpl = w.d.tmpl /\ o.replicas = w.d.replicas /\ o.strategy = w.d.strategy
  <2>1. reason \in Reasons
    BY DEF Reasons
  <2>2. SetProgressing(w.d.st, reason) \in StatusType
    BY <1>1, <2>1, DeploymentWith, ProgressingStatus
  <2> QED  BY <1>1, <2>2, DeploymentWith
<1> HIDE DEF o
<1>4. Fit(x)
  <2>1. Fit(w)
    BY <1>2, Asking
  <2> QED  BY <1>1, <1>3, <2>1, SameSpec
<1>5. Planned(x, Begin(x)) /\ (Begin(x).pc = "rollback" => Topmost(x))
  BY <1>1, <1>4, BeginPlanned
<1> HIDE DEF x
<1>6. x = [w EXCEPT !.d = o]
  BY DEF x
<1> DEFINE y == Begin(x)
<1>7. Planned(x, y) /\ (y.pc = "rollback" => Topmost(x)) /\ UpdateDep(o, y)
  BY <1>2, <1>5, <1>6
<1> HIDE DEF y
<1> QED  BY <1>2, <1>3, <1>6, <1>7, SyncGoesOn

(* getNewReplicaSet with the ReplicaSet found. *)
LEMMA FoundInv ==
  ASSUME IInv, FoundNewRS PROVE IInv'
<1> DEFINE r == w.l[T(w)]
           s == IF w.d.st.prog = "none" THEN SetProgressing(w.d.st, "FoundNewReplicaSet")
                ELSE w.d.st
           o == [w.d EXCEPT !.rev = r.rev, !.st = s]
           x == [w EXCEPT !.d = o]
<1>1. w \in WorkerType /\ w.d \in DepType /\ scenario \in Scenarios /\ T(w) \in Tmpls
  BY WorkerState, WorkerFields
<1>2. /\ w.pc = "newRS" /\ r.exists /\ r.rev >= NewRevision(w) /\ UpdateDep(o, Continue(x))
      /\ UNCHANGED <<rsVars, running, births, stalled, timer, scenario, bounds>>
  BY DEF FoundNewRS
<1>3. o \in DepType /\ o.tmpl = w.d.tmpl /\ o.replicas = w.d.replicas /\ o.strategy = w.d.strategy
  <2>1. "FoundNewReplicaSet" \in Reasons
    BY DEF Reasons
  <2>2. s \in StatusType
    BY <1>1, <2>1, DeploymentWith, ProgressingStatus
  <2>3. r.rev \in 0..MaxRev
    BY <1>1, ObjectFields
  <2> HIDE DEF s, r
  <2> QED  BY <1>1, <2>2, <2>3 DEF DepType
<1> HIDE DEF o
<1>4. Fit(x) /\ x.l = w.l /\ T(x) = T(w) /\ NewRevision(x) = NewRevision(w) /\ x \in WorkerType
  <2>1. Fit(w)
    BY <1>2, Asking
  <2> QED  BY <1>1, <1>3, <2>1, SameSpec
<1> HIDE DEF x
<1>5. x = [w EXCEPT !.d = o]
  BY DEF x
<1>6. Topmost(x)
  <2>1. NewRevision(x) \in Nat /\ x.l[T(x)].rev \in Nat
    BY <1>1, <1>4, RevisionAbove, ObjectFields, DeploymentAssumption
  <2>2. x.l[T(x)].exists /\ ~(x.l[T(x)].rev < NewRevision(x))
    BY <1>2, <1>4, <2>1
  <2> QED  BY <1>4, <2>2, NewestTopmost
<1> DEFINE y == Continue(x)
<1>7. Planned(x, y) /\ UpdateDep(o, y)
  BY <1>1, <1>2, <1>4, <1>5, ContinuePlanned
<1> HIDE DEF y
<1> QED  BY <1>2, <1>3, <1>5, <1>6, <1>7, SyncGoesOn

(* The status write after a creation. *)
LEMMA StampInv ==
  ASSUME IInv, StampNew PROVE IInv'
<1> DEFINE r == w.l[T(w)]
           s == SetProgressing(w.d.st, "NewReplicaSetCreated")
           o == [w.d EXCEPT !.rev = r.rev, !.st = s]
           x == [w EXCEPT !.d = o]
<1>1. w \in WorkerType /\ w.d \in DepType /\ scenario \in Scenarios /\ T(w) \in Tmpls /\ ViaOK(w)
  BY WorkerState, WorkerFields
<1>2. /\ w.pc = "stampNew" /\ UpdateDep(o, Continue(x))
      /\ UNCHANGED <<rsVars, running, births, stalled, timer, scenario, bounds>>
  BY DEF StampNew
<1>3. o \in DepType /\ o.tmpl = w.d.tmpl /\ o.replicas = w.d.replicas /\ o.strategy = w.d.strategy
  <2>1. "NewReplicaSetCreated" \in Reasons
    BY DEF Reasons
  <2>2. s \in StatusType
    BY <1>1, <2>1, DeploymentWith, ProgressingStatus
  <2>3. r.rev \in 0..MaxRev
    BY <1>1, ObjectFields
  <2> HIDE DEF s, r
  <2> QED  BY <1>1, <2>2, <2>3 DEF DepType
<1> HIDE DEF o
<1>4. Fit(x) /\ x.l = w.l /\ T(x) = T(w) /\ NewRevision(x) = NewRevision(w) /\ x \in WorkerType
  <2>1. Fit(w)
    BY <1>2, Asking
  <2> QED  BY <1>1, <1>3, <2>1, SameSpec
<1> HIDE DEF x
<1>5. x = [w EXCEPT !.d = o]
  BY DEF x
<1>6. Topmost(x) /\ x.l[T(x)].exists
  <2>1. NewRevision(x) \in Nat
    BY <1>4, RevisionAbove
  <2>2. x.l[T(x)].exists /\ ~(x.l[T(x)].rev < NewRevision(x))
    BY <1>1, <1>2, <1>4, <2>1 DEF ViaOK
  <2> QED  BY <1>4, <2>2, NewestTopmost
<1> DEFINE y == Continue(x)
<1>7. Planned(x, y) /\ UpdateDep(o, y)
  BY <1>1, <1>2, <1>4, <1>5, <1>6, ContinuePlanned
<1> HIDE DEF y
<1> QED  BY <1>2, <1>3, <1>5, <1>6, <1>7, SyncGoesOn

(* A status write on the way to an error ends the sync. *)
LEMMA UpdateDepFails ==
  ASSUME DeploymentsOK, QueueOK, NEW o \in DepType, UpdateDepAndFail(o)
  PROVE  DeploymentsOK' /\ queued' \in BOOLEAN /\ retries' \in 0..MaxRetries /\ w' = Idle
<1>1. MaxRetries \in Nat /\ retries \in 0..MaxRetries /\ queued \in BOOLEAN
  BY DeploymentAssumption DEF QueueOK
<1>2. CASE StoreDep(o) /\ ReturnErrAfter("deployments" \notin stalled)
  <2>1. queued' \in BOOLEAN
    BY <1>2 DEF ReturnErrAfter
  <2>2. retries' \in 0..MaxRetries
    BY <1>1, <1>2 DEF ReturnErrAfter
  <2>3. DeploymentsOK' /\ w' = Idle
    BY <1>2 DEF StoreDep, DeploymentsOK, ReturnErrAfter
  <2> QED  BY <2>1, <2>2, <2>3
<1>3. CASE ReturnErr /\ UNCHANGED depVars
  <2>1. queued' \in BOOLEAN
    BY <1>3 DEF ReturnErr, ReturnErrAfter
  <2>2. retries' \in 0..MaxRetries
    BY <1>1, <1>3 DEF ReturnErr, ReturnErrAfter
  <2>3. DeploymentsOK' /\ w' = Idle
    BY <1>3 DEF depVars, DeploymentsOK, ReturnErr, ReturnErrAfter
  <2> QED  BY <2>1, <2>2, <2>3
<1> QED  BY <1>2, <1>3 DEF UpdateDepAndFail

(* CreateCollides and CreateFails keep the invariant. *)
LEMMA CollideInv ==
  ASSUME IInv, CreateCollides PROVE IInv'
<1> DEFINE o == [w.d EXCEPT !.st.collisions = 1]
<1>1. w.d \in DepType
  BY WorkerState, WorkerFields
<1>2. o \in DepType
  BY <1>1 DEF DepType, StatusType
<1>3. /\ UpdateDepAndFail(o)
      /\ UNCHANGED <<rsVars, running, births, stalled, timer, scenario, bounds>>
  BY DEF CreateCollides
<1> HIDE DEF o
<1>4. DeploymentsOK' /\ queued' \in BOOLEAN /\ retries' \in 0..MaxRetries /\ w' = Idle
  BY <1>2, <1>3, UpdateDepFails DEF IInv
<1>5. QueueOK' /\ CountsOK'
  BY <1>3, <1>4 DEF IInv, QueueOK, CountsOK, bounds
<1> QED  BY <1>3, <1>4, <1>5, ToIdle

(* A fault is counted. *)
LEMMA StrikesCounted ==
  ASSUME CountsOK, NEW kind, Strikes(kind), UNCHANGED <<births, scenario, edits>>,
         running' \in [Tmpls -> Nat]
  PROVE  CountsOK'
<1>1. scenario \in ScenarioType
  BY DeploymentAssumption DEF CountsOK
<1>2. scenario.maxFaults \in Nat
  BY <1>1 DEF ScenarioType
<1>3. faults' = faults + 1 /\ faults < scenario.maxFaults /\ faults \in 0..scenario.maxFaults
  BY DEF Strikes, CountsOK
<1>4. faults' \in 0..scenario.maxFaults
  BY <1>2, <1>3
<1> QED  BY <1>4 DEF CountsOK

(* A creation that fails. *)
LEMMA CreateFailsInv ==
  ASSUME IInv, CreateFails PROVE IInv'
<1> DEFINE s == SetProgressing(w.d.st, "ReplicaSetCreateError")
           o == [w.d EXCEPT !.st = s]
<1>1. w.d \in DepType
  BY WorkerState, WorkerFields
<1>2. o \in DepType
  <2>1. "ReplicaSetCreateError" \in Reasons
    BY DEF Reasons
  <2>2. s \in StatusType
    BY <1>1, <2>1, DeploymentWith, ProgressingStatus
  <2> HIDE DEF s
  <2> QED  BY <1>1, <2>2 DEF DepType
<1>3. /\ UpdateDepAndFail(o) /\ Strikes("create")
      /\ UNCHANGED <<rsVars, running, births, stalled, timer, scenario, edits>>
  BY DEF CreateFails
<1> HIDE DEF o
<1>4. DeploymentsOK' /\ queued' \in BOOLEAN /\ retries' \in 0..MaxRetries /\ w' = Idle
  BY <1>2, <1>3, UpdateDepFails DEF IInv
<1>5. QueueOK'
  BY <1>3, <1>4 DEF IInv, QueueOK
<1>6. CountsOK'
  <2>1. running' \in [Tmpls -> Nat]
    BY <1>3 DEF IInv, CountsOK
  <2> QED  BY <1>3, <2>1, StrikesCounted DEF IInv
<1> QED  BY <1>3, <1>4, <1>5, <1>6, ToIdle

(* The status that is written is one. *)
LEMMA StatusTyped ==
  ASSUME NEW x, Good(x)
  PROVE  SyncedStatus(x) \in StatusType
<1>1. x \in WorkerType /\ x.d \in DepType /\ T(x) \in Tmpls
  BY WorkerFields DEF Good
<1>2. x.d.st \in StatusType
  BY <1>1 DEF DepType
<1>3. All(x) \subseteq Tmpls /\ IsFiniteSet(All(x))
  <2>1. All(x) \subseteq Tmpls
    BY DEF All
  <2> QED  BY <2>1, DeploymentAssumption, FS_Subset
<1>4. Total(Avail(x), All(x)) \in Nat /\ Total(Pods(x), All(x)) \in Nat
  <2>1. \A u \in All(x) : Avail(x)[u] \in Nat /\ Pods(x)[u] \in Nat
    BY <1>1, <1>3, ObjectFields DEF Avail, Pods
  <2> QED  BY <1>3, <2>1, TotalNat
<1>5. x.l[T(x)].pods \in Nat
  BY <1>1, ObjectFields
<1>6. calculateStatus(x) \in StatusType
  <2> DEFINE a == Total(Avail(x), All(x))
             b == Total(Pods(x), All(x))
             c == (a >= MinAvailable(x.d))
  <2>1. c \in BOOLEAN
    OBVIOUS
  <2>2. calculateStatus(x) =
          [x.d.st EXCEPT !.observed = TRUE, !.total = b, !.updated = x.l[T(x)].pods,
                         !.available = a, !.minAvail = c]
    BY DEF calculateStatus
  <2> HIDE DEF a, b, c
  <2>3. a \in Nat /\ b \in Nat
    BY <1>4 DEF a, b
  <2> QED  BY <1>2, <1>5, <2>1, <2>2, <2>3 DEF StatusType
<1>7. RolloutStatus(x) \in StatusType
  <2> DEFINE f == getReplicaFailures(x)
             s == [calculateStatus(x) EXCEPT !.failure = f]
  <2>1. f \in BOOLEAN
    BY DEF getReplicaFailures
  <2> HIDE DEF f
  <2>2. s \in StatusType
    BY <1>6, <2>1 DEF StatusType
  <2>3. \/ RolloutStatus(x) = s
        \/ RolloutStatus(x) = SetProgressing(s, "NewReplicaSetAvailable")
        \/ RolloutStatus(x) = [s EXCEPT !.prog = "ReplicaSetUpdated", !.progOld = FALSE]
        \/ RolloutStatus(x) = SetProgressing(s, "ProgressDeadlineExceeded")
    BY DEF RolloutStatus, f
  <2> HIDE DEF s
  <2>4. /\ "NewReplicaSetAvailable" \in Reasons /\ "ProgressDeadlineExceeded" \in Reasons
        /\ "ReplicaSetUpdated" \in Reasons
    BY DEF Reasons
  <2>5. /\ SetProgressing(s, "NewReplicaSetAvailable") \in StatusType
        /\ SetProgressing(s, "ProgressDeadlineExceeded") \in StatusType
    BY <2>2, <2>4, ProgressingStatus
  <2>6. [s EXCEPT !.prog = "ReplicaSetUpdated", !.progOld = FALSE] \in StatusType
    BY <2>2, <2>4 DEF StatusType
  <2> QED  BY <2>2, <2>3, <2>5, <2>6
<1> QED  BY <1>6, <1>7 DEF SyncedStatus

(* The status write at the end of a sync. *)
LEMMA SyncStatusInv ==
  ASSUME IInv, SyncStatus PROVE IInv'
<1> DEFINE s == SyncedStatus(w)
           o == [w.d EXCEPT !.st = s]
<1>1. w.d \in DepType /\ Good(w)
  BY WorkerState, WorkerFields
<1>2. s \in StatusType
  BY <1>1, StatusTyped
<1>3. o \in DepType
  <2> HIDE DEF s
  <2> QED  BY <1>1, <1>2 DEF DepType
<1>4. UNCHANGED <<rsVars, running, births, stalled, scenario, bounds>>
  BY DEF SyncStatus
<1>5. CountsOK'
  BY <1>4 DEF IInv, CountsOK, bounds
<1>6. CASE requeueStuckDeployment /\ Become(Idle) /\ UNCHANGED depVars
  <2>1. queued' \in BOOLEAN /\ timer' \in BOOLEAN
    BY <1>6 DEF requeueStuckDeployment
  <2>2. w' = Idle /\ retries' = 0 /\ 0 \in 0..MaxRetries
    BY <1>6, DeploymentAssumption DEF Become
  <2>3. DeploymentsOK'
    BY <1>6 DEF IInv, DeploymentsOK, depVars
  <2>4. QueueOK'
    BY <1>4, <2>1, <2>2 DEF IInv, QueueOK
  <2> QED  BY <1>4, <1>5, <2>2, <2>3, <2>4, ToIdle
<1>7. CASE UpdateDep(o, Idle) /\ UNCHANGED timer
  <2> HIDE DEF o
  <2>1. DeploymentsOK' /\ queued' \in BOOLEAN /\ retries' \in 0..MaxRetries
    BY <1>3, <1>7, UpdateDepStep DEF IInv
  <2>2. w' = Idle
    BY <1>7 DEF UpdateDep, Become, ReturnErr, ReturnErrAfter
  <2>3. QueueOK'
    BY <1>4, <1>7, <2>1 DEF IInv, QueueOK
  <2> QED  BY <1>4, <1>5, <2>1, <2>2, <2>3, ToIdle
<1> QED  BY <1>6, <1>7 DEF SyncStatus

(* A rollback finds the first ReplicaSet of the revision: the oldest of the *)
(* old ones, or the new one if there is no other.                           *)
LEMMA FirstFound ==
  ASSUME NEW x, Good(x), NEW found, found \subseteq All(x), found # {}
  PROVE  \E u \in found : \A v \in found \ {u} :
            v = T(x) \/ (u # T(x) /\ x.l[u].born < x.l[v].born)
<1>1. x \in WorkerType
  BY DEF Good
<1>2. \A u \in found : u \in Tmpls /\ x.l[u].exists /\ x.l[u].born \in Nat
  BY <1>1, ObjectFields, DeploymentAssumption DEF All
<1>3. CASE found \subseteq {T(x)}
  BY <1>3
<1>4. CASE ~(found \subseteq {T(x)})
  <2> DEFINE A == found \ {T(x)}
             B == {x.l[u].born : u \in A}
  <2>1. A # {} /\ B # {} /\ B \subseteq Nat
    BY <1>2, <1>4
  <2> HIDE DEF B
  <2>2. PICK b \in B : \A c \in B : b <= c
    BY <2>1, LeastExists
  <2>3. PICK u \in A : b = x.l[u].born
    BY <2>2 DEF B
  <2>4. \A v \in A : x.l[v].born \in B
    BY DEF B
  <2>5. ASSUME NEW v \in found \ {u}, v # T(x) PROVE x.l[u].born < x.l[v].born
    <3>1. x.l[u].born <= x.l[v].born
      BY <2>2, <2>3, <2>4, <2>5
    <3>2. x.l[u].born # x.l[v].born
      BY <1>2, <2>5 DEF Good
    <3> QED  BY <1>2, <3>1, <3>2
  <2> QED  BY <2>3, <2>5
<1> QED  BY <1>3, <1>4

(* The write of a rollback. *)
LEMMA RollbackInv ==
  ASSUME IInv, Rollback PROVE IInv'
<1> DEFINE r == RollbackRevision(w)
           found == {u \in All(w) : r # 0 /\ w.l[u].rev = r}
           first == {u \in found : \A v \in found \ {u} :
                               v = T(w) \/ (u # T(w) /\ w.l[u].born < w.l[v].born)}
           t == IF found = {} THEN T(w) ELSE CHOOSE u \in first : TRUE
           o == [w.d EXCEPT !.tmpl = t, !.rollbackTo = NoRollback,
                            !.st.observed = @ /\ t = T(w)]
<1>1. w.d \in DepType /\ Good(w) /\ T(w) \in Tmpls
  BY WorkerState, WorkerFields
<1>2. /\ UpdateDep(o, Idle)
      /\ UNCHANGED <<rsVars, running, births, stalled, timer, scenario, bounds>>
  BY DEF Rollback
<1>3. t \in Tmpls
  <2>1. found \subseteq All(w) /\ All(w) \subseteq Tmpls
    BY DEF All
  <2>2. CASE found = {}
    BY <1>1, <2>2
  <2>3. CASE found # {}
    <3> HIDE DEF found
    <3>1. first # {}
      BY <1>1, <2>1, <2>3, FirstFound
    <3>2. first \subseteq Tmpls
      BY <2>1
    <3> HIDE DEF first
    <3> QED  BY <2>3, <3>1, <3>2
  <2> QED  BY <2>2, <2>3
<1> HIDE DEF t
<1>4. o \in DepType
  <2>1. (w.d.st.observed /\ t = T(w)) \in BOOLEAN
    OBVIOUS
  <2> QED  BY <1>1, <1>3, <2>1 DEF DepType, StatusType, NoRollback
<1> HIDE DEF o
<1>5. DeploymentsOK' /\ queued' \in BOOLEAN /\ retries' \in 0..MaxRetries
  BY <1>2, <1>4, UpdateDepStep DEF IInv
<1>6. w' = Idle
  BY <1>2 DEF UpdateDep, Become, ReturnErr, ReturnErrAfter
<1>7. QueueOK' /\ CountsOK'
  BY <1>2, <1>5 DEF IInv, QueueOK, CountsOK, bounds
<1> QED  BY <1>2, <1>5, <1>6, <1>7, ToIdle

(* A sync begins with what the caches have. *)
LEMMA StartInv ==
  ASSUME IInv, Start PROVE IInv'
<1> DEFINE runs == \E u \in Tmpls \ {seen.tmpl} : seenRS[u].exists /\ running[u] > 0
           cur == seenCur /\ seenRSCur = Tmpls
           x == [Idle EXCEPT
                   !.pc = "conditions", !.via = Route(seen), !.d = seen, !.dCur = seenCur,
                   !.l = seenRS, !.lCur = seenRSCur, !.oldRuns = runs, !.fresh = cur]
<1>1. /\ w' = x \/ w' = Begin(x)
      /\ queued' = FALSE
      /\ UNCHANGED <<depVars, rsVars, running, births, stalled, retries, timer, scenario, bounds>>
  BY DEF Start
<1>2. /\ seen \in DepType /\ seenCur \in BOOLEAN /\ (seenCur => seen = dep)
      /\ rs \in [Tmpls -> RSType] /\ seenRS \in [Tmpls -> RSType] /\ seenRSCur \subseteq Tmpls
      /\ \A t \in seenRSCur : seenRS[t] = rs[t]
      /\ running \in [Tmpls -> Nat] /\ scenario \in Scenarios
  BY DEF IInv, DeploymentsOK, ReplicaSetsOK, CountsOK
<1>3. runs \in BOOLEAN /\ cur \in BOOLEAN
  BY <1>2
<1>4. Route(seen) \in {"deleted", "paused", "rollback", "event"}
  BY DEF Route
<1>5. ~runs => \A t \in Tmpls : t # seen.tmpl /\ seenRS[t].exists => running[t] = 0
  BY <1>2
<1>6. cur => seenRSCur = Tmpls
  OBVIOUS
<1> HIDE DEF runs, cur
<1>7. /\ x \in WorkerType /\ x.pc = "conditions" /\ x.via = Route(seen) /\ x.d = seen
      /\ x.dCur = seenCur /\ x.l = seenRS /\ x.lCur = seenRSCur /\ x.oldRuns = runs
      /\ x.fresh = cur
  <2>1. Idle \in WorkerType
    BY IdleWorks DEF Works
  <2>2. Route(seen) \in Vias /\ "conditions" \in PCs
    BY <1>4 DEF Vias, PCs
  <2> HIDE DEF Idle
  <2> QED  BY <1>2, <1>3, <2>1, <2>2 DEF WorkerType
<1> HIDE DEF x
<1>8. /\ x.dCur => x.d = dep
      /\ \A t \in x.lCur : rs[t] = x.l[t]
      /\ x.fresh => Mirror(x, rs) /\ PodsSeen(x, running)
  <2>1. x.fresh => \A t \in Tmpls : rs[t] = x.l[t]
    BY <1>2, <1>6, <1>7
  <2>2. x.fresh => Mirror(x, rs)
    BY <2>1 DEF Mirror
  <2>3. x.fresh => PodsSeen(x, running)
    BY <1>5, <1>7 DEF PodsSeen, T
  <2> QED  BY <1>2, <1>7, <2>2, <2>3
<1>9. Fit(x)
  <2>1. Good(x)
    <3>1. CopiesOK(rs, seenRS, w.l, births) /\ \A t \in Tmpls : x.l[t] \in Told(t, rs, seenRS, w.l)
      BY <1>7 DEF IInv, Told
    <3> QED  BY <1>7, <3>1, CopyGood
  <2> QED  BY <1>4, <1>7, <2>1 DEF Fit
<1>10. Works(x, rs, running, dep)
  <2>1. PlanOK(x)
    BY <1>4, <1>7 DEF PlanOK, ViaOK, TodoOK
  <2>2. Current(x, rs)
    BY <1>2, <1>7, <1>8, ObjectFields DEF Current
  <2>3. Fresh(x, rs, running) /\ KeepsAvailable(x, Spread(rs))
    BY <1>4, <1>7, <1>8 DEF Fresh, WithinSurge, KeepsAvailable
  <2> QED  BY <1>7, <1>8, <2>1, <2>2, <2>3 DEF Works
<1>11. Planned(x, Begin(x)) /\ (Begin(x).pc = "rollback" => Topmost(x))
  BY <1>2, <1>9, BeginPlanned
<1> DEFINE y == Begin(x)
<1>12. Planned(x, y) /\ (y.pc = "rollback" => Topmost(x)) /\ (w' = x \/ w' = y)
  BY <1>1, <1>11
<1> HIDE DEF y
<1>13. Works(y, rs, running, dep) /\ y.l = x.l
  <2>1. Good(x) /\ x.via # "recreateNew"
    BY <1>4, <1>7, <1>9 DEF Fit
  <2>2. Works(y, rs, running, dep)
    BY <1>2, <1>8, <1>12, <2>1, PlanWorks
  <2> QED  BY <1>12, <2>2 DEF Planned, Kept
<1>14. Works(w', rs, running, dep) /\ w'.l = seenRS
  BY <1>7, <1>10, <1>12, <1>13
<1>15. CopiesOK(rs, seenRS, w'.l, births)
  <2>1. \A u \in Tmpls : w'.l[u] \in Told(u, rs, seenRS, w.l) /\ seenRS[u] \in Told(u, rs, seenRS, w.l)
    BY <1>14 DEF Told
  <2> QED  BY <2>1, CopiesKept
<1>16. DeploymentsOK' /\ ReplicaSetsOK' /\ QueueOK' /\ CountsOK'
  BY <1>1 DEF IInv, DeploymentsOK, ReplicaSetsOK, QueueOK, CountsOK, depVars, rsVars, bounds
<1> QED  BY <1>1, <1>14, <1>15, <1>16 DEF IInv, depVars, rsVars

-----------------------------------------------------------------------------
(***************************************************************************)
(* Writes to a ReplicaSet.                                                 *)
(***************************************************************************)
(* The API server and the informer cache. *)
LEMMA RSStored ==
  ASSUME IInv, NEW t \in Tmpls, NEW r \in RSType, StoreRS(t, r)
  PROVE  /\ ReplicaSetsOK' /\ rs' = [rs EXCEPT ![t] = r]
         /\ rs'[t] = r /\ \A u \in Tmpls \ {t} : rs'[u] = rs[u]
         /\ \A u \in Tmpls : seenRS'[u] \in {seenRS[u]} \cup IF u = t THEN {r} ELSE {}
<1>1. /\ rs \in [Tmpls -> RSType] /\ seenRS \in [Tmpls -> RSType] /\ seenRSCur \subseteq Tmpls
      /\ \A u \in seenRSCur : seenRS[u] = rs[u]
  BY DEF IInv, ReplicaSetsOK
<1>2. rs' = [rs EXCEPT ![t] = r] /\ rs' \in [Tmpls -> RSType]
  BY <1>1 DEF StoreRS
<1>3. rs'[t] = r /\ \A u \in Tmpls \ {t} : rs'[u] = rs[u]
  BY <1>1, <1>2
<1>4. CASE "replicasets" \in stalled
  <2>1. seenRS' = seenRS /\ seenRSCur' = seenRSCur \ {t}
    BY <1>4 DEF StoreRS
  <2>2. ReplicaSetsOK'
    BY <1>1, <1>2, <1>3, <2>1 DEF ReplicaSetsOK
  <2> QED  BY <1>2, <1>3, <2>1, <2>2
<1>5. CASE "replicasets" \notin stalled
  <2>1. seenRS' = [seenRS EXCEPT ![t] = r] /\ seenRSCur' = seenRSCur
    BY <1>5 DEF StoreRS
  <2>2. \A u \in Tmpls : seenRS'[u] = IF u = t THEN r ELSE seenRS[u]
    BY <1>1, <2>1
  <2>3. seenRS' \in [Tmpls -> RSType]
    BY <1>1, <2>1
  <2>4. \A u \in seenRSCur : seenRS'[u] = rs'[u]
    BY <1>1, <1>3, <2>2
  <2>5. ReplicaSetsOK'
    BY <1>1, <1>2, <2>1, <2>3, <2>4 DEF ReplicaSetsOK
  <2> QED  BY <1>2, <1>3, <2>2, <2>5
<1> QED  BY <1>4, <1>5

(* What is written is a ReplicaSet that was known, none, or a new one. *)
LEMMA CopiesStored ==
  ASSUME IInv, NEW t \in Tmpls, NEW r \in RSType, StoreRS(t, r), Sane(r),
         births' \in Nat, births <= births', r.born <= births',
         r.exists => \/ \E a \in Told(t, rs, seenRS, w.l) : a.exists /\ a.born = r.born
                     \/ r.born > births,
         NEW l1,
         \A u \in Tmpls : l1[u] \in Told(u, rs, seenRS, w.l) \cup {NoRS} \cup
                                      IF u = t THEN {r} ELSE {}
  PROVE  CopiesOK(rs', seenRS', l1, births')
<1>1. births \in Int /\ births \in Nat
      /\ \A u \in Tmpls : \A a \in Told(u, rs, seenRS, w.l) : a.born \in Int
  BY CopyTypes
<1>2. CopiesOK(rs, seenRS, w.l, births)
  BY DEF IInv
<1>3. r.born \in Int
  BY DeploymentAssumption DEF RSType
<1>4. \A u \in Tmpls : Told(u, rs', seenRS', l1) \subseteq
                         Told(u, rs, seenRS, w.l) \cup {NoRS} \cup IF u = t THEN {r} ELSE {}
  <2> SUFFICES ASSUME NEW u \in Tmpls
               PROVE  /\ rs'[u] \in Told(u, rs, seenRS, w.l) \cup IF u = t THEN {r} ELSE {}
                      /\ seenRS'[u] \in Told(u, rs, seenRS, w.l) \cup IF u = t THEN {r} ELSE {}
    BY DEF Told
  <2>1. /\ rs'[t] = r /\ (u # t => rs'[u] = rs[u])
        /\ seenRS'[u] \in {seenRS[u]} \cup IF u = t THEN {r} ELSE {}
    BY RSStored
  <2> QED  BY <2>1 DEF Told
<1> QED  BY <1>1, <1>2, <1>3, <1>4, CopiesStep

(* A worker beside which pods come and go: it takes no more for current     *)
(* than still is.                                                           *)
LEMMA WorksBeside ==
  ASSUME NEW x, NEW r, NEW run, NEW d, Works(x, r, run, d), NEW y \in WorkerType,
         y.pc = x.pc, y.via = x.via, y.d = x.d, y.l = x.l, y.oldRuns = x.oldRuns,
         y.todo = x.todo, y.fresh = x.fresh, y.dCur = x.dCur, y.lCur \subseteq x.lCur,
         NEW r1, NEW run1,
         \A u \in Tmpls : /\ r1[u].exists = r[u].exists /\ r1[u].replicas = r[u].replicas
                          /\ r1[u].rev = r[u].rev,
         \A u \in y.lCur : r1[u] = r[u],
         \A u \in Tmpls : r[u].exists /\ r[u].replicas = 0 /\ run[u] = 0 => run1[u] = 0
  PROVE  Works(y, r1, run1, d)
<1>1. Works(y, r, run, d)
  <2>1. y.dCur => x.d = d
    BY DEF Works
  <2> QED  BY <2>1, LessCurrent
<1>2. /\ (y.dCur => y.d = d) /\ Current(y, r) /\ PlanOK(y) /\ Fresh(y, r, run)
      /\ y.lCur = Tmpls => KeepsAvailable(y, Spread(r))
  BY <1>1 DEF Works
<1>3. Spread(r1) = Spread(r)
  BY DEF Spread
<1>4. Current(y, r1)
  BY <1>2 DEF Current
<1>5. Fresh(y, r1, run1)
  <2>1. Mirror(y, r1) = Mirror(y, r)
    BY DEF Mirror
  <2>2. Clear(y, r, run) => Clear(y, r1, run1)
    BY DEF Clear
  <2>3. Mirror(y, r) /\ PodsSeen(y, run) => PodsSeen(y, run1)
    BY DEF Mirror, PodsSeen
  <2> QED  BY <1>2, <1>3, <2>1, <2>2, <2>3 DEF Fresh
<1> QED  BY <1>2, <1>3, <1>4, <1>5 DEF Works

(* A worker that takes one ReplicaSet less for current. *)
LEMMA Forgets ==
  ASSUME NEW x \in WorkerType, NEW t, NEW y, y = [x EXCEPT !.lCur = @ \ {t}]
  PROVE  /\ y \in WorkerType /\ y.pc = x.pc /\ y.via = x.via /\ y.d = x.d /\ y.l = x.l
         /\ y.oldRuns = x.oldRuns /\ y.todo = x.todo /\ y.fresh = x.fresh /\ y.dCur = x.dCur
         /\ y.then = x.then /\ y.lCur = x.lCur \ {t}
<1>1. x.lCur \ {t} \in SUBSET Tmpls
  BY WorkerFields
<1> QED  BY <1>1 DEF WorkerType

(* Somebody else writes the status of a ReplicaSet. *)
LEMMA OthersWrite ==
  ASSUME IInv, NEW t \in Tmpls, NEW r \in RSType, OthersWriteRS(t, r), Sane(r),
         r.exists = rs[t].exists, r.replicas = rs[t].replicas, r.rev = rs[t].rev,
         r.born = rs[t].born, CountsOK', births' = births,
         UNCHANGED <<depVars, stalled, retries, timer>>,
         \A u \in Tmpls : rs[u].exists /\ rs[u].replicas = 0 /\ running[u] = 0 => running'[u] = 0
  PROVE  IInv'
<1>1. StoreRS(t, r) /\ w' = [w EXCEPT !.lCur = @ \ {t}] /\ queued' \in BOOLEAN
  BY DEF OthersWriteRS, Event
<1>2. /\ w' \in WorkerType /\ w'.pc = w.pc /\ w'.via = w.via /\ w'.d = w.d /\ w'.l = w.l
      /\ w'.oldRuns = w.oldRuns /\ w'.todo = w.todo /\ w'.fresh = w.fresh /\ w'.dCur = w.dCur
      /\ w'.lCur = w.lCur \ {t}
  BY <1>1, WorkerState, Forgets
<1>3. ReplicaSetsOK' /\ rs'[t] = r /\ \A u \in Tmpls \ {t} : rs'[u] = rs[u]
  BY <1>1, RSStored
<1>4. Works(w', rs', running', dep)
  <2>1. \A u \in Tmpls : /\ rs'[u].exists = rs[u].exists /\ rs'[u].replicas = rs[u].replicas
                         /\ rs'[u].rev = rs[u].rev
    BY <1>3
  <2>2. w'.lCur \subseteq w.lCur /\ \A u \in w'.lCur : rs'[u] = rs[u]
    BY <1>2, <1>3, WorkerFields
  <2>3. Works(w, rs, running, dep)
    BY DEF IInv
  <2> QED  BY <1>2, <2>1, <2>2, <2>3, WorksBeside
<1>5. CopiesOK(rs', seenRS', w'.l, births')
  <2>1. births' \in Nat /\ births <= births'
    BY CopyTypes
  <2>2. rs[t] \in Told(t, rs, seenRS, w.l)
    BY DEF Told
  <2>3. r.born <= births'
    BY <2>2 DEF IInv, CopiesOK
  <2>4. \A u \in Tmpls : w'.l[u] \in Told(u, rs, seenRS, w.l)
    BY <1>2 DEF Told
  <2> QED  BY <1>1, <2>1, <2>2, <2>3, <2>4, CopiesStored
<1>6. DeploymentsOK' /\ QueueOK'
  BY <1>1 DEF IInv, DeploymentsOK, QueueOK, depVars
<1> QED  BY <1>3, <1>4, <1>5, <1>6 DEF IInv, depVars

(* The ReplicaSet controller and its pods. *)
LEMMA RunPodsInv ==
  ASSUME IInv, NEW t \in Tmpls, RunPods(t) PROVE IInv'
<1> DEFINE a == rs[t]
           r == [a EXCEPT !.pods = a.replicas, !.avail = Smaller(a.avail, a.replicas),
                          !.failing = FALSE]
           n == IF a.replicas > a.pods THEN running[t] + a.replicas - a.pods
                ELSE IF IsRollingUpdate(dep) THEN a.replicas ELSE running[t]
<1>1. a \in RSType /\ Sane(a) /\ running \in [Tmpls -> Nat]
  BY WorkerState DEF IInv, CountsOK
<1>2. /\ a.exists /\ OthersWriteRS(t, r) /\ running' = [running EXCEPT ![t] = n]
      /\ UNCHANGED <<depVars, births, stalled, retries, timer, scenario, bounds>>
  BY DEF RunPods
<1> HIDE DEF a
<1>3. a.replicas \in Nat /\ a.pods \in Nat /\ a.avail \in Nat
  BY <1>1 DEF RSType
<1>4. Smaller(a.avail, a.replicas) \in Nat
  BY <1>3 DEF Smaller
<1>5. /\ r \in RSType /\ r.exists = a.exists /\ r.replicas = a.replicas /\ r.rev = a.rev
      /\ r.born = a.born /\ r.desired = a.desired /\ r.max = a.max
  BY <1>1, <1>3, <1>4 DEF RSType
<1>6. Sane(r)
  BY <1>1, <1>2, <1>5 DEF Sane
<1>7. n \in Nat
  BY <1>1, <1>3
<1>8. a.replicas = 0 /\ running[t] = 0 => n = 0
  BY <1>1, <1>3
<1> HIDE DEF r, n
<1>9. CountsOK'
  BY <1>1, <1>2, <1>7 DEF IInv, CountsOK, bounds
<1>10. \A u \in Tmpls : rs[u].exists /\ rs[u].replicas = 0 /\ running[u] = 0 => running'[u] = 0
  BY <1>1, <1>2, <1>8 DEF a
<1> QED  BY <1>2, <1>5, <1>6, <1>9, <1>10, OthersWrite DEF a

(* Pods become available. *)
LEMMA PodsReadyInv ==
  ASSUME IInv, NEW t \in Tmpls, PodsReady(t) PROVE IInv'
<1> DEFINE a == rs[t]
           r == [a EXCEPT !.avail = a.pods]
<1>1. a \in RSType /\ Sane(a)
  BY WorkerState
<1>2. /\ a.exists /\ OthersWriteRS(t, r)
      /\ UNCHANGED <<depVars, running, births, stalled, retries, timer, scenario, bounds>>
  BY DEF PodsReady
<1> HIDE DEF a
<1>3. /\ r \in RSType /\ r.exists = a.exists /\ r.replicas = a.replicas /\ r.rev = a.rev
      /\ r.born = a.born /\ r.desired = a.desired /\ r.max = a.max
  BY <1>1 DEF RSType
<1>4. Sane(r)
  BY <1>1, <1>2, <1>3 DEF Sane
<1> HIDE DEF r
<1>5. CountsOK' /\ running' = running
  BY <1>2 DEF IInv, CountsOK, bounds
<1> QED  BY <1>2, <1>3, <1>4, <1>5, OthersWrite DEF a

(* An available pod fails. *)
LEMMA PodFailsInv ==
  ASSUME IInv, NEW t \in Tmpls, PodFails(t) PROVE IInv'
<1> DEFINE a == rs[t]
           r == [a EXCEPT !.avail = @ - 1]
<1>1. a \in RSType /\ Sane(a)
  BY WorkerState
<1>2. /\ a.avail > 0 /\ OthersWriteRS(t, r) /\ Strikes("pod")
      /\ UNCHANGED <<depVars, running, births, stalled, retries, timer, scenario, edits>>
  BY DEF PodFails
<1> HIDE DEF a
<1>3. a.avail \in Nat /\ a.avail - 1 \in Nat /\ a.avail # 0 /\ a.exists \in BOOLEAN
  BY <1>1, <1>2 DEF RSType
<1>4. a.exists
  BY <1>1, <1>3 DEF Sane
<1>5. /\ r \in RSType /\ r.exists = a.exists /\ r.replicas = a.replicas /\ r.rev = a.rev
      /\ r.born = a.born /\ r.desired = a.desired /\ r.max = a.max
  BY <1>1, <1>3 DEF RSType
<1>6. Sane(r)
  BY <1>1, <1>4, <1>5 DEF Sane
<1> HIDE DEF r
<1>7. CountsOK' /\ running' = running
  <2>1. CountsOK /\ running' \in [Tmpls -> Nat]
    BY <1>2 DEF IInv, CountsOK
  <2> QED  BY <1>2, <2>1, StrikesCounted
<1> QED  BY <1>2, <1>5, <1>6, <1>7, OthersWrite DEF a

(* A quota refuses pods. *)
LEMMA PodsRefusedInv ==
  ASSUME IInv, NEW t \in Tmpls, PodsRefused(t) PROVE IInv'
<1> DEFINE a == rs[t]
           r == [a EXCEPT !.failing = TRUE]
<1>1. a \in RSType /\ Sane(a)
  BY WorkerState
<1>2. /\ OthersWriteRS(t, r) /\ Strikes("quota")
      /\ UNCHANGED <<depVars, running, births, stalled, retries, timer, scenario, edits>>
  BY DEF PodsRefused
<1> HIDE DEF a
<1>3. /\ r \in RSType /\ r.exists = a.exists /\ r.replicas = a.replicas /\ r.rev = a.rev
      /\ r.born = a.born /\ r.desired = a.desired /\ r.max = a.max
      /\ r.pods = a.pods /\ r.avail = a.avail
  BY <1>1 DEF RSType
<1>4. Sane(r)
  BY <1>1, <1>3 DEF Sane
<1> HIDE DEF r
<1>5. CountsOK' /\ running' = running
  <2>1. CountsOK /\ running' \in [Tmpls -> Nat]
    BY <1>2 DEF IInv, CountsOK
  <2> QED  BY <1>2, <2>1, StrikesCounted
<1> QED  BY <1>2, <1>3, <1>4, <1>5, OthersWrite DEF a

(* Terminating pods are gone: fewer run, so what was seen not to run does not. *)
LEMMA PodsGoneInv ==
  ASSUME IInv, NEW t \in Tmpls, PodsGone(t) PROVE IInv'
<1>1. /\ running[t] > rs[t].pods /\ running' = [running EXCEPT ![t] = rs[t].pods]
      /\ queued' \in BOOLEAN
      /\ UNCHANGED <<depVars, rsVars, births, stalled, w, retries, timer, scenario, bounds>>
  BY DEF PodsGone
<1>2. running \in [Tmpls -> Nat] /\ rs[t].pods \in Nat
  BY WorkerState DEF IInv, CountsOK, RSType
<1>3. \A u \in Tmpls : running[u] = 0 => running'[u] = 0
  BY <1>1, <1>2
<1>4. running' \in [Tmpls -> Nat]
  BY <1>1, <1>2
<1>5. Works(w, rs, running', dep)
  <2>1. Works(w, rs, running, dep) /\ w \in WorkerType
    BY WorkerState DEF IInv
  <2> QED  BY <1>3, <2>1, WorksBeside
<1>6. DeploymentsOK' /\ ReplicaSetsOK' /\ QueueOK' /\ CountsOK'
  BY <1>1, <1>4 DEF IInv, DeploymentsOK, ReplicaSetsOK, QueueOK, CountsOK, depVars, rsVars, bounds
<1> QED  BY <1>1, <1>5, <1>6 DEF IInv, depVars, rsVars

-----------------------------------------------------------------------------
(***************************************************************************)
(* The informers, the clock, failed calls, restarts and the user.          *)
(***************************************************************************)
LEMMA StallInv ==
  ASSUME IInv, NEW watch \in Watches, Stall(watch) PROVE IInv'
<1>1. /\ stalled' = stalled \cup {watch} /\ Strikes("stall")
      /\ UNCHANGED <<depVars, rsVars, running, births, w, queueVars, scenario, edits>>
  BY DEF Stall
<1>2. QueueOK'
  BY <1>1 DEF IInv, QueueOK, queueVars
<1>3. CountsOK'
  <2>1. CountsOK /\ running' \in [Tmpls -> Nat]
    BY <1>1 DEF IInv, CountsOK
  <2> QED  BY <1>1, <2>1, StrikesCounted
<1>4. DeploymentsOK' /\ ReplicaSetsOK'
  BY <1>1 DEF IInv, DeploymentsOK, ReplicaSetsOK, depVars, rsVars
<1> QED  BY <1>1, <1>2, <1>3, <1>4 DEF IInv, depVars, rsVars

(* A watch catches up: the copies it delivers are current. *)
LEMMA CatchUpInv ==
  ASSUME IInv, NEW watch \in Watches, CatchUp(watch) PROVE IInv'
<1>1. /\ stalled' = stalled \ {watch}
      /\ UNCHANGED <<running, births, w, retries, timer, scenario, bounds>>
  BY DEF CatchUp
<1>2. CountsOK'
  BY <1>1 DEF IInv, CountsOK, bounds
<1>3. CASE seen' = dep /\ seenCur' = TRUE /\ queued' = (queued \/ ~seenCur) /\ UNCHANGED <<dep, rsVars>>
  <2>1. queued' \in BOOLEAN
    BY <1>3
  <2>2. DeploymentsOK' /\ ReplicaSetsOK' /\ QueueOK'
    BY <1>1, <1>3, <2>1 DEF IInv, DeploymentsOK, ReplicaSetsOK, QueueOK, rsVars
  <2> QED  BY <1>1, <1>2, <1>3, <2>2 DEF IInv, rsVars
<1>4. CASE /\ seenRS' = rs /\ seenRSCur' = Tmpls /\ queued' = (queued \/ seenRSCur # Tmpls)
           /\ UNCHANGED <<rs, depVars>>
  <2>1. queued' \in BOOLEAN
    BY <1>4
  <2>2. DeploymentsOK' /\ ReplicaSetsOK' /\ QueueOK'
    BY <1>1, <1>4, <2>1 DEF IInv, DeploymentsOK, ReplicaSetsOK, QueueOK, depVars
  <2>3. CopiesOK(rs, rs, w.l, births)
    <3>1. \A u \in Tmpls : rs[u] \in Told(u, rs, seenRS, w.l) /\ w.l[u] \in Told(u, rs, seenRS, w.l)
      BY DEF Told
    <3> QED  BY <3>1, CopiesKept
  <2> QED  BY <1>1, <1>2, <1>4, <2>2, <2>3 DEF IInv, depVars
<1> QED  BY <1>3, <1>4 DEF CatchUp

(* The clock moves both copies of the Deployment alike. *)
LEMMA TickInv ==
  ASSUME IInv, Tick PROVE IInv'
<1>1. /\ w = Idle /\ dep' = Aged(dep) /\ seen' = Aged(seen)
      /\ queued' = timer /\ timer' = FALSE
      /\ UNCHANGED <<seenCur, rsVars, running, births, stalled, w, retries, scenario, bounds>>
  BY DEF Tick
<1>2. \A d \in DepType : Aged(d) \in DepType
  <2> SUFFICES ASSUME NEW d \in DepType PROVE Aged(d) \in DepType
    OBVIOUS
  <2>1. (d.st.prog # "none") \in BOOLEAN
    OBVIOUS
  <2> QED  BY <2>1 DEF Aged, DepType, StatusType
<1>3. DeploymentsOK'
  BY <1>1, <1>2 DEF IInv, DeploymentsOK
<1>4. QueueOK' /\ CountsOK'
  BY <1>1 DEF IInv, QueueOK, CountsOK, bounds
<1> QED  BY <1>1, <1>3, <1>4, ToIdle

(* The sync fails and may be retried. *)
LEMMA Retried ==
  ASSUME QueueOK, ReturnErr
  PROVE  queued' \in BOOLEAN /\ retries' \in 0..MaxRetries /\ w' = Idle
<1>1. MaxRetries \in Nat /\ retries \in 0..MaxRetries /\ queued \in BOOLEAN
  BY DeploymentAssumption DEF QueueOK
<1>2. queued' \in BOOLEAN /\ w' = Idle
  BY DEF ReturnErr, ReturnErrAfter
<1>3. retries' \in 0..MaxRetries
  BY <1>1 DEF ReturnErr, ReturnErrAfter
<1> QED  BY <1>2, <1>3

(* A restart lists everything anew and leaves the worker idle. *)
LEMMA RestartInv ==
  ASSUME IInv, Restart PROVE IInv'
<1>1. /\ Strikes("restart")
      /\ w' = Idle /\ queued' = TRUE /\ retries' = 0 /\ timer' = FALSE
      /\ seen' = dep /\ seenCur' = TRUE /\ seenRS' = rs /\ seenRSCur' = Tmpls /\ stalled' = {}
      /\ UNCHANGED <<dep, rs, running, births, scenario, edits>>
  BY DEF Restart
<1>2. DeploymentsOK' /\ ReplicaSetsOK'
  BY <1>1 DEF IInv, DeploymentsOK, ReplicaSetsOK
<1>3. QueueOK'
  <2>1. queued' \in BOOLEAN /\ timer' \in BOOLEAN /\ stalled' \subseteq Watches
    BY <1>1
  <2>2. retries' \in 0..MaxRetries
    BY <1>1, DeploymentAssumption
  <2> QED  BY <2>1, <2>2 DEF QueueOK
<1>4. CountsOK'
  <2>1. CountsOK /\ running' \in [Tmpls -> Nat]
    BY <1>1 DEF IInv, CountsOK
  <2> QED  BY <1>1, <2>1, StrikesCounted
<1>5. Works(Idle, rs, running, dep) /\ Idle.l = [t \in Tmpls |-> NoRS]
  BY IdleWorks
<1> HIDE DEF Idle
<1>6. CopiesOK(rs, rs, Idle.l, births)
  <2>1. \A u \in Tmpls : rs[u] \in Told(u, rs, seenRS, w.l) /\ Idle.l[u] = NoRS
    BY <1>5 DEF Told
  <2> QED  BY <2>1, CopiesKept
<1> QED  BY <1>1, <1>2, <1>3, <1>4, <1>5, <1>6 DEF IInv

(* An edit of the user makes the copy of the worker old. *)
LEMMA EditInv ==
  ASSUME IInv, NEW kind, NEW new \in DepType, Edit(kind, new) PROVE IInv'
<1> DEFINE b == new.st.observed /\ kind = "rollback"
           o == [new EXCEPT !.st.observed = b]
<1>1. /\ edits < scenario.maxEdits /\ StoreDep(o) /\ Event("deployments")
      /\ w' = [w EXCEPT !.dCur = FALSE] /\ edits' = edits + 1
      /\ UNCHANGED <<rsVars, running, births, stalled, retries, timer, scenario, faults>>
  BY DEF Edit
<1>2. b \in BOOLEAN
  OBVIOUS
<1>3. o \in DepType
  <2> HIDE DEF b
  <2> QED  BY <1>2 DEF DepType, StatusType
<1> HIDE DEF o
<1>4. DeploymentsOK'
  BY <1>1, <1>3 DEF IInv, DeploymentsOK, StoreDep
<1>5. QueueOK'
  <2>1. queued' \in BOOLEAN
    BY <1>1 DEF Event
  <2> QED  BY <1>1, <2>1 DEF IInv, QueueOK
<1>6. CountsOK'
  <2>1. scenario.maxEdits \in Nat /\ edits \in 0..scenario.maxEdits
    BY DeploymentAssumption DEF IInv, CountsOK, ScenarioType
  <2>2. edits' \in 0..scenario.maxEdits
    BY <1>1, <2>1
  <2> QED  BY <1>1, <2>2 DEF IInv, CountsOK
<1>7. /\ w' \in WorkerType /\ w'.pc = w.pc /\ w'.via = w.via /\ w'.d = w.d /\ w'.l = w.l
      /\ w'.oldRuns = w.oldRuns /\ w'.todo = w.todo /\ w'.fresh = w.fresh
      /\ w'.lCur = w.lCur /\ w'.dCur = FALSE
  BY <1>1, WorkerState DEF WorkerType
<1>8. Works(w', rs, running, dep')
  <2>1. Works(w, rs, running, dep)
    BY DEF IInv
  <2> QED  BY <1>7, <2>1, LessCurrent
<1>9. ReplicaSetsOK'
  BY <1>1 DEF IInv, ReplicaSetsOK, rsVars
<1> QED  BY <1>1, <1>4, <1>5, <1>6, <1>7, <1>8, <1>9 DEF IInv, rsVars

(* Every kind of edit is one. *)
LEMMA UserInv ==
  ASSUME IInv, User PROVE IInv'
<1>1. dep \in DepType
  BY DEF IInv, DeploymentsOK
<1>2. ASSUME NEW t \in Tmpls, Edit("template", [dep EXCEPT !.tmpl = t]) PROVE IInv'
  <2>1. [dep EXCEPT !.tmpl = t] \in DepType
    BY <1>1 DEF DepType
  <2> QED  BY <1>2, <2>1, EditInv
<1>3. ASSUME NEW n \in Sizes, Edit("scale", [dep EXCEPT !.replicas = n]) PROVE IInv'
  <2>1. [dep EXCEPT !.replicas = n] \in DepType
    BY <1>1 DEF DepType
  <2> QED  BY <1>3, <2>1, EditInv
<1>4. ASSUME NEW b \in BOOLEAN, Edit("paused", [dep EXCEPT !.paused = b]) PROVE IInv'
  <2>1. [dep EXCEPT !.paused = b] \in DepType
    BY <1>1 DEF DepType
  <2> QED  BY <1>4, <2>1, EditInv
<1>5. ASSUME NEW r \in 0..MaxRev, Edit("rollback", [dep EXCEPT !.rollbackTo = r]) PROVE IInv'
  <2>1. [dep EXCEPT !.rollbackTo = r] \in DepType
    BY <1>1 DEF DepType
  <2> QED  BY <1>5, <2>1, EditInv
<1>6. ASSUME Edit("delete", [dep EXCEPT !.deleting = TRUE]) PROVE IInv'
  <2>1. [dep EXCEPT !.deleting = TRUE] \in DepType
    BY <1>1 DEF DepType
  <2> QED  BY <1>6, <2>1, EditInv
<1> QED  BY <1>2, <1>3, <1>4, <1>5, <1>6 DEF User

-----------------------------------------------------------------------------
(***************************************************************************)
(* The worker's own writes to a ReplicaSet.                                *)
(***************************************************************************)
(* Create, Update or Delete has gone through and the worker goes on as y. *)
LEMMA RSWritten ==
  ASSUME IInv, NEW t \in Tmpls, NEW r \in RSType, StoreRS(t, r), Event("replicasets"), Sane(r),
         NEW y, Become(y), Works(y, rs', running, dep),
         births' \in Nat, births <= births', r.born <= births',
         r.exists => \/ \E a \in Told(t, rs, seenRS, w.l) : a.exists /\ a.born = r.born
                     \/ r.born > births,
         \A u \in Tmpls : y.l[u] \in Told(u, rs, seenRS, w.l) \cup {NoRS} \cup
                                       IF u = t THEN {r} ELSE {},
         CountsOK', UNCHANGED <<depVars, running, stalled, timer>>
  PROVE  IInv'
<1>1. w' = y /\ queued' \in BOOLEAN /\ retries' \in 0..MaxRetries
  <2>1. MaxRetries \in Nat /\ retries \in 0..MaxRetries
    BY DeploymentAssumption DEF IInv, QueueOK
  <2>2. w' = y /\ retries' \in 0..MaxRetries
    BY <2>1 DEF Become
  <2>3. queued' \in BOOLEAN
    BY DEF Event
  <2> QED  BY <2>2, <2>3
<1>2. DeploymentsOK' /\ QueueOK'
  BY <1>1 DEF IInv, DeploymentsOK, QueueOK, depVars
<1>3. ReplicaSetsOK'
  BY RSStored
<1>4. CopiesOK(rs', seenRS', y.l, births')
  BY CopiesStored
<1> QED  BY <1>1, <1>2, <1>3, <1>4 DEF IInv, depVars

(* ReplicaSets.Update is refused. *)
LEMMA Conflicts ==
  ASSUME IInv, NEW t, ConflictRS(t),
         UNCHANGED <<depVars, running, births, stalled, timer, scenario, bounds>>
  PROVE  IInv'
<1>1. ReturnErr /\ UNCHANGED rsVars
  BY DEF ConflictRS
<1>2. queued' \in BOOLEAN /\ retries' \in 0..MaxRetries /\ w' = Idle
  BY <1>1, Retried DEF IInv
<1>3. DeploymentsOK' /\ QueueOK' /\ CountsOK'
  BY <1>2 DEF IInv, DeploymentsOK, QueueOK, CountsOK, depVars, bounds
<1> QED  BY <1>1, <1>2, <1>3, ToIdle

(* getNewReplicaSet renumbers the new ReplicaSet. *)
LEMMA BumpInv ==
  ASSUME IInv, BumpRevision PROVE IInv'
<1> DEFINE t == T(w)
           r == [w.l[t] EXCEPT !.rev = NewRevision(w)]
           x == IF w.via = "event" THEN [w EXCEPT !.lCur = @ \ {t}] ELSE [w EXCEPT !.l[t] = r]
<1>1. /\ w.pc = "newRS" /\ w.l[t].exists /\ NewRevision(w) <= MaxRev
      /\ UpdateRS(t, r, Continue(x)) \/ ConflictRS(t)
      /\ UNCHANGED <<depVars, running, births, stalled, timer, scenario, bounds>>
  BY DEF BumpRevision
<1>2. /\ w \in WorkerType /\ t \in Tmpls /\ w.l \in [Tmpls -> RSType] /\ Good(w)
      /\ scenario \in Scenarios /\ (w.dCur => w.d = dep)
      /\ NewRevision(w) \in Nat \ {0} /\ rs \in [Tmpls -> RSType]
  BY WorkerState, WorkerFields, RevisionAbove DEF IInv, ReplicaSetsOK
<1>3. /\ Fit(w) /\ \A u \in w.lCur : rs[u] = w.l[u]
      /\ w.fresh => /\ Mirror(w, rs) /\ PodsSeen(w, running)
                    /\ w.via = "recreateNew" => Clear(w, rs, running)
  BY <1>1, Asking
<1>4. /\ r \in RSType /\ r.exists = w.l[t].exists /\ r.replicas = w.l[t].replicas
      /\ r.rev = NewRevision(w) /\ r.born = w.l[t].born /\ r.desired = w.l[t].desired
      /\ r.max = w.l[t].max /\ r.pods = w.l[t].pods /\ r.avail = w.l[t].avail
  <2>1. w.l[t] \in RSType /\ NewRevision(w) \in 0..MaxRev
    BY <1>1, <1>2, DeploymentAssumption
  <2> QED  BY <2>1 DEF RSType
<1>5. Sane(r)
  <2>1. Sane(w.l[t])
    BY <1>2 DEF Good
  <2> QED  BY <1>1, <1>2, <1>4, <2>1 DEF Sane
<1> HIDE DEF r
<1>6. ASSUME UpdateRS(t, r, Continue(x)) PROVE IInv'
  <2>1. t \in w.lCur /\ StoreRS(t, r) /\ Event("replicasets") /\ Become(Continue(x))
    BY <1>6 DEF UpdateRS
  <2>2. rs'[t] = r /\ \A u \in Tmpls \ {t} : rs'[u] = rs[u]
    BY <1>2, <1>4, <2>1, RSStored
  <2>3. /\ x \in WorkerType /\ x.via = w.via /\ x.d = w.d /\ x.dCur = w.dCur
        /\ x.oldRuns = w.oldRuns /\ x.fresh = w.fresh
        /\ x.lCur = IF w.via = "event" THEN w.lCur \ {t} ELSE w.lCur
        /\ x.l[t] = IF w.via = "event" THEN w.l[t] ELSE r
        /\ \A u \in Tmpls \ {t} : x.l[u] = w.l[u]
    <3>1. CASE w.via = "event"
      <4>1. x = [w EXCEPT !.lCur = @ \ {t}]
        BY <3>1
      <4> HIDE DEF x, t
      <4>2. /\ x \in WorkerType /\ x.via = w.via /\ x.d = w.d /\ x.l = w.l
            /\ x.oldRuns = w.oldRuns /\ x.fresh = w.fresh /\ x.dCur = w.dCur
            /\ x.lCur = w.lCur \ {t}
        BY <1>2, <4>1, Forgets
      <4> QED  BY <3>1, <4>2
    <3>2. CASE w.via # "event"
      <4>1. x = [w EXCEPT !.l = [w.l EXCEPT ![t] = r]]
        BY <1>2, <3>2 DEF WorkerType
      <4> DEFINE l == [w.l EXCEPT ![t] = r]
      <4>2. l \in [Tmpls -> RSType] /\ l[t] = r /\ \A u \in Tmpls \ {t} : l[u] = w.l[u]
        BY <1>2, <1>4
      <4> HIDE DEF x, l
      <4>3. x = [w EXCEPT !.l = l]
        BY <4>1 DEF l
      <4> QED  BY <1>2, <3>2, <4>2, <4>3 DEF WorkerType
    <3> QED  BY <3>1, <3>2
  <2> HIDE DEF x
  <2>4. T(x) = t
    BY <2>3 DEF T
  <2> HIDE DEF t
  <2>5. Good(x)
    <3>1. x.l[t].exists = w.l[t].exists /\ x.l[t].born = w.l[t].born /\ Sane(x.l[t])
      BY <1>2, <1>4, <1>5, <2>3 DEF Good
    <3>2. \A u \in Tmpls : /\ x.l[u].exists = w.l[u].exists /\ x.l[u].born = w.l[u].born
                           /\ Sane(x.l[u])
      BY <1>2, <2>3, <3>1 DEF Good
    <3> QED  BY <1>2, <2>3, <3>2 DEF Good
  <2>6. Old(x) = Old(w) /\ t \notin Old(x) /\ Old(x) \subseteq Tmpls
    BY <1>1, <1>4, <2>3, <2>4 DEF Old, All, t
  <2>7. Fit(x)
    <3>1. Settled(w) => Settled(x)
      BY <2>3, <2>6 DEF Settled, FilterActive
    <3> QED  BY <1>3, <2>3, <2>5, <3>1 DEF Fit
  <2>8. x.l[T(x)].exists
    BY <1>1, <1>4, <2>3, <2>4
  <2> DEFINE y == Continue(x)
  <2>9. Planned(x, y) /\ Become(y)
    BY <1>2, <2>1, <2>7, <2>8, ContinuePlanned
  <2> HIDE DEF y
  <2>10. y.pc = "rollback" => Topmost(x)
    <3> SUFFICES ASSUME y.pc = "rollback" PROVE Topmost(x)
      OBVIOUS
    <3>1. x.via = "rollback"
      BY <2>9 DEF Planned, PlanOK, ViaOK
    <3>2. \A u \in Old(x) : x.l[u].rev < x.l[t].rev
      BY <1>2, <1>4, <2>3, <2>6, <3>1, RevisionAbove
    <3> QED  BY <2>4, <2>8, <3>2 DEF Topmost
  <2>11. \A u \in x.lCur : rs'[u] = x.l[u]
    <3>1. w.lCur \subseteq Tmpls
      BY <1>2, WorkerFields
    <3> QED  BY <1>3, <2>2, <2>3, <3>1
  <2>12. x.fresh => /\ Mirror(x, rs') /\ PodsSeen(x, running)
                    /\ x.via = "recreateNew" => Clear(x, rs', running)
    <3> SUFFICES ASSUME w.fresh
                 PROVE  /\ Mirror(x, rs') /\ PodsSeen(x, running)
                        /\ x.via = "recreateNew" => Clear(x, rs', running)
      BY <2>3
    <3>1. Mirror(x, rs')
      BY <1>3, <1>4, <2>2, <2>3 DEF Mirror
    <3>2. PodsSeen(x, running)
      BY <1>3, <2>3, <2>4 DEF PodsSeen, t
    <3>3. x.via = "recreateNew" => Clear(x, rs', running)
      BY <1>3, <2>2, <2>3, <2>4 DEF Clear, t
    <3> QED  BY <3>1, <3>2, <3>3
  <2>13. Works(y, rs', running, dep)
    <3>1. rs' \in [Tmpls -> RSType]
      BY <1>2, <1>4, <2>1, RSStored DEF ReplicaSetsOK
    <3> QED  BY <1>2, <2>3, <2>5, <2>9, <2>10, <2>11, <2>12, <3>1, PlanWorks
  <2>14. /\ w.l[t] \in Told(t, rs, seenRS, w.l)
         /\ \A u \in Tmpls : y.l[u] \in Told(u, rs, seenRS, w.l) \cup IF u = t THEN {r} ELSE {}
    <3>1. y.l = x.l
      BY <2>9 DEF Planned, Kept
    <3> QED  BY <2>3, <3>1 DEF Told
  <2>15. births' \in Nat /\ births <= births' /\ r.born <= births' /\ CountsOK'
    <3>1. births' = births /\ births \in Nat
      BY <1>1, CopyTypes
    <3>2. w.l[t].born <= births
      BY <1>2, <2>14 DEF IInv, CopiesOK
    <3> QED  BY <1>1, <1>4, <3>1, <3>2 DEF IInv, CountsOK, bounds
  <2> QED  BY <1>1, <1>2, <1>4, <1>5, <2>1, <2>9, <2>13, <2>14, <2>15, RSWritten
<1> QED  BY <1>1, <1>6, Conflicts

(* getNewReplicaSet creates the new ReplicaSet. *)
LEMMA MadeTyped ==
  ASSUME IInv, w.pc = "newRS", NewRevision(w) <= MaxRev, births < MaxRev
  PROVE  /\ Made \in RSType /\ Sane(Made) /\ Made.exists /\ Made.rev = NewRevision(w)
         /\ Made.born = births + 1 /\ Made.replicas \in 0..w.d.replicas
         /\ IsRollingUpdate(w.d) /\ Made.replicas > 0 =>
              Made.replicas + Total(Replicas(w), Old(w)) <= w.d.replicas + MaxSurge(w.d)
<1>1. /\ w \in WorkerType /\ w.d.replicas \in Nat /\ MaxSurge(w.d) \in Nat
      /\ NewRevision(w) \in Nat \ {0} /\ births \in 0..MaxRev /\ MaxRev \in Nat
  BY WorkerState, ObjectFields, Fenceposts, RevisionAbove, DeploymentAssumption DEF IInv, CountsOK
<1> DEFINE c == Total(Replicas(w), Old(w))
           d == w.d.replicas
           n == IF IsRollingUpdate(w.d) THEN NewRSReplicas(d, Surge, c, 0) ELSE d
<1>2. c \in Nat
  <2>1. Old(w) \subseteq Tmpls
    BY DEF Old, All
  <2>2. IsFiniteSet(Old(w))
    BY <2>1, DeploymentAssumption, FS_Subset
  <2>3. \A u \in Old(w) : Replicas(w)[u] \in Nat
    BY <1>1, <2>1, ObjectFields DEF Replicas
  <2> QED  BY <2>2, <2>3, TotalNat
<1>3. n \in 0..d /\ (IsRollingUpdate(w.d) /\ n > 0 => n + c <= d + ResolveSurge(Surge, d))
  <2>1. 0 \in 0..d /\ Surge \in 0..100 /\ Unavailable \in 0..100 /\ d \in Nat
    BY <1>1, DeploymentAssumption
  <2> HIDE DEF c, d
  <2>2. /\ NewRSReplicas(d, Surge, c, 0) \in 0..d
        /\ NewRSReplicas(d, Surge, c, 0) # 0 =>
             NewRSReplicas(d, Surge, c, 0) + c <= d + ResolveSurge(Surge, d) + 0
    BY <1>2, <2>1, NewSizeBounds
  <2>3. ResolveSurge(Surge, d) \in Nat
    <3>1. ResolveSurge(Surge, d) \in 0..d
      BY <2>1, FencepostBounds, Zenon
    <3> QED  BY <2>1, <3>1
  <2>4. CASE IsRollingUpdate(w.d)
    <3> DEFINE m == NewRSReplicas(d, Surge, c, 0)
               g == ResolveSurge(Surge, d)
    <3>1. n = m
      BY <2>4
    <3>2. m \in 0..d /\ (m # 0 => m + c <= d + g + 0) /\ g \in Nat
      BY <2>2, <2>3
    <3> HIDE DEF m, g, n
    <3>3. n \in 0..d /\ (n > 0 => n + c <= d + g)
      BY ONLY <1>2, <2>1, <3>1, <3>2
    <3> QED  BY <3>3 DEF g
  <2>5. CASE ~IsRollingUpdate(w.d)
    BY <2>1, <2>5
  <2> QED  BY <2>4, <2>5
<1>4. Made = [NoRS EXCEPT !.exists = TRUE, !.rev = NewRevision(w), !.born = births + 1,
                          !.replicas = n, !.desired = d, !.max = d + MaxSurge(w.d)]
  BY DEF Made
<1> HIDE DEF n
<1>5. /\ Made.exists = TRUE /\ Made.rev = NewRevision(w) /\ Made.born = births + 1
      /\ Made.replicas = n /\ Made.desired = d /\ Made.max = d + MaxSurge(w.d)
      /\ Made.pods = 0 /\ Made.avail = 0 /\ Made.failing = FALSE
  BY <1>4 DEF NoRS
<1>6. n \in Nat /\ d + MaxSurge(w.d) \in Nat /\ births + 1 \in 0..MaxRev
      /\ NewRevision(w) \in 0..MaxRev
  BY <1>1, <1>3
<1>7. Made \in RSType
  BY <1>1, <1>4, <1>6 DEF NoRS, RSType
<1>8. Sane(Made)
  BY <1>1, <1>3, <1>5, <1>6 DEF Sane
<1>9. MaxSurge(w.d) = IF IsRollingUpdate(w.d) THEN ResolveSurge(Surge, d) ELSE 0
  BY DEF MaxSurge
<1> QED  BY <1>3, <1>5, <1>7, <1>8, <1>9

(* A creation takes a birth number that no copy shows. *)
LEMMA CreateInv ==
  ASSUME IInv, CreateNewRS PROVE IInv'
<1> DEFINE t == T(w)
           r == Made
           l == [w.l EXCEPT ![t] = r]
           y == [w EXCEPT !.pc = "stampNew", !.l = l, !.lCur = @ \cup {t}]
<1>1. w \in WorkerType /\ t \in Tmpls /\ w.l \in [Tmpls -> RSType] /\ w.lCur \in SUBSET Tmpls
      /\ (w.dCur => w.d = dep) /\ ViaOK(w) /\ Fresh(w, rs, running) /\ Current(w, rs)
  BY WorkerState, WorkerFields
<1>2. /\ w.pc = "newRS" /\ ~w.l[t].exists /\ Creating(w) /\ ~rs[t].exists
      /\ NewRevision(w) <= MaxRev /\ births < MaxRev
      /\ StoreRS(t, r) /\ Event("replicasets") /\ births' = births + 1
      /\ UNCHANGED <<depVars, running, stalled, timer, scenario, bounds>>
  BY DEF CreateNewRS
<1>3. Become(y)
  <2>1. Become([w EXCEPT !.pc = "stampNew", !.l[t] = Made, !.lCur = @ \cup {t}])
    BY DEF CreateNewRS
  <2>2. y = [w EXCEPT !.pc = "stampNew", !.l[t] = Made, !.lCur = @ \cup {t}]
    BY <1>1 DEF WorkerType
  <2> QED  BY <2>1, <2>2
<1>4. /\ r \in RSType /\ Sane(r) /\ r.exists /\ r.rev = NewRevision(w) /\ r.born = births + 1
  BY <1>2, MadeTyped
<1> HIDE DEF r
<1>5. l \in [Tmpls -> RSType] /\ l[t] = r /\ \A u \in Tmpls \ {t} : l[u] = w.l[u]
  BY <1>1, <1>4
<1> HIDE DEF l, t
<1>6. /\ y \in WorkerType /\ y.pc = "stampNew" /\ y.via = w.via /\ y.d = w.d
      /\ y.dCur = w.dCur /\ y.l = l /\ y.lCur = w.lCur \cup {t} /\ y.oldRuns = w.oldRuns
      /\ y.fresh = w.fresh
  BY <1>1, <1>5 DEF WorkerType, PCs
<1> HIDE DEF y
<1>7. T(y) = t /\ Old(y) = Old(w) /\ t \notin Old(y)
  BY <1>2, <1>5, <1>6 DEF T, Old, All, t
<1>8. NewRevision(y) = NewRevision(w)
  <2>1. \A u \in Old(y) : y.l[u] = w.l[u]
    BY <1>5, <1>6, <1>7 DEF Old, All
  <2>2. {y.l[u].rev : u \in Old(y)} = {w.l[u].rev : u \in Old(w)}
    BY <1>7, <2>1
  <2> QED  BY <2>2 DEF NewRevision, MaxOldRevision
<1>9. PlanOK(y)
  <2>1. Settled(w) => Settled(y)
    BY <1>5, <1>6, <1>7 DEF Settled, FilterActive, Old, All
  <2>2. ViaOK(y)
    BY <1>1, <1>2, <1>4, <1>5, <1>6, <1>7, <1>8, <2>1 DEF ViaOK, Creating
  <2>3. TodoOK(y)
    BY <1>6 DEF TodoOK
  <2> QED  BY <2>2, <2>3 DEF PlanOK
<1>10. rs'[t] = r /\ \A u \in Tmpls \ {t} : rs'[u] = rs[u]
  BY <1>1, <1>2, <1>4, RSStored
<1>11. Current(y, rs')
  <2>1. \A u \in y.lCur : rs'[u] = y.l[u] /\ y.l[u].replicas \in Nat
    <3>1. \A u \in w.lCur : rs[u] = w.l[u]
      BY <1>1, <1>2 DEF Current
    <3>2. \A u \in Tmpls : l[u].replicas \in Nat
      BY <1>5 DEF RSType
    <3> QED  BY <1>1, <1>5, <1>6, <1>10, <3>1, <3>2
  <2> QED  BY <2>1 DEF Current
<1>12. Fresh(y, rs', running) /\ KeepsAvailable(y, Spread(rs'))
  <2> SUFFICES ASSUME y.fresh
               PROVE  /\ Mirror(y, rs') /\ PodsSeen(y, running)
                      /\ y.via = "recreateNew" => Clear(y, rs', running)
    BY <1>2, <1>6 DEF Fresh, WithinSurge, KeepsAvailable, Creating
  <2>1. Mirror(w, rs) /\ PodsSeen(w, running) /\ (w.via = "recreateNew" => Clear(w, rs, running))
    BY <1>1, <1>2, <1>6 DEF Fresh
  <2>2. Mirror(y, rs')
    BY <1>5, <1>6, <1>10, <2>1 DEF Mirror
  <2>3. PodsSeen(y, running)
    BY <1>5, <1>6, <1>7, <2>1 DEF PodsSeen, t
  <2>4. y.via = "recreateNew" => Clear(y, rs', running)
    BY <1>6, <1>7, <1>10, <2>1 DEF Clear, t
  <2> QED  BY <2>2, <2>3, <2>4
<1>13. Works(y, rs', running, dep)
  BY <1>1, <1>6, <1>9, <1>11, <1>12 DEF Works
<1>14. births \in Nat /\ births' \in Nat /\ births <= births' /\ r.born <= births' /\ r.born > births
  <2>1. births \in Nat
    BY CopyTypes
  <2> QED  BY <1>2, <1>4, <2>1
<1>15. CountsOK'
  <2>1. births' \in 0..MaxRev
    BY <1>2, <1>14, DeploymentAssumption
  <2> QED  BY <1>2, <2>1 DEF IInv, CountsOK, bounds
<1>16. \A u \in Tmpls : y.l[u] \in Told(u, rs, seenRS, w.l) \cup IF u = t THEN {r} ELSE {}
  BY <1>5, <1>6 DEF Told
<1> QED  BY <1>1, <1>2, <1>3, <1>4, <1>13, <1>14, <1>15, <1>16, RSWritten

(* getNewReplicaSet finds the name taken by the Deployment's own. *)
LEMMA AdoptInv ==
  ASSUME IInv, AdoptExisting PROVE IInv'
<1> DEFINE t == T(w)
           o == [w.d EXCEPT !.rev = NewRevision(w)]
           cur == IF t \in seenRSCur THEN w.lCur \cup {t} ELSE w.lCur \ {t}
           l == [w.l EXCEPT ![t] = seenRS[t]]
           x == [w EXCEPT !.l = l, !.lCur = cur, !.d = o]
<1>1. /\ w \in WorkerType /\ t \in Tmpls /\ w.l \in [Tmpls -> RSType] /\ w.lCur \in SUBSET Tmpls
      /\ w.d \in DepType /\ scenario \in Scenarios /\ ViaOK(w) /\ Fresh(w, rs, running)
      /\ (w.dCur => w.d = dep) /\ seenRS[t] \in RSType
      /\ NewRevision(w) \in Nat /\ seenRSCur \subseteq Tmpls
      /\ \A u \in seenRSCur : seenRS[u] = rs[u]
  BY WorkerState, WorkerFields, RevisionAbove DEF IInv, ReplicaSetsOK
<1>2. /\ w.pc = "newRS" /\ ~w.l[t].exists /\ Creating(w) /\ rs[t].exists
      /\ NewRevision(w) <= MaxRev
      /\ UNCHANGED <<rsVars, running, births, stalled, timer, scenario, bounds>>
  BY DEF AdoptExisting
<1>3. ~w.fresh
  BY <1>1, <1>2 DEF Fresh, Mirror
<1>4. x = [w EXCEPT !.l[t] = seenRS[t],
                    !.lCur = IF t \in seenRSCur THEN @ \cup {t} ELSE @ \ {t}, !.d = o]
  BY <1>1 DEF WorkerType
<1>5. \/ ReturnErr /\ UNCHANGED depVars
      \/ seenRS[t].exists /\ o = w.d /\ Become(Continue(x)) /\ UNCHANGED <<depVars, queued>>
      \/ seenRS[t].exists /\ UpdateDep(o, Continue(x))
  BY <1>4 DEF AdoptExisting
<1>6. o \in DepType /\ o.tmpl = w.d.tmpl /\ o.replicas = w.d.replicas /\ o.strategy = w.d.strategy
  <2>1. NewRevision(w) \in 0..MaxRev
    BY <1>1, <1>2, DeploymentAssumption
  <2> QED  BY <1>1, <2>1, DeploymentWith
<1>7. /\ cur \in SUBSET Tmpls /\ cur \ {t} \subseteq w.lCur /\ (t \in cur => t \in seenRSCur)
      /\ l \in [Tmpls -> RSType] /\ l[t] = seenRS[t] /\ \A u \in Tmpls \ {t} : l[u] = w.l[u]
  BY <1>1
<1> HIDE DEF o, cur, l, t
<1>8. /\ x \in WorkerType /\ x.pc = w.pc /\ x.via = w.via /\ x.d = o /\ x.dCur = w.dCur
      /\ x.l = l /\ x.lCur = cur /\ x.fresh = w.fresh
  BY <1>1, <1>6, <1>7 DEF WorkerType
<1> HIDE DEF x
<1>9. T(x) = t /\ Old(x) = Old(w)
  <2>1. T(x) = t
    BY <1>6, <1>8 DEF T, t
  <2> QED  BY <1>7, <1>8, <2>1 DEF Old, All, t
<1>10. \A u \in Tmpls : x.l[u] \in Told(u, rs, seenRS, w.l)
  BY <1>7, <1>8 DEF Told
<1>11. Good(x)
  <2>1. CopiesOK(rs, seenRS, w.l, births)
    BY DEF IInv
  <2> QED  BY <1>8, <1>10, <2>1, CopyGood
<1>12. Fit(x)
  <2>1. Fit(w)
    BY <1>2, Asking
  <2>2. Settled(w) => Settled(x)
    BY <1>6, <1>7, <1>8, <1>9 DEF Settled, FilterActive, Old, All, t
  <2>3. IsRollingUpdate(x.d) = IsRollingUpdate(w.d)
    BY <1>6, <1>8 DEF IsRollingUpdate
  <2> QED  BY <1>8, <1>11, <2>1, <2>2, <2>3 DEF Fit
<1>13. \A u \in x.lCur : rs[u] = x.l[u]
  <2>1. \A u \in w.lCur : rs[u] = w.l[u]
    BY <1>2, Asking
  <2> QED  BY <1>1, <1>7, <1>8, <2>1
<1> DEFINE y == Continue(x)
<1>14. ASSUME seenRS[t].exists PROVE Planned(x, y)
  <2>1. x.l[T(x)].exists
    BY <1>7, <1>8, <1>9, <1>14
  <2> QED  BY <1>1, <1>12, <2>1, ContinuePlanned
<1>15. \/ ReturnErr /\ UNCHANGED depVars
       \/ Planned(x, y) /\ o = w.d /\ Become(y) /\ UNCHANGED <<depVars, queued>>
       \/ Planned(x, y) /\ UpdateDep(o, y)
  BY <1>5, <1>14
<1> HIDE DEF y
<1>16. CountsOK'
  BY <1>2 DEF IInv, CountsOK, bounds
<1>17. CASE ReturnErr /\ UNCHANGED depVars
  <2>1. queued' \in BOOLEAN /\ retries' \in 0..MaxRetries /\ w' = Idle
    BY <1>17, Retried DEF IInv
  <2>2. DeploymentsOK' /\ QueueOK'
    BY <1>2, <1>17, <2>1 DEF IInv, DeploymentsOK, QueueOK, depVars
  <2> QED  BY <1>2, <1>16, <2>1, <2>2, ToIdle
<1>18. CASE Planned(x, y) /\ o = w.d /\ Become(y) /\ UNCHANGED <<depVars, queued>>
  <2>1. Works(y, rs, running, dep)
    <3>1. rs \in [Tmpls -> RSType] /\ (x.dCur => x.d = dep) /\ ~x.fresh
      BY <1>1, <1>3, <1>8, <1>18 DEF IInv, ReplicaSetsOK
    <3> QED  BY <1>11, <1>13, <1>18, <3>1, PlanWorks
  <2>2. w' = y /\ y.l = x.l
    BY <1>18 DEF Become, Planned, Kept
  <2>3. CopiesOK(rs, seenRS, y.l, births)
    <3>1. \A u \in Tmpls : y.l[u] \in Told(u, rs, seenRS, w.l) /\ seenRS[u] \in Told(u, rs, seenRS, w.l)
      BY <1>10, <2>2 DEF Told
    <3> QED  BY <3>1, CopiesKept
  <2>4. retries' \in 0..MaxRetries
    BY <1>18, DeploymentAssumption DEF Become, IInv, QueueOK
  <2>5. DeploymentsOK' /\ QueueOK' /\ ReplicaSetsOK'
    BY <1>2, <1>18, <2>4 DEF IInv, DeploymentsOK, QueueOK, ReplicaSetsOK, depVars, rsVars
  <2> QED  BY <1>2, <1>16, <1>18, <2>1, <2>2, <2>3, <2>5 DEF IInv, depVars, rsVars
<1>19. CASE Planned(x, y) /\ UpdateDep(o, y)
  BY <1>2, <1>3, <1>6, <1>8, <1>10, <1>11, <1>13, <1>19, DepWritten
<1> QED  BY <1>15, <1>17, <1>18, <1>19

-----------------------------------------------------------------------------
(***************************************************************************)
(* Sizes, one write after the other.                                       *)
(***************************************************************************)
(* The first of a list of sizes and the others. *)
LEMMA FirstAndRest ==
  ASSUME NEW s \in Seq(Item), s # <<>>
  PROVE  /\ 1 \in DOMAIN s /\ Head(s) = s[1] /\ Head(s).t \in Tmpls /\ Head(s).n \in Nat
         /\ Tail(s) \in Seq(Item)
         /\ Len(s) # 1 => Tail(s) # <<>>
         /\ \A i \in DOMAIN Tail(s) : /\ i + 1 \in DOMAIN s /\ Tail(s)[i] = s[i + 1]
                                      /\ i \in Nat /\ 1 < i + 1
<1>1. Len(s) \in Nat /\ Len(s) # 0 /\ DOMAIN s = 1..Len(s)
  BY EmptySeq, LenProperties
<1>2. 1 \in DOMAIN s /\ s[1] \in Item
  BY <1>1
<1>3. Head(s) = s[1]
  OBVIOUS
<1>4. Tail(s) \in Seq(Item) /\ Len(Tail(s)) = Len(s) - 1
  BY HeadTailProperties
<1>5. DOMAIN Tail(s) = 1..(Len(s) - 1)
  BY <1>1, <1>4, LenProperties
<1>6. \A i \in 1..(Len(s) - 1) : i + 1 \in 1..Len(s) /\ i \in Nat /\ 1 < i + 1
  BY <1>1
<1>7. \A i \in 1..(Len(s) - 1) : Tail(s)[i] = s[i + 1]
  BY <1>1, <1>4
<1>8. Len(s) # 1 => Tail(s) # <<>>
  BY <1>1, <1>4, EmptySeq
<1> QED  BY <1>1, <1>2, <1>3, <1>4, <1>5, <1>6, <1>7, <1>8 DEF Item

(* Nothing is promised once the sizes are written. *)
LEMMA ClosedWorks ==
  ASSUME NEW x \in WorkerType, NEW y, Closes(x, y), NEW r, NEW run, NEW d,
         x.via # "event", x.via \in {"recreate", "recreateNew"} => ~IsRollingUpdate(x.d),
         x.dCur => x.d = d,
         \A t \in x.lCur : /\ r[t].exists = x.l[t].exists /\ r[t].avail = x.l[t].avail
                           /\ r[t].replicas <= x.l[t].replicas
  PROVE  Works(y, r, run, d)
<1>1. /\ y \in WorkerType /\ Kept(x, y) /\ y.via = x.via /\ y.pc \in {"status", "cleanup"}
      /\ y.pc = "cleanup" => /\ y.todo # <<>>
                             /\ \A i \in DOMAIN y.todo : x.l[y.todo[i].t].replicas = 0
  BY DEF Closes
<1>2. y.d = x.d /\ y.dCur = x.dCur /\ y.l = x.l /\ y.lCur = x.lCur
  BY <1>1 DEF Kept
<1>3. PlanOK(y)
  BY <1>1, <1>2 DEF PlanOK, ViaOK, TodoOK
<1>4. Current(y, r)
  BY <1>1, <1>2 DEF Current
<1>5. Fresh(y, r, run) /\ KeepsAvailable(y, Spread(r))
  BY <1>1 DEF Fresh, WithinSurge, KeepsAvailable
<1> QED  BY <1>1, <1>2, <1>3, <1>4, <1>5 DEF Works

(* The ReplicaSet that scaleReplicaSet writes. *)
LEMMA ResizedTyped ==
  ASSUME IInv, w.pc \in {"resize", "shrink"}, NEW e, e = Head(w.todo)
  PROVE  /\ e.t \in Tmpls /\ e.n \in Nat
         /\ Resized(e.t, e.n) \in RSType /\ Sane(Resized(e.t, e.n))
         /\ LET r == Resized(e.t, e.n)
            IN  /\ r.exists = w.l[e.t].exists /\ r.replicas = e.n /\ r.avail = w.l[e.t].avail
                /\ r.born = w.l[e.t].born /\ r.exists
<1>1. w \in WorkerType /\ w.todo \in Seq(Item) /\ Good(w) /\ TodoOK(w)
  BY WorkerState, WorkerFields
<1>2. w.todo # <<>>
  BY <1>1 DEF TodoOK
<1>3. 1 \in DOMAIN w.todo /\ e = w.todo[1] /\ e.t \in Tmpls /\ e.n \in Nat
  BY <1>1, <1>2, FirstAndRest
<1>4. w.l[e.t].exists /\ (e.n > 0 => w.d.replicas > 0)
  BY <1>1, <1>3 DEF TodoOK
<1>5. /\ w.l[e.t] \in RSType /\ w.d.replicas \in Nat /\ MaxSurge(w.d) \in Nat /\ Sane(w.l[e.t])
  BY <1>1, <1>3, ObjectFields, Fenceposts DEF Good
<1> DEFINE a == w.l[e.t]
           m == w.d.replicas + MaxSurge(w.d)
           r == [a EXCEPT !.replicas = e.n, !.desired = w.d.replicas, !.max = m]
<1>6. Resized(e.t, e.n) = r
  BY DEF Resized
<1>7. m \in Nat /\ (w.d.replicas > 0 => m > 0)
  BY <1>5
<1> HIDE DEF a, m
<1>8. a \in RSType /\ a.exists /\ Sane(a)
  BY <1>4, <1>5 DEF a
<1>9. /\ r \in RSType /\ r.exists = a.exists /\ r.replicas = e.n /\ r.avail = a.avail
      /\ r.born = a.born /\ r.rev = a.rev /\ r.desired = w.d.replicas /\ r.max = m
  BY <1>3, <1>5, <1>7, <1>8 DEF RSType
<1> HIDE DEF r
<1>10. Sane(r)
  BY <1>4, <1>7, <1>8, <1>9 DEF Sane
<1> QED  BY <1>3, <1>6, <1>8, <1>9, <1>10 DEF a

(* What one write leaves of the promises about the others. *)
LEMMA FallsOn ==
  ASSUME NEW x \in WorkerType, x.todo # <<>>, NEW y, y.todo = Tail(x.todo),
         NEW f, Falls(x, f), NEW g,
         g[Head(x.todo).t] = Head(x.todo).n,
         \A u \in Tmpls \ {Head(x.todo).t} : g[u] = f[u]
  PROVE  Falls(y, g)
<1>1. x.todo \in Seq(Item)
  BY WorkerFields
<1> DEFINE s == x.todo
           e == Head(s)
<1>2. /\ 1 \in DOMAIN s /\ e = s[1] /\ e.t \in Tmpls
      /\ \A i \in DOMAIN Tail(s) : /\ i + 1 \in DOMAIN s /\ Tail(s)[i] = s[i + 1]
                                   /\ i \in Nat /\ 1 < i + 1
  BY <1>1, FirstAndRest
<1>3. \A i \in DOMAIN s : s[i].t \in Tmpls
  <2>1. \A i \in DOMAIN s : s[i] \in Item
    BY <1>1
  <2> QED  BY <2>1 DEF Item
<1>4. /\ \A i \in DOMAIN s : s[i].n <= f[s[i].t]
      /\ \A i, j \in DOMAIN s : i < j /\ s[i].t = s[j].t => s[j].n <= s[i].n
  BY DEF Falls
<1> HIDE DEF s, e
<1>5. g[e.t] = e.n /\ (\A u \in Tmpls \ {e.t} : g[u] = f[u]) /\ y.todo = Tail(s)
  BY DEF s, e
<1>6. \A i \in DOMAIN Tail(s) : Tail(s)[i].n <= g[Tail(s)[i].t]
  <2> SUFFICES ASSUME NEW i \in DOMAIN Tail(s) PROVE s[i + 1].n <= g[s[i + 1].t]
    BY <1>2
  <2>1. CASE s[i + 1].t = e.t
    BY <1>2, <1>4, <1>5, <2>1
  <2>2. CASE s[i + 1].t # e.t
    BY <1>2, <1>3, <1>4, <1>5, <2>2
  <2> QED  BY <2>1, <2>2
<1>7. \A i, j \in DOMAIN Tail(s) : i < j /\ Tail(s)[i].t = Tail(s)[j].t => Tail(s)[j].n <= Tail(s)[i].n
  <2> SUFFICES ASSUME NEW i \in DOMAIN Tail(s), NEW j \in DOMAIN Tail(s), i < j,
                      s[i + 1].t = s[j + 1].t
               PROVE  s[j + 1].n <= s[i + 1].n
    BY <1>2
  <2>1. i + 1 \in DOMAIN s /\ j + 1 \in DOMAIN s /\ i + 1 < j + 1
    BY <1>2
  <2> QED  BY <1>4, <2>1
<1> QED  BY <1>5, <1>6, <1>7 DEF Falls

(* A size is written and there are more to write. *)
LEMMA NextWorks ==
  ASSUME IInv, w.pc \in {"resize", "shrink"}, NEW e, e = Head(w.todo), e.t \in w.lCur,
         Len(w.todo) # 1, StoreRS(e.t, Resized(e.t, e.n)),
         NEW y \in WorkerType, y.pc = w.pc, y.via = w.via, y.d = w.d, y.l = w.l,
         y.oldRuns = w.oldRuns, y.fresh = w.fresh, y.dCur = w.dCur, y.todo = Tail(w.todo),
         y.lCur = IF w.pc = "resize" THEN w.lCur \ {e.t} ELSE w.lCur
  PROVE  Works(y, rs', running, dep)
<1> DEFINE s == w.todo
           r == Resized(e.t, e.n)
           f == Spread(rs)
           g == Spread(rs')
<1>1. /\ w \in WorkerType /\ s \in Seq(Item) /\ w.lCur \subseteq Tmpls /\ Current(w, rs)
      /\ ViaOK(w) /\ TodoOK(w) /\ Fresh(w, rs, running) /\ (w.dCur => w.d = dep)
      /\ w.lCur = Tmpls => KeepsAvailable(w, f)
  BY WorkerState, WorkerFields
<1>2. s # <<>>
  BY <1>1 DEF TodoOK
<1>3. /\ 1 \in DOMAIN s /\ e = s[1] /\ y.todo # <<>>
      /\ \A i \in DOMAIN y.todo : /\ i + 1 \in DOMAIN s /\ y.todo[i] = s[i + 1]
                                  /\ i \in Nat /\ 1 < i + 1
  BY <1>1, <1>2, FirstAndRest
<1>4. /\ e.t \in Tmpls /\ e.n \in Nat /\ r \in RSType
      /\ r.exists = w.l[e.t].exists /\ r.replicas = e.n /\ r.avail = w.l[e.t].avail /\ r.exists
  BY ResizedTyped
<1> HIDE DEF r
<1>5. rs'[e.t] = r /\ \A u \in Tmpls \ {e.t} : rs'[u] = rs[u]
  <2>1. StoreRS(e.t, r)
    BY DEF r
  <2> QED  BY <1>4, <2>1, RSStored
<1>6. g[e.t] = e.n /\ \A u \in Tmpls \ {e.t} : g[u] = f[u]
  BY <1>4, <1>5 DEF Spread
<1>7. T(y) = T(w) /\ All(y) = All(w) /\ Old(y) = Old(w) /\ NewRevision(y) = NewRevision(w)
  BY DEF T, All, Old, NewRevision, MaxOldRevision
<1>8. PlanOK(y)
  <2>1. ViaOK(y)
    BY <1>1, <1>7 DEF ViaOK, Settled, FilterActive, Creating
  <2>2. TodoOK(y)
    <3>1. \A i \in DOMAIN y.todo : \E j \in DOMAIN s : y.todo[i] = s[j]
      BY <1>3
    <3>2. y.todo # <<>>
      BY <1>3
    <3>3. /\ y.pc = w.pc /\ y.via = w.via /\ y.d = w.d /\ y.l = w.l /\ T(y) = T(w)
          /\ TodoOK(w)
      BY <1>1, <1>7
    <3> QED  BY ONLY <3>1, <3>2, <3>3 DEF TodoOK
  <2> QED  BY <2>1, <2>2 DEF PlanOK
<1>9. Current(y, rs')
  <2>1. CASE w.pc = "resize"
    BY <1>1, <1>5, <2>1 DEF Current
  <2>2. CASE w.pc = "shrink"
    <3>1. e.n <= w.l[e.t].replicas
      BY <1>1, <1>3, <2>2 DEF TodoOK
    <3>2. \A u \in w.lCur : /\ rs'[u].exists = w.l[u].exists /\ rs'[u].avail = w.l[u].avail
                            /\ rs'[u].replicas <= w.l[u].replicas
      BY <1>1, <1>4, <1>5, <3>1 DEF Current
    <3> QED  BY <2>2, <3>2 DEF Current
  <2> QED  BY <2>1, <2>2
<1> HIDE DEF f, g
<1>10. Falls(w, f) => Falls(y, g)
  BY <1>1, <1>2, <1>6, FallsOn
<1>11. Ceiling(w, f) => Ceiling(y, g)
  <2> SUFFICES ASSUME NEW top \in [Tmpls -> Nat],
                      \A t \in Tmpls : f[t] <= top[t],
                      \A i \in DOMAIN s : s[i].n <= top[s[i].t],
                      Total(top, Tmpls) <= w.d.replicas + MaxSurge(w.d)
               PROVE  /\ \A t \in Tmpls : g[t] <= top[t]
                      /\ \A i \in DOMAIN y.todo : y.todo[i].n <= top[y.todo[i].t]
    BY DEF Ceiling
  <2> QED  BY <1>3, <1>6
<1>12. Floor(w, f) => Floor(y, g)
  <2> SUFFICES ASSUME NEW low \in [Tmpls -> Nat],
                      \A t \in Tmpls : low[t] <= f[t],
                      \A i \in DOMAIN s : low[s[i].t] <= s[i].n, Leaves(w, low)
               PROVE  /\ \A t \in Tmpls : low[t] <= g[t]
                      /\ \A i \in DOMAIN y.todo : low[y.todo[i].t] <= y.todo[i].n
                      /\ Leaves(y, low)
    BY DEF Floor
  <2>1. Leaves(y, low)
    BY DEF Leaves
  <2> QED  BY <1>3, <1>6, <2>1
<1>13. WithinSurge(w, f) => WithinSurge(y, g)
  <2>1. Grows(y) = Grows(w)
    BY <1>7 DEF Grows, FilterActive, Replicas
  <2> QED  BY <1>10, <1>11, <2>1 DEF WithinSurge
<1>14. y.lCur = Tmpls => KeepsAvailable(y, g)
  <2> SUFFICES ASSUME w.pc = "shrink", w.lCur = Tmpls PROVE KeepsAvailable(y, g)
    BY DEF KeepsAvailable
  <2>1. KeepsAvailable(w, f)
    BY <1>1 DEF f
  <2> QED  BY <1>3, <1>12, <2>1 DEF KeepsAvailable
<1>15. Fresh(y, rs', running)
  <2> SUFFICES ASSUME w.fresh
               PROVE  /\ WithinSurge(y, g)
                      /\ w.via = "recreateNew" /\ w.pc = "resize" => Clear(y, rs', running)
                      /\ w.via = "recreate" /\ w.pc = "resize" =>
                           Clear(y, rs', running) \/ \A i \in DOMAIN y.todo : y.todo[i].n = 0
    BY DEF Fresh, g
  <2>1. WithinSurge(y, g)
    BY <1>1, <1>13 DEF Fresh, f
  <2>2. ASSUME Clear(w, rs, running), w.pc = "resize", w.via \in {"recreate", "recreateNew"}
        PROVE  Clear(y, rs', running)
    <3>1. e.n = 0 \/ e.t = T(w)
      BY <1>1, <1>3, <2>2 DEF TodoOK
    <3>2. e.t \in w.lCur => rs[e.t].exists = w.l[e.t].exists
      BY <1>1 DEF Current
    <3>3. \A u \in Tmpls : u # T(w) /\ rs'[u].exists => running[u] = 0 /\ rs'[u].replicas = 0
      BY <1>4, <1>5, <2>2, <3>1, <3>2 DEF Clear
    <3> QED  BY <1>7, <3>3 DEF Clear
  <2>3. w.via = "recreateNew" /\ w.pc = "resize" => Clear(w, rs, running)
    BY <1>1 DEF Fresh
  <2>4. w.via = "recreate" /\ w.pc = "resize" =>
          Clear(w, rs, running) \/ \A i \in DOMAIN s : s[i].n = 0
    BY <1>1 DEF Fresh
  <2> QED  BY <1>3, <2>1, <2>2, <2>3, <2>4
<1> QED  BY <1>1, <1>8, <1>9, <1>14, <1>15 DEF Works, g

(* The write of a size. *)
LEMMA SizeWritten ==
  ASSUME IInv, w.pc \in {"resize", "shrink"}, NEW e, e = Head(w.todo),
         NEW x \in WorkerType, x.pc = w.pc, x.via = w.via, x.d = w.d, x.l = w.l,
         x.oldRuns = w.oldRuns, x.fresh = w.fresh, x.dCur = w.dCur, x.todo = w.todo,
         x.lCur = IF w.pc = "resize" THEN w.lCur \ {e.t} ELSE w.lCur,
         UpdateRS(e.t, Resized(e.t, e.n), NextSize(x)),
         UNCHANGED <<depVars, running, births, stalled, timer, scenario, bounds>>
  PROVE  IInv'
<1> DEFINE r == Resized(e.t, e.n)
           y == NextSize(x)
<1>1. e.t \in w.lCur /\ StoreRS(e.t, r) /\ Event("replicasets") /\ Become(y)
  BY DEF UpdateRS
<1>2. /\ e.t \in Tmpls /\ e.n \in Nat /\ r \in RSType /\ Sane(r)
      /\ r.exists = w.l[e.t].exists /\ r.replicas = e.n /\ r.avail = w.l[e.t].avail /\ r.exists
      /\ r.born = w.l[e.t].born
  BY ResizedTyped
<1>3. /\ w \in WorkerType /\ Good(w) /\ scenario \in Scenarios /\ w.lCur \subseteq Tmpls
      /\ Current(w, rs) /\ ViaOK(w) /\ TodoOK(w) /\ (w.dCur => w.d = dep)
      /\ w.todo \in Seq(Item)
  BY WorkerState, WorkerFields
<1>4. Good(x)
  BY <1>3 DEF Good
<1> HIDE DEF r
<1>5. rs'[e.t] = r /\ \A u \in Tmpls \ {e.t} : rs'[u] = rs[u]
  BY <1>1, <1>2, RSStored
<1>6. Works(y, rs', running, dep) /\ y.l = w.l
  <2>1. CASE Len(w.todo) = 1
    <3>1. y = AfterSizes(x)
      BY <2>1 DEF NextSize
    <3>2. Closes(x, AfterSizes(x))
      BY <1>3, <1>4, SizesClose
    <3> HIDE DEF y
    <3>3. Closes(x, y)
      BY <3>1, <3>2
    <3>4. w.pc = "shrink" => e.n <= w.l[e.t].replicas
      <4>1. w.todo # <<>>
        BY <1>3 DEF TodoOK
      <4>2. 1 \in DOMAIN w.todo /\ e = w.todo[1]
        BY <1>3, <4>1, FirstAndRest
      <4> QED  BY <1>3, <4>2 DEF TodoOK
    <3>5. \A t \in x.lCur : /\ rs'[t].exists = x.l[t].exists /\ rs'[t].avail = x.l[t].avail
                            /\ rs'[t].replicas <= x.l[t].replicas
      BY <1>2, <1>3, <1>5, <3>4 DEF Current
    <3>6. x.via # "event" /\ (x.via \in {"recreate", "recreateNew"} => ~IsRollingUpdate(x.d))
      BY <1>3 DEF ViaOK
    <3>7. Works(y, rs', running, dep)
      BY <1>3, <3>3, <3>5, <3>6, ClosedWorks
    <3> QED  BY <3>3, <3>7 DEF Closes, Kept
  <2>2. CASE Len(w.todo) # 1
    <3>1. y = [x EXCEPT !.todo = Tail(w.todo)]
      BY <2>2 DEF NextSize
    <3>2. Tail(w.todo) \in Seq(Item)
      <4>1. w.todo # <<>>
        BY <1>3 DEF TodoOK
      <4> QED  BY <1>3, <4>1, FirstAndRest
    <3> HIDE DEF y
    <3>3. /\ y \in WorkerType /\ y.pc = x.pc /\ y.via = x.via /\ y.d = x.d /\ y.l = x.l
          /\ y.oldRuns = x.oldRuns /\ y.fresh = x.fresh /\ y.dCur = x.dCur
          /\ y.todo = Tail(w.todo) /\ y.lCur = x.lCur
      BY <3>1, <3>2 DEF WorkerType, Item
    <3>4. StoreRS(e.t, Resized(e.t, e.n))
      BY <1>1 DEF r
    <3> QED  BY <1>1, <2>2, <3>3, <3>4, NextWorks
  <2> QED  BY <2>1, <2>2
<1> HIDE DEF y
<1>7. /\ w.l[e.t] \in Told(e.t, rs, seenRS, w.l)
      /\ \A u \in Tmpls : y.l[u] \in Told(u, rs, seenRS, w.l)
  BY <1>6 DEF Told
<1>8. births' \in Nat /\ births <= births' /\ r.born <= births' /\ CountsOK'
  <2>1. births' = births /\ births \in Nat
    BY CopyTypes
  <2>2. w.l[e.t].born <= births
    BY <1>2, <1>7 DEF IInv, CopiesOK
  <2> QED  BY <1>2, <2>1, <2>2 DEF IInv, CountsOK, bounds
<1> QED  BY <1>1, <1>2, <1>6, <1>7, <1>8, RSWritten

(* scaleReplicaSet. *)
LEMMA ScaleInv ==
  ASSUME IInv, scaleReplicaSet PROVE IInv'
<1> DEFINE e == Head(w.todo)
           x == [w EXCEPT !.lCur = @ \ {e.t}]
<1>1. /\ w.pc = "resize"
      /\ UpdateRS(e.t, Resized(e.t, e.n), NextSize(x)) \/ ConflictRS(e.t)
      /\ UNCHANGED <<depVars, running, births, stalled, timer, scenario, bounds>>
  BY DEF scaleReplicaSet
<1> HIDE DEF e
<1>2. /\ x \in WorkerType /\ x.pc = w.pc /\ x.via = w.via /\ x.d = w.d /\ x.l = w.l
      /\ x.oldRuns = w.oldRuns /\ x.todo = w.todo /\ x.fresh = w.fresh /\ x.dCur = w.dCur
      /\ x.lCur = w.lCur \ {e.t}
  <2> DEFINE t == e.t
  <2>1. w \in WorkerType /\ x = [w EXCEPT !.lCur = @ \ {t}]
    BY WorkerState
  <2> HIDE DEF t, x
  <2>2. /\ x \in WorkerType /\ x.pc = w.pc /\ x.via = w.via /\ x.d = w.d /\ x.l = w.l
        /\ x.oldRuns = w.oldRuns /\ x.todo = w.todo /\ x.fresh = w.fresh /\ x.dCur = w.dCur
        /\ x.lCur = w.lCur \ {t}
    BY <2>1, Forgets
  <2> QED  BY <2>2 DEF t
<1> HIDE DEF x
<1>3. e = Head(w.todo)
  BY DEF e
<1>4. ASSUME UpdateRS(e.t, Resized(e.t, e.n), NextSize(x)) PROVE IInv'
  BY <1>1, <1>2, <1>3, <1>4, SizeWritten
<1> QED  BY <1>1, <1>4, Conflicts

(* A scale-down that is broken off. *)
LEMMA BrokenOff ==
  ASSUME IInv, w.pc = "shrink", Become(AfterSizes([w EXCEPT !.then = "finish"])),
         UNCHANGED <<depVars, rsVars, queued, running, births, stalled, timer>>, CountsOK'
  PROVE  IInv'
<1> DEFINE x == [w EXCEPT !.then = "finish"]
<1>1. /\ w \in WorkerType /\ Good(w) /\ scenario \in Scenarios /\ w.lCur \subseteq Tmpls
      /\ Current(w, rs) /\ ViaOK(w) /\ (w.dCur => w.d = dep)
  BY WorkerState, WorkerFields
<1>2. /\ x \in WorkerType /\ x.via = w.via /\ x.d = w.d /\ x.l = w.l /\ x.lCur = w.lCur
      /\ x.dCur = w.dCur
  BY <1>1 DEF WorkerType
<1>3. Become(AfterSizes(x))
  OBVIOUS
<1> HIDE DEF x
<1>4. Good(x)
  BY <1>1, <1>2 DEF Good
<1> DEFINE y == AfterSizes(x)
<1>5. Closes(x, y) /\ Become(y)
  BY <1>1, <1>3, <1>4, SizesClose
<1> HIDE DEF y
<1>6. Works(y, rs, running, dep)
  <2>1. \A t \in x.lCur : /\ rs[t].exists = x.l[t].exists /\ rs[t].avail = x.l[t].avail
                          /\ rs[t].replicas <= x.l[t].replicas
    BY <1>1, <1>2 DEF Current
  <2>2. x.via # "event" /\ (x.via \in {"recreate", "recreateNew"} => ~IsRollingUpdate(x.d))
    BY <1>1, <1>2 DEF ViaOK
  <2> QED  BY <1>1, <1>2, <1>5, <2>1, <2>2, ClosedWorks
<1>7. w' = y /\ y.l = w.l
  BY <1>2, <1>5 DEF Become, Closes, Kept
<1>8. retries' \in 0..MaxRetries
  BY <1>5, DeploymentAssumption DEF Become, IInv, QueueOK
<1>9. DeploymentsOK' /\ QueueOK' /\ ReplicaSetsOK'
  BY <1>8 DEF IInv, DeploymentsOK, QueueOK, ReplicaSetsOK, depVars, rsVars
<1> QED  BY <1>6, <1>7, <1>9 DEF IInv, depVars, rsVars

(* A size that reconcileOldReplicaSets writes. *)
LEMMA ScaleDownInv ==
  ASSUME IInv, scaleDownOld PROVE IInv'
<1> DEFINE e == Head(w.todo)
<1>1. /\ w.pc = "shrink"
      /\ \/ UpdateRS(e.t, Resized(e.t, e.n), NextSize(w))
         \/ Become(AfterSizes([w EXCEPT !.then = "finish"])) /\ UNCHANGED <<rsVars, queued>>
      /\ UNCHANGED <<depVars, running, births, stalled, timer, scenario, bounds>>
  BY DEF scaleDownOld
<1> HIDE DEF e
<1>2. e = Head(w.todo) /\ w \in WorkerType
  BY WorkerState DEF e
<1>3. ASSUME UpdateRS(e.t, Resized(e.t, e.n), NextSize(w)) PROVE IInv'
  BY <1>1, <1>2, <1>3, SizeWritten
<1>4. CountsOK'
  BY <1>1 DEF IInv, CountsOK, bounds
<1> QED  BY <1>1, <1>3, <1>4, BrokenOff

(* A call fails. *)
LEMMA CallFailsInv ==
  ASSUME IInv, CallFails PROVE IInv'
<1>1. /\ Strikes("call")
      /\ UNCHANGED <<depVars, rsVars, running, births, stalled, timer, scenario, edits>>
      /\ \/ ReturnErr
         \/ /\ w.pc = "shrink"
            /\ Become(AfterSizes([w EXCEPT !.then = "finish"])) /\ UNCHANGED queued
  BY DEF CallFails
<1>2. CountsOK'
  <2>1. CountsOK /\ running' \in [Tmpls -> Nat]
    BY <1>1 DEF IInv, CountsOK
  <2> QED  BY <1>1, <2>1, StrikesCounted
<1>3. CASE ReturnErr
  <2>1. queued' \in BOOLEAN /\ retries' \in 0..MaxRetries /\ w' = Idle
    BY <1>3, Retried DEF IInv
  <2>2. DeploymentsOK' /\ QueueOK'
    BY <1>1, <2>1 DEF IInv, DeploymentsOK, QueueOK, depVars
  <2> QED  BY <1>1, <1>2, <2>1, <2>2, ToIdle
<1>4. CASE /\ w.pc = "shrink"
           /\ Become(AfterSizes([w EXCEPT !.then = "finish"])) /\ UNCHANGED queued
  BY <1>1, <1>2, <1>4, BrokenOff
<1> QED  BY <1>1, <1>3, <1>4

(* cleanupDeployment deletes a ReplicaSet of zero replicas. *)
LEMMA DeleteInv ==
  ASSUME IInv, DeleteOld PROVE IInv'
<1> DEFINE t == Head(w.todo).t
           x == [w EXCEPT !.then = "status"]
           z == NextSize(x)
           y == [z EXCEPT !.lCur = @ \ {t}]
<1>1. /\ w.pc = "cleanup" /\ Become(y)
      /\ \/ rs[t].exists /\ StoreRS(t, NoRS) /\ Event("replicasets")
         \/ ~rs[t].exists /\ UNCHANGED <<rsVars, queued>>
      /\ UNCHANGED <<depVars, running, births, stalled, timer, scenario, bounds>>
  BY DEF DeleteOld
<1>2. /\ w \in WorkerType /\ Current(w, rs) /\ ViaOK(w) /\ TodoOK(w) /\ (w.dCur => w.d = dep)
      /\ w.todo \in Seq(Item) /\ w.lCur \subseteq Tmpls
  BY WorkerState, WorkerFields
<1>3. w.todo # <<>>
  BY <1>1, <1>2 DEF TodoOK
<1>4. /\ t \in Tmpls /\ Tail(w.todo) \in Seq(Item) /\ (Len(w.todo) # 1 => Tail(w.todo) # <<>>)
      /\ \A i \in DOMAIN Tail(w.todo) : i + 1 \in DOMAIN w.todo /\ Tail(w.todo)[i] = w.todo[i + 1]
  BY <1>2, <1>3, FirstAndRest
<1> HIDE DEF t
<1>5. /\ x \in WorkerType /\ x.pc = w.pc /\ x.via = w.via /\ x.d = w.d /\ x.l = w.l
      /\ x.lCur = w.lCur /\ x.dCur = w.dCur /\ x.todo = w.todo /\ x.then = "status"
  BY <1>2 DEF WorkerType
<1> HIDE DEF x
<1>6. /\ z \in WorkerType /\ z.pc \in {"status", "cleanup"} /\ z.via = w.via /\ z.d = w.d
      /\ z.l = w.l /\ z.lCur = w.lCur /\ z.dCur = w.dCur
      /\ z.pc = "cleanup" => z.todo # <<>> /\ z.todo = Tail(w.todo)
  <2>1. CASE Len(w.todo) = 1
    <3>1. z = AtStatus(x)
      BY <1>5, <2>1 DEF NextSize, AfterSizes
    <3>2. Closes(x, AtStatus(x)) /\ AtStatus(x).pc = "status"
      BY <1>5, StatusCloses
    <3> HIDE DEF z
    <3> QED  BY <1>5, <3>1, <3>2 DEF Closes, Kept
  <2>2. CASE Len(w.todo) # 1
    <3>1. z = [x EXCEPT !.todo = Tail(w.todo)]
      BY <1>5, <2>2 DEF NextSize
    <3> HIDE DEF z
    <3>2. /\ z \in WorkerType /\ z.pc = x.pc /\ z.via = x.via /\ z.d = x.d
          /\ z.l = x.l /\ z.lCur = x.lCur /\ z.dCur = x.dCur /\ z.todo = Tail(w.todo)
      BY <1>4, <1>5, <3>1 DEF WorkerType, Item
    <3> QED  BY <1>1, <1>4, <1>5, <2>2, <3>2
  <2> QED  BY <2>1, <2>2
<1> HIDE DEF z
<1>7. /\ y \in WorkerType /\ y.pc = z.pc /\ y.via = w.via /\ y.d = w.d /\ y.l = w.l
      /\ y.todo = z.todo /\ y.dCur = w.dCur /\ y.lCur = w.lCur \ {t}
  BY <1>6, Forgets
<1> HIDE DEF y
<1>8. PlanOK(y)
  <2>1. ViaOK(y)
    BY <1>1, <1>2, <1>6, <1>7 DEF ViaOK
  <2>2. TodoOK(y)
    <3>1. \A i \in DOMAIN w.todo : w.l[w.todo[i].t].replicas = 0
      BY <1>1, <1>2 DEF TodoOK
    <3>2. y.pc = "cleanup" =>
            y.todo # <<>> /\ \A i \in DOMAIN y.todo : y.l[y.todo[i].t].replicas = 0
      <4>1. \A i \in DOMAIN Tail(w.todo) : w.l[Tail(w.todo)[i].t].replicas = 0
        BY <1>4, <3>1
      <4>2. y.pc = "cleanup" => y.todo # <<>> /\ y.todo = Tail(w.todo)
        BY <1>6, <1>7
      <4>3. y.l = w.l
        BY <1>7
      <4> QED  BY ONLY <4>1, <4>2, <4>3
    <3>3. y.pc \in {"status", "cleanup"}
      BY <1>6, <1>7
    <3> QED  BY <3>2, <3>3 DEF TodoOK
  <2> QED  BY <2>1, <2>2 DEF PlanOK
<1>9. ASSUME NEW r, \A u \in Tmpls \ {t} : r[u] = rs[u] PROVE Works(y, r, running, dep)
  <2>1. Current(y, r)
    BY <1>2, <1>6, <1>7, <1>9 DEF Current
  <2>2. Fresh(y, r, running) /\ KeepsAvailable(y, Spread(r))
    BY <1>6, <1>7 DEF Fresh, WithinSurge, KeepsAvailable
  <2> QED  BY <1>2, <1>7, <1>8, <2>1, <2>2 DEF Works
<1>10. CountsOK' /\ births' = births /\ births \in Nat
  BY <1>1, CopyTypes DEF IInv, CountsOK, bounds
<1>11. CASE StoreRS(t, NoRS) /\ Event("replicasets")
  <2>1. NoRS \in RSType /\ Sane(NoRS) /\ ~NoRS.exists /\ NoRS.born = 0
    BY DeploymentAssumption DEF NoRS, RSType, Sane
  <2>2. Works(y, rs', running, dep)
    BY <1>4, <1>9, <1>11, <2>1, RSStored
  <2>3. \A u \in Tmpls : y.l[u] \in Told(u, rs, seenRS, w.l)
    BY <1>7 DEF Told
  <2>4. births' \in Nat /\ births <= births' /\ NoRS.born <= births'
    BY <1>10, <2>1
  <2> HIDE DEF NoRS
  <2> QED  BY <1>1, <1>4, <1>10, <1>11, <2>1, <2>2, <2>3, <2>4, RSWritten
<1>12. CASE UNCHANGED <<rsVars, queued>>
  <2>1. Works(y, rs, running, dep) /\ w' = y
    BY <1>1, <1>9 DEF Become
  <2>2. retries' \in 0..MaxRetries
    BY <1>1, DeploymentAssumption DEF Become, IInv, QueueOK
  <2>3. DeploymentsOK' /\ QueueOK' /\ ReplicaSetsOK'
    BY <1>1, <1>12, <2>2 DEF IInv, DeploymentsOK, QueueOK, ReplicaSetsOK, depVars, rsVars
  <2> QED  BY <1>1, <1>7, <1>10, <1>12, <2>1, <2>3 DEF IInv, depVars, rsVars
<1> QED  BY <1>1, <1>11, <1>12

-----------------------------------------------------------------------------
(***************************************************************************)
(* The invariant is inductive.                                             *)
(***************************************************************************)
LEMMA InitInv ==
  ASSUME Init PROVE IInv
<1>1. scenario \in ScenarioType /\ scenario \in Scenarios
  BY DeploymentAssumption DEF Init
<1>2. /\ scenario.size \in Sizes /\ scenario.strategy \in {"RollingUpdate", "Recreate"}
      /\ scenario.maxEdits \in Nat /\ scenario.maxFaults \in Nat
  BY <1>1 DEF ScenarioType
<1>3. NewStatus \in StatusType
  BY DEF NewStatus, StatusType, Reasons
<1>4. Created(scenario) \in DepType
  BY <1>2, <1>3, DeploymentAssumption DEF Created, DepType, NoRollback
<1>5. DeploymentsOK
  BY <1>4 DEF Init, DeploymentsOK
<1>6. NoRS \in RSType /\ Sane(NoRS) /\ ~NoRS.exists /\ NoRS.born = 0
  BY DeploymentAssumption DEF NoRS, RSType, Sane
<1> HIDE DEF NoRS
<1>7. ReplicaSetsOK
  BY <1>6 DEF Init, ReplicaSetsOK
<1>8. QueueOK
  <2>1. queued \in BOOLEAN /\ timer \in BOOLEAN /\ stalled \subseteq Watches
    BY DEF Init
  <2>2. retries \in 0..MaxRetries
    BY DeploymentAssumption DEF Init
  <2> QED  BY <2>1, <2>2 DEF QueueOK
<1>9. CountsOK
  BY <1>1, <1>2, DeploymentAssumption DEF Init, CountsOK
<1>10. Works(w, rs, running, dep) /\ w.l = [t \in Tmpls |-> NoRS]
  BY IdleWorks DEF Init
<1>11. CopiesOK(rs, seenRS, w.l, births)
  <2>1. \A t \in Tmpls : Told(t, rs, seenRS, w.l) = {NoRS}
    BY <1>10 DEF Init, Told
  <2>2. births = 0
    BY DEF Init
  <2> QED  BY <1>6, <2>1, <2>2 DEF CopiesOK
<1> QED  BY <1>5, <1>7, <1>8, <1>9, <1>10, <1>11 DEF IInv

(* Every step keeps the invariant. *)
LEMMA NextInv ==
  ASSUME IInv, [Next]_vars PROVE IInv'
<1>1. CASE SyncDeployment
  BY <1>1, StartInv, PausedInv, BumpInv, FoundInv, CreateInv, AdoptInv, CollideInv, StampInv,
     ScaleInv, ScaleDownInv, DeleteInv, SyncStatusInv, RollbackInv DEF SyncDeployment
<1>2. CASE Environment
  <2>1. ASSUME NEW k \in Watches, Stall(k) \/ CatchUp(k) PROVE IInv'
    BY <2>1, StallInv, CatchUpInv
  <2>2. ASSUME NEW t \in Tmpls,
               RunPods(t) \/ PodsReady(t) \/ PodFails(t) \/ PodsRefused(t) \/ PodsGone(t)
        PROVE  IInv'
    BY <2>2, RunPodsInv, PodsReadyInv, PodFailsInv, PodsRefusedInv, PodsGoneInv
  <2> QED  BY <1>2, <2>1, <2>2, TickInv, CallFailsInv, RestartInv, CreateFailsInv DEF Environment
<1>3. CASE User
  BY <1>3, UserInv
<1>4. CASE UNCHANGED vars
  <2>1. DeploymentsOK' /\ ReplicaSetsOK' /\ QueueOK' /\ CountsOK'
    BY <1>4 DEF IInv, DeploymentsOK, ReplicaSetsOK, QueueOK, CountsOK, vars, depVars, rsVars,
                queueVars, bounds
  <2> QED  BY <1>4, <2>1 DEF IInv, vars, depVars, rsVars
<1> QED  BY <1>1, <1>2, <1>3, <1>4 DEF Next

(* The invariant holds in every state the controller reaches. *)
THEOREM Invariance == SafetySpec => []IInv
<1> QED  BY InitInv, NextInv, PTL DEF SafetySpec

(* Every copy of the Deployment and of its ReplicaSets, the worker's, the   *)
(* cache's and the API server's, stays well formed: in particular the sizes *)
(* the controller writes are never negative, revisions and retries stay     *)
(* within their bounds, and the worker's next call is one the code has.     *)
THEOREM DeploymentTypes == SafetySpec => []TypeOK
<1>1. ASSUME IInv PROVE TypeOK
  <2>1. w \in WorkerType
    BY <1>1, WorkerState
  <2> QED  BY <1>1, <2>1 DEF IInv, DeploymentsOK, ReplicaSetsOK, QueueOK, CountsOK, TypeOK
<1> QED  BY <1>1, Invariance, PTL

-----------------------------------------------------------------------------
(***************************************************************************)
(* The sizes of the ReplicaSets.                                           *)
(***************************************************************************)
(* Nobody but the worker changes a size, and only a fault takes away pods   *)
(* that were available and not given up.                                    *)
Quiet ==
  /\ Spread(rs') = Spread(rs)
  /\ \/ faults' > faults
     \/ \A t \in Tmpls : rs'[t].avail >= Smaller(rs[t].avail, rs[t].replicas)

(* ReplicaSets left alone have the sizes they had. *)
LEMMA Unwritten ==
  ASSUME IInv, rs' = rs PROVE Quiet
<1>1. \A t \in Tmpls : rs[t].avail \in Nat /\ rs[t].replicas \in Nat
  BY WorkerState DEF RSType
<1>2. \A t \in Tmpls : rs[t].avail >= Smaller(rs[t].avail, rs[t].replicas)
  BY <1>1 DEF Smaller
<1> QED  BY <1>2 DEF Quiet

(* One ReplicaSet is written, with the size it has. *)
LEMMA OneWritten ==
  ASSUME IInv, NEW t \in Tmpls, NEW r \in RSType, StoreRS(t, r), r.replicas = rs[t].replicas,
         faults' > faults \/ r.avail >= Smaller(rs[t].avail, rs[t].replicas)
  PROVE  Quiet
<1>1. rs'[t] = r /\ \A u \in Tmpls \ {t} : rs'[u] = rs[u]
  BY RSStored
<1>2. \A u \in Tmpls : rs[u].avail \in Nat /\ rs[u].replicas \in Nat
  BY WorkerState DEF RSType
<1>3. \A u \in Tmpls : rs[u].avail >= Smaller(rs[u].avail, rs[u].replicas)
  BY <1>2 DEF Smaller
<1>4. Spread(rs') = Spread(rs)
  BY <1>1 DEF Spread
<1> QED  BY <1>1, <1>3, <1>4 DEF Quiet

(* What the ReplicaSet controller, pods and faults do changes no size. *)
LEMMA PodsQuiet ==
  ASSUME IInv, NEW t \in Tmpls, RunPods(t) \/ PodsReady(t) \/ PodFails(t) \/ PodsRefused(t)
  PROVE  Quiet
<1> DEFINE a == rs[t]
<1>1. a \in RSType /\ a.replicas \in Nat /\ a.pods \in Nat /\ a.avail \in Nat
  BY WorkerState DEF RSType
<1>2. Smaller(a.avail, a.replicas) \in Nat /\ a.avail >= Smaller(a.avail, a.replicas)
  BY <1>1 DEF Smaller
<1>3. CASE RunPods(t)
  <2> DEFINE r == [a EXCEPT !.pods = a.replicas, !.avail = Smaller(a.avail, a.replicas),
                            !.failing = FALSE]
  <2>1. StoreRS(t, r)
    BY <1>3 DEF RunPods, OthersWriteRS
  <2> HIDE DEF a
  <2>2. r \in RSType /\ r.replicas = a.replicas /\ r.avail = Smaller(a.avail, a.replicas)
    BY <1>1, <1>2 DEF RSType
  <2>3. r.avail >= Smaller(a.avail, a.replicas)
    BY <1>2, <2>2
  <2> HIDE DEF r
  <2> QED  BY <2>1, <2>2, <2>3, OneWritten DEF a
<1>4. CASE PodsReady(t)
  <2> DEFINE r == [a EXCEPT !.avail = a.pods]
  <2>1. StoreRS(t, r) /\ a.avail < a.pods
    BY <1>4 DEF PodsReady, OthersWriteRS
  <2> HIDE DEF a
  <2>2. r \in RSType /\ r.replicas = a.replicas /\ r.avail = a.pods
    BY <1>1 DEF RSType
  <2>3. r.avail >= Smaller(a.avail, a.replicas)
    BY <1>1, <1>2, <2>1, <2>2
  <2> HIDE DEF r
  <2> QED  BY <2>1, <2>2, <2>3, OneWritten DEF a
<1>5. CASE PodFails(t)
  <2> DEFINE r == [a EXCEPT !.avail = @ - 1]
  <2>1. StoreRS(t, r) /\ a.avail > 0 /\ faults' = faults + 1
    BY <1>5 DEF PodFails, OthersWriteRS, Strikes
  <2> HIDE DEF a
  <2>2. r \in RSType /\ r.replicas = a.replicas
    <3>1. a.avail - 1 \in Nat
      BY <1>1, <2>1
    <3> QED  BY <1>1, <3>1 DEF RSType
  <2>3. faults' > faults
    <3>1. scenario.maxFaults \in Nat /\ faults \in 0..scenario.maxFaults
      BY DeploymentAssumption DEF IInv, CountsOK, ScenarioType
    <3> QED  BY <2>1, <3>1
  <2> HIDE DEF r
  <2> QED  BY <2>1, <2>2, <2>3, OneWritten DEF a
<1>6. CASE PodsRefused(t)
  <2> DEFINE r == [a EXCEPT !.failing = TRUE]
  <2>1. StoreRS(t, r)
    BY <1>6 DEF PodsRefused, OthersWriteRS
  <2> HIDE DEF a
  <2>2. r \in RSType /\ r.replicas = a.replicas /\ r.avail = a.avail
    BY <1>1 DEF RSType
  <2>3. r.avail >= Smaller(a.avail, a.replicas)
    BY <1>2, <2>2
  <2> HIDE DEF r
  <2> QED  BY <2>1, <2>2, <2>3, OneWritten DEF a
<1> QED  BY <1>3, <1>4, <1>5, <1>6

(* A revision written changes no size. *)
LEMMA BumpQuiet ==
  ASSUME IInv, BumpRevision PROVE Quiet
<1> DEFINE t == T(w)
           r == [w.l[t] EXCEPT !.rev = NewRevision(w)]
<1>1. /\ w.pc = "newRS" /\ NewRevision(w) <= MaxRev
      /\ (t \in w.lCur /\ StoreRS(t, r)) \/ UNCHANGED rsVars
  BY DEF BumpRevision, UpdateRS, ConflictRS
<1>2. w \in WorkerType /\ t \in Tmpls /\ w.l[t] \in RSType /\ NewRevision(w) \in Nat
  BY WorkerState, WorkerFields, ObjectFields, RevisionAbove
<1>3. CASE t \in w.lCur /\ StoreRS(t, r)
  <2>1. rs[t] = w.l[t]
    BY <1>1, <1>3, Asking
  <2>2. rs[t].avail >= Smaller(rs[t].avail, rs[t].replicas)
    <3>1. rs[t].avail \in Nat /\ rs[t].replicas \in Nat
      BY <1>2, <2>1 DEF RSType
    <3> QED  BY <3>1 DEF Smaller
  <2>3. r \in RSType /\ r.replicas = w.l[t].replicas /\ r.avail = w.l[t].avail
    <3>1. NewRevision(w) \in 0..MaxRev
      BY <1>1, <1>2, DeploymentAssumption
    <3> QED  BY <1>2, <3>1 DEF RSType
  <2> HIDE DEF r, t
  <2> QED  BY <1>2, <1>3, <2>1, <2>2, <2>3, OneWritten
<1>4. CASE UNCHANGED rsVars
  BY <1>4, Unwritten DEF rsVars
<1> QED  BY <1>1, <1>3, <1>4

(* Only four steps change a size. *)
LEMMA StepSizes ==
  ASSUME IInv, [Next]_vars
  PROVE  CreateNewRS \/ scaleReplicaSet \/ scaleDownOld \/ DeleteOld \/ Quiet
<1>1. CASE SyncDeployment
  <2>1. ASSUME Start \/ checkPausedConditions \/ FoundNewRS \/ AdoptExisting \/ CreateCollides
               \/ StampNew \/ SyncStatus \/ Rollback
        PROVE  Quiet
    <3>1. rs' = rs
      BY <2>1 DEF Start, checkPausedConditions, FoundNewRS, AdoptExisting, CreateCollides,
                  StampNew, SyncStatus, Rollback, rsVars
    <3> QED  BY <3>1, Unwritten
  <2> QED  BY <1>1, <2>1, BumpQuiet DEF SyncDeployment
<1>2. CASE Environment
  <2>1. ASSUME NEW k \in Watches, Stall(k) \/ CatchUp(k) PROVE Quiet
    BY <2>1, Unwritten DEF Stall, CatchUp, rsVars
  <2>2. ASSUME NEW t \in Tmpls, PodsGone(t) PROVE Quiet
    BY <2>2, Unwritten DEF PodsGone, rsVars
  <2>3. ASSUME Tick \/ CallFails \/ Restart \/ CreateFails PROVE Quiet
    BY <2>3, Unwritten DEF Tick, CallFails, Restart, CreateFails, rsVars
  <2> QED  BY <1>2, <2>1, <2>2, <2>3, PodsQuiet DEF Environment
<1>3. CASE User
  BY <1>3, Unwritten DEF User, Edit, rsVars
<1>4. CASE UNCHANGED vars
  BY <1>4, Unwritten DEF vars, rsVars
<1> QED  BY <1>1, <1>2, <1>3, <1>4 DEF Next

(* What the API server has, before and after a step. *)
LEMMA SizesTyped ==
  ASSUME IInv, IInv'
  PROVE  /\ SpecReplicas = Total(Spread(rs), Tmpls) /\ SpecReplicas' = Total(Spread(rs'), Tmpls)
         /\ SpecReplicas \in Nat /\ SpecReplicas' \in Nat /\ IsFiniteSet(Tmpls)
         /\ \A t \in Tmpls : /\ Spread(rs)[t] = rs[t].replicas /\ rs[t].replicas \in Nat
                             /\ Spread(rs')[t] = rs'[t].replicas /\ rs'[t].replicas \in Nat
                             /\ rs[t].avail \in Nat /\ rs'[t].avail \in Nat
<1>1. rs \in [Tmpls -> RSType] /\ rs' \in [Tmpls -> RSType] /\ IsFiniteSet(Tmpls)
  BY DeploymentAssumption DEF IInv, ReplicaSetsOK
<1>2. SpecReplicas = Total(Spread(rs), Tmpls) /\ SpecReplicas' = Total(Spread(rs'), Tmpls)
  BY DEF SpecReplicas, Spread
<1>3. \A t \in Tmpls : /\ Spread(rs)[t] = rs[t].replicas /\ rs[t].replicas \in Nat
                       /\ Spread(rs')[t] = rs'[t].replicas /\ rs'[t].replicas \in Nat
                       /\ rs[t].avail \in Nat /\ rs'[t].avail \in Nat
  BY <1>1 DEF Spread, RSType
<1> HIDE DEF Spread
<1>4. Total(Spread(rs), Tmpls) \in Nat /\ Total(Spread(rs'), Tmpls) \in Nat
  BY <1>1, <1>3, TotalNat
<1> QED  BY <1>1, <1>2, <1>3, <1>4

(* A size that is written. *)
LEMMA ScaleStep ==
  ASSUME IInv, scaleReplicaSet \/ scaleDownOld, rs' # rs, NEW e, e = Head(w.todo)
  PROVE  /\ e.t \in w.lCur /\ e.t \in Tmpls /\ e.n \in Nat /\ 1 \in DOMAIN w.todo /\ e = w.todo[1]
         /\ rs'[e.t].replicas = e.n /\ rs'[e.t].avail = w.l[e.t].avail
         /\ \A u \in Tmpls \ {e.t} : rs'[u] = rs[u]
<1> DEFINE r == Resized(e.t, e.n)
<1>1. w.pc \in {"resize", "shrink"}
  BY DEF scaleReplicaSet, scaleDownOld
<1>2. e.t \in w.lCur /\ StoreRS(e.t, r)
  BY DEF scaleReplicaSet, scaleDownOld, UpdateRS, ConflictRS, rsVars
<1>3. /\ e.t \in Tmpls /\ e.n \in Nat /\ r \in RSType /\ r.replicas = e.n
      /\ r.avail = w.l[e.t].avail
  BY <1>1, ResizedTyped
<1> HIDE DEF r
<1>4. rs'[e.t] = r /\ \A u \in Tmpls \ {e.t} : rs'[u] = rs[u]
  BY <1>2, <1>3, RSStored
<1>5. 1 \in DOMAIN w.todo /\ e = w.todo[1]
  <2>1. w \in WorkerType /\ w.todo \in Seq(Item) /\ TodoOK(w)
    BY WorkerState, WorkerFields
  <2>2. w.todo # <<>>
    BY <1>1, <2>1 DEF TodoOK
  <2> QED  BY <2>1, <2>2, FirstAndRest
<1> QED  BY <1>2, <1>3, <1>4, <1>5

(* A deletion takes a ReplicaSet of zero replicas. *)
LEMMA DeleteStep ==
  ASSUME IInv, DeleteOld, rs' # rs, NEW t, t = Head(w.todo).t
  PROVE  /\ t \in Tmpls /\ w.l[t].replicas = 0 /\ rs'[t] = NoRS
         /\ \A u \in Tmpls \ {t} : rs'[u] = rs[u]
<1>1. w.pc = "cleanup" /\ StoreRS(t, NoRS)
  BY DEF DeleteOld, rsVars
<1>2. w \in WorkerType /\ w.todo \in Seq(Item) /\ TodoOK(w)
  BY WorkerState, WorkerFields
<1>3. w.todo # <<>> /\ \A i \in DOMAIN w.todo : w.l[w.todo[i].t].replicas = 0
  BY <1>1, <1>2 DEF TodoOK
<1>4. t \in Tmpls /\ w.l[t].replicas = 0
  BY <1>2, <1>3, FirstAndRest
<1>5. NoRS \in RSType
  BY DeploymentAssumption DEF NoRS, RSType
<1> HIDE DEF NoRS
<1> QED  BY <1>1, <1>4, <1>5, RSStored

(* No write raises the sum when no size is raised. *)
LEMMA NotRaised ==
  ASSUME IInv, IInv', NEW t \in Tmpls, rs'[t].replicas <= rs[t].replicas,
         \A u \in Tmpls \ {t} : rs'[u] = rs[u]
  PROVE  SpecReplicas' <= SpecReplicas
<1>1. /\ SpecReplicas = Total(Spread(rs), Tmpls) /\ SpecReplicas' = Total(Spread(rs'), Tmpls)
      /\ IsFiniteSet(Tmpls)
      /\ \A u \in Tmpls : /\ Spread(rs)[u] = rs[u].replicas /\ rs[u].replicas \in Nat
                          /\ Spread(rs')[u] = rs'[u].replicas /\ rs'[u].replicas \in Nat
  BY SizesTyped
<1>2. \A u \in Tmpls : Spread(rs')[u] <= Spread(rs)[u]
  <2> SUFFICES ASSUME NEW u \in Tmpls PROVE rs'[u].replicas <= rs[u].replicas
    BY <1>1
  <2>1. CASE u = t
    BY <2>1
  <2>2. CASE u # t
    BY <1>1, <2>2
  <2> QED  BY <2>1, <2>2
<1> DEFINE f == Spread(rs)
           g == Spread(rs')
<1> HIDE DEF f, g
<1>3. \A u \in Tmpls : f[u] \in Nat /\ g[u] \in Nat /\ g[u] <= f[u]
  BY <1>1, <1>2 DEF f, g
<1>4. Total(g, Tmpls) <= Total(f, Tmpls)
  BY <1>1, <1>3, TotalMonotone
<1> QED  BY <1>1, <1>4 DEF f, g

(* A step that raises the sum of the sizes creates the new ReplicaSet or    *)
(* writes a size that is not among those of a list that falls.              *)
LEMMA RaisingStep ==
  ASSUME IInv, IInv', [Next]_vars, SpecReplicas' > SpecReplicas, w.fresh
  PROVE  \/ CreateNewRS
         \/ /\ scaleReplicaSet /\ rs' # rs /\ w.pc = "resize" /\ ~Falls(w, Spread(rs))
            /\ ~\A i \in DOMAIN w.todo : w.todo[i].n = 0
<1>1. SpecReplicas \in Nat /\ SpecReplicas' \in Nat
      /\ SpecReplicas = Total(Spread(rs), Tmpls) /\ SpecReplicas' = Total(Spread(rs'), Tmpls)
      /\ \A t \in Tmpls : /\ Spread(rs)[t] = rs[t].replicas /\ rs[t].replicas \in Nat
                          /\ rs'[t].replicas \in Nat
  BY SizesTyped
<1>2. ~Quiet
  BY <1>1 DEF Quiet
<1>3. rs' # rs
  BY <1>1
<1>4. ~DeleteOld
  <2> SUFFICES ASSUME DeleteOld PROVE FALSE
    OBVIOUS
  <2> DEFINE t == Head(w.todo).t
  <2>1. t \in Tmpls /\ rs'[t] = NoRS /\ \A u \in Tmpls \ {t} : rs'[u] = rs[u]
    BY <1>3, DeleteStep
  <2> HIDE DEF t
  <2>2. rs'[t].replicas <= rs[t].replicas
    BY <1>1, <2>1 DEF NoRS
  <2> QED  BY <1>1, <2>1, <2>2, NotRaised
<1>5. ASSUME scaleReplicaSet \/ scaleDownOld
      PROVE  /\ ~Falls(w, Spread(rs)) /\ ~\A i \in DOMAIN w.todo : w.todo[i].n = 0
  <2> DEFINE e == Head(w.todo)
  <2>1. /\ e.t \in Tmpls /\ e.n \in Nat /\ 1 \in DOMAIN w.todo /\ e = w.todo[1]
        /\ rs'[e.t].replicas = e.n /\ \A u \in Tmpls \ {e.t} : rs'[u] = rs[u]
    BY <1>3, <1>5, ScaleStep
  <2> HIDE DEF e
  <2>2. ~(e.n <= rs[e.t].replicas)
    <3> SUFFICES ASSUME e.n <= rs[e.t].replicas PROVE FALSE
      OBVIOUS
    <3> DEFINE t == e.t
    <3>1. t \in Tmpls /\ rs'[t].replicas <= rs[t].replicas /\ \A u \in Tmpls \ {t} : rs'[u] = rs[u]
      BY <2>1
    <3> HIDE DEF t
    <3>2. SpecReplicas' <= SpecReplicas
      BY <3>1, NotRaised
    <3> QED  BY <1>1, <3>2
  <2>3. ~Falls(w, Spread(rs))
    BY <1>1, <2>1, <2>2 DEF Falls
  <2>4. e.n # 0
    BY <1>1, <2>1, <2>2
  <2> QED  BY <2>1, <2>3, <2>4
<1>6. ~scaleDownOld
  <2> SUFFICES ASSUME scaleDownOld PROVE FALSE
    OBVIOUS
  <2>1. w.pc = "shrink" /\ Fresh(w, rs, running)
    BY WorkerState DEF scaleDownOld
  <2>2. Falls(w, Spread(rs))
    BY <2>1 DEF Fresh, WithinSurge
  <2> QED  BY <1>5, <2>2
<1>7. CreateNewRS \/ scaleReplicaSet
  BY <1>2, <1>4, <1>6, StepSizes
<1>8. scaleReplicaSet => w.pc = "resize"
  BY DEF scaleReplicaSet
<1> QED  BY <1>3, <1>5, <1>7, <1>8

(* A ReplicaSet is created in what the surge leaves. *)
LEMMA CreatedWithinSurge ==
  ASSUME IInv, IInv', CreateNewRS, w.fresh, IsRollingUpdate(w.d), SpecReplicas' > SpecReplicas
  PROVE  SpecReplicas' <= w.d.replicas + MaxSurge(w.d)
<1> DEFINE t == T(w)
           r == Made
           f == Spread(rs)
           g == Spread(rs')
           c == Total(Replicas(w), Old(w))
<1>1. /\ w.pc = "newRS" /\ ~w.l[t].exists /\ ~rs[t].exists /\ NewRevision(w) <= MaxRev
      /\ births < MaxRev /\ StoreRS(t, r)
  BY DEF CreateNewRS
<1>2. /\ w \in WorkerType /\ t \in Tmpls /\ Good(w) /\ Fresh(w, rs, running) /\ Sane(rs[t])
      /\ w.d.replicas \in Nat /\ MaxSurge(w.d) \in Nat
  BY WorkerState, WorkerFields, ObjectFields, Fenceposts
<1>3. /\ r \in RSType /\ r.replicas \in 0..w.d.replicas
      /\ r.replicas > 0 => r.replicas + c <= w.d.replicas + MaxSurge(w.d)
  BY <1>1, MadeTyped
<1> HIDE DEF r
<1>4. rs'[t] = r /\ \A u \in Tmpls \ {t} : rs'[u] = rs[u]
  BY <1>1, <1>2, <1>3, RSStored
<1>5. /\ SpecReplicas = Total(f, Tmpls) /\ SpecReplicas' = Total(g, Tmpls) /\ IsFiniteSet(Tmpls)
      /\ SpecReplicas \in Nat /\ SpecReplicas' \in Nat
      /\ \A u \in Tmpls : /\ f[u] = rs[u].replicas /\ rs[u].replicas \in Nat
                          /\ g[u] = rs'[u].replicas /\ rs'[u].replicas \in Nat
  BY SizesTyped
<1>6. Total(f, Tmpls) = c
  <2>1. Mirror(w, rs)
    BY <1>1, <1>2 DEF Fresh
  <2>2. \A u \in Tmpls : f[u] = w.l[u].replicas
    BY <1>5, <2>1 DEF Mirror
  <2>3. Old(w) \subseteq Tmpls /\ \A u \in Old(w) : Replicas(w)[u] = f[u]
    BY <2>2 DEF Old, All, Replicas
  <2>4. \A u \in Tmpls \ Old(w) : f[u] = 0
    BY <1>1, <1>2, <2>2 DEF Old, All, Good, Sane, t
  <2>5. \A u \in Tmpls : f[u] \in Nat
    BY <1>5
  <2> HIDE DEF f
  <2> QED  BY <2>3, <2>4, <2>5, TotalSame
<1> HIDE DEF f, g, t, c
<1>7. Total(g, Tmpls) = Total(f, Tmpls) - f[t] + g[t]
  <2>1. \A v \in Tmpls : f[v] \in Nat /\ g[v] \in Nat
    BY <1>5
  <2>2. \A v \in Tmpls \ {t} : f[v] = g[v]
    BY <1>4, <1>5
  <2> QED  BY <1>2, <1>5, <2>1, <2>2, TotalChange
<1>8. f[t] = 0 /\ g[t] = r.replicas
  BY <1>1, <1>2, <1>4, <1>5 DEF Sane
<1> QED  BY <1>2, <1>3, <1>5, <1>6, <1>7, <1>8

(* So is a size written. *)
LEMMA ScaledWithinSurge ==
  ASSUME IInv, IInv', scaleReplicaSet, rs' # rs, w.fresh, IsRollingUpdate(w.d),
         ~Falls(w, Spread(rs)), w.via \in {"paused", "scaling"} => Grows(w)
  PROVE  SpecReplicas' <= w.d.replicas + MaxSurge(w.d)
<1> DEFINE e == Head(w.todo)
           g == Spread(rs')
<1>1. Ceiling(w, Spread(rs))
  <2>1. w.pc = "resize" /\ Fresh(w, rs, running)
    BY WorkerState DEF scaleReplicaSet
  <2> QED  BY <2>1 DEF Fresh, WithinSurge
<1>2. PICK top \in [Tmpls -> Nat] :
         /\ \A t \in Tmpls : Spread(rs)[t] <= top[t]
         /\ \A i \in DOMAIN w.todo : w.todo[i].n <= top[w.todo[i].t]
         /\ Total(top, Tmpls) <= w.d.replicas + MaxSurge(w.d)
  BY <1>1 DEF Ceiling
<1>3. /\ e.t \in Tmpls /\ e.n \in Nat /\ 1 \in DOMAIN w.todo /\ e = w.todo[1]
      /\ rs'[e.t].replicas = e.n /\ \A u \in Tmpls \ {e.t} : rs'[u] = rs[u]
  BY ScaleStep
<1>4. /\ SpecReplicas' = Total(g, Tmpls) /\ SpecReplicas' \in Nat /\ IsFiniteSet(Tmpls)
      /\ \A u \in Tmpls : /\ Spread(rs)[u] = rs[u].replicas
                          /\ g[u] = rs'[u].replicas /\ rs'[u].replicas \in Nat
  BY SizesTyped
<1> HIDE DEF e, g
<1>5. \A u \in Tmpls : g[u] \in Nat /\ g[u] <= top[u] /\ top[u] \in Nat
  <2> SUFFICES ASSUME NEW u \in Tmpls PROVE g[u] <= top[u]
    BY <1>2, <1>4
  <2>1. CASE u = e.t
    BY <1>2, <1>3, <1>4, <2>1
  <2>2. CASE u # e.t
    BY <1>2, <1>3, <1>4, <2>2
  <2> QED  BY <2>1, <2>2
<1>6. Total(g, Tmpls) <= Total(top, Tmpls)
  BY <1>4, <1>5, TotalMonotone
<1>7. Total(top, Tmpls) \in Nat
  BY <1>4, <1>5, TotalNat
<1>8. w.d.replicas \in Nat /\ MaxSurge(w.d) \in Nat
  BY WorkerState, ObjectFields, Fenceposts
<1> QED  BY <1>2, <1>4, <1>6, <1>7, <1>8

(* The controller never takes a rolling Deployment above its replicas and   *)
(* surge in a sync whose copies were current when it read them, at any one  *)
(* of its writes: not by creating the new ReplicaSet, not by scaling it up, *)
(* and not between the writes of a proportional scale-up.                   *)
THEOREM SurgeIsKept == SafetySpec => SurgeKept
<1>1. ASSUME IInv, [Next]_vars, SpecReplicas' > SpecReplicas, w.fresh, IsRollingUpdate(w.d),
             w.via \in {"paused", "scaling"} => Grows(w)
      PROVE  SpecReplicas' <= w.d.replicas + MaxSurge(w.d)
  <2>1. IInv'
    BY <1>1, NextInv
  <2>2. \/ CreateNewRS
        \/ scaleReplicaSet /\ rs' # rs /\ ~Falls(w, Spread(rs))
    BY <1>1, <2>1, RaisingStep
  <2>3. CASE CreateNewRS
    BY <1>1, <2>1, <2>3, CreatedWithinSurge
  <2>4. CASE scaleReplicaSet /\ rs' # rs /\ ~Falls(w, Spread(rs))
    BY <1>1, <2>1, <2>4, ScaledWithinSurge
  <2> QED  BY <2>2, <2>3, <2>4
<1>2. IInv /\ [Next]_vars =>
        [SpecReplicas' > SpecReplicas /\ w.fresh /\ IsRollingUpdate(w.d)
           /\ (w.via \in {"paused", "scaling"} => Grows(w)) =>
             SpecReplicas' <= w.d.replicas + MaxSurge(w.d)]_vars
  BY <1>1
<1> QED  BY <1>2, Invariance, PTL DEF SafetySpec, SurgeKept

(* rolloutRecreate starts pods of the new template only when nothing of an  *)
(* old template runs, terminating pods included: what the worker saw in its *)
(* podMap and ReplicaSets still holds when it creates or scales up the new  *)
(* ReplicaSet, whatever happened in between.                                *)
THEOREM RecreateIsExclusive == SafetySpec => RecreateExclusive
<1>1. ASSUME IInv, [Next]_vars, w.via \in {"recreate", "recreateNew"}, w.fresh,
             SpecReplicas' > SpecReplicas
      PROVE  \A t \in Tmpls : t # T(w) /\ rs[t].exists => running[t] = 0
  <2>1. IInv'
    BY <1>1, NextInv
  <2>2. \/ CreateNewRS
        \/ w.pc = "resize" /\ ~\A i \in DOMAIN w.todo : w.todo[i].n = 0
    BY <1>1, <2>1, RaisingStep
  <2>3. Fresh(w, rs, running)
    BY <1>1, WorkerState
  <2>4. CreateNewRS => w.via = "recreateNew" /\ w.pc = "newRS"
    BY <1>1 DEF CreateNewRS, Creating
  <2>5. Clear(w, rs, running)
    BY <1>1, <2>2, <2>3, <2>4 DEF Fresh
  <2> QED  BY <2>5 DEF Clear
<1>2. IInv /\ [Next]_vars =>
        [w.via \in {"recreate", "recreateNew"} /\ w.fresh /\ SpecReplicas' > SpecReplicas =>
           \A t \in Tmpls : t # T(w) /\ rs[t].exists => running[t] = 0]_vars
  BY <1>1
<1> QED  BY <1>2, Invariance, PTL DEF SafetySpec, RecreateExclusive

-----------------------------------------------------------------------------
(***************************************************************************)
(* Availability.                                                           *)
(***************************************************************************)
(* The available pods of r that no size gives up. *)
Held(r) == [t \in Tmpls |-> Smaller(r[t].avail, r[t].replicas)]

(* The available pods no write has given up are numbers. *)
LEMMA HeldTyped ==
  ASSUME IInv, IInv'
  PROVE  /\ Assured = Total(Held(rs), Tmpls) /\ Assured' = Total(Held(rs'), Tmpls)
         /\ Assured \in Nat /\ Assured' \in Nat /\ IsFiniteSet(Tmpls)
         /\ \A t \in Tmpls : /\ Held(rs)[t] = Smaller(rs[t].avail, rs[t].replicas)
                             /\ Held(rs')[t] = Smaller(rs'[t].avail, rs'[t].replicas)
                             /\ Held(rs)[t] \in Nat /\ Held(rs')[t] \in Nat
                             /\ rs[t].replicas \in Nat /\ rs'[t].replicas \in Nat
                             /\ rs[t].avail \in Nat /\ rs'[t].avail \in Nat
<1>1. /\ IsFiniteSet(Tmpls)
      /\ \A t \in Tmpls : /\ rs[t].replicas \in Nat /\ rs'[t].replicas \in Nat
                          /\ rs[t].avail \in Nat /\ rs'[t].avail \in Nat
  BY SizesTyped
<1>2. Assured = Total(Held(rs), Tmpls) /\ Assured' = Total(Held(rs'), Tmpls)
  BY DEF Assured, Held
<1>3. \A t \in Tmpls : /\ Held(rs)[t] = Smaller(rs[t].avail, rs[t].replicas)
                       /\ Held(rs')[t] = Smaller(rs'[t].avail, rs'[t].replicas)
  BY DEF Held
<1> HIDE DEF Held
<1>4. \A t \in Tmpls : Held(rs)[t] \in Nat /\ Held(rs')[t] \in Nat
  BY <1>1, <1>3 DEF Smaller
<1>5. Total(Held(rs), Tmpls) \in Nat /\ Total(Held(rs'), Tmpls) \in Nat
  BY <1>1, <1>4, TotalNat
<1> QED  BY <1>1, <1>2, <1>3, <1>4, <1>5

(* Some ReplicaSet loses when the sum does. *)
LEMMA SomeLoses ==
  ASSUME IInv, IInv', Assured' < Assured
  PROVE  \E t \in Tmpls : Held(rs')[t] < Held(rs)[t]
<1>1. /\ Assured = Total(Held(rs), Tmpls) /\ Assured' = Total(Held(rs'), Tmpls)
      /\ Assured \in Nat /\ Assured' \in Nat /\ IsFiniteSet(Tmpls)
      /\ \A t \in Tmpls : Held(rs)[t] \in Nat /\ Held(rs')[t] \in Nat
  BY HeldTyped
<1> DEFINE f == Held(rs)
           g == Held(rs')
<1> SUFFICES ASSUME \A t \in Tmpls : ~(g[t] < f[t]) PROVE FALSE
  OBVIOUS
<1> HIDE DEF f, g
<1>2. \A t \in Tmpls : f[t] \in Nat /\ g[t] \in Nat /\ f[t] <= g[t]
  BY <1>1 DEF f, g
<1>3. Total(f, Tmpls) <= Total(g, Tmpls)
  BY <1>1, <1>2, TotalMonotone
<1> QED  BY <1>1, <1>3 DEF f, g

(* A size written by rolloutRolling. *)
LEMMA ScaledAvailable ==
  ASSUME IInv, IInv', scaleReplicaSet \/ scaleDownOld, w.via = "rolling", w.lCur = Tmpls,
         Assured' < Assured, \A t \in Tmpls : w.l[t].avail <= w.l[t].replicas
  PROVE  Assured' >= MinAvailable(w.d)
<1> DEFINE e == Head(w.todo)
           f == Held(rs)
           g == Held(rs')
           m == MinAvailable(w.d)
<1>1. /\ Assured = Total(f, Tmpls) /\ Assured' = Total(g, Tmpls)
      /\ Assured \in Nat /\ Assured' \in Nat /\ IsFiniteSet(Tmpls)
      /\ \A t \in Tmpls : /\ f[t] = Smaller(rs[t].avail, rs[t].replicas)
                          /\ g[t] = Smaller(rs'[t].avail, rs'[t].replicas)
                          /\ f[t] \in Nat /\ g[t] \in Nat
                          /\ rs[t].replicas \in Nat /\ rs'[t].replicas \in Nat
                          /\ rs[t].avail \in Nat /\ rs'[t].avail \in Nat
  BY HeldTyped
<1>2. rs' # rs
  BY <1>1
<1>3. /\ e.t \in Tmpls /\ e.n \in Nat /\ 1 \in DOMAIN w.todo /\ e = w.todo[1]
      /\ rs'[e.t].replicas = e.n /\ rs'[e.t].avail = w.l[e.t].avail
      /\ \A u \in Tmpls \ {e.t} : rs'[u] = rs[u]
  BY <1>2, ScaleStep
<1>4. PICK t \in Tmpls : g[t] < f[t]
  BY SomeLoses
<1> HIDE DEF e
<1>5. t = e.t
  BY <1>1, <1>3, <1>4
<1>6. /\ w \in WorkerType /\ Current(w, rs) /\ TodoOK(w) /\ KeepsAvailable(w, Spread(rs))
  BY WorkerState
<1>7. \A u \in Tmpls : rs[u].avail = w.l[u].avail /\ rs[u].replicas <= w.l[u].replicas
  BY <1>6 DEF Current
<1>8. m \in Nat /\ m <= w.d.replicas /\ w.d.replicas \in Nat
  BY <1>6, ObjectFields, Fenceposts
<1> HIDE DEF m
<1>9. rs'[t].avail = rs[t].avail /\ rs'[t].replicas = e.n /\ e.n < rs[t].replicas
      /\ g[t] = e.n /\ e.n < rs[t].avail
  BY <1>1, <1>3, <1>4, <1>5, <1>7 DEF Smaller
<1>10. CASE w.pc = "resize"
  <2>1. rs[t] = w.l[t]
    BY <1>6, <1>10 DEF Current
  <2>2. e.n >= w.l[e.t].replicas \/ e.n >= w.d.replicas
    BY <1>3, <1>6, <1>10 DEF TodoOK
  <2>3. e.n >= w.d.replicas
    BY <1>1, <1>3, <1>5, <1>9, <2>1, <2>2
  <2>4. g[t] <= Total(g, Tmpls)
    <3> HIDE DEF f, g
    <3> QED  BY <1>1, TotalTerm
  <2> HIDE DEF f, g
  <2>5. Assured' >= m
    BY <1>1, <1>3, <1>8, <1>9, <2>3, <2>4
  <2> QED  BY <2>5 DEF m
<1>11. CASE w.pc = "shrink"
  <2>1. ~\A i \in DOMAIN w.todo : w.l[w.todo[i].t].avail <= w.todo[i].n
    BY <1>1, <1>3, <1>5, <1>7, <1>9
  <2>2. Floor(w, Spread(rs))
    BY <1>6, <1>11, <2>1 DEF KeepsAvailable
  <2>3. PICK low \in [Tmpls -> Nat] :
           /\ \A u \in Tmpls : low[u] <= Spread(rs)[u]
           /\ \A i \in DOMAIN w.todo : low[w.todo[i].t] <= w.todo[i].n
           /\ Leaves(w, low)
    BY <2>2 DEF Floor
  <2> DEFINE h == [u \in Tmpls |-> Smaller(w.l[u].avail, low[u])]
  <2>4. \A u \in Tmpls : low[u] <= rs'[u].replicas
    <3> SUFFICES ASSUME NEW u \in Tmpls PROVE low[u] <= rs'[u].replicas
      OBVIOUS
    <3>1. CASE u = e.t
      BY <1>3, <2>3, <3>1
    <3>2. CASE u # e.t
      BY <1>3, <2>3, <3>2 DEF Spread
    <3> QED  BY <3>1, <3>2
  <2>5. \A u \in Tmpls : rs'[u].avail = w.l[u].avail
    BY <1>3, <1>7
  <2>6. \A u \in Tmpls : h[u] \in Nat /\ g[u] \in Nat /\ h[u] <= g[u]
    <3> SUFFICES ASSUME NEW u \in Tmpls PROVE h[u] \in Nat /\ h[u] <= g[u]
      BY <1>1
    <3>1. h[u] = Smaller(rs'[u].avail, low[u]) /\ g[u] = Smaller(rs'[u].avail, rs'[u].replicas)
      BY <1>1, <2>5
    <3>2. low[u] \in Nat /\ low[u] <= rs'[u].replicas /\ rs'[u].avail \in Nat
          /\ rs'[u].replicas \in Nat
      BY <1>1, <2>3, <2>4
    <3> HIDE DEF h, g
    <3> QED  BY <3>1, <3>2 DEF Smaller
  <2>7. Total(h, Tmpls) >= MinAvailable(w.d)
    BY <2>3 DEF Leaves
  <2> HIDE DEF h, f, g
  <2>8. Total(h, Tmpls) <= Total(g, Tmpls) /\ Total(h, Tmpls) \in Nat
    BY <1>1, <2>6, TotalMonotone, TotalNat
  <2>9. Assured' >= m
    BY <1>1, <1>8, <2>7, <2>8 DEF m
  <2> QED  BY <2>9 DEF m
<1>12. w.pc \in {"resize", "shrink"}
  BY DEF scaleReplicaSet, scaleDownOld
<1> QED  BY <1>10, <1>11, <1>12

(* A rolling update gives up available pods, from copies that are current,  *)
(* only down to what maxUnavailable asks for, over all the writes of        *)
(* cleanupUnhealthyReplicas and scaleDownOldReplicaSetsForRollingUpdate.    *)
THEOREM AvailabilityIsKept == SafetySpec => AvailabilityKept
<1>1. ASSUME IInv, [Next]_vars, w.via = "rolling", w.dCur, w.lCur = Tmpls, Assured' < Assured,
             \A t \in Tmpls : w.l[t].avail <= w.l[t].replicas
      PROVE  Assured' >= MinAvailable(w.d) \/ faults' > faults
  <2>1. IInv'
    BY <1>1, NextInv
  <2>2. PICK t \in Tmpls : Held(rs')[t] < Held(rs)[t]
    BY <1>1, <2>1, SomeLoses
  <2>3. /\ Held(rs)[t] = Smaller(rs[t].avail, rs[t].replicas)
        /\ Held(rs')[t] = Smaller(rs'[t].avail, rs'[t].replicas)
        /\ rs[t].replicas \in Nat /\ rs'[t].replicas \in Nat
        /\ rs[t].avail \in Nat /\ rs'[t].avail \in Nat
    BY <1>1, <2>1, HeldTyped
  <2>4. rs[t].avail # 0 /\ rs[t].replicas # 0 /\ rs' # rs /\ rs'[t] # rs[t]
    BY <2>2, <2>3 DEF Smaller
  <2>5. CASE Quiet
    <3>1. rs'[t].replicas = rs[t].replicas
      <4>1. Spread(rs')[t] = rs'[t].replicas /\ Spread(rs)[t] = rs[t].replicas
        BY DEF Spread
      <4> QED  BY <2>5, <4>1 DEF Quiet
    <3>2. ~(rs'[t].avail >= Smaller(rs[t].avail, rs[t].replicas))
      BY <2>2, <2>3, <3>1 DEF Smaller
    <3> QED  BY <2>5, <3>2 DEF Quiet
  <2>6. CASE CreateNewRS
    <3> DEFINE u == T(w)
    <3>1. w.pc = "newRS" /\ NewRevision(w) <= MaxRev /\ births < MaxRev /\ ~rs[u].exists
          /\ StoreRS(u, Made)
      BY <2>6 DEF CreateNewRS
    <3>2. u \in Tmpls /\ Made \in RSType /\ Sane(rs[u])
      BY <1>1, <3>1, WorkerState, WorkerFields, MadeTyped
    <3>3. \A v \in Tmpls \ {u} : rs'[v] = rs[v]
      BY <1>1, <3>1, <3>2, RSStored
    <3>4. t = u
      BY <2>4, <3>3
    <3> QED  BY <2>4, <3>1, <3>2, <3>4 DEF Sane
  <2>7. CASE scaleReplicaSet \/ scaleDownOld
    BY <1>1, <2>1, <2>7, ScaledAvailable
  <2>8. CASE DeleteOld
    <3> DEFINE u == Head(w.todo).t
    <3>1. u \in Tmpls /\ w.l[u].replicas = 0 /\ \A v \in Tmpls \ {u} : rs'[v] = rs[v]
      BY <1>1, <2>4, <2>8, DeleteStep
    <3> HIDE DEF u
    <3>2. t = u
      BY <2>4, <3>1
    <3>3. rs[u].replicas <= w.l[u].replicas
      BY <1>1, <3>1, WorkerState DEF Current
    <3> QED  BY <2>3, <2>4, <3>1, <3>2, <3>3
  <2> QED  BY <1>1, <2>5, <2>6, <2>7, <2>8, StepSizes
<1>2. IInv /\ [Next]_vars =>
        [w.via = "rolling" /\ w.dCur /\ w.lCur = Tmpls /\ Assured' < Assured
           /\ (\A t \in Tmpls : w.l[t].avail <= w.l[t].replicas) =>
             Assured' >= MinAvailable(w.d) \/ faults' > faults]_vars
  BY <1>1
<1> QED  BY <1>2, Invariance, PTL DEF SafetySpec, AvailabilityKept

-----------------------------------------------------------------------------
(***************************************************************************)
(* The rollback.                                                           *)
(***************************************************************************)
(* A write to the Deployment that leaves rollbackTo of the worker's copy    *)
(* leaves that of the API server's.                                         *)
LEMMA RollbackLeft ==
  ASSUME IInv, NEW o, o.rollbackTo = w.d.rollbackTo, NEW y,
         UpdateDep(o, y) \/ UpdateDepAndFail(o)
  PROVE  dep'.rollbackTo = dep.rollbackTo
<1>1. w.dCur => w.d = dep
  BY WorkerState
<1>2. dep' = dep \/ (w.dCur /\ dep' = o)
  BY DEF UpdateDep, UpdateDepAndFail, StoreDep, depVars
<1> QED  BY <1>1, <1>2

(* Only the rollback itself drops a request to roll back. *)
LEMMA RollbackStep ==
  ASSUME IInv, [Next]_vars, dep'.rollbackTo # dep.rollbackTo, dep'.rollbackTo = NoRollback
  PROVE  Rollback
<1>1. w.d \in DepType /\ dep \in DepType
  BY WorkerState, WorkerFields DEF IInv, DeploymentsOK
<1>2. ASSUME checkPausedConditions PROVE FALSE
  <2> DEFINE s == SetProgressing(w.d.st, IF w.d.paused THEN "DeploymentPaused"
                                         ELSE "DeploymentResumed")
             o == [w.d EXCEPT !.st = s]
  <2>1. UpdateDep(o, Begin([w EXCEPT !.d = o]))
    BY <1>2 DEF checkPausedConditions
  <2>2. o.rollbackTo = w.d.rollbackTo
    BY <1>1 DEF DepType
  <2> HIDE DEF o
  <2> QED  BY <2>1, <2>2, RollbackLeft
<1>3. ASSUME FoundNewRS PROVE FALSE
  <2> DEFINE s == IF w.d.st.prog = "none" THEN SetProgressing(w.d.st, "FoundNewReplicaSet")
                  ELSE w.d.st
             o == [w.d EXCEPT !.rev = w.l[T(w)].rev, !.st = s]
  <2>1. UpdateDep(o, Continue([w EXCEPT !.d = o]))
    BY <1>3 DEF FoundNewRS
  <2>2. o.rollbackTo = w.d.rollbackTo
    BY <1>1 DEF DepType
  <2> HIDE DEF o
  <2> QED  BY <2>1, <2>2, RollbackLeft
<1>4. ASSUME StampNew PROVE FALSE
  <2> DEFINE s == SetProgressing(w.d.st, "NewReplicaSetCreated")
             o == [w.d EXCEPT !.rev = w.l[T(w)].rev, !.st = s]
  <2>1. UpdateDep(o, Continue([w EXCEPT !.d = o]))
    BY <1>4 DEF StampNew
  <2>2. o.rollbackTo = w.d.rollbackTo
    BY <1>1 DEF DepType
  <2> HIDE DEF o
  <2> QED  BY <2>1, <2>2, RollbackLeft
<1>5. ASSUME AdoptExisting PROVE FALSE
  <2> DEFINE t == T(w)
             o == [w.d EXCEPT !.rev = NewRevision(w)]
             x == [w EXCEPT !.l[t] = seenRS[t],
                            !.lCur = IF t \in seenRSCur THEN @ \cup {t} ELSE @ \ {t},
                            !.d = o]
  <2>1. UpdateDep(o, Continue(x)) \/ dep' = dep
    BY <1>5 DEF AdoptExisting, depVars
  <2>2. o.rollbackTo = w.d.rollbackTo
    BY <1>1 DEF DepType
  <2> HIDE DEF o, x
  <2> QED  BY <2>1, <2>2, RollbackLeft
<1>6. ASSUME CreateCollides PROVE FALSE
  <2> DEFINE o == [w.d EXCEPT !.st.collisions = 1]
  <2>1. UpdateDepAndFail(o)
    BY <1>6 DEF CreateCollides
  <2>2. o.rollbackTo = w.d.rollbackTo
    BY <1>1 DEF DepType
  <2> HIDE DEF o
  <2> QED  BY <2>1, <2>2, RollbackLeft
<1>7. ASSUME CreateFails PROVE FALSE
  <2> DEFINE s == SetProgressing(w.d.st, "ReplicaSetCreateError")
             o == [w.d EXCEPT !.st = s]
  <2>1. UpdateDepAndFail(o)
    BY <1>7 DEF CreateFails
  <2>2. o.rollbackTo = w.d.rollbackTo
    BY <1>1 DEF DepType
  <2> HIDE DEF o
  <2> QED  BY <2>1, <2>2, RollbackLeft
<1>8. ASSUME SyncStatus PROVE FALSE
  <2> DEFINE o == [w.d EXCEPT !.st = SyncedStatus(w)]
  <2>1. UpdateDep(o, Idle) \/ dep' = dep
    BY <1>8 DEF SyncStatus, depVars
  <2>2. o.rollbackTo = w.d.rollbackTo
    BY <1>1 DEF DepType
  <2> HIDE DEF o
  <2> QED  BY <2>1, <2>2, RollbackLeft
<1>9. ASSUME Start \/ BumpRevision \/ CreateNewRS \/ scaleReplicaSet \/ scaleDownOld \/ DeleteOld
      PROVE  FALSE
  <2>1. dep' = dep
    BY <1>9 DEF Start, BumpRevision, CreateNewRS, scaleReplicaSet, scaleDownOld, DeleteOld, depVars
  <2> QED  BY <2>1
<1>10. ASSUME NEW k \in Watches, Stall(k) \/ CatchUp(k) PROVE FALSE
  BY <1>10 DEF Stall, CatchUp, depVars
<1>11. ASSUME NEW t \in Tmpls,
              RunPods(t) \/ PodsReady(t) \/ PodFails(t) \/ PodsRefused(t) \/ PodsGone(t)
       PROVE  FALSE
  BY <1>11 DEF RunPods, PodsReady, PodFails, PodsRefused, PodsGone, depVars
<1>12. ASSUME CallFails \/ Restart PROVE FALSE
  BY <1>12 DEF CallFails, Restart, depVars
<1>13. ASSUME Tick PROVE FALSE
  <2>1. dep' = Aged(dep)
    BY <1>13 DEF Tick
  <2>2. Aged(dep).rollbackTo = dep.rollbackTo
    BY <1>1 DEF Aged, DepType
  <2> QED  BY <2>1, <2>2
<1>14. ASSUME NEW kind, NEW new \in DepType, Edit(kind, new),
              new.rollbackTo = dep.rollbackTo \/ new.rollbackTo \in Nat
       PROVE  FALSE
  <2> DEFINE b == new.st.observed /\ kind = "rollback"
  <2>1. dep' = [new EXCEPT !.st.observed = b]
    BY <1>14 DEF Edit, StoreDep
  <2> HIDE DEF b
  <2>2. dep'.rollbackTo = new.rollbackTo
    BY <2>1 DEF DepType
  <2> QED  BY <1>14, <2>2 DEF NoRollback
<1>15. ASSUME User PROVE FALSE
  <2>1. /\ \A t \in Tmpls : [dep EXCEPT !.tmpl = t] \in DepType
                            /\ [dep EXCEPT !.tmpl = t].rollbackTo = dep.rollbackTo
        /\ \A n \in Sizes : [dep EXCEPT !.replicas = n] \in DepType
                            /\ [dep EXCEPT !.replicas = n].rollbackTo = dep.rollbackTo
        /\ \A b \in BOOLEAN : [dep EXCEPT !.paused = b] \in DepType
                              /\ [dep EXCEPT !.paused = b].rollbackTo = dep.rollbackTo
        /\ [dep EXCEPT !.deleting = TRUE] \in DepType
        /\ [dep EXCEPT !.deleting = TRUE].rollbackTo = dep.rollbackTo
    BY <1>1 DEF DepType
  <2>2. \A r \in 0..MaxRev : /\ [dep EXCEPT !.rollbackTo = r] \in DepType
                             /\ [dep EXCEPT !.rollbackTo = r].rollbackTo = r /\ r \in Nat
    BY <1>1 DEF DepType
  <2> QED  BY <1>14, <1>15, <2>1, <2>2 DEF User
<1>16. SyncDeployment => Rollback
  BY <1>2, <1>3, <1>4, <1>5, <1>6, <1>8, <1>9 DEF SyncDeployment
<1>17. ~Environment
  BY <1>7, <1>10, <1>11, <1>12, <1>13 DEF Environment
<1>18. ~UNCHANGED vars
  BY DEF vars, depVars
<1> QED  BY <1>15, <1>16, <1>17, <1>18 DEF Next

(* The last but one of a worker's revisions is the newest of the old ones. *)
LEMMA LastIsSecond ==
  ASSUME NEW x, Good(x), Topmost(x), Old(x) # {}
  PROVE  /\ LastRevision(x) # 0
         /\ \E u \in Old(x) : x.l[u].rev = LastRevision(x)
         /\ \A u \in Old(x) : x.l[u].rev <= LastRevision(x)
<1> DEFINE Above(u) == {v \in All(x) \ {u} : x.l[v].rev >= x.l[u].rev}
           second == {u \in All(x) : Above(u) # {}}
           revs == {0} \cup {x.l[u].rev : u \in second}
           m == CHOOSE r \in revs : \A q \in revs : q <= r
<1>1. x \in WorkerType /\ T(x) \in Tmpls
  BY WorkerFields DEF Good
<1>2. \A u \in All(x) : u \in Tmpls /\ x.l[u].rev \in 0..MaxRev /\ x.l[u].rev \in Nat /\ x.l[u].rev > 0
  <2>1. \A u \in All(x) : u \in Tmpls /\ x.l[u].exists
    BY DEF All
  <2>2. \A u \in All(x) : x.l[u].rev \in 0..MaxRev /\ Sane(x.l[u])
    BY <1>1, <2>1, ObjectFields DEF Good
  <2> QED  BY <2>1, <2>2, DeploymentAssumption DEF Sane
<1>3. T(x) \in All(x) /\ Old(x) = All(x) \ {T(x)}
      /\ \A u \in Old(x) : x.l[u].rev < x.l[T(x)].rev
  BY <1>1 DEF Topmost, All, Old
<1>4. second = Old(x)
  <2>1. \A u \in Old(x) : T(x) \in Above(u)
    BY <1>2, <1>3
  <2>2. Above(T(x)) = {}
    BY <1>2, <1>3
  <2> HIDE DEF Above
  <2> QED  BY <1>3, <2>1, <2>2
<1> HIDE DEF second
<1>5. revs \subseteq 0..MaxRev /\ MaxRev \in Nat /\ revs # {}
  BY <1>2, <1>3, <1>4, DeploymentAssumption
<1>6. m \in revs /\ \A q \in revs : q <= m
  <2> HIDE DEF revs
  <2>1. \E r \in revs : \A q \in revs : q <= r
    BY <1>5, GreatestExists
  <2> QED  BY <2>1
<1>7. LastRevision(x) = m
  BY DEF LastRevision, second
<1>8. \A u \in Old(x) : x.l[u].rev \in revs /\ x.l[u].rev > 0 /\ x.l[u].rev \in Nat
  BY <1>2, <1>3, <1>4
<1>9. \A q \in revs : q = 0 \/ \E u \in Old(x) : x.l[u].rev = q
  BY <1>4
<1> HIDE DEF m, revs
<1>10. m \in Nat /\ m # 0
  BY <1>5, <1>6, <1>8
<1> QED  BY <1>6, <1>7, <1>8, <1>9, <1>10

(* A rollback to the last revision, from copies that were current, goes to  *)
(* the second newest revision there is: the conflict that a concurrent      *)
(* write would have caused is what makes the worker's copies good enough.   *)
THEOREM RollbackGoesBack == SafetySpec => RollbackUndoes
<1>1. ASSUME IInv, [Next]_vars, dep.rollbackTo = 0, dep'.rollbackTo = NoRollback, w.fresh,
             Cardinality({t \in Tmpls : rs[t].exists}) > 1
      PROVE  Cardinality({t \in Tmpls : rs[t].exists /\ rs[t].rev > rs[dep'.tmpl].rev}) = 1
  <2> DEFINE r == RollbackRevision(w)
             found == {u \in All(w) : r # 0 /\ w.l[u].rev = r}
             first == {u \in found : \A v \in found \ {u} :
                               v = T(w) \/ (u # T(w) /\ w.l[u].born < w.l[v].born)}
             t == IF found = {} THEN T(w) ELSE CHOOSE u \in first : TRUE
             o == [w.d EXCEPT !.tmpl = t, !.rollbackTo = NoRollback,
                              !.st.observed = @ /\ t = T(w)]
  <2>1. Rollback
    BY <1>1, RollbackStep DEF NoRollback
  <2>2. w.pc = "rollback" /\ UpdateDep(o, Idle)
    BY <2>1 DEF Rollback
  <2>3. dep # dep'
    BY <1>1 DEF NoRollback
  <2>4. w.dCur /\ dep' = o /\ w.d = dep
    <3> HIDE DEF o
    <3>1. w.dCur => w.d = dep
      BY <1>1, WorkerState
    <3> QED  BY <2>2, <2>3, <3>1 DEF UpdateDep, StoreDep, depVars
  <2>5. dep'.tmpl = t
    <3>1. w.d \in DepType
      BY <1>1, WorkerState, WorkerFields
    <3> HIDE DEF t
    <3> QED  BY <2>4, <3>1 DEF DepType
  <2>6. /\ Good(w) /\ w \in WorkerType /\ T(w) \in Tmpls /\ ViaOK(w) /\ Fresh(w, rs, running)
    BY <1>1, WorkerState, WorkerFields
  <2>7. Mirror(w, rs) /\ Topmost(w) /\ w.via = "rollback"
    BY <1>1, <2>2, <2>6 DEF Fresh, ViaOK
  <2>8. \A u \in Tmpls : rs[u].exists = w.l[u].exists /\ rs[u].rev = w.l[u].rev
    BY <2>7 DEF Mirror
  <2>9. All(w) = {u \in Tmpls : rs[u].exists}
    BY <2>8 DEF All
  <2>10. T(w) \in All(w) /\ Old(w) = All(w) \ {T(w)}
         /\ \A u \in Old(w) : w.l[u].rev < w.l[T(w)].rev
    BY <2>6, <2>7 DEF Topmost, All, Old
  <2>11. Old(w) # {}
    <3> SUFFICES ASSUME Old(w) = {} PROVE FALSE
      OBVIOUS
    <3>1. All(w) = {T(w)}
      BY <2>10
    <3>2. Cardinality({T(w)}) = 1
      BY FS_Singleton
    <3> QED  BY <1>1, <2>9, <3>1, <3>2
  <2>12. r = LastRevision(w)
    BY <1>1, <2>4 DEF RollbackRevision
  <2>13. /\ r # 0 /\ \E u \in Old(w) : w.l[u].rev = r
         /\ \A u \in Old(w) : w.l[u].rev <= r
    BY <2>6, <2>7, <2>11, <2>12, LastIsSecond
  <2> HIDE DEF r
  <2>14. found # {} /\ found \subseteq All(w) /\ \A u \in found : w.l[u].rev = r
    BY <2>10, <2>13
  <2> HIDE DEF found
  <2>15. first # {} /\ first \subseteq found
    BY <2>6, <2>14, FirstFound
  <2> HIDE DEF first
  <2>16. t \in found
    BY <2>14, <2>15
  <2> HIDE DEF t
  <2>17. t \in Tmpls /\ rs[t].rev = r
    BY <2>8, <2>9, <2>14, <2>16
  <2>18. \A u \in All(w) : w.l[u].rev \in Nat
    BY <2>6, <2>9, ObjectFields, DeploymentAssumption
  <2>19. r \in Nat
    BY <2>10, <2>13, <2>18
  <2>20. \A u \in Tmpls : rs[u].exists /\ rs[u].rev > r <=> u = T(w)
    <3>1. T(w) \in Tmpls /\ rs[T(w)].exists /\ rs[T(w)].rev > r
      BY <2>8, <2>9, <2>10, <2>13, <2>18, <2>19
    <3>2. \A u \in Old(w) : ~(rs[u].rev > r)
      BY <2>8, <2>9, <2>10, <2>13, <2>18, <2>19
    <3> QED  BY <2>9, <2>10, <3>1, <3>2
  <2>21. {u \in Tmpls : rs[u].exists /\ rs[u].rev > rs[dep'.tmpl].rev} = {T(w)}
    BY <2>5, <2>6, <2>17, <2>20
  <2> QED  BY <2>21, FS_Singleton
<1>2. IInv /\ [Next]_vars =>
        [dep.rollbackTo = 0 /\ dep'.rollbackTo = NoRollback /\ w.fresh
           /\ Cardinality({t \in Tmpls : rs[t].exists}) > 1 =>
             Cardinality({t \in Tmpls : rs[t].exists /\ rs[t].rev > rs[dep'.tmpl].rev}) = 1]_vars
  BY <1>1
<1> QED  BY <1>2, Invariance, PTL DEF SafetySpec, RollbackUndoes
=============================================================================
