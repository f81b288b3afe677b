------------------------- MODULE IstioRouterProofs --------------------------
(***************************************************************************)
(* The Istio provider routes what it reports, for any list of references   *)
(* (several may name one VirtualService), any routes and any edits.        *)
(***************************************************************************)
EXTENDS IstioRouter, TLAPS

-----------------------------------------------------------------------------
(***************************************************************************)
(* Lists of routes.                                                        *)
(***************************************************************************)
LEMMA SplitType ==
  ASSUME NEW w \in 0..100
  PROVE  Split(w) \in Seq(DestType) /\ Len(Split(w)) = 2
<1>1. 100 - w \in Nat /\ w \in Nat
  OBVIOUS
<1>2. /\ [host |-> Canary, weight |-> w] \in DestType
      /\ [host |-> Stable, weight |-> 100 - w] \in DestType
  BY <1>1 DEF DestType, Canary, Stable
<1> QED  BY <1>2 DEF Split

(* A rewrite keeps the list's length, every name, and every route but the   *)
(* selected ones with two or more destinations, which it splits.            *)
LEMMA RewriteFacts ==
  ASSUME NEW routes \in Seq(RouteType), NEW names, NEW w \in 0..100
  PROVE  LET new == rewriteHTTPRoutes(routes, names, w)
         IN  /\ new \in Seq(RouteType) /\ DOMAIN new = DOMAIN routes
             /\ \A i \in DOMAIN routes :
                  /\ new[i].name = routes[i].name
                  /\ routeSelector(names, routes[i].name) /\ Len(routes[i].route) >= 2
                       => new[i].route = Split(w)
                  /\ ~(routeSelector(names, routes[i].name) /\ Len(routes[i].route) >= 2)
                       => new[i] = routes[i]
<1> DEFINE new == rewriteHTTPRoutes(routes, names, w)
           Chosen(i) == routeSelector(names, routes[i].name) /\ Len(routes[i].route) >= 2
<1>1. \A i \in DOMAIN routes : routes[i] \in RouteType
  OBVIOUS
<1>2. /\ DOMAIN new = DOMAIN routes
      /\ \A i \in DOMAIN routes :
           new[i] = IF Chosen(i) THEN [routes[i] EXCEPT !.route = Split(w)] ELSE routes[i]
  BY DEF rewriteHTTPRoutes
<1> HIDE DEF new, Chosen
<1>3. ASSUME NEW i \in DOMAIN routes
      PROVE  /\ new[i] \in RouteType /\ new[i].name = routes[i].name
             /\ Chosen(i) => new[i].route = Split(w)
             /\ ~Chosen(i) => new[i] = routes[i]
  BY <1>1, <1>2, SplitType DEF RouteType
<1>4. new \in Seq(RouteType)
  <2>1. DOMAIN routes = 1..Len(routes) /\ Len(routes) \in Nat
    OBVIOUS
  <2>2. new \in [1..Len(routes) -> RouteType]
    BY <1>3, <2>1 DEF new, rewriteHTTPRoutes
  <2> QED  BY <2>1, <2>2
<1> QED  BY <1>2, <1>3, <1>4 DEF new, Chosen

-----------------------------------------------------------------------------
(***************************************************************************)
(* The types.                                                              *)
(***************************************************************************)
LEMMA RefFacts ==
  /\ Len(Refs) \in Nat /\ Len(Refs) >= 1 /\ DOMAIN Refs = 1..Len(Refs)
  /\ \A j \in DOMAIN Refs : Refs[j].name \in VSs
<1> DEFINE RefType == [name: VSs, routes: SUBSET STRING]
<1>1. Refs \in Seq(RefType) /\ Refs # <<>>
  BY RouterAssumption
<1> HIDE DEF RefType
<1>2. Len(Refs) \in Nat /\ DOMAIN Refs = 1..Len(Refs)
  BY <1>1
<1>3. Len(Refs) >= 1
  BY <1>1, <1>2
<1>4. ASSUME NEW j \in DOMAIN Refs PROVE Refs[j].name \in VSs
  <2>1. Refs[j] \in RefType
    BY <1>1, <1>2
  <2> QED  BY <2>1 DEF RefType
<1> QED  BY <1>2, <1>3, <1>4

LEMMA InitTypes == Init => TypeOK
<1> SUFFICES ASSUME Init PROVE TypeOK
  OBVIOUS
<1>1. /\ vs \in [VSs -> HttpType] /\ want \in 0..100 /\ at \in DOMAIN Refs
      /\ http \in Seq(RouteType)
      /\ asks \in 0..MaxAsks /\ edits \in 0..MaxEdits /\ faults \in 0..MaxFaults
  BY RefFacts, RouterAssumption DEF Init
<1>2. /\ verify \in BOOLEAN /\ done \in BOOLEAN /\ calm \in BOOLEAN
      /\ pc \in {"idle", "get", "patch", "verify"}
  BY DEF Init
<1> QED  BY <1>1, <1>2 DEF TypeOK

LEMMA NextTypes ==
  ASSUME TypeOK, [Next]_vars
  PROVE  TypeOK'
<1> USE DEF TypeOK
<1>1. CASE \E w \in Weights, v \in BOOLEAN : Ask(w, v)
  <2>1. PICK w \in Weights, v \in BOOLEAN : Ask(w, v)
    BY <1>1
  <2>2. want' \in 0..100 /\ asks' \in 0..MaxAsks
    BY <2>1, RouterAssumption DEF Ask
  <2>3. verify' \in BOOLEAN /\ done' \in BOOLEAN
    BY <2>1 DEF Ask
  <2>4. UNCHANGED <<vs, pc, at, http, calm, edits, faults>>
    BY <2>1 DEF Ask
  <2> QED  BY <2>2, <2>3, <2>4
<1>2. CASE SetWeight
  BY <1>2, RefFacts DEF SetWeight, bounds
<1>3. CASE GetVirtualService
  <2>1. /\ UNCHANGED <<vs, want, verify, calm, at, asks, edits, faults>>
        /\ done' \in BOOLEAN /\ pc' \in {"idle", "patch"}
    BY <1>3 DEF GetVirtualService, Return, bounds
  <2>2. vs[Ref.name] \in HttpType
    BY RefFacts DEF Ref
  <2>3. http' \in Seq(RouteType)
    BY <1>3, <2>2 DEF GetVirtualService, HttpType
  <2> QED  BY <2>1, <2>3
<1>4. CASE PatchVirtualService
  <2>1. /\ UNCHANGED <<want, verify, http, calm, asks, edits, faults>>
        /\ AfterPatch
    BY <1>4 DEF PatchVirtualService, bounds
  <2>2. [found |-> TRUE, http |-> rewriteHTTPRoutes(http, Ref.routes, want)] \in HttpType
    BY RewriteFacts DEF HttpType
  <2>3. vs' \in [VSs -> HttpType]
    BY <1>4, <2>2 DEF PatchVirtualService
  <2>4. at' \in DOMAIN Refs /\ pc' \in {"idle", "get", "verify"}
    BY <2>1, RefFacts DEF AfterPatch, Return
  <2>5. done' \in BOOLEAN
    BY <2>1 DEF AfterPatch, Return
  <2> QED  BY <2>1, <2>3, <2>4, <2>5
<1>5. CASE VerifyWeight
  <2>1. UNCHANGED <<vs, want, verify, http, calm, asks, edits, faults>>
    BY <1>5 DEF VerifyWeight, bounds
  <2>2. at' \in DOMAIN Refs /\ pc' \in {"idle", "verify"}
    BY <1>5, RefFacts DEF VerifyWeight, Return
  <2>3. done' \in BOOLEAN
    BY <1>5 DEF VerifyWeight, Return
  <2> QED  BY <2>1, <2>2, <2>3
<1>6. CASE Interrupt
  <2>1. faults' \in 0..MaxFaults
    BY <1>6, RouterAssumption DEF Interrupt
  <2>2. /\ UNCHANGED <<vs, want, verify, at, http, calm, asks, edits>>
        /\ done' \in BOOLEAN /\ pc' = "idle"
    BY <1>6 DEF Interrupt, Return
  <2> QED  BY <2>1, <2>2
<1>7. CASE \E v \in VSs, h \in Edits : MeshEdit(v, h)
  <2>1. PICK v \in VSs, h \in Edits : MeshEdit(v, h)
    BY <1>7
  <2>2. vs' \in [VSs -> HttpType] /\ edits' \in 0..MaxEdits
    BY <2>1, RouterAssumption DEF MeshEdit
  <2>3. /\ UNCHANGED <<want, verify, done, pc, at, http, asks, faults>>
        /\ calm' \in BOOLEAN
    BY <2>1 DEF MeshEdit
  <2> QED  BY <2>2, <2>3
<1>8. CASE UNCHANGED vars
  BY <1>8 DEF vars, bounds
<1> QED  BY <1>1, <1>2, <1>3, <1>4, <1>5, <1>6, <1>7, <1>8 DEF Next, Reconcile

-----------------------------------------------------------------------------
(***************************************************************************)
(* How far a call has come.  While nobody else edits, what it has read is  *)
(* what it replaces, and the references it has patched carry the weight:   *)
(* a later patch of the same VirtualService writes the same weight.        *)
(***************************************************************************)
Patched ==
  CASE pc = "idle"   -> IF done THEN DOMAIN Refs ELSE {}
    [] pc = "verify" -> DOMAIN Refs
    [] OTHER         -> 1..(at - 1)

Progress ==
  /\ pc # "idle" => ~done
  /\ calm => /\ \A j \in Patched : Carries(j, want)
             /\ pc = "patch" => vs[Ref.name].found /\ http = vs[Ref.name].http

Inv == TypeOK /\ Progress

(* After the patch of reference at, that reference carries the weight, and  *)
(* so does every one that did before.                                       *)
LEMMA PatchCarries ==
  ASSUME TypeOK, PatchVirtualService, http = vs[Ref.name].http,
         NEW j \in DOMAIN Refs, j = at \/ Carries(j, want)
  PROVE  Carries(j, want)'
<1> DEFINE v == Refs[j].name
           new == rewriteHTTPRoutes(http, Ref.routes, want)
<1>1. v \in VSs /\ Ref.name \in VSs /\ vs \in [VSs -> HttpType] /\ want' = want
  BY RefFacts DEF TypeOK, Ref, PatchVirtualService
<1>2. vs' = [vs EXCEPT ![Ref.name] = [found |-> TRUE, http |-> new]]
  BY DEF PatchVirtualService
<1>3. CASE v # Ref.name
  <2>1. vs'[v] = vs[v] /\ j # at
    BY <1>1, <1>2, <1>3 DEF Ref
  <2> QED  BY <1>1, <2>1 DEF Carries
<1>4. CASE v = Ref.name
  <2>1. vs'[v].found /\ vs'[v].http = new
    BY <1>1, <1>2, <1>4
  <2>2. ASSUME NEW i \in DOMAIN new,
               routeSelector(Refs[j].routes, new[i].name), Len(new[i].route) >= 2
        PROVE  new[i].route = Split(want)
    <3>1. http \in Seq(RouteType) /\ want \in 0..100
      BY DEF TypeOK
    <3>2. i \in DOMAIN http /\ new[i].name = http[i].name
      <4>1. i \in DOMAIN http
        BY <2>2 DEF rewriteHTTPRoutes
      <4>2. new[i].name = http[i].name
        BY <3>1, <4>1, RewriteFacts, ZenonT(30)
      <4> QED  BY <4>1, <4>2
    <3>3. CASE routeSelector(Ref.routes, http[i].name) /\ Len(http[i].route) >= 2
      BY <3>1, <3>2, <3>3, RewriteFacts, ZenonT(30)
    <3>4. CASE ~(routeSelector(Ref.routes, http[i].name) /\ Len(http[i].route) >= 2)
      <4>1. new[i] = http[i]
        BY <3>1, <3>2, <3>4, RewriteFacts, ZenonT(30)
      <4>2. j # at
        BY <2>2, <3>4, <4>1 DEF Ref
      <4> QED  BY <1>4, <2>2, <3>2, <4>1, <4>2 DEF Carries
    <3> QED  BY <3>3, <3>4
  <2> HIDE DEF new
  <2> QED  BY <1>1, <2>1, <2>2 DEF Carries
<1> QED  BY <1>3, <1>4

LEMMA InvInit == Init => Inv
<1>1. Init => Progress
  BY DEF Init, Progress
<1> QED  BY <1>1, InitTypes DEF Inv

LEMMA InvStep == Inv /\ [Next]_vars => Inv'
<1> SUFFICES ASSUME Inv, [Next]_vars PROVE Inv'
  OBVIOUS
<1>1. TypeOK /\ TypeOK' /\ Progress
  BY NextTypes DEF Inv
<1>2. CASE \E w \in Weights, v \in BOOLEAN : Ask(w, v)
  <2>1. pc' = "idle" /\ ~done'
    BY <1>2 DEF Ask
  <2>2. Patched' = {}
    BY <2>1 DEF Patched
  <2> QED  BY <1>1, <2>1, <2>2 DEF Inv, Progress
<1>3. CASE SetWeight
  <2>1. pc' = "get" /\ at' = 1 /\ ~done'
    BY <1>3 DEF SetWeight
  <2>2. Patched' = {}
    BY <2>1 DEF Patched
  <2> QED  BY <1>1, <2>1, <2>2 DEF Inv, Progress
<1>4. CASE GetVirtualService
  <2>1. /\ UNCHANGED <<vs, want, calm, at>> /\ pc = "get" /\ ~done'
        /\ \/ pc' = "idle"
           \/ /\ pc' = "patch" /\ vs[Ref.name].found
              /\ http' = vs[Ref.name].http
    BY <1>1, <1>4 DEF GetVirtualService, Return, Progress
  <2>2. Patched' \subseteq Patched
    BY <2>1 DEF Patched
  <2>3. \A j \in Patched : Carries(j, want)' <=> Carries(j, want)
    BY <2>1 DEF Carries
  <2> QED  BY <1>1, <2>1, <2>2, <2>3 DEF Inv, Progress, Ref
<1>5. CASE PatchVirtualService
  <2>1. pc = "patch" /\ UNCHANGED calm /\ AfterPatch /\ ~done /\ pc' # "patch"
    BY <1>1, <1>5 DEF PatchVirtualService, AfterPatch, Return, Progress
  <2>2. Patched = 1..(at - 1) /\ at \in DOMAIN Refs
    BY <1>1, <2>1 DEF Patched, TypeOK
  <2>3. Patched' \subseteq DOMAIN Refs /\ \A j \in Patched' : j = at \/ j \in Patched
    BY <2>1, <2>2, RefFacts DEF Patched, AfterPatch, Return
  <2>4. ASSUME calm, NEW j \in Patched' PROVE Carries(j, want)'
    BY <1>1, <1>5, <2>1, <2>3, <2>4, PatchCarries DEF Progress
  <2>5. pc' # "idle" => ~done'
    BY <2>1 DEF AfterPatch, Return
  <2> QED  BY <1>1, <2>1, <2>4, <2>5 DEF Inv, Progress
<1>6. CASE VerifyWeight
  <2>1. /\ UNCHANGED <<vs, want, calm>> /\ pc = "verify"
        /\ pc' \in {"idle", "verify"}
        /\ pc' # "idle" => ~done'
    BY <1>1, <1>6 DEF VerifyWeight, Return, Progress
  <2>2. Patched' \subseteq Patched
    BY <2>1 DEF Patched
  <2>3. \A j \in Patched : Carries(j, want)' <=> Carries(j, want)
    BY <2>1 DEF Carries
  <2> QED  BY <1>1, <2>1, <2>2, <2>3 DEF Inv, Progress
<1>7. CASE Interrupt
  <2>1. pc' = "idle" /\ ~done'
    BY <1>7 DEF Interrupt, Return
  <2>2. Patched' = {}
    BY <2>1 DEF Patched
  <2> QED  BY <1>1, <2>1, <2>2 DEF Inv, Progress
<1>8. CASE \E v \in VSs, h \in Edits : MeshEdit(v, h)
  <2>1. ~calm' /\ UNCHANGED <<pc, done>>
    BY <1>8 DEF MeshEdit
  <2> QED  BY <1>1, <2>1 DEF Inv, Progress
<1>9. CASE UNCHANGED vars
  BY <1>1, <1>9 DEF vars, bounds, Inv, Progress, Patched, Carries, Ref
<1> QED  BY <1>2, <1>3, <1>4, <1>5, <1>6, <1>7, <1>8, <1>9 DEF Next, Reconcile

(* The invariant holds in every state of a caller's retries. *)
THEOREM InvHolds == SafetySpec => []Inv
BY InvInit, InvStep, PTL DEF SafetySpec

(* When the caller goes on, every VirtualService carries the weight,        *)
(* whatever calls failed before and however the references overlap.         *)
THEOREM RoutedWhenDone == SafetySpec => []DoneMeansRouted
<1>1. Inv => DoneMeansRouted
  <2> SUFFICES ASSUME Inv, done, calm PROVE \A j \in DOMAIN Refs : Carries(j, want)
    BY DEF DoneMeansRouted
  <2>1. pc = "idle"
    BY DEF Inv, Progress
  <2>2. Patched = DOMAIN Refs
    BY <2>1 DEF Patched
  <2> QED  BY <2>2 DEF Inv, Progress
<1> QED  BY <1>1, InvHolds, PTL

(* What a step without interference does to the routes of v. *)
Keeps(v) ==
  /\ DOMAIN vs'[v].http = DOMAIN vs[v].http
  /\ \A i \in DOMAIN vs[v].http :
       vs'[v].http[i] # vs[v].http[i] =>
         /\ vs'[v].http[i].name = vs[v].http[i].name
         /\ Len(vs[v].http[i].route) >= 2
         /\ \E j \in DOMAIN Refs : /\ Refs[j].name = v
                                   /\ routeSelector(Refs[j].routes, vs[v].http[i].name)

LEMMA PatchKeeps ==
  ASSUME Inv, calm, PatchVirtualService, NEW v \in VSs
  PROVE  Keeps(v)
<1> DEFINE new == rewriteHTTPRoutes(http, Ref.routes, want)
<1>1. /\ Ref.name \in VSs /\ vs \in [VSs -> HttpType] /\ at \in DOMAIN Refs
      /\ http \in Seq(RouteType) /\ want \in 0..100
      /\ http = vs[Ref.name].http
  BY RefFacts DEF Inv, Progress, TypeOK, Ref, PatchVirtualService
<1>2. vs' = [vs EXCEPT ![Ref.name] = [found |-> TRUE, http |-> new]]
  BY DEF PatchVirtualService
<1>3. CASE v # Ref.name
  <2>1. vs'[v] = vs[v]
    BY <1>1, <1>2, <1>3
  <2> QED  BY <2>1 DEF Keeps
<1>4. CASE v = Ref.name
  <2>1. vs'[v].http = new /\ vs[v].http = http
    BY <1>1, <1>2, <1>4
  <2>2. DOMAIN new = DOMAIN http
    BY DEF rewriteHTTPRoutes
  <2>3. ASSUME NEW i \in DOMAIN http, new[i] # http[i]
        PROVE  /\ new[i].name = http[i].name /\ Len(http[i].route) >= 2
               /\ routeSelector(Ref.routes, http[i].name)
    <3>1. http \in Seq(RouteType) /\ want \in 0..100
      BY <1>1
    <3>2. new[i].name = http[i].name
      BY <3>1, RewriteFacts
    <3>3. routeSelector(Ref.routes, http[i].name) /\ Len(http[i].route) >= 2
      BY <2>3, <3>1, RewriteFacts
    <3> QED  BY <3>2, <3>3
  <2> HIDE DEF new
  <2>4. Refs[at] = Ref
    BY DEF Ref
  <2> QED  BY <1>1, <1>4, <2>1, <2>2, <2>3, <2>4 DEF Keeps
<1> QED  BY <1>3, <1>4

(* A call nobody interferes with changes only the routes it manages, for    *)
(* every list of references and routes.                                     *)
THEOREM OtherRoutesKept == SafetySpec => OthersKept
<1>1. ASSUME Inv, [Next]_vars
      PROVE  [calm /\ calm' => \A v \in VSs : Keeps(v)]_vars
  <2> SUFFICES ASSUME Next, calm, calm', NEW v \in VSs PROVE Keeps(v)
    BY <1>1
  <2>1. CASE PatchVirtualService
    BY <1>1, <2>1, PatchKeeps
  <2>2. CASE ~PatchVirtualService
    <3>1. vs' = vs
      BY <2>2 DEF Next, Reconcile, SetWeight, GetVirtualService, VerifyWeight, Interrupt,
                  Ask, MeshEdit
    <3> QED  BY <3>1 DEF Keeps
  <2> QED  BY <2>1, <2>2
<1> QED  BY <1>1, InvHolds, PTL DEF SafetySpec, OthersKept, Keeps
=============================================================================
