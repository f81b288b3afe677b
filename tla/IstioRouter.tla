---------------------------- MODULE IstioRouter -----------------------------
(***************************************************************************)
(* The Istio provider (pkg/trafficrouting/istio) under its caller.  A call *)
(* of SetWeight gets and patches the VirtualServices of a Rollout one      *)
(* after another, and VerifyWeight reads them back; each request is a step *)
(* of its own, so others may edit a VirtualService in between, a request   *)
(* may fail and the call be made again.  RolloutSystem sees the outcome of *)
(* such a call as one weight.                                              *)
(***************************************************************************)
EXTENDS Integers, Sequences

CONSTANTS
  Refs,        (* trafficRouting.istio.virtualServices, in order           *)
  VSs,         (* the VirtualServices of the namespace                     *)
  FirstHttp,   (* spec.http of each at first                               *)
  Edits,       (* what others may set spec.http to                         *)
  Weights,     (* the weights a Rollout asks for                           *)
  MaxAsks,     (* bound on the weights asked for                           *)
  MaxEdits,    (* bound on the edits of others                             *)
  MaxFaults    (* bound on failed requests and restarts                    *)

Canary == "canary"   (* the first of canaryServices                        *)
Stable == "stable"   (* the first of stableServices                        *)

(* A route has a name and destinations; of a destination the host and the   *)
(* weight matter.  found: spec.http is there.                               *)
DestType == [host: {Canary, Stable, "other"}, weight: Nat]
RouteType == [name: STRING, route: Seq(DestType)]
HttpType == [found: BOOLEAN, http: Seq(RouteType)]

ASSUME RouterAssumption ==
  /\ Refs \in Seq([name: VSs, routes: SUBSET STRING]) /\ Refs # <<>>
  /\ FirstHttp \in [VSs -> HttpType]
  /\ Edits \subseteq HttpType
  /\ Weights \subseteq 0..100
  /\ MaxAsks \in Nat /\ MaxEdits \in Nat /\ MaxFaults \in Nat

VARIABLES
  vs,        (* spec.http of every VirtualService                          *)
  want,      (* the weight the Rollout asks for                            *)
  verify,    (* the caller verifies it (a setWeight step)                  *)
  done,      (* the caller has gone on                                     *)
  pc,        (* the next request of the call in progress, or "idle"        *)
  at,        (* the reference it is about                                  *)
  http,      (* spec.http as the call has read it                          *)
  calm,      (* history: nobody else has edited since the call began       *)
  asks, edits, faults

bounds == <<asks, edits, faults>>
vars == <<vs, want, verify, done, pc, at, http, calm, bounds>>

TypeOK ==
  /\ vs \in [VSs -> HttpType]
  /\ want \in 0..100
  /\ verify \in BOOLEAN /\ done \in BOOLEAN /\ calm \in BOOLEAN
  /\ pc \in {"idle", "get", "patch", "verify"}
  /\ at \in DOMAIN Refs
  /\ http \in Seq(RouteType)
  /\ asks \in 0..MaxAsks /\ edits \in 0..MaxEdits /\ faults \in 0..MaxFaults

Init ==
  /\ vs = FirstHttp
  /\ want = 0 /\ verify = FALSE /\ done = TRUE
  /\ pc = "idle" /\ at = 1 /\ http = <<>>
  /\ calm = FALSE
  /\ asks = 0 /\ edits = 0 /\ faults = 0

-----------------------------------------------------------------------------
(***************************************************************************)
(* The routes.                                                             *)
(***************************************************************************)
(* No names: every route. *)
routeSelector(names, name) == names = {} \/ name \in names

Split(w) ==
  <<[host |-> Canary, weight |-> w], [host |-> Stable, weight |-> 100 - w]>>

(* A rewrite of every route. *)
rewriteEveryRoute(routes, names, w) ==
  [i \in DOMAIN routes |->
     IF Len(routes[i].route) >= 2 THEN [routes[i] EXCEPT !.route = Split(w)] ELSE routes[i]]

(* Routes with a single destination are left alone. *)
rewriteHTTPRoutes(routes, names, w) ==
  [i \in DOMAIN routes |->
     IF routeSelector(names, routes[i].name) /\ Len(routes[i].route) >= 2
     THEN [routes[i] EXCEPT !.route = Split(w)]
     ELSE routes[i]]

(* A check of every destination, whatever its host. *)
verifyEveryWeight(h, names, w) ==
  /\ h.found
  /\ \A i \in DOMAIN h.http : routeSelector(names, h.http[i].name) =>
       \A d \in DOMAIN h.http[i].route : h.http[i].route[d].weight = w

verifyHTTPWeight(h, names, w) ==
  /\ h.found
  /\ \A i \in DOMAIN h.http : routeSelector(names, h.http[i].name) =>
       \A d \in DOMAIN h.http[i].route :
          h.http[i].route[d].host = Canary => h.http[i].route[d].weight = w

-----------------------------------------------------------------------------
(***************************************************************************)
(* The caller: runSetWeight verifies, runPromote and abort do not.         *)
(***************************************************************************)
Ask(w, v) ==
  /\ pc = "idle" /\ asks < MaxAsks
  /\ want' = w /\ verify' = v /\ done' = FALSE
  /\ asks' = asks + 1
  /\ UNCHANGED <<vs, pc, at, http, calm, edits, faults>>

(* A reconcile calls SetWeight, again and again until it may go on. *)
SetWeight ==
  /\ pc = "idle" /\ ~done
  /\ pc' = "get" /\ at' = 1
  /\ calm' = TRUE
  /\ UNCHANGED <<vs, want, verify, done, http, bounds>>

Ref == Refs[at]

(* The call returns: with an error or unverified the caller tries again. *)
Return(finished) ==
  /\ pc' = "idle"
  /\ done' = finished
  /\ UNCHANGED at

(* patchVirtualService: get, then patch what was read. *)
GetVirtualService ==
  /\ pc = "get"
  /\ \/ /\ vs[Ref.name].found
        /\ http' = vs[Ref.name].http
        /\ pc' = "patch"
        /\ UNCHANGED <<done, at>>
     \/ /\ ~vs[Ref.name].found
        /\ Return(FALSE)
        /\ UNCHANGED http
  /\ UNCHANGED <<vs, want, verify, calm, bounds>>

(* A loop that ends with the first VirtualService. *)
AfterPatchFirst ==
  \/ verify /\ pc' = "verify" /\ at' = 1 /\ UNCHANGED done
  \/ ~verify /\ Return(TRUE)

(* The next request of SetWeight, or what follows the last. *)
AfterPatch ==
  \/ /\ at < Len(Refs)
     /\ pc' = "get" /\ at' = at + 1
     /\ UNCHANGED done
  \/ /\ at = Len(Refs) /\ verify
     /\ pc' = "verify" /\ at' = 1
     /\ UNCHANGED done
  \/ at = Len(Refs) /\ ~verify /\ Return(TRUE)

(* A merge patch replaces the list as a whole and carries no version. *)
PatchVirtualService ==
  /\ pc = "patch"
  /\ vs' = [vs EXCEPT ![Ref.name] =
              [found |-> TRUE, http |-> rewriteHTTPRoutes(http, Ref.routes, want)]]
  /\ AfterPatch
  /\ UNCHANGED <<want, verify, http, calm, bounds>>

VerifyWeight ==
  /\ pc = "verify"
  /\ LET ok == verifyHTTPWeight(vs[Ref.name], Ref.routes, want)
     IN  \/ /\ ok /\ at < Len(Refs)
            /\ at' = at + 1
            /\ UNCHANGED <<done, pc>>
         \/ ok /\ at = Len(Refs) /\ Return(TRUE)
         \/ ~ok /\ Return(FALSE)
  /\ UNCHANGED <<vs, want, verify, http, calm, bounds>>

(* A request fails or the controller restarts. *)
Interrupt ==
  /\ pc # "idle" /\ faults < MaxFaults
  /\ Return(FALSE)
  /\ faults' = faults + 1
  /\ UNCHANGED <<vs, want, verify, http, calm, asks, edits>>

(* Somebody else edits a VirtualService. *)
MeshEdit(v, h) ==
  /\ edits < MaxEdits
  /\ vs' = [vs EXCEPT ![v] = h]
  /\ calm' = FALSE
  /\ edits' = edits + 1
  /\ UNCHANGED <<want, verify, done, pc, at, http, asks, faults>>

Reconcile == SetWeight \/ GetVirtualService \/ PatchVirtualService \/ VerifyWeight

Next ==
  \/ Reconcile
  \/ Interrupt
  \/ \E w \in Weights, v \in BOOLEAN : Ask(w, v)
  \/ \E v \in VSs, h \in Edits : MeshEdit(v, h)

(* A failed or unverified call is made again; nothing is assumed of others. *)
SafetySpec == Init /\ [][Next]_vars
Spec == SafetySpec /\ WF_vars(Reconcile)

-----------------------------------------------------------------------------
(***************************************************************************)
(* Properties.                                                             *)
(***************************************************************************)
(* Every route of reference j that has more than one destination sends w    *)
(* percent to the canary and the rest to the stable Service.                *)
Carries(j, w) ==
  LET h == vs[Refs[j].name]
  IN  /\ h.found
      /\ \A i \in DOMAIN h.http :
           routeSelector(Refs[j].routes, h.http[i].name) /\ Len(h.http[i].route) >= 2
             => h.http[i].route = Split(w)

(* When the caller goes on, verified or not, every VirtualService has the   *)
(* weight, unless somebody else edited one after the call began: no failed, *)
(* repeated or half-done earlier call and no overlap of two references to   *)
(* one VirtualService leaves a second weight in the mesh (SetWeight).       *)
DoneMeansRouted ==
  done /\ calm => \A j \in DOMAIN Refs : Carries(j, want)

(* A call nobody interferes with leaves every route it does not manage, and *)
(* every route with one destination, as it was, although it replaces the    *)
(* list as a whole (patchVirtualService).                                   *)
OthersKept ==
  [][calm /\ calm' => \A v \in VSs :
       /\ DOMAIN vs'[v].http = DOMAIN vs[v].http
       /\ \A i \in DOMAIN vs[v].http :
            vs'[v].http[i] # vs[v].http[i] =>
              /\ vs'[v].http[i].name = vs[v].http[i].name
              /\ Len(vs[v].http[i].route) >= 2
              /\ \E j \in DOMAIN Refs : /\ Refs[j].name = v
                                        /\ routeSelector(Refs[j].routes, vs[v].http[i].name)]_vars

(* No reference lacks its routes, or has a lone canary destination that     *)
(* SetWeight leaves alone and VerifyWeight does not accept.                 *)
Routable ==
  \A j \in DOMAIN Refs :
     LET h == vs[Refs[j].name]
     IN  /\ h.found
         /\ \A i \in DOMAIN h.http :
              (/\ routeSelector(Refs[j].routes, h.http[i].name)
               /\ Len(h.http[i].route) = 1
               /\ h.http[i].route[1].host = Canary)
                => h.http[i].route[1].weight = want

(* The caller does not wait for ever: once the VirtualServices stay         *)
(* routable, every weight asked for is set and, if asked, verified, after   *)
(* failures and edits between the patch and the verification.               *)
WeightsArrive == <>[]Routable => []<>done
=============================================================================
