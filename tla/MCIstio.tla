------------------------------ MODULE MCIstio -------------------------------
(***************************************************************************)
(* VirtualServices for model checking the Istio provider: one with a       *)
(* managed route, a route of another and a lone route, listed twice with   *)
(* overlapping routes, and one whose routes are all managed.               *)
(***************************************************************************)
EXTENDS IstioRouter

Dest(host, w) == [host |-> host, weight |-> w]
Route(name, dests) == [name |-> name, route |-> dests]
Http(routes) == [found |-> TRUE, http |-> routes]

Primary(w) == Route("primary", Split(w))
Beta == Route("beta", <<Dest(Canary, 30), Dest(Stable, 30), Dest("other", 40)>>)
Admin == Route("admin", <<Dest(Stable, 90), Dest("other", 10)>>)
Lone(host) == Route("", <<Dest(host, 0)>>)

SomeRefs == <<[name |-> "app", routes |-> {"primary"}],
             [name |-> "edge", routes |-> {}],
             [name |-> "app", routes |-> {"primary", "beta"}]>>

FirstRoutes == [v \in {"app", "edge"} |->
            IF v = "app" THEN Http(<<Primary(0), Beta, Admin>>)
            ELSE Http(<<Lone(Stable), Primary(0)>>)]

SomeEdits == {Http(<<Admin, Primary(20)>>), Http(<<Lone(Canary)>>),
              [found |-> FALSE, http |-> <<>>]}
=============================================================================
