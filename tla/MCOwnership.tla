---------------------------- MODULE MCOwnership ----------------------------
(***************************************************************************)
(* Two Deployments with disjoint selectors and a ReplicaSet for the first. *)
(***************************************************************************)
EXTENDS Ownership

MCFirstLabel == [x \in Names \cup Sets |-> IF x = "d2" THEN "b" ELSE "a"]
=============================================================================
