-------------------------- MODULE MCDependencyGraph --------------------------
(* Instances of DependencyGraph for TLC. *)
EXTENDS DependencyGraph, TLC

CONSTANTS edge, api, worker, operator, owner, payments, platform

\* As seeded: each service depends on the one before it.
SeededEdges == edge :> {} @@ api :> {edge}
OneTeam     == edge :> payments @@ api :> payments
OnlyEdge    == edge :> payments
NoEdges     == edge :> {}

Roles2 == [u \in User |-> IF u = operator THEN "pki_operator" ELSE "service_owner"]
AllPayments == [u \in User |-> payments]

Symmetry == Permutations(Request)
=============================================================================
