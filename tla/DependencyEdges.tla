--------------------------- MODULE DependencyEdges ---------------------------
(***************************************************************************)
(* Dependency graphs as values: g[n] is what service n depends on, and the *)
(* domain of g are the services that exist.                                *)
(***************************************************************************)

\* A set of services that all depend on one another has no first to fail.
Cyclic(g) == \E S \in SUBSET DOMAIN g : S # {} /\ \A n \in S : g[n] \cap S # {}

Dangling(g) == \E n \in DOMAIN g : ~(g[n] \subseteq DOMAIN g)
=============================================================================
