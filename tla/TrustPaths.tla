----------------------------- MODULE TrustPaths -----------------------------
(***************************************************************************)
(* When a service's trust path holds, in a frozen snapshot: the parts of   *)
(* the impact simulator that need no search, and what its search is to     *)
(* find, stated without one.                                               *)
(*                                                                         *)
(* A snapshot is a record: overlap start and end, simTime, old and new     *)
(* anchor, candidate chains, chains by id and services by id.  Times are   *)
(* ticks, Minute of them in a minute.  Ids are numbers, as chains and      *)
(* dependencies are tried in their order.  Reason texts, codes and         *)
(* criticality are left out.                                               *)
(***************************************************************************)
EXTENDS DependencyEdges, FiniteSetsExt, Integers

CONSTANT Minute

ASSUME MinuteAssumption == Minute \in Nat \ {0}

\* The times a simulation looks at (criticalTimes).
Samples(snap) ==
  {snap.start - Minute, snap.start,
   snap.start + (snap.end - snap.start) \div 2,
   snap.end, snap.end + Minute, snap.simTime}

ActiveAnchors(snap, at) ==
  IF at < snap.start THEN {snap.old}
  ELSE IF at > snap.end THEN {snap.new}
  ELSE {snap.old, snap.new}

ActiveServices(snap) ==
  {s \in DOMAIN snap.services : snap.services[s].state = "active"}

Edges(snap) ==
  [s \in DOMAIN snap.services |-> snap.services[s].dependencies]

\* The conditions evaluateDirect asks of a chain, in its order.
Usable(snap, s, c, at) ==
  LET chain == snap.chains[c]
  IN /\ chain.state \notin {"revoked", "deprecated"}
     /\ chain.from <= at /\ at < chain.to
     /\ chain.valid
     /\ chain.anchor \in ActiveAnchors(snap, at)
     /\ chain.anchor \in snap.services[s].trust

\* The service's own chain and the candidates for the same leaf.
Offered(snap, s) ==
  LET own == snap.services[s].chain
  IN IF own \notin DOMAIN snap.chains THEN {}
     ELSE {c \in ({own} \cup snap.candidates) \cap DOMAIN snap.chains :
             snap.chains[c].leaf = snap.chains[own].leaf}

NoChain == 0

UsableChains(snap, s, at) == {c \in Offered(snap, s) : Usable(snap, s, c, at)}

\* The chain a service presents: the first usable one (evaluateDirect).
Direct(snap, s, at) ==
  IF UsableChains(snap, s, at) = {} THEN NoChain ELSE Min(UsableChains(snap, s, at))

\* What the search is to decide: a service is reachable when it belongs to a
\* set of active services that all present a chain and depend on members only.
Reachable(snap, s, at) ==
  \E group \in SUBSET ActiveServices(snap) :
    /\ s \in group
    /\ \A g \in group : /\ UsableChains(snap, g, at) # {}
                        /\ snap.services[g].dependencies \subseteq group

\* Times at which some chain's validity begins or ends.
WindowEdges(snap) ==
  {snap.chains[c].from : c \in DOMAIN snap.chains} \cup
  {snap.chains[c].to : c \in DOMAIN snap.chains}
=============================================================================
