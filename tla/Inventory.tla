------------------------------ MODULE Inventory ------------------------------
(***************************************************************************)
(* What the inventory promises to whoever reads it: anchors, chains and    *)
(* services in one atomic state, however many requests write it.           *)
(*                                                                         *)
(* Nothing is ever deleted.  An anchor's revocation and a service's        *)
(* deactivation are final, a chain only moves along its state machine, and *)
(* a service names a stored chain and other stored services.  TrustMaterial *)
(* implements the part of anchors and chains, DependencyGraph that of the  *)
(* services; SnapshotFreeze reads it.                                      *)
(***************************************************************************)
EXTENDS AccessControl

CONSTANTS Anchor, Chain, Service

VARIABLES
  anchor,   \* trust_anchors: absent, trusted or revoked
  chain,    \* certificate_chains: absent or state and anchor
  svc       \* dependent_services: absent or state, chain and edges

inventory == <<anchor, chain, svc>>

-----------------------------------------------------------------------------
NoRow == [state |-> "absent"]

ChainRow == [state : ChainStates, under : Anchor]
ServiceRow == [state : {"active", "inactive"}, chain : Chain, edges : SUBSET Service]

HeldAnchors == {a \in Anchor : anchor[a] # "absent"}
StoredChains == {c \in Chain : chain[c] # NoRow}
StoredServices == {s \in Service : svc[s] # NoRow}

InventoryTypeOK ==
  /\ anchor \in [Anchor -> {"absent", "trusted", "revoked"}]
  /\ chain \in [Chain -> ChainRow \cup {NoRow}]
  /\ svc \in [Service -> ServiceRow \cup {NoRow}]

\* Every reference leads to a stored row, and none to its own.
Closed ==
  /\ \A c \in StoredChains : chain[c].under \in HeldAnchors
  /\ \A s \in StoredServices :
       svc[s].chain \in StoredChains /\ svc[s].edges \subseteq StoredServices \ {s}

InventoryInit == InventoryTypeOK /\ Closed

ImportAnchor(a) ==
  /\ anchor[a] = "absent"
  /\ anchor' = [anchor EXCEPT ![a] = "trusted"]
  /\ UNCHANGED <<chain, svc>>

RevokeAnchor(a) ==
  /\ anchor[a] # "absent"
  /\ anchor' = [anchor EXCEPT ![a] = "revoked"]
  /\ UNCHANGED <<chain, svc>>

ImportChain(c, a) ==
  /\ c \notin StoredChains /\ a \in HeldAnchors
  /\ chain' = [chain EXCEPT ![c] = [state |-> "validated", under |-> a]]
  /\ UNCHANGED <<anchor, svc>>

\* Slip: the state machine is not consulted.
MoveChainAnywhere(c, to) ==
  /\ c \in StoredChains
  /\ chain' = [chain EXCEPT ![c].state = to]
  /\ UNCHANGED <<anchor, svc>>

MoveChain(c, to) ==
  /\ c \in StoredChains /\ CanTransitionChain(chain[c].state, to)
  /\ chain' = [chain EXCEPT ![c].state = to]
  /\ UNCHANGED <<anchor, svc>>

References(s, c, edges) == c \in StoredChains /\ edges \subseteq StoredServices \ {s}

AddService(s, c, edges) ==
  /\ s \notin StoredServices /\ References(s, c, edges)
  /\ svc' = [svc EXCEPT ![s] = [state |-> "active", chain |-> c, edges |-> edges]]
  /\ UNCHANGED <<anchor, chain>>

ChangeService(s, c, edges) ==
  /\ s \in StoredServices /\ References(s, c, edges)
  /\ svc' = [svc EXCEPT ![s].chain = c, ![s].edges = edges]
  /\ UNCHANGED <<anchor, chain>>

DeactivateService(s) ==
  /\ s \in StoredServices /\ svc[s].state = "active"
  /\ svc' = [svc EXCEPT ![s].state = "inactive"]
  /\ UNCHANGED <<anchor, chain>>

InventoryNext ==
  \/ \E a \in Anchor : ImportAnchor(a) \/ RevokeAnchor(a)
  \/ \E c \in Chain, a \in Anchor : ImportChain(c, a)
  \/ \E c \in Chain, to \in ChainStates : MoveChain(c, to)
  \/ \E s \in Service :
       \/ DeactivateService(s)
       \/ \E c \in Chain, edges \in SUBSET Service :
            AddService(s, c, edges) \/ ChangeService(s, c, edges)

InventorySpec == InventoryInit /\ [][InventoryNext]_inventory
=============================================================================
