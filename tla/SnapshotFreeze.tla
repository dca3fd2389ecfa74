---------------------------- MODULE SnapshotFreeze ----------------------------
(***************************************************************************)
(* How a new scenario is frozen from an inventory that others keep         *)
(* writing.  The create request reads the two anchors, the candidate       *)
(* chains, one page of all chains and the services in four statements with *)
(* no transaction around them, validates what it put together and inserts  *)
(* the draft.  Between any two statements the inventory may change, in any *)
(* way it promises to.                                                     *)
(*                                                                         *)
(* Rank stands for the order of the listing, valid_to ascending and then   *)
(* id descending.  Names, times and the hash are left out; an overlap that *)
(* is no interval, or a hash already frozen, ends in Refused.              *)
(***************************************************************************)
EXTENDS Inventory, DependencyEdges, FiniteSets, Naturals

CONSTANTS
  Scenario,      \* ids the table hands out, each to one create request
  PageSize,      \* 200 in the code
  Rank,
  SeedAnchor, SeedChain, SeedService,   \* the demonstration rows
  MaxWrites      \* bound: writes to the inventory

ASSUME PageAssumption == PageSize \in Nat \ {0}
ASSUME FiniteAssumption == IsFiniteSet(Chain)
ASSUME RankAssumption ==
  /\ Rank \in [Chain -> Nat]
  /\ \A c, d \in Chain : Rank[c] = Rank[d] => c = d
ASSUME SeedAssumption ==
  /\ SeedAnchor \in [Anchor -> {"absent", "trusted", "revoked"}]
  /\ SeedChain \in [Chain -> ChainRow \cup {NoRow}]
  /\ \A c \in Chain : SeedChain[c] # NoRow => SeedAnchor[SeedChain[c].under] # "absent"
  /\ SeedService \in [Service -> ServiceRow \cup {NoRow}]
  /\ \A s \in Service : SeedService[s] # NoRow =>
       /\ SeedChain[SeedService[s].chain] # NoRow
       /\ \A t \in SeedService[s].edges : SeedService[t] # NoRow /\ t # s
ASSUME BoundAssumption == MaxWrites \in Nat

VARIABLES
  draft,    \* the scenario of each id, or the create request under way
  writes    \* how often the inventory was written

vars == <<anchor, chain, svc, draft, writes>>

-----------------------------------------------------------------------------
Unused == [pc |-> "unused"]

\* What a set of rows looks like to one SELECT.
Rows(table, ids) == [i \in ids |-> table[i]]

\* The chains that come before c in the order of the listing.
Before(c, ids) == {d \in ids : Rank[d] < Rank[c]}

Missing == << >>

Init ==
  /\ anchor = SeedAnchor /\ chain = SeedChain /\ svc = SeedService
  /\ draft = [k \in Scenario |-> Unused]
  /\ writes = 0

Write ==
  /\ writes < MaxWrites
  /\ InventoryNext
  /\ writes' = writes + 1
  /\ UNCHANGED draft

Read(k, from, to, row) ==
  /\ draft[k].pc = from
  /\ draft' = [draft EXCEPT ![k] = [row EXCEPT !.pc = to]]
  /\ UNCHANGED <<inventory, writes>>

\* The anchors; `began` remembers the chains as they were at this moment.
ReadAnchors(k, old, new, wanted) ==
  /\ draft[k] = Unused
  /\ old # new /\ wanted # {} /\ {old, new} \subseteq HeldAnchors
  /\ draft' = [draft EXCEPT ![k] =
       [pc |-> "anchors", wanted |-> wanted, anchors |-> Rows(anchor, {old, new}),
        chains |-> Missing, services |-> Missing, began |-> Rows(chain, StoredChains)]]
  /\ UNCHANGED <<inventory, writes>>

ReadCandidates(k) ==
  /\ draft[k].pc = "anchors" /\ draft[k].wanted \subseteq StoredChains
  /\ Read(k, "anchors", "candidates", draft[k])

\* Slip: the page is made at its full length and appended to.
PageWithGaps == {c \in Chain : Cardinality(Before(c, Chain)) < PageSize}

\* Slip: the newest chains first.
PageNewest == {c \in StoredChains : Cardinality({d \in StoredChains : Rank[d] > Rank[c]}) < PageSize}

Page == {c \in StoredChains : Cardinality(Before(c, StoredChains)) < PageSize}

ReadChains(k) ==
  Read(k, "candidates", "chains", [draft[k] EXCEPT !.chains = Rows(chain, Page)])

ListedServices == StoredServices

ReadServices(k) ==
  Read(k, "chains", "services",
       [draft[k] EXCEPT !.services = Rows(svc, ListedServices)])

EdgesOf(services) == [s \in DOMAIN services |-> services[s].edges]

\* Slip: the candidates are looked for, the graph is not searched.
ValidWithoutSearch(d) == d.wanted \subseteq DOMAIN d.chains

\* The anchors are there: both were read.
Valid(d) == d.wanted \subseteq DOMAIN d.chains /\ ~Cyclic(EdgesOf(d.services))

Freeze(k) ==
  /\ draft[k].pc = "services" /\ Valid(draft[k])
  /\ Read(k, "services", "frozen", draft[k])

\* A check fails, a statement fails, or the process dies; no row is written.
Refused(k) ==
  /\ draft[k].pc \notin {"unused", "frozen"}
  /\ draft' = [draft EXCEPT ![k] = Unused]
  /\ UNCHANGED <<inventory, writes>>

Next ==
  \/ Write
  \/ \E k \in Scenario :
       \/ \E old, new \in Anchor, wanted \in SUBSET Chain : ReadAnchors(k, old, new, wanted)
       \/ ReadCandidates(k) \/ ReadChains(k) \/ ReadServices(k)
       \/ Freeze(k) \/ Refused(k)

Spec == Init /\ [][Next]_vars

-----------------------------------------------------------------------------
Frozen == {k \in Scenario : draft[k].pc = "frozen"}

PartOf(Ids, Row) == UNION {[ids -> Row] : ids \in SUBSET Ids}

(* Every variable holds what the schema and the snapshot's types allow. *)
TypeOK ==
  /\ InventoryTypeOK
  /\ draft \in [Scenario ->
       [pc : {"anchors", "candidates", "chains", "services", "frozen"},
        wanted : SUBSET Chain, anchors : PartOf(Anchor, {"trusted", "revoked"}),
        chains : PartOf(Chain, ChainRow), services : PartOf(Service, ServiceRow),
        began : PartOf(Chain, ChainRow)] \cup {Unused}]
  /\ writes \in Nat

(* A chain that was there when the request began is frozen with the scenario,
   unless a full page of chains that end sooner is: a service is simulated
   without its chain only if the chain came later or beyond the page, which
   always cuts the chains that last longest (service lines 56-60). *)
OnlyThePageCuts ==
  \A k \in Frozen : \A c \in DOMAIN draft[k].began :
    c \notin DOMAIN draft[k].chains =>
      Cardinality(Before(c, DOMAIN draft[k].chains)) = PageSize

\* Where a chain may get from a state, in any number of steps.
Onward(from, to) ==
  \/ from = to
  \/ CanTransitionChain(from, to)
  \/ \E mid \in ChainStates : CanTransitionChain(from, mid) /\ CanTransitionChain(mid, to)

(* What is frozen is neither older than the request nor ahead of the
   inventory: each chain's state lies on the way from where it stood when the
   request began to where it stands, and no frozen revocation or deactivation
   is taken back, although every row was read at a moment of its own. *)
FrozenIsBetween ==
  \A k \in Frozen : LET d == draft[k] IN
    /\ \A a \in DOMAIN d.anchors : d.anchors[a] = "revoked" => anchor[a] = "revoked"
    /\ \A c \in DOMAIN d.chains :
         /\ c \in StoredChains /\ chain[c].under = d.chains[c].under
         /\ Onward(d.chains[c].state, chain[c].state)
         /\ c \in DOMAIN d.began => Onward(d.began[c].state, d.chains[c].state)
    /\ \A s \in DOMAIN d.services :
         s \in StoredServices /\ (d.services[s].state = "inactive" => svc[s].state = "inactive")

(* The frozen graph has neither a cycle nor an edge that leads out of it,
   although concurrent updates may store a cycle: a scenario can always be
   simulated (simulator.go, lines 146 and 259). *)
FrozenGraphIsSound ==
  \A k \in Frozen : LET g == EdgesOf(draft[k].services) IN
    ~Cyclic(g) /\ ~Dangling(g)
=============================================================================
