------------------------- MODULE SnapshotFreezeProofs -------------------------
(***************************************************************************)
(* What a frozen scenario is worth, for any inventory, page size and       *)
(* number of concurrent requests and writers.                              *)
(*                                                                         *)
(* The inventory only grows onward, so a row read at any moment stays a    *)
(* past of the row as it is; each statement sees one closed state, so the  *)
(* services read in one statement name none that was not read with them.   *)
(***************************************************************************)
EXTENDS SnapshotFreeze, FiniteSetTheorems, TLAPS

-----------------------------------------------------------------------------
\* The listing's order: how many chains come before each is a numbering.
LEMMA BeforeFinite ==
  ASSUME NEW S \in SUBSET Chain, NEW c \in S
  PROVE  /\ IsFiniteSet(S) /\ Cardinality(S) \in Nat
         /\ IsFiniteSet(Before(c, S)) /\ Cardinality(Before(c, S)) \in Nat
         /\ Cardinality(Before(c, S)) < Cardinality(S)
<1>1. IsFiniteSet(S)
  BY FiniteAssumption, FS_Subset
<1>2. Before(c, S) \in SUBSET (S \ {c})
  BY RankAssumption DEF Before
<1>3. IsFiniteSet(S \ {c}) /\ Cardinality(S \ {c}) = Cardinality(S) - 1
  BY <1>1, FS_RemoveElement
<1>4. /\ IsFiniteSet(Before(c, S)) /\ Cardinality(Before(c, S)) <= Cardinality(S \ {c})
  BY <1>2, <1>3, FS_Subset
<1>5. Cardinality(S) \in Nat /\ Cardinality(Before(c, S)) \in Nat
  BY <1>1, <1>4, FS_CardinalityType
<1> QED
  BY <1>1, <1>3, <1>4, <1>5

LEMMA BeforeGrows ==
  ASSUME NEW S \in SUBSET Chain, NEW c \in S, NEW d \in S, Rank[c] < Rank[d]
  PROVE  Cardinality(Before(c, S)) < Cardinality(Before(d, S))
<1>1. Before(c, S) \cup {c} \in SUBSET Before(d, S)
  BY RankAssumption DEF Before
<1>2. c \notin Before(c, S)
  BY RankAssumption DEF Before
<1>3. IsFiniteSet(Before(c, S)) /\ IsFiniteSet(Before(d, S))
  BY BeforeFinite
<1>4. Cardinality(Before(c, S) \cup {c}) = Cardinality(Before(c, S)) + 1
  BY <1>2, <1>3, FS_AddElement
<1>5. Cardinality(Before(c, S) \cup {c}) <= Cardinality(Before(d, S))
  BY <1>1, <1>3, FS_Subset
<1>6. Cardinality(Before(c, S)) \in Nat /\ Cardinality(Before(d, S)) \in Nat
  BY BeforeFinite
<1> QED
  BY <1>4, <1>5, <1>6

LEMMA Numbering ==
  ASSUME NEW S \in SUBSET Chain
  PROVE  [c \in S |-> Cardinality(Before(c, S))]
           \in Bijection(S, 0..(Cardinality(S) - 1))
<1> DEFINE n == Cardinality(S)
           place == [c \in S |-> Cardinality(Before(c, S))]
<1>1. IsFiniteSet(S) /\ n \in Nat
  BY FiniteAssumption, FS_Subset, FS_CardinalityType
<1>2. IsFiniteSet(0..(n - 1)) /\ Cardinality(0..(n - 1)) = n
  BY <1>1, FS_Interval
<1>3. place \in [S -> 0..(n - 1)]
  BY <1>1, BeforeFinite
<1>4. ASSUME NEW c \in S, NEW d \in S, place[c] = place[d]
      PROVE  c = d
  <2>1. ~(Rank[c] < Rank[d]) /\ ~(Rank[d] < Rank[c])
    BY <1>4, BeforeGrows, BeforeFinite
  <2> QED
    BY <2>1, RankAssumption
<1>5. place \in Injection(S, 0..(n - 1))
  BY <1>3, <1>4 DEF Injection, IsInjective
<1>6. place \in Surjection(S, 0..(n - 1))
  BY <1>1, <1>2, <1>5, FS_Injection
<1> QED
  BY <1>5, <1>6 DEF Bijection

\* A chain beyond the page has the whole page before it, and the page is full.
LEMMA PageIsFull ==
  ASSUME NEW c \in StoredChains, c \notin Page
  PROVE  Cardinality(Before(c, Page)) = PageSize
<1> DEFINE S == StoredChains
           place == [d \in S |-> Cardinality(Before(d, S))]
           part == [d \in Page |-> Cardinality(Before(d, S))]
<1>1. S \in SUBSET Chain /\ Page \subseteq S
  BY DEF StoredChains, Page
<1>2. \A d \in S : Cardinality(Before(d, S)) \in Nat
  BY <1>1, BeforeFinite
<1>3. PageSize \in Nat /\ PageSize <= Cardinality(Before(c, S))
  BY <1>2, PageAssumption DEF Page
<1>4. Before(c, Page) = Page
  <2> SUFFICES ASSUME NEW d \in Page PROVE Rank[d] < Rank[c]
    BY DEF Before
  <2>1. Cardinality(Before(d, S)) < Cardinality(Before(c, S))
    BY <1>1, <1>2, <1>3 DEF Page
  <2>2. ~(Rank[c] < Rank[d])
    BY <1>1, <1>2, <2>1, BeforeGrows
  <2> QED
    BY <1>1, <2>1, <2>2, <1>2, RankAssumption
<1>5. place \in Bijection(S, 0..(Cardinality(S) - 1))
  BY <1>1, Numbering
<1>6. part \in Injection(Page, 0..(PageSize - 1))
  <2>1. part \in [Page -> 0..(PageSize - 1)]
    BY <1>1, <1>2, <1>3 DEF Page
  <2>2. \A d, e \in Page : part[d] = part[e] => d = e
    BY <1>1, <1>5 DEF Bijection, Injection, IsInjective
  <2> QED
    BY <2>1, <2>2 DEF Injection, IsInjective
<1>7. part \in Surjection(Page, 0..(PageSize - 1))
  <2>1. ASSUME NEW i \in 0..(PageSize - 1) PROVE \E d \in Page : part[d] = i
    <3>1. Cardinality(Before(c, S)) < Cardinality(S) /\ Cardinality(S) \in Nat
      BY <1>1, BeforeFinite
    <3>2. i \in 0..(Cardinality(S) - 1) /\ i < PageSize
      BY <1>2, <1>3, <3>1
    <3>3. PICK d \in S : place[d] = i
      BY <1>5, <3>2 DEF Bijection, Surjection
    <3>4. d \in Page
      BY <3>2, <3>3 DEF Page
    <3> QED
      BY <3>3, <3>4
  <2> QED
    BY <1>6, <2>1 DEF Injection, Surjection
<1>8. /\ IsFiniteSet(0..(PageSize - 1)) /\ Cardinality(0..(PageSize - 1)) = PageSize
  BY <1>3, FS_Interval
<1>9. Cardinality(Page) = PageSize
  BY <1>6, <1>7, <1>8, FS_Injection
<1> QED
  BY <1>4, <1>9

-----------------------------------------------------------------------------
\* What a read row is to the row as it is now.
AnchorBetween(a, seen) == seen = "revoked" => anchor[a] = "revoked"

ChainBetween(c, seen) ==
  c \in StoredChains /\ chain[c].under = seen.under /\ Onward(seen.state, chain[c].state)

ServiceBetween(s, seen) ==
  s \in StoredServices /\ (seen.state = "inactive" => svc[s].state = "inactive")

HasChains(d) == d.pc \in {"chains", "services", "frozen"}
HasServices(d) == d.pc \in {"services", "frozen"}

Cut(d) == \A c \in DOMAIN d.began : c \notin DOMAIN d.chains =>
            Cardinality(Before(c, DOMAIN d.chains)) = PageSize

\* What the rows were when they were read, and still are to the inventory.
DraftGood(d) ==
  /\ \A a \in DOMAIN d.anchors : AnchorBetween(a, d.anchors[a])
  /\ \A c \in DOMAIN d.began : ChainBetween(c, d.began[c])
  /\ HasChains(d) =>
       /\ Cut(d)
       /\ \A c \in DOMAIN d.chains :
            /\ ChainBetween(c, d.chains[c])
            /\ c \in DOMAIN d.began => Onward(d.began[c].state, d.chains[c].state)
  /\ HasServices(d) =>
       /\ \A s \in DOMAIN d.services : ServiceBetween(s, d.services[s])
       /\ ~Dangling(EdgesOf(d.services))
  /\ d.pc = "frozen" => ~Cyclic(EdgesOf(d.services))

DraftsGood == \A k \in Scenario : draft[k] # Unused => DraftGood(draft[k])

IInv == TypeOK /\ Closed /\ DraftsGood

Drafts ==
  [pc : {"anchors", "candidates", "chains", "services", "frozen"},
   wanted : SUBSET Chain, anchors : PartOf(Anchor, {"trusted", "revoked"}),
   chains : PartOf(Chain, ChainRow), services : PartOf(Service, ServiceRow),
   began : PartOf(Chain, ChainRow)]

-----------------------------------------------------------------------------
LEMMA UnusedIsNoDraft ==
  ASSUME NEW d \in Drafts \cup {Unused}
  PROVE  /\ d # Unused <=> d \in Drafts
         /\ d.pc # "unused" <=> d \in Drafts
BY DEF Drafts, Unused

\* What one SELECT returns, by kind of row.
LEMMA RowsTyped ==
  ASSUME InventoryTypeOK
  PROVE  /\ \A ids \in SUBSET StoredChains : Rows(chain, ids) \in PartOf(Chain, ChainRow)
         /\ \A ids \in SUBSET StoredServices :
              Rows(svc, ids) \in PartOf(Service, ServiceRow)
         /\ \A ids \in SUBSET HeldAnchors :
              Rows(anchor, ids) \in PartOf(Anchor, {"trusted", "revoked"})
<1>1. ASSUME NEW ids \in SUBSET StoredChains PROVE Rows(chain, ids) \in PartOf(Chain, ChainRow)
  <2>1. Rows(chain, ids) \in [ids -> ChainRow] /\ ids \in SUBSET Chain
    BY DEF InventoryTypeOK, Rows, StoredChains
  <2> QED
    BY <2>1 DEF PartOf
<1>2. ASSUME NEW ids \in SUBSET StoredServices
      PROVE  Rows(svc, ids) \in PartOf(Service, ServiceRow)
  <2>1. Rows(svc, ids) \in [ids -> ServiceRow] /\ ids \in SUBSET Service
    BY DEF InventoryTypeOK, Rows, StoredServices
  <2> QED
    BY <2>1 DEF PartOf
<1>3. ASSUME NEW ids \in SUBSET HeldAnchors
      PROVE  Rows(anchor, ids) \in PartOf(Anchor, {"trusted", "revoked"})
  <2>1. Rows(anchor, ids) \in [ids -> {"trusted", "revoked"}] /\ ids \in SUBSET Anchor
    BY DEF InventoryTypeOK, Rows, HeldAnchors
  <2> QED
    BY <2>1 DEF PartOf
<1> QED
  BY <1>1, <1>2, <1>3

LEMMA MissingTyped ==
  Missing \in PartOf(Chain, ChainRow) /\ Missing \in PartOf(Service, ServiceRow)
<1>1. ASSUME NEW T PROVE Missing \in [{} -> T]
  BY DEF Missing
<1> QED
  BY <1>1 DEF PartOf

LEMMA OnwardIsOrder ==
  /\ \A x \in ChainStates : Onward(x, x)
  /\ \A x, y \in ChainStates : CanTransitionChain(x, y) => Onward(x, y)
  /\ \A x, y, z \in ChainStates : Onward(x, y) /\ Onward(y, z) => Onward(x, z)
<1>1. \A x, y \in ChainStates : CanTransitionChain(x, y) <=>
        \/ x = "imported" /\ y \in {"validated", "revoked"}
        \/ x = "validated" /\ y \in {"deprecated", "revoked"}
        \/ x = "deprecated" /\ y = "revoked"
  BY DEF ChainStates, ChainSuccessors, CanTransitionChain
<1>2. \A x, y \in ChainStates : Onward(x, y) <=>
        \/ x = y
        \/ x = "imported"
        \/ x = "validated" /\ y \in {"deprecated", "revoked"}
        \/ x = "deprecated" /\ y = "revoked"
  BY <1>1 DEF Onward, ChainStates
<1> QED
  BY <1>1, <1>2 DEF ChainStates

\* The inventory only grows onward and stays closed.
LEMMA InventoryGrows ==
  ASSUME InventoryTypeOK, Closed, InventoryNext
  PROVE  /\ InventoryTypeOK' /\ Closed'
         /\ \A a \in Anchor : anchor[a] = "revoked" => anchor'[a] = "revoked"
         /\ \A c \in StoredChains :
              /\ c \in StoredChains' /\ chain'[c].under = chain[c].under
              /\ Onward(chain[c].state, chain'[c].state)
         /\ \A s \in StoredServices :
              s \in StoredServices' /\ (svc[s].state = "inactive" => svc'[s].state = "inactive")
<1> DEFINE Goal ==
      /\ InventoryTypeOK' /\ Closed'
      /\ \A a \in Anchor : anchor[a] = "revoked" => anchor'[a] = "revoked"
      /\ \A c \in StoredChains :
           /\ c \in StoredChains' /\ chain'[c].under = chain[c].under
           /\ Onward(chain[c].state, chain'[c].state)
      /\ \A s \in StoredServices :
           s \in StoredServices' /\ (svc[s].state = "inactive" => svc'[s].state = "inactive")
<1>0. /\ \A c \in StoredChains : c \in Chain /\ chain[c] \in ChainRow
      /\ \A s \in StoredServices : s \in Service /\ svc[s] \in ServiceRow
  BY DEF InventoryTypeOK, StoredChains, StoredServices
<1>r. \A c \in StoredChains : Onward(chain[c].state, chain[c].state)
  BY <1>0, OnwardIsOrder DEF ChainRow
<1>1. ASSUME NEW a \in Anchor, ImportAnchor(a) \/ RevokeAnchor(a) PROVE Goal
  <2>1. anchor' \in [Anchor -> {"absent", "trusted", "revoked"}]
    BY <1>1 DEF ImportAnchor, RevokeAnchor, InventoryTypeOK
  <2>2. HeldAnchors \subseteq HeldAnchors' /\ UNCHANGED <<chain, svc>>
    BY <1>1 DEF ImportAnchor, RevokeAnchor, InventoryTypeOK, HeldAnchors
  <2>3. UNCHANGED <<StoredChains, StoredServices>>
    BY <2>2 DEF StoredChains, StoredServices
  <2>4. \A b \in Anchor : anchor[b] = "revoked" => anchor'[b] = "revoked"
    BY <1>1 DEF ImportAnchor, RevokeAnchor, InventoryTypeOK
  <2> QED
    BY <1>r, <2>1, <2>2, <2>3, <2>4 DEF InventoryTypeOK, Closed
<1>2. ASSUME NEW c \in Chain, NEW a \in Anchor, ImportChain(c, a) PROVE Goal
  <2> DEFINE new == [state |-> "validated", under |-> a]
  <2>1. /\ c \notin StoredChains /\ a \in HeldAnchors /\ chain' = [chain EXCEPT ![c] = new]
        /\ UNCHANGED <<anchor, svc>>
    BY <1>2 DEF ImportChain
  <2>2. new \in ChainRow /\ new # NoRow
    BY DEF ChainRow, ChainStates, NoRow
  <2>3. InventoryTypeOK' /\ StoredChains' = StoredChains \cup {c}
    BY <2>1, <2>2 DEF InventoryTypeOK, StoredChains
  <2>4. \A d \in StoredChains : chain'[d] = chain[d]
    BY <2>1 DEF StoredChains, InventoryTypeOK
  <2>5. UNCHANGED <<HeldAnchors, StoredServices>>
    BY <2>1 DEF HeldAnchors, StoredServices
  <2>6. chain'[c].under = a
    BY <2>1 DEF InventoryTypeOK
  <2>7. Closed'
    BY <2>1, <2>3, <2>4, <2>5, <2>6 DEF Closed
  <2> QED
    BY <1>r, <2>1, <2>3, <2>4, <2>5, <2>7
<1>3. ASSUME NEW c \in Chain, NEW to \in ChainStates, MoveChain(c, to) PROVE Goal
  <2>1. /\ c \in StoredChains /\ CanTransitionChain(chain[c].state, to)
        /\ chain' = [chain EXCEPT ![c].state = to] /\ UNCHANGED <<anchor, svc>>
    BY <1>3 DEF MoveChain
  <2>2. chain[c] \in ChainRow
    BY <1>0, <2>1
  <2>3. /\ chain'[c] = [chain[c] EXCEPT !.state = to]
        /\ \A d \in Chain \ {c} : chain'[d] = chain[d]
    BY <2>1 DEF InventoryTypeOK
  <2>4. /\ chain'[c] \in ChainRow /\ chain'[c].state = to
        /\ chain'[c].under = chain[c].under /\ chain'[c] # NoRow
    BY <2>2, <2>3 DEF ChainRow, NoRow
  <2>5. InventoryTypeOK'
    BY <2>1, <2>3, <2>4 DEF InventoryTypeOK
  <2>6. StoredChains' = StoredChains
    BY <2>1, <2>3, <2>4 DEF StoredChains
  <2>7. UNCHANGED <<HeldAnchors, StoredServices>>
    BY <2>1 DEF HeldAnchors, StoredServices
  <2>8. \A d \in StoredChains : chain'[d].under = chain[d].under
    BY <1>0, <2>3, <2>4
  <2>9. Closed'
    BY <2>1, <2>6, <2>7, <2>8 DEF Closed
  <2>10. \A d \in StoredChains : Onward(chain[d].state, chain'[d].state)
    BY <1>0, <1>r, <2>1, <2>2, <2>3, <2>4, OnwardIsOrder DEF ChainRow
  <2> QED
    BY <2>1, <2>5, <2>6, <2>7, <2>8, <2>9, <2>10
<1>4. ASSUME NEW s \in Service, NEW row \in ServiceRow, svc' = [svc EXCEPT ![s] = row],
             UNCHANGED <<anchor, chain>>, References(s, row.chain, row.edges),
             s \in StoredServices /\ svc[s].state = "inactive" => row.state = "inactive"
      PROVE  Goal
  <2>1. row # NoRow
    BY DEF ServiceRow, NoRow
  <2>2. InventoryTypeOK' /\ StoredServices' = StoredServices \cup {s}
    BY <1>4, <2>1 DEF InventoryTypeOK, StoredServices
  <2>3. svc'[s] = row /\ \A t \in Service \ {s} : svc'[t] = svc[t]
    BY <1>4 DEF InventoryTypeOK
  <2>4. UNCHANGED <<HeldAnchors, StoredChains>>
    BY <1>4 DEF HeldAnchors, StoredChains
  <2>5. Closed'
    BY <1>0, <1>4, <2>2, <2>3, <2>4 DEF Closed, References
  <2> QED
    BY <1>0, <1>r, <1>4, <2>2, <2>3, <2>4, <2>5
<1>5. ASSUME NEW s \in Service, NEW c \in Chain, NEW edges \in SUBSET Service,
             AddService(s, c, edges) \/ ChangeService(s, c, edges)
      PROVE  Goal
  <2>1. PICK row \in ServiceRow : /\ svc' = [svc EXCEPT ![s] = row]
                                  /\ row.chain = c /\ row.edges = edges
                                  /\ s \in StoredServices => row.state = svc[s].state
    <3>1. CASE AddService(s, c, edges)
      <4> DEFINE new == [state |-> "active", chain |-> c, edges |-> edges]
      <4>1. new \in ServiceRow /\ new.chain = c /\ new.edges = edges
        BY DEF ServiceRow
      <4> QED
        BY <3>1, <4>1 DEF AddService
    <3>2. CASE ChangeService(s, c, edges)
      <4> DEFINE new == [svc[s] EXCEPT !.chain = c, !.edges = edges]
      <4>1. svc[s] \in ServiceRow
        BY <1>0, <3>2 DEF ChangeService
      <4>2. /\ new \in ServiceRow /\ new.chain = c /\ new.edges = edges
            /\ new.state = svc[s].state
        BY <4>1 DEF ServiceRow
      <4>3. svc' = [svc EXCEPT ![s] = new]
        BY <3>2 DEF ChangeService
      <4> QED
        BY <4>2, <4>3
    <3> QED
      BY <1>5, <3>1, <3>2
  <2>2. References(s, c, edges) /\ UNCHANGED <<anchor, chain>>
    BY <1>5 DEF AddService, ChangeService
  <2> QED
    BY <1>4, <2>1, <2>2
<1>6. ASSUME NEW s \in Service, DeactivateService(s) PROVE Goal
  <2> DEFINE new == [svc[s] EXCEPT !.state = "inactive"]
  <2>1. s \in StoredServices /\ svc[s] \in ServiceRow
    BY <1>0, <1>6 DEF DeactivateService
  <2>2. /\ new \in ServiceRow /\ new.state = "inactive" /\ new.chain = svc[s].chain
        /\ new.edges = svc[s].edges
    BY <2>1 DEF ServiceRow
  <2>3. References(s, new.chain, new.edges)
    BY <2>1, <2>2 DEF Closed, References
  <2>4. svc' = [svc EXCEPT ![s] = new] /\ UNCHANGED <<anchor, chain>>
    BY <1>6 DEF DeactivateService
  <2> QED
    BY <1>4, <2>2, <2>3, <2>4
<1> QED
  BY <1>1, <1>2, <1>3, <1>5, <1>6 DEF InventoryNext

-----------------------------------------------------------------------------
\* A good draft stays good whatever the inventory does.
LEMMA WriteKeeps ==
  ASSUME IInv, Write
  PROVE  IInv'
<1>1. InventoryTypeOK /\ Closed /\ InventoryNext /\ UNCHANGED draft
  BY DEF IInv, TypeOK, Write
<1> DEFINE
  Grown ==
    /\ \A a \in Anchor : anchor[a] = "revoked" => anchor'[a] = "revoked"
    /\ \A c \in StoredChains :
         /\ c \in StoredChains' /\ chain'[c].under = chain[c].under
         /\ Onward(chain[c].state, chain'[c].state)
    /\ \A s \in StoredServices :
         s \in StoredServices' /\ (svc[s].state = "inactive" => svc'[s].state = "inactive")
<1>2. InventoryTypeOK' /\ Closed' /\ Grown
  BY <1>1, InventoryGrows
<1>3. TypeOK'
  BY <1>1, <1>2 DEF IInv, TypeOK, Write
<1>4. ASSUME NEW c \in Chain, NEW seen \in ChainRow, ChainBetween(c, seen)
      PROVE  ChainBetween(c, seen)'
  <2>1. c \in StoredChains /\ chain[c] \in ChainRow
    BY <1>1, <1>4 DEF ChainBetween, StoredChains, InventoryTypeOK
  <2>2. c \in StoredChains' /\ chain'[c] \in ChainRow
    BY <1>2, <2>1 DEF StoredChains, InventoryTypeOK
  <2>3. /\ seen.state \in ChainStates /\ chain[c].state \in ChainStates
        /\ chain'[c].state \in ChainStates
    BY <2>1, <2>2 DEF ChainRow
  <2>4. Onward(seen.state, chain'[c].state)
    BY <1>2, <1>4, <2>1, <2>3, OnwardIsOrder DEF ChainBetween
  <2> QED
    BY <1>2, <1>4, <2>1, <2>2, <2>4 DEF ChainBetween
<1>5. ASSUME NEW k \in Scenario, draft[k] # Unused PROVE DraftGood(draft[k])'
  <2> DEFINE d == draft[k]
  <2>1. d \in Drafts /\ d' = d
    BY <1>1, <1>5 DEF IInv, TypeOK, Drafts
  <2>2. DraftGood(d)
    BY <1>5 DEF IInv, DraftsGood
  <2>3. /\ \A a \in DOMAIN d.anchors : a \in Anchor
        /\ \A c \in DOMAIN d.began : c \in Chain /\ d.began[c] \in ChainRow
        /\ \A c \in DOMAIN d.chains : c \in Chain /\ d.chains[c] \in ChainRow
    BY <2>1 DEF Drafts, PartOf
  <2>4. \A a \in DOMAIN d.anchors : AnchorBetween(a, d.anchors[a])'
    BY <1>2, <2>1, <2>2, <2>3 DEF DraftGood, AnchorBetween
  <2>5. \A c \in DOMAIN d.began : ChainBetween(c, d.began[c])'
    BY <1>4, <2>1, <2>2, <2>3 DEF DraftGood
  <2>6. HasChains(d) => \A c \in DOMAIN d.chains : ChainBetween(c, d.chains[c])'
    BY <1>4, <2>1, <2>2, <2>3 DEF DraftGood
  <2>7. HasServices(d) =>
          \A s \in DOMAIN d.services : ServiceBetween(s, d.services[s])'
    BY <1>2, <2>1, <2>2 DEF DraftGood, ServiceBetween
  <2> QED
    BY <2>1, <2>2, <2>4, <2>5, <2>6, <2>7 DEF DraftGood, HasChains, HasServices, Cut
<1> QED
  BY <1>1, <1>2, <1>3, <1>5 DEF IInv, DraftsGood

\* A step of one draft leaves the rest, so it is enough to look at that one.
LEMMA DraftStep ==
  ASSUME IInv, NEW k \in Scenario, NEW d \in Drafts \cup {Unused},
         draft' = [draft EXCEPT ![k] = d], UNCHANGED <<inventory, writes>>,
         d # Unused => DraftGood(d)
  PROVE  IInv'
<1>1. UNCHANGED <<anchor, chain, svc, writes>>
  BY DEF inventory
<1>2. TypeOK'
  BY <1>1 DEF IInv, TypeOK, Drafts, InventoryTypeOK
<1>3. Closed'
  BY <1>1 DEF IInv, Closed, StoredChains, HeldAnchors, StoredServices
<1>4. ASSUME NEW j \in Scenario, draft'[j] # Unused PROVE DraftGood(draft'[j])
  BY <1>4 DEF IInv, TypeOK, DraftsGood
<1>5. \A j \in Scenario : draft'[j] # Unused => DraftGood(draft[j])'
  BY <1>1, <1>4 DEF DraftGood, AnchorBetween, ChainBetween, ServiceBetween, StoredChains,
     StoredServices, HasChains, HasServices, Cut
<1> QED
  BY <1>2, <1>3, <1>5 DEF IInv, DraftsGood

LEMMA DraftOf ==
  ASSUME IInv, NEW k \in Scenario, draft[k].pc # "unused"
  PROVE  draft[k] \in Drafts /\ DraftGood(draft[k])
<1>1. draft[k] \in Drafts \cup {Unused}
  BY DEF IInv, TypeOK, Drafts
<1> QED
  BY <1>1, UnusedIsNoDraft DEF IInv, DraftsGood, Unused

LEMMA ReadAnchorsKeeps ==
  ASSUME IInv, NEW k \in Scenario, NEW old \in Anchor, NEW new \in Anchor,
         NEW wanted \in SUBSET Chain, ReadAnchors(k, old, new, wanted)
  PROVE  IInv'
<1> DEFINE d == [pc |-> "anchors", wanted |-> wanted, anchors |-> Rows(anchor, {old, new}),
                 chains |-> Missing, services |-> Missing, began |-> Rows(chain, StoredChains)]
<1>1. draft' = [draft EXCEPT ![k] = d] /\ UNCHANGED <<inventory, writes>>
  BY DEF ReadAnchors
<1>2. d \in Drafts
  BY MissingTyped, RowsTyped DEF IInv, TypeOK, Drafts, ReadAnchors
<1>3. DraftGood(d)
  <2>1. \A c \in StoredChains : chain[c].state \in ChainStates
    BY DEF IInv, TypeOK, InventoryTypeOK, StoredChains, ChainRow
  <2>2. \A c \in DOMAIN d.began : ChainBetween(c, d.began[c])
    BY <2>1, OnwardIsOrder DEF Rows, ChainBetween
  <2> QED
    BY <2>2 DEF DraftGood, AnchorBetween, Rows, HasChains, HasServices
<1> QED
  BY <1>1, <1>2, <1>3, DraftStep

LEMMA ReadCandidatesKeeps ==
  ASSUME IInv, NEW k \in Scenario, ReadCandidates(k)
  PROVE  IInv'
<1> DEFINE d == [draft[k] EXCEPT !.pc = "candidates"]
<1>1. /\ draft' = [draft EXCEPT ![k] = d] /\ UNCHANGED <<inventory, writes>>
      /\ draft[k].pc = "anchors"
  BY DEF ReadCandidates, Read
<1>2. draft[k] \in Drafts /\ DraftGood(draft[k])
  BY <1>1, DraftOf
<1>3. /\ d \in Drafts /\ d.pc = "candidates"
      /\ d.anchors = draft[k].anchors /\ d.began = draft[k].began
  BY <1>2 DEF Drafts
<1>4. DraftGood(d)
  BY <1>2, <1>3 DEF DraftGood, HasChains, HasServices
<1> QED
  BY <1>1, <1>3, <1>4, DraftStep

LEMMA ReadChainsKeeps ==
  ASSUME IInv, NEW k \in Scenario, ReadChains(k)
  PROVE  IInv'
<1> DEFINE d == [[draft[k] EXCEPT !.chains = Rows(chain, Page)] EXCEPT !.pc = "chains"]
<1>1. /\ draft' = [draft EXCEPT ![k] = d] /\ UNCHANGED <<inventory, writes>>
      /\ draft[k].pc = "candidates"
  BY DEF ReadChains, Read
<1>2. draft[k] \in Drafts /\ DraftGood(draft[k])
  BY <1>1, DraftOf
<1>3. Page \in SUBSET StoredChains /\ Rows(chain, Page) \in PartOf(Chain, ChainRow)
  BY RowsTyped DEF Page, IInv, TypeOK
<1>4. /\ d \in Drafts /\ d.pc = "chains" /\ d.chains = Rows(chain, Page)
      /\ d.anchors = draft[k].anchors /\ d.began = draft[k].began
  BY <1>2, <1>3 DEF Drafts
<1>5. Cut(d)
  <2> SUFFICES ASSUME NEW c \in DOMAIN d.began, c \notin DOMAIN d.chains
               PROVE  Cardinality(Before(c, DOMAIN d.chains)) = PageSize
    BY DEF Cut
  <2>1. DOMAIN d.chains = Page
    BY <1>4 DEF Rows
  <2>2. c \in StoredChains /\ c \notin Page
    BY <1>2, <1>4, <2>1 DEF DraftGood, ChainBetween
  <2> QED
    BY <2>1, <2>2, PageIsFull
<1>6. ASSUME NEW c \in DOMAIN d.chains
      PROVE  /\ ChainBetween(c, d.chains[c])
             /\ c \in DOMAIN d.began => Onward(d.began[c].state, d.chains[c].state)
  <2>1. c \in StoredChains /\ d.chains[c] = chain[c]
    BY <1>3, <1>4, <1>6 DEF Rows
  <2>2. chain[c].state \in ChainStates
    BY <2>1 DEF IInv, TypeOK, InventoryTypeOK, StoredChains, ChainRow
  <2>3. ChainBetween(c, d.chains[c])
    BY <2>1, <2>2, OnwardIsOrder DEF ChainBetween
  <2>4. c \in DOMAIN d.began => Onward(d.began[c].state, d.chains[c].state)
    BY <1>2, <1>4, <2>1 DEF DraftGood, ChainBetween
  <2> QED
    BY <2>3, <2>4
<1>7. DraftGood(d)
  BY <1>2, <1>4, <1>5, <1>6 DEF DraftGood, HasServices
<1> QED
  BY <1>1, <1>4, <1>7, DraftStep

LEMMA ReadServicesKeeps ==
  ASSUME IInv, NEW k \in Scenario, ReadServices(k)
  PROVE  IInv'
<1> DEFINE d == [[draft[k] EXCEPT !.services = Rows(svc, ListedServices)]
                   EXCEPT !.pc = "services"]
<1>1. /\ draft' = [draft EXCEPT ![k] = d] /\ UNCHANGED <<inventory, writes>>
      /\ draft[k].pc = "chains"
  BY DEF ReadServices, Read
<1>2. draft[k] \in Drafts /\ DraftGood(draft[k])
  BY <1>1, DraftOf
<1>3. Rows(svc, ListedServices) \in PartOf(Service, ServiceRow)
  BY RowsTyped DEF ListedServices, IInv, TypeOK
<1>4. /\ d \in Drafts /\ d.pc = "services" /\ d.services = Rows(svc, StoredServices)
      /\ d.anchors = draft[k].anchors /\ d.began = draft[k].began
      /\ d.chains = draft[k].chains
  BY <1>2, <1>3 DEF Drafts, ListedServices
<1>5. /\ DOMAIN d.services = StoredServices
      /\ \A s \in StoredServices : d.services[s] = svc[s]
  BY <1>4 DEF Rows
<1>6. \A s \in DOMAIN d.services : ServiceBetween(s, d.services[s])
  BY <1>5 DEF ServiceBetween
<1>7. ~Dangling(EdgesOf(d.services))
  BY <1>5 DEF Dangling, EdgesOf, IInv, Closed
<1>8. HasChains(draft[k])
  BY <1>1 DEF HasChains
<1>9. Cut(d)
  BY <1>2, <1>4, <1>8 DEF DraftGood, Cut
<1>10. DraftGood(d)
  BY <1>2, <1>4, <1>6, <1>7, <1>8, <1>9 DEF DraftGood
<1> QED
  BY <1>1, <1>4, <1>10, DraftStep

LEMMA FreezeKeeps ==
  ASSUME IInv, NEW k \in Scenario, Freeze(k)
  PROVE  IInv'
<1> DEFINE d == [draft[k] EXCEPT !.pc = "frozen"]
<1>1. /\ draft' = [draft EXCEPT ![k] = d] /\ UNCHANGED <<inventory, writes>>
      /\ draft[k].pc = "services" /\ Valid(draft[k])
  BY DEF Freeze, Read
<1>2. draft[k] \in Drafts /\ DraftGood(draft[k])
  BY <1>1, DraftOf
<1>3. /\ d \in Drafts /\ d.pc = "frozen" /\ d.services = draft[k].services
      /\ d.anchors = draft[k].anchors /\ d.began = draft[k].began
      /\ d.chains = draft[k].chains
  BY <1>2 DEF Drafts
<1>4. HasChains(draft[k]) /\ HasServices(draft[k])
  BY <1>1 DEF HasChains, HasServices
<1>5. Cut(d)
  BY <1>2, <1>3, <1>4 DEF DraftGood, Cut
<1>6. ~Cyclic(EdgesOf(d.services))
  BY <1>1, <1>3 DEF Valid
<1>7. DraftGood(d)
  BY <1>2, <1>3, <1>4, <1>5, <1>6 DEF DraftGood
<1> QED
  BY <1>1, <1>3, <1>7, DraftStep

-----------------------------------------------------------------------------
LEMMA FreezeInit == Init => IInv
<1> SUFFICES ASSUME Init PROVE IInv
  OBVIOUS
<1>1. anchor = SeedAnchor /\ chain = SeedChain /\ svc = SeedService
  BY DEF Init
<1>2. TypeOK
  BY <1>1, SeedAssumption DEF Init, TypeOK, InventoryTypeOK
<1>3. \A c \in StoredChains : chain[c].under \in HeldAnchors
  <2>1. ASSUME NEW c \in StoredChains PROVE chain[c].under \in HeldAnchors
    <3>1. c \in Chain /\ chain[c] \in ChainRow
      BY <1>2 DEF StoredChains, TypeOK, InventoryTypeOK
    <3> QED
      BY <1>1, <3>1, SeedAssumption DEF HeldAnchors, StoredChains, ChainRow
  <2> QED
    BY <2>1
<1>4. ASSUME NEW s \in StoredServices
      PROVE  svc[s].chain \in StoredChains /\ svc[s].edges \subseteq StoredServices \ {s}
  <2>1. s \in Service /\ svc[s] \in ServiceRow
    BY <1>2 DEF StoredServices, TypeOK, InventoryTypeOK
  <2> QED
    BY <1>1, <2>1, SeedAssumption DEF StoredServices, StoredChains, ServiceRow
<1>5. DraftsGood
  BY DEF Init, DraftsGood
<1> QED
  BY <1>2, <1>3, <1>4, <1>5 DEF IInv, Closed

LEMMA FreezeStep == IInv /\ [Next]_vars => IInv'
<1> SUFFICES ASSUME IInv, [Next]_vars PROVE IInv'
  OBVIOUS
<1>1. CASE Write
  BY <1>1, WriteKeeps
<1>2. ASSUME NEW k \in Scenario, NEW old \in Anchor, NEW new \in Anchor,
             NEW wanted \in SUBSET Chain, ReadAnchors(k, old, new, wanted)
      PROVE  IInv'
  BY <1>2, ReadAnchorsKeeps
<1>3. ASSUME NEW k \in Scenario, Refused(k) PROVE IInv'
  BY <1>3, DraftStep DEF Refused
<1>4. CASE UNCHANGED vars
  BY <1>4 DEF vars, IInv, TypeOK, InventoryTypeOK, Closed, HeldAnchors, StoredChains,
     StoredServices, DraftsGood, DraftGood, AnchorBetween, ChainBetween, ServiceBetween,
     HasChains, HasServices, Cut
<1> QED
  BY <1>1, <1>2, <1>3, <1>4, ReadCandidatesKeeps, ReadChainsKeeps, ReadServicesKeeps,
     FreezeKeeps DEF Next

(* Every frozen row is a past of the row it was read from. *)
THEOREM FreezeInvariance == Spec => []IInv
BY FreezeInit, FreezeStep, PTL DEF Spec

(* Inventory and drafts keep their types, whatever their number. *)
THEOREM FreezeTyped == Spec => []TypeOK
<1>1. IInv => TypeOK
  BY DEF IInv
<1> QED
  BY <1>1, FreezeInvariance, PTL

(* The page of chains cuts nothing but the chains that last longest, for any
   inventory and any page size (certificate_chain_repository.go, line 43). *)
THEOREM OnlyTheLastAreCut == Spec => []OnlyThePageCuts
<1>1. IInv => OnlyThePageCuts
  BY DraftOf DEF OnlyThePageCuts, Frozen, DraftGood, Cut, HasChains
<1> QED
  BY <1>1, FreezeInvariance, PTL

(* What is frozen lies between the inventory as the request began and as it
   is, for any number of writers meanwhile (service lines 47-60). *)
THEOREM FrozenLiesBetween == Spec => []FrozenIsBetween
<1>1. IInv => FrozenIsBetween
  BY DraftOf DEF FrozenIsBetween, Frozen, DraftGood, HasChains, HasServices,
     AnchorBetween, ChainBetween, ServiceBetween
<1> QED
  BY <1>1, FreezeInvariance, PTL

(* The frozen graph is closed and acyclic, for any inventory and whatever its
   writers store (common.go, line 137). *)
THEOREM FrozenGraphsAreSound == Spec => []FrozenGraphIsSound
<1>1. IInv => FrozenGraphIsSound
  BY DraftOf DEF FrozenGraphIsSound, Frozen, DraftGood, HasServices
<1> QED
  BY <1>1, FreezeInvariance, PTL
=============================================================================
