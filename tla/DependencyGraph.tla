--------------------------- MODULE DependencyGraph ---------------------------
(***************************************************************************)
(* The dependent-service component: who depends on whom, kept acyclic by a *)
(* check each writer makes on a graph it read before its transaction.      *)
(*                                                                         *)
(* A create reads the services twice (once for the references, once for    *)
(* the cycle check), an update reads its row before that, and only then is *)
(* the row written, by id alone.  Every read and every transaction is a    *)
(* step of its own.  What the cycle check answers is proved of the search  *)
(* itself in CycleCheckProofs.                                             *)
(*                                                                         *)
(* A row keeps its state, its team and its edges; the service code stands  *)
(* for the id.  Names, chains, trust lists and times are left out, and of  *)
(* the audit log only how often each service was deactivated.              *)
(***************************************************************************)
EXTENDS AccessControl, DependencyEdges, Naturals

CONSTANTS
  Service, Team, NoTeam,
  User, RoleOf, TeamOf,
  Request,      \* request slots: how many requests may be in flight
  Fresh,        \* the id a create gives its row while it checks: ^uint(0)
  SeedTeam,     \* the demonstration services and their teams
  SeedEdges,
  ReadsFail     \* may the second read of the services fail?

ASSUME UserAssumption == RoleOf \in [User -> Roles] /\ TeamOf \in [User -> Team]
ASSUME FreshAssumption == Fresh \notin Service /\ NoTeam \notin Team
ASSUME SeedAssumption ==
  /\ DOMAIN SeedTeam \subseteq Service
  /\ SeedTeam \in [DOMAIN SeedTeam -> Team]
  /\ SeedEdges \in [DOMAIN SeedTeam -> SUBSET DOMAIN SeedTeam]
  /\ ~Cyclic(SeedEdges)
ASSUME ReadsAssumption == ReadsFail \in BOOLEAN

VARIABLES
  svc,            \* dependent_services, by id
  req,            \* the request in each slot
  deactivations   \* "deactivate" entries in audit_logs, by service

vars == <<svc, req, deactivations>>

-----------------------------------------------------------------------------
Absent == [state |-> "absent", team |-> NoTeam, edges |-> {}]

Row == [state : {"active", "inactive"}, team : Team, edges : SUBSET Service]

Ops == {"create", "update", "deactivate"}

Codes == {"pending", "ok", "not_found", "forbidden", "bad_reference",
          "self_edge", "cyclic", "inactive", "conflict", "exists", "internal"}

Idle == [pc |-> "idle"]

Call == [pc : {"owned", "referenced", "checked", "committed", "answered"},
         op : Ops, id : Service, by : User, team : Team \cup {NoTeam},
         edges : SUBSET Service, code : Codes]

Stored == {s \in Service : svc[s].state # "absent"}

Graph == [s \in Stored |-> svc[s].edges]

Manages(u, team) ==
  RoleOf[u] \in Steward \/ (RoleOf[u] = "service_owner" /\ TeamOf[u] = team)

Writers == {u \in User : HasPermission(RoleOf[u], "dependency.write")}

Answer(r, code) ==
  req' = [req EXCEPT ![r].pc = "answered", ![r].code = code]

Proceed(r, pc) == req' = [req EXCEPT ![r].pc = pc]

Init ==
  /\ svc = [s \in Service |->
       IF s \in DOMAIN SeedTeam
         THEN [state |-> "active", team |-> SeedTeam[s], edges |-> SeedEdges[s]]
         ELSE Absent]
  /\ req = [r \in Request |-> Idle]
  /\ deactivations = [s \in Service |-> 0]

-----------------------------------------------------------------------------
\* What the first checks of each handler say.
CreateVerdict(u, team) == IF Manages(u, team) THEN "pending" ELSE "forbidden"

UpdateVerdict(s, u, team) ==
  IF s \notin Stored THEN "not_found"
  ELSE IF ~Manages(u, svc[s].team) THEN "forbidden"
  ELSE IF RoleOf[u] = "service_owner" /\ team # TeamOf[u] THEN "forbidden"
  ELSE "pending"

DeactivateVerdict(s, u) ==
  IF s \notin Stored THEN "not_found"
  ELSE IF ~Manages(u, svc[s].team) THEN "forbidden"
  ELSE IF svc[s].state # "active" THEN "inactive"
  ELSE "pending"

Admit(r, op, s, u, team, edges, verdict) ==
  /\ req[r] = Idle
  /\ req' = [req EXCEPT ![r] =
       [pc |-> IF verdict = "pending" THEN "owned" ELSE "answered", op |-> op,
        id |-> s, by |-> u, team |-> team, edges |-> edges, code |-> verdict]]
  /\ UNCHANGED <<svc, deactivations>>

LoadCreate(r, s, u, team, edges) ==
  Admit(r, "create", s, u, team, edges, CreateVerdict(u, team))

LoadUpdate(r, s, u, team, edges) ==
  Admit(r, "update", s, u, team, edges, UpdateVerdict(s, u, team))

LoadDeactivate(r, s, u) ==
  Admit(r, "deactivate", s, u, NoTeam, {}, DeactivateVerdict(s, u))

\* Slip: any edge is taken as it comes.
AnyEdges(q) == TRUE

KnownEdges(q) == q.edges \subseteq Stored

\* validateReferences: chain and anchors, of other tables, may refuse as well.
CheckReferences(r) ==
  LET q == req[r]
  IN /\ q.pc = "owned" /\ q.op \in {"create", "update"}
     /\ \/ Answer(r, "bad_reference")
        \/ /\ q.op = "update" /\ q.id \in q.edges
           /\ Answer(r, "self_edge")
        \/ /\ ~KnownEdges(q)
           /\ Answer(r, "bad_reference")
        \/ /\ KnownEdges(q) /\ ~(q.op = "update" /\ q.id \in q.edges)
           /\ Proceed(r, "referenced")
     /\ UNCHANGED <<svc, deactivations>>

\* The services read, with the edges of the request in place.
Candidate(q, read) ==
  LET own == IF q.op = "create" THEN Fresh ELSE q.id
  IN [s \in read \cup ({Fresh} \cap {own}) |->
        IF s = own THEN q.edges ELSE svc[s].edges]

\* The error of the second read is dropped, and no rows were read.
CheckGraph(r) ==
  LET q == req[r]
  IN /\ q.pc = "referenced"
     /\ \E read \in {Stored} \cup (IF ReadsFail THEN {{}} ELSE {}) :
          LET g == Candidate(q, read)
          IN IF Cyclic(g) \/ Dangling(g)
               THEN Answer(r, "cyclic") ELSE Proceed(r, "checked")
     /\ UNCHANGED <<svc, deactivations>>

-----------------------------------------------------------------------------
\* Slip: the new row belongs to nobody.
NewRowUnowned(q) == [state |-> "active", team |-> NoTeam, edges |-> q.edges]

NewRow(q) == [state |-> "active", team |-> q.team, edges |-> q.edges]

CommitCreate(r) ==
  LET q == req[r]
  IN /\ q.pc = "checked" /\ q.op = "create"
     /\ \/ /\ q.id \notin Stored
           /\ svc' = [svc EXCEPT ![q.id] = NewRow(q)]
           /\ Proceed(r, "committed")
        \/ /\ q.id \in Stored
           /\ Answer(r, "exists") /\ UNCHANGED svc
     /\ UNCHANGED deactivations

\* UPDATE ... WHERE id = ?, with the team and the edges of the request.
CommitUpdate(r) ==
  LET q == req[r]
  IN /\ q.pc = "checked" /\ q.op = "update"
     /\ svc' = [svc EXCEPT ![q.id] =
          [state |-> svc[q.id].state, team |-> q.team, edges |-> q.edges]]
     /\ Proceed(r, "committed")
     /\ UNCHANGED deactivations

\* Slip: UPDATE ... WHERE id = ? alone.
StillThere(s) == s \in Stored

StillActive(s) == svc[s].state = "active"

\* UPDATE ... WHERE id = ? AND service_state = 'active', and its audit entry.
CommitDeactivate(r) ==
  LET q == req[r]
  IN /\ q.pc = "owned" /\ q.op = "deactivate"
     /\ \/ /\ StillActive(q.id)
           /\ svc' = [svc EXCEPT ![q.id].state = "inactive"]
           /\ deactivations' = [deactivations EXCEPT ![q.id] = @ + 1]
           /\ Proceed(r, "committed")
        \/ /\ ~StillActive(q.id)
           /\ Answer(r, "conflict")
           /\ UNCHANGED <<svc, deactivations>>

\* The row read back for the answer.
Finish(r) ==
  /\ req[r].pc = "committed"
  /\ Answer(r, "ok")
  /\ UNCHANGED <<svc, deactivations>>

\* A failed read or transaction, except the read whose error is dropped.
StoreFails(r) ==
  /\ req[r].pc \in {"owned", "checked", "committed"}
  /\ Answer(r, "internal")
  /\ UNCHANGED <<svc, deactivations>>

Respond(r) ==
  /\ req[r].pc = "answered"
  /\ req' = [req EXCEPT ![r] = Idle]
  /\ UNCHANGED <<svc, deactivations>>

Arrive(r) ==
  \E s \in Service, u \in Writers :
    \/ LoadDeactivate(r, s, u)
    \/ \E team \in Team, edges \in SUBSET Service :
         LoadCreate(r, s, u, team, edges) \/ LoadUpdate(r, s, u, team, edges)

Advance(r) ==
  \/ CheckReferences(r) \/ CheckGraph(r)
  \/ CommitCreate(r) \/ CommitUpdate(r) \/ CommitDeactivate(r)
  \/ Finish(r) \/ Respond(r)

Next == \E r \in Request : Arrive(r) \/ Advance(r) \/ StoreFails(r)

Spec == Init /\ [][Next]_vars

-----------------------------------------------------------------------------
(* Every variable holds what the schema and the request types allow. *)
TypeOK ==
  /\ svc \in [Service -> Row \cup {Absent}]
  /\ req \in [Request -> Call \cup {Idle}]
  /\ deactivations \in [Service -> Nat]

(* Every stored edge leads to a stored service other than its own, although
   the edges were checked on an earlier read: services are never deleted, and
   a new row's id is no row's edge (validateReferences, lines 52-67). *)
GraphClosed ==
  \A s \in Stored : svc[s].edges \subseteq Stored \ {s}

(* The log holds one deactivation of each inactive service and none of an
   active one: of two requests that both saw it active, one loses (line 197). *)
DeactivatedOnce ==
  \A s \in Service :
    deactivations[s] = IF svc[s].state = "inactive" THEN 1 ELSE 0

(* The stored graph has no cycle: "dependency graph would be cyclic" is the
   answer to a request that would close one (lines 88, 156). *)
GraphAcyclic == ~Cyclic(Graph)

\* One anchor and one chain stand for all, as the rows here leave chains out.
ServicesShown == [s \in Service |->
  IF s \in Stored THEN [state |-> svc[s].state, chain |-> "any", edges |-> svc[s].edges]
  ELSE [state |-> "absent"]]

Registry == INSTANCE Inventory WITH
  Anchor <- {"any"}, anchor <- [a \in {"any"} |-> "trusted"],
  Chain <- {"any"}, chain <- [c \in {"any"} |-> [state |-> "validated", under |-> "any"]],
  svc <- ServicesShown

(* The services are the inventory's, whose writers act at one instant: a row
   checked on earlier reads never names a service that is not there, nor comes
   back from inactive. *)
ImplementsInventory == Registry!InventorySpec
=============================================================================
