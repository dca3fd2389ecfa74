------------------------ MODULE DependencyGraphProofs ------------------------
(***************************************************************************)
(* What the dependent-service component keeps for any number of services,  *)
(* users and concurrent requests, and what it keeps only when requests do  *)
(* not overlap.                                                            *)
(*                                                                         *)
(* Overlapping requests leave the graph closed, because what a reference   *)
(* check saw stays true: services are never deleted (EdgesSeen).  They do  *)
(* not leave it acyclic; one request at a time does, because then the      *)
(* graph searched is the graph written to (SearchFresh).                   *)
(***************************************************************************)
EXTENDS DependencyGraph, TLAPS

\* A request past its reference check asks for edges it may have.
SlotSeen(q) ==
  /\ q.pc \in {"referenced", "checked"} =>
       /\ q.op \in {"create", "update"}
       /\ q.edges \subseteq Stored
       /\ q.op = "update" => q.id \notin q.edges
  /\ q.pc \in {"owned", "referenced", "checked"} =>
       /\ q.op \in {"create", "update"} => q.team \in Team
       /\ q.op = "update" => q.id \in Stored

EdgesSeen == \A r \in Request : SlotSeen(req[r])

ClosedInv == TypeOK /\ GraphClosed /\ DeactivatedOnce /\ EdgesSeen

\* The graph a request past its search is about to store has no cycle.
SearchFresh ==
  \A r \in Request : req[r].pc = "checked" => ~Cyclic(Candidate(req[r], Stored))

SerialInv == ClosedInv /\ GraphAcyclic /\ SearchFresh

-----------------------------------------------------------------------------
\* A slot that is not idle holds a call.
LEMMA Busy ==
  ASSUME TypeOK, NEW r \in Request, req[r].pc # "idle"
  PROVE  req[r] \in Call
BY DEF TypeOK, Idle

\* An answer ends the call and keeps the rest of it.
LEMMA Answered ==
  ASSUME TypeOK, NEW r \in Request, req[r] \in Call,
         NEW code \in Codes, Answer(r, code)
  PROVE  /\ req' \in [Request -> Call \cup {Idle}]
         /\ req'[r].pc = "answered"
         /\ \A t \in Request \ {r} : req'[t] = req[t]
<1> DEFINE ended == [[req[r] EXCEPT !.pc = "answered"] EXCEPT !.code = code]
<1>1. ended \in Call /\ ended.pc = "answered"
  <2>1. [req[r] EXCEPT !.pc = "answered"] \in Call
    BY DEF Call
  <2> QED
    BY <2>1 DEF Call
<1>2. req' = [req EXCEPT ![r] = ended]
  BY DEF Answer, TypeOK
<1> QED
  BY <1>1, <1>2 DEF TypeOK

\* A step inside a call moves its pc only.
LEMMA Proceeded ==
  ASSUME TypeOK, NEW r \in Request, req[r] \in Call,
         NEW pc \in {"referenced", "checked", "committed"}, Proceed(r, pc)
  PROVE  /\ req' \in [Request -> Call \cup {Idle}]
         /\ req'[r].pc = pc
         /\ req'[r].op = req[r].op /\ req'[r].id = req[r].id
         /\ req'[r].by = req[r].by /\ req'[r].team = req[r].team
         /\ req'[r].edges = req[r].edges
         /\ \A t \in Request \ {r} : req'[t] = req[t]
BY DEF Proceed, TypeOK, Call

\* While the rows stand still, so does everything said of them alone.
LEMMA SameRows ==
  ASSUME UNCHANGED svc
  PROVE  /\ Stored' = Stored /\ Graph' = Graph
         /\ GraphClosed' = GraphClosed /\ GraphAcyclic' = GraphAcyclic
BY DEF Stored, Graph, GraphClosed, GraphAcyclic

LEMMA SeedKnown ==
  /\ DOMAIN SeedTeam \subseteq Service
  /\ \A s \in DOMAIN SeedTeam :
       SeedTeam[s] \in Team /\ SeedEdges[s] \subseteq DOMAIN SeedTeam
  /\ DOMAIN SeedEdges = DOMAIN SeedTeam
  /\ ~Cyclic(SeedEdges)
BY SeedAssumption

\* Steps that leave the rows alone.
LEMMA QuietStep ==
  ASSUME ClosedInv, UNCHANGED <<svc, deactivations>>,
         NEW r \in Request, req' \in [Request -> Call \cup {Idle}],
         \A t \in Request \ {r} : req'[t] = req[t], SlotSeen(req'[r])
  PROVE  ClosedInv'
<1>1. TypeOK' /\ GraphClosed' /\ DeactivatedOnce'
  BY SameRows DEF ClosedInv, TypeOK, DeactivatedOnce
<1>2. \A t \in Request : SlotSeen(req'[t])
  BY DEF ClosedInv, EdgesSeen
<1>3. EdgesSeen'
  BY <1>2, SameRows DEF EdgesSeen, SlotSeen
<1> QED
  BY <1>1, <1>3 DEF ClosedInv

LEMMA AnswerStep ==
  ASSUME ClosedInv, UNCHANGED <<svc, deactivations>>,
         NEW r \in Request, req[r].pc # "idle", NEW code \in Codes, Answer(r, code)
  PROVE  ClosedInv'
<1>1. /\ req' \in [Request -> Call \cup {Idle}] /\ req'[r].pc = "answered"
      /\ \A t \in Request \ {r} : req'[t] = req[t]
  BY Busy, Answered DEF ClosedInv
<1> QED
  BY <1>1, QuietStep DEF SlotSeen

\* Every first read, with the verdict it gives.
LEMMA AdmitStep ==
  ASSUME ClosedInv, NEW r \in Request, NEW op \in Ops, NEW s \in Service,
         NEW u \in User, NEW team \in Team \cup {NoTeam},
         NEW edges \in SUBSET Service, NEW verdict \in Codes,
         op \in {"create", "update"} => team \in Team,
         op = "update" /\ verdict = "pending" => s \in Stored,
         Admit(r, op, s, u, team, edges, verdict)
  PROVE  ClosedInv'
<1> DEFINE call == [pc |-> IF verdict = "pending" THEN "owned" ELSE "answered",
                    op |-> op, id |-> s, by |-> u, team |-> team,
                    edges |-> edges, code |-> verdict]
<1>1. UNCHANGED <<svc, deactivations>> /\ req' = [req EXCEPT ![r] = call]
  BY DEF Admit
<1>2. call \in Call
  BY DEF Call
<1>3. SlotSeen(call)
  BY DEF SlotSeen
<1>4. /\ req' \in [Request -> Call \cup {Idle}] /\ req'[r] = call
      /\ \A t \in Request \ {r} : req'[t] = req[t]
  BY <1>1, <1>2 DEF ClosedInv, TypeOK
<1> QED
  BY <1>1, <1>3, <1>4, QuietStep

LEMMA ArriveStep ==
  ASSUME ClosedInv, NEW r \in Request, Arrive(r)
  PROVE  ClosedInv'
<1>1. PICK s \in Service, u \in Writers :
        \/ LoadDeactivate(r, s, u)
        \/ \E team \in Team, edges \in SUBSET Service :
             LoadCreate(r, s, u, team, edges) \/ LoadUpdate(r, s, u, team, edges)
  BY DEF Arrive
<1>2. u \in User
  BY DEF Writers
<1>3. CASE LoadDeactivate(r, s, u)
  <2>1. DeactivateVerdict(s, u) \in Codes
    BY DEF DeactivateVerdict, Codes
  <2> QED
    BY <1>2, <1>3, <2>1, AdmitStep DEF LoadDeactivate, Ops
<1>4. ASSUME NEW team \in Team, NEW edges \in SUBSET Service,
             LoadCreate(r, s, u, team, edges)
      PROVE  ClosedInv'
  <2>1. CreateVerdict(u, team) \in Codes
    BY DEF CreateVerdict, Codes
  <2> QED
    BY <1>2, <1>4, <2>1, AdmitStep DEF LoadCreate, Ops
<1>5. ASSUME NEW team \in Team, NEW edges \in SUBSET Service,
             LoadUpdate(r, s, u, team, edges)
      PROVE  ClosedInv'
  <2>1. /\ UpdateVerdict(s, u, team) \in Codes
        /\ UpdateVerdict(s, u, team) = "pending" => s \in Stored
    BY DEF UpdateVerdict, Codes
  <2> QED
    BY <1>2, <1>5, <2>1, AdmitStep DEF LoadUpdate, Ops
<1> QED
  BY <1>1, <1>3, <1>4, <1>5

LEMMA CheckReferencesStep ==
  ASSUME ClosedInv, NEW r \in Request, CheckReferences(r)
  PROVE  ClosedInv'
<1>1. /\ req[r].pc = "owned" /\ req[r].op \in {"create", "update"}
      /\ UNCHANGED <<svc, deactivations>>
  BY DEF CheckReferences
<1>2. req[r] \in Call
  BY <1>1, Busy DEF ClosedInv
<1>3. CASE \E code \in {"bad_reference", "self_edge"} : Answer(r, code)
  BY <1>1, <1>3, AnswerStep DEF Codes
<1>4. CASE /\ KnownEdges(req[r])
           /\ ~(req[r].op = "update" /\ req[r].id \in req[r].edges)
           /\ Proceed(r, "referenced")
  <2>1. /\ req' \in [Request -> Call \cup {Idle}]
        /\ req'[r].pc = "referenced"
        /\ req'[r].op = req[r].op /\ req'[r].id = req[r].id
        /\ req'[r].team = req[r].team /\ req'[r].edges = req[r].edges
        /\ \A t \in Request \ {r} : req'[t] = req[t]
    BY <1>2, <1>4, Proceeded DEF ClosedInv
  <2>2. SlotSeen(req[r])
    BY DEF ClosedInv, EdgesSeen
  <2>3. SlotSeen(req'[r])
    BY <1>1, <1>4, <2>1, <2>2 DEF SlotSeen, KnownEdges
  <2> QED
    BY <1>1, <2>1, <2>3, QuietStep
<1> QED
  BY <1>3, <1>4 DEF CheckReferences

LEMMA CheckGraphStep ==
  ASSUME ClosedInv, NEW r \in Request, CheckGraph(r)
  PROVE  ClosedInv'
<1>1. req[r].pc = "referenced" /\ UNCHANGED <<svc, deactivations>>
  BY DEF CheckGraph
<1>2. Answer(r, "cyclic") \/ Proceed(r, "checked")
  BY DEF CheckGraph
<1>3. CASE Answer(r, "cyclic")
  BY <1>1, <1>3, AnswerStep DEF Codes
<1>4. CASE Proceed(r, "checked")
  <2>1. req[r] \in Call /\ SlotSeen(req[r])
    BY <1>1, Busy DEF ClosedInv, EdgesSeen
  <2>2. /\ req' \in [Request -> Call \cup {Idle}]
        /\ req'[r].pc = "checked"
        /\ req'[r].op = req[r].op /\ req'[r].id = req[r].id
        /\ req'[r].team = req[r].team /\ req'[r].edges = req[r].edges
        /\ \A t \in Request \ {r} : req'[t] = req[t]
    BY <1>4, <2>1, Proceeded DEF ClosedInv
  <2>3. SlotSeen(req'[r])
    BY <1>1, <2>1, <2>2 DEF SlotSeen
  <2> QED
    BY <1>1, <2>2, <2>3, QuietStep
<1> QED
  BY <1>2, <1>3, <1>4

\* Services are never deleted, so what was seen of them stays true.
LEMMA WriteStep ==
  ASSUME ClosedInv, NEW r \in Request, req[r] \in Call,
         NEW s \in Service, NEW written \in Row, NEW count \in Nat,
         written.edges \subseteq Stored \ {s},
         count = IF written.state = "inactive" THEN 1 ELSE 0,
         svc' = [svc EXCEPT ![s] = written],
         deactivations' = [deactivations EXCEPT ![s] = count],
         Proceed(r, "committed")
  PROVE  ClosedInv'
<1>1. /\ req' \in [Request -> Call \cup {Idle}]
      /\ req'[r].pc = "committed"
      /\ \A t \in Request \ {r} : req'[t] = req[t]
  BY Proceeded DEF ClosedInv
<1>2. \A t \in Service : svc'[t] = IF t = s THEN written ELSE svc[t]
  BY DEF ClosedInv, TypeOK
<1>3. written.state \in {"active", "inactive"} /\ written.edges \subseteq Service
  BY DEF Row
<1>4. Stored' = Stored \cup {s}
  BY <1>2, <1>3 DEF Stored
<1>5. TypeOK'
  BY <1>1 DEF ClosedInv, TypeOK
<1>6. GraphClosed'
  BY <1>2, <1>4 DEF ClosedInv, GraphClosed, Stored
<1>7. DeactivatedOnce'
  BY <1>2 DEF ClosedInv, DeactivatedOnce, TypeOK
<1>8. EdgesSeen'
  <2>1. \A t \in Request : SlotSeen(req'[t])
    BY <1>1 DEF ClosedInv, EdgesSeen, SlotSeen
  <2> QED
    BY <2>1, <1>4 DEF EdgesSeen, SlotSeen
<1> QED
  BY <1>5, <1>6, <1>7, <1>8 DEF ClosedInv

LEMMA CommitStep ==
  ASSUME ClosedInv, NEW r \in Request,
         CommitCreate(r) \/ CommitUpdate(r) \/ CommitDeactivate(r)
  PROVE  ClosedInv'
<1>1. req[r].pc # "idle"
  BY DEF CommitCreate, CommitUpdate, CommitDeactivate
<1>2. req[r] \in Call /\ req[r].id \in Service /\ SlotSeen(req[r])
  BY <1>1, Busy DEF ClosedInv, EdgesSeen, Call
<1> DEFINE s == req[r].id
<1>3. deactivations = [deactivations EXCEPT ![s] = deactivations[s]]
  BY <1>2 DEF ClosedInv, TypeOK
<1>4. s \in Stored => svc[s] \in Row
  BY <1>2 DEF ClosedInv, TypeOK, Stored, Absent
<1>5. CASE CommitCreate(r)
  <2>1. CASE s \in Stored
    BY <1>1, <1>5, <2>1, AnswerStep DEF CommitCreate, Codes
  <2>2. CASE s \notin Stored
    <3>1. /\ svc' = [svc EXCEPT ![s] = NewRow(req[r])]
          /\ Proceed(r, "committed") /\ UNCHANGED deactivations
      BY <1>5, <2>2 DEF CommitCreate
    <3>2. req[r].team \in Team /\ req[r].edges \subseteq Stored \ {s}
      BY <1>2, <1>5, <2>2 DEF SlotSeen, CommitCreate
    <3>3. /\ NewRow(req[r]) \in Row
          /\ NewRow(req[r]).edges = req[r].edges
          /\ NewRow(req[r]).state = "active"
      BY <3>2 DEF NewRow, Row, Stored
    <3>4. deactivations[s] = 0
      BY <1>2, <2>2 DEF ClosedInv, DeactivatedOnce, Stored
    <3>5. deactivations' = [deactivations EXCEPT ![s] = 0]
      BY <3>1, <3>4, <1>3
    <3> QED
      BY <1>2, <3>1, <3>2, <3>3, <3>5, WriteStep
  <2> QED
    BY <2>1, <2>2
<1>6. CASE CommitUpdate(r)
  <2> DEFINE new == [state |-> svc[s].state, team |-> req[r].team,
                     edges |-> req[r].edges]
  <2>1. /\ svc' = [svc EXCEPT ![s] = new]
        /\ Proceed(r, "committed") /\ UNCHANGED deactivations
    BY <1>6 DEF CommitUpdate
  <2>2. /\ s \in Stored /\ req[r].team \in Team
        /\ req[r].edges \subseteq Stored \ {s}
    BY <1>2, <1>6 DEF SlotSeen, CommitUpdate
  <2>3. svc[s].state \in {"active", "inactive"}
    BY <1>4, <2>2 DEF Row
  <2>4. new \in Row
    BY <2>2, <2>3 DEF Row, Stored
  <2>5. deactivations' =
          [deactivations EXCEPT ![s] = IF new.state = "inactive" THEN 1 ELSE 0]
    BY <2>1, <1>2, <1>3 DEF ClosedInv, DeactivatedOnce
  <2> QED
    BY <1>2, <2>1, <2>2, <2>4, <2>5, WriteStep
<1>7. CASE CommitDeactivate(r)
  <2>1. CASE ~StillActive(s)
    BY <1>1, <1>7, <2>1, AnswerStep DEF CommitDeactivate, Codes
  <2>2. CASE StillActive(s)
    <3> DEFINE new == [svc[s] EXCEPT !.state = "inactive"]
    <3>1. /\ svc' = [svc EXCEPT ![s].state = "inactive"]
          /\ deactivations' = [deactivations EXCEPT ![s] = @ + 1]
          /\ Proceed(r, "committed")
      BY <1>7, <2>2 DEF CommitDeactivate
    <3>2. s \in Stored /\ svc[s] \in Row /\ svc[s].state = "active"
      BY <1>2, <1>4, <2>2 DEF StillActive, Stored
    <3>3. new \in Row /\ new.state = "inactive" /\ new.edges = svc[s].edges
      BY <3>2 DEF Row
    <3>4. svc' = [svc EXCEPT ![s] = new]
      BY <3>1
    <3>5. deactivations[s] = 0
      BY <1>2, <3>2 DEF ClosedInv, DeactivatedOnce
    <3>6. deactivations' = [deactivations EXCEPT ![s] = 1]
      BY <3>1, <3>5
    <3>7. new.edges \subseteq Stored \ {s}
      BY <3>2, <3>3 DEF ClosedInv, GraphClosed
    <3>8. 1 \in Nat /\ 1 = IF new.state = "inactive" THEN 1 ELSE 0
      BY <3>3
    <3>9. new \in Row /\ Proceed(r, "committed")
      BY <3>1, <3>3
    <3> HIDE DEF new, s
    <3>10. s \in Service /\ req[r] \in Call
      BY <1>2 DEF s
    <3> QED
      BY <3>4, <3>6, <3>7, <3>8, <3>9, <3>10, WriteStep
  <2> QED
    BY <2>1, <2>2
<1> QED
  BY <1>5, <1>6, <1>7

LEMMA RespondStep ==
  ASSUME ClosedInv, NEW r \in Request, Respond(r)
  PROVE  ClosedInv'
<1>1. /\ req' \in [Request -> Call \cup {Idle}] /\ req'[r] = Idle
      /\ \A t \in Request \ {r} : req'[t] = req[t]
      /\ UNCHANGED <<svc, deactivations>>
  BY DEF ClosedInv, TypeOK, Respond
<1>2. SlotSeen(req'[r])
  BY <1>1 DEF SlotSeen, Idle
<1> QED
  BY <1>1, <1>2, QuietStep

LEMMA ClosedInit == Init => ClosedInv
<1> SUFFICES ASSUME Init PROVE ClosedInv
  OBVIOUS
<1>1. Stored = DOMAIN SeedTeam
  BY SeedKnown DEF Init, Stored, Absent
<1>2. TypeOK
  BY SeedKnown DEF Init, TypeOK, Row
<1>3. GraphClosed
  <2> SUFFICES ASSUME NEW s \in DOMAIN SeedTeam
               PROVE  SeedEdges[s] \subseteq DOMAIN SeedTeam \ {s}
    BY <1>1, SeedKnown DEF Init, GraphClosed
  <2>1. s \notin SeedEdges[s]
    <3> SUFFICES ASSUME s \in SeedEdges[s] PROVE FALSE
      OBVIOUS
    <3>1. {s} \in SUBSET DOMAIN SeedEdges /\ {s} # {}
          /\ \A n \in {s} : SeedEdges[n] \cap {s} # {}
      BY SeedKnown
    <3> QED
      BY <3>1, SeedKnown DEF Cyclic
  <2> QED
    BY <2>1, SeedKnown
<1>4. DeactivatedOnce
  BY SeedKnown DEF Init, DeactivatedOnce, Absent
<1>5. EdgesSeen
  BY DEF Init, EdgesSeen, SlotSeen, Idle
<1> QED
  BY <1>2, <1>3, <1>4, <1>5 DEF ClosedInv

LEMMA ClosedNext == ClosedInv /\ [Next]_vars => ClosedInv'
<1> SUFFICES ASSUME ClosedInv, [Next]_vars PROVE ClosedInv'
  OBVIOUS
<1>1. ASSUME NEW r \in Request, Advance(r)
      PROVE  ClosedInv'
  <2>1. CASE CheckReferences(r) \/ CheckGraph(r)
    BY <2>1, CheckReferencesStep, CheckGraphStep
  <2>2. CASE CommitCreate(r) \/ CommitUpdate(r) \/ CommitDeactivate(r)
    BY <2>2, CommitStep
  <2>3. CASE Finish(r)
    BY <2>3, AnswerStep DEF Finish, Codes
  <2>4. CASE Respond(r)
    BY <2>4, RespondStep
  <2> QED
    BY <1>1, <2>1, <2>2, <2>3, <2>4 DEF Advance
<1>2. ASSUME NEW r \in Request, StoreFails(r)
      PROVE  ClosedInv'
  BY <1>2, AnswerStep DEF StoreFails, Codes
<1>3. CASE UNCHANGED vars
  BY <1>3 DEF vars, ClosedInv, TypeOK, GraphClosed, DeactivatedOnce, EdgesSeen,
              SlotSeen, Stored
<1> QED
  BY <1>1, <1>2, <1>3, ArriveStep DEF Next

-----------------------------------------------------------------------------
(* However requests overlap, the component's data stay closed. *)
THEOREM ClosedInvariance == Spec => []ClosedInv
BY ClosedInit, ClosedNext, PTL DEF Spec

(* Every edge leads to another service that exists, for any number of
   concurrent writers: what the reference check saw cannot go away. *)
THEOREM EdgesAreClosed == Spec => []GraphClosed
<1>1. ClosedInv => GraphClosed
  BY DEF ClosedInv
<1> QED
  BY <1>1, ClosedInvariance, PTL

(* The audit log tells of exactly one deactivation per inactive service. *)
THEOREM OneDeactivation == Spec => []DeactivatedOnce
<1>1. ClosedInv => DeactivatedOnce
  BY DEF ClosedInv
<1> QED
  BY <1>1, ClosedInvariance, PTL

-----------------------------------------------------------------------------
\* A new service is nobody's dependency, so it closes no cycle.
LEMMA NewNodeAcyclic ==
  ASSUME NEW g, NEW h, NEW n, ~Cyclic(g),
         DOMAIN h \subseteq DOMAIN g \cup {n},
         \A m \in DOMAIN h \ {n} : h[m] = g[m] /\ n \notin h[m],
         n \in DOMAIN h => n \notin h[n]
  PROVE  ~Cyclic(h)
<1> SUFFICES ASSUME NEW S \in SUBSET DOMAIN h, S # {},
                    \A m \in S : h[m] \cap S # {}
             PROVE  FALSE
  BY DEF Cyclic
<1> DEFINE T == S \ {n}
<1>1. T # {}
  OBVIOUS
<1>2. T \in SUBSET DOMAIN g
  OBVIOUS
<1>3. \A m \in T : g[m] \cap T # {}
  OBVIOUS
<1> HIDE DEF T
<1> QED
  BY <1>1, <1>2, <1>3 DEF Cyclic

LEMMA CandidateOfUpdate ==
  ASSUME NEW q, q.op = "update", q.id \in Stored
  PROVE  /\ DOMAIN Candidate(q, Stored) = Stored
         /\ \A s \in Stored : Candidate(q, Stored)[s] =
                               IF s = q.id THEN q.edges ELSE svc[s].edges
<1>1. q.id \in Service /\ q.id # Fresh
  BY FreshAssumption DEF Stored
<1> QED
  BY <1>1 DEF Candidate

\* One request at a time: no slot but r, and a second read that works.
Serial(r) == Request = {r} /\ ~ReadsFail

\* Steps that store nothing and leave no request about to store.
LEMMA IdleSearch ==
  ASSUME NEW r, Serial(r), GraphAcyclic, UNCHANGED svc, req'[r].pc # "checked"
  PROVE  GraphAcyclic' /\ SearchFresh'
BY SameRows DEF Serial, SearchFresh

LEMMA CheckGraphSerial ==
  ASSUME NEW r, Serial(r), SerialInv, CheckGraph(r)
  PROVE  GraphAcyclic' /\ SearchFresh'
<1>1. /\ req[r].pc = "referenced" /\ r \in Request /\ UNCHANGED svc
      /\ GraphAcyclic
  BY DEF CheckGraph, Serial, SerialInv
<1>2. req[r] \in Call
  BY <1>1, Busy DEF SerialInv, ClosedInv
<1>3. CASE Answer(r, "cyclic")
  <2>1. req'[r].pc = "answered"
    BY <1>1, <1>2, <1>3, Answered DEF SerialInv, ClosedInv, Codes
  <2> QED
    BY <1>1, <2>1, IdleSearch
<1>4. CASE ~Cyclic(Candidate(req[r], Stored)) /\ Proceed(r, "checked")
  <2>1. /\ req'[r].op = req[r].op /\ req'[r].id = req[r].id
        /\ req'[r].edges = req[r].edges
    BY <1>1, <1>2, <1>4, Proceeded DEF SerialInv, ClosedInv
  <2>2. Candidate(req[r], Stored)' = Candidate(req[r], Stored)
    BY <1>1, <2>1, SameRows DEF Candidate
  <2>3. SearchFresh'
    BY <1>4, <2>2 DEF SearchFresh, Serial
  <2> QED
    BY <1>1, <2>3, SameRows
<1> QED
  BY <1>3, <1>4 DEF CheckGraph, Serial

LEMMA CommitSerial ==
  ASSUME NEW r, Serial(r), SerialInv,
         CommitCreate(r) \/ CommitUpdate(r) \/ CommitDeactivate(r)
  PROVE  GraphAcyclic' /\ SearchFresh'
<1>1. req[r].pc # "idle" /\ r \in Request /\ GraphAcyclic /\ ClosedInv
  BY DEF CommitCreate, CommitUpdate, CommitDeactivate, Serial, SerialInv
<1>2. req[r] \in Call /\ req[r].id \in Service /\ SlotSeen(req[r])
  BY <1>1, Busy DEF ClosedInv, EdgesSeen, Call
<1> DEFINE s == req[r].id
<1>3. ASSUME NEW code \in Codes, Answer(r, code), UNCHANGED svc
      PROVE  GraphAcyclic' /\ SearchFresh'
  <2>1. req'[r].pc = "answered"
    BY <1>1, <1>2, <1>3, Answered DEF ClosedInv
  <2> QED
    BY <1>1, <1>3, <2>1, IdleSearch
<1>4. ASSUME Proceed(r, "committed") PROVE SearchFresh'
  <2>1. req'[r].pc = "committed"
    BY <1>1, <1>2, <1>4, Proceeded DEF ClosedInv
  <2> QED
    BY <2>1 DEF SearchFresh, Serial
<1>5. ASSUME NEW written \in Row, svc' = [svc EXCEPT ![s] = written]
      PROVE  /\ Stored' = Stored \cup {s}
             /\ DOMAIN Graph' = Stored \cup {s}
             /\ \A t \in Stored \cup {s} :
                  Graph'[t] = IF t = s THEN written.edges ELSE svc[t].edges
  <2>1. \A t \in Service : svc'[t] = IF t = s THEN written ELSE svc[t]
    BY <1>1, <1>5 DEF ClosedInv, TypeOK
  <2>2. Stored' = Stored \cup {s}
    BY <1>2, <2>1 DEF Stored, Row
  <2> QED
    BY <1>2, <2>1, <2>2 DEF Graph, Stored
<1>6. CASE CommitCreate(r)
  <2>1. CASE s \in Stored
    BY <1>3, <1>6, <2>1 DEF CommitCreate, Codes
  <2>2. CASE s \notin Stored
    <3>1. svc' = [svc EXCEPT ![s] = NewRow(req[r])] /\ Proceed(r, "committed")
      BY <1>6, <2>2 DEF CommitCreate
    <3>2. req[r].team \in Team /\ req[r].edges \subseteq Stored
      BY <1>2, <1>6 DEF SlotSeen, CommitCreate
    <3>3. NewRow(req[r]) \in Row /\ NewRow(req[r]).edges = req[r].edges
      BY <3>2 DEF NewRow, Row, Stored
    <3>4. /\ DOMAIN Graph' = Stored \cup {s}
          /\ \A t \in Stored \cup {s} :
               Graph'[t] = IF t = s THEN req[r].edges ELSE svc[t].edges
      BY <1>5, <3>1, <3>3
    <3>5. /\ DOMAIN Graph = Stored
          /\ \A t \in Stored : Graph[t] = svc[t].edges /\ s \notin svc[t].edges
      BY <1>1, <2>2 DEF Graph, ClosedInv, GraphClosed
    <3>6. ~Cyclic(Graph)
      BY <1>1 DEF GraphAcyclic
    <3>7. ~Cyclic(Graph')
      <4>1. /\ DOMAIN Graph' \subseteq DOMAIN Graph \cup {s}
            /\ \A m \in DOMAIN Graph' \ {s} : Graph'[m] = Graph[m] /\ s \notin Graph'[m]
            /\ s \in DOMAIN Graph' => s \notin Graph'[s]
        BY <2>2, <3>2, <3>4, <3>5
      <4> HIDE DEF s
      <4> QED
        BY <3>6, <4>1, NewNodeAcyclic
    <3>8. GraphAcyclic'
      BY <3>7 DEF GraphAcyclic
    <3> QED
      BY <1>4, <3>1, <3>8
  <2> QED
    BY <2>1, <2>2
<1>7. CASE CommitUpdate(r)
  <2> DEFINE new == [state |-> svc[s].state, team |-> req[r].team,
                     edges |-> req[r].edges]
  <2>1. /\ svc' = [svc EXCEPT ![s] = new] /\ Proceed(r, "committed")
        /\ req[r].op = "update" /\ req[r].pc = "checked"
    BY <1>7 DEF CommitUpdate
  <2>2. s \in Stored /\ req[r].team \in Team /\ req[r].edges \subseteq Stored
    BY <1>2, <2>1 DEF SlotSeen
  <2>3. svc[s].state \in {"active", "inactive"}
    BY <1>1, <1>2, <2>2 DEF ClosedInv, TypeOK, Stored, Row, Absent
  <2>4. new \in Row /\ new.edges = req[r].edges
    BY <2>2, <2>3 DEF Row, Stored
  <2>5. /\ DOMAIN Graph' = Stored
        /\ \A t \in Stored : Graph'[t] = IF t = s THEN req[r].edges ELSE svc[t].edges
    BY <1>5, <2>1, <2>2, <2>4
  <2> DEFINE g == Candidate(req[r], Stored)
  <2>6. /\ DOMAIN g = Stored
        /\ \A t \in Stored : g[t] = IF t = s THEN req[r].edges ELSE svc[t].edges
    BY <2>1, <2>2, CandidateOfUpdate
  <2>7. ~Cyclic(g)
    BY <1>1, <2>1 DEF SerialInv, SearchFresh
  <2>8. DOMAIN Graph' = DOMAIN g /\ \A t \in DOMAIN g : Graph'[t] = g[t]
    BY <2>5, <2>6
  <2> HIDE DEF g
  <2>9. ~Cyclic(Graph')
    BY <2>7, <2>8 DEF Cyclic
  <2>10. GraphAcyclic'
    BY <2>9 DEF GraphAcyclic
  <2> QED
    BY <1>4, <2>1, <2>10
<1>8. CASE CommitDeactivate(r)
  <2>1. CASE ~StillActive(s)
    BY <1>3, <1>8, <2>1 DEF CommitDeactivate, Codes
  <2>2. CASE StillActive(s)
    <3>1. svc' = [svc EXCEPT ![s].state = "inactive"] /\ Proceed(r, "committed")
      BY <1>8, <2>2 DEF CommitDeactivate
    <3>2. s \in Stored /\ svc[s] \in Row
      BY <1>1, <1>2, <2>2 DEF StillActive, Stored, ClosedInv, TypeOK, Absent
    <3> DEFINE new == [svc[s] EXCEPT !.state = "inactive"]
    <3>3. new \in Row /\ new.edges = svc[s].edges
      BY <3>2 DEF Row
    <3>4. svc' = [svc EXCEPT ![s] = new]
      BY <3>1
    <3> HIDE DEF new
    <3>5. /\ DOMAIN Graph' = Stored
          /\ \A t \in Stored : Graph'[t] = svc[t].edges
      BY <1>5, <3>2, <3>3, <3>4
    <3>6. DOMAIN Graph = Stored /\ \A t \in Stored : Graph[t] = svc[t].edges
      BY DEF Graph
    <3>7. ~Cyclic(Graph')
      BY <1>1, <3>5, <3>6 DEF GraphAcyclic, Cyclic
    <3>8. GraphAcyclic'
      BY <3>7 DEF GraphAcyclic
    <3> QED
      BY <1>4, <3>1, <3>8
  <2> QED
    BY <2>1, <2>2
<1> QED
  BY <1>6, <1>7, <1>8

LEMMA SerialInit == Init => SerialInv
<1> SUFFICES ASSUME Init PROVE GraphAcyclic /\ SearchFresh
  BY ClosedInit DEF SerialInv
<1>1. Stored = DOMAIN SeedTeam
  BY SeedKnown DEF Init, Stored, Absent
<1>2. DOMAIN Graph = DOMAIN SeedEdges
      /\ \A s \in DOMAIN SeedEdges : Graph[s] = SeedEdges[s]
  BY <1>1, SeedKnown DEF Graph, Init
<1>3. GraphAcyclic
  BY <1>2, SeedKnown DEF GraphAcyclic, Cyclic
<1>4. SearchFresh
  BY DEF Init, SearchFresh, Idle
<1> QED
  BY <1>3, <1>4

LEMMA SerialNext ==
  ASSUME NEW r, Serial(r)
  PROVE  SerialInv /\ [Next]_vars => SerialInv'
<1> SUFFICES ASSUME SerialInv, [Next]_vars PROVE GraphAcyclic' /\ SearchFresh'
  BY ClosedNext DEF SerialInv
<1>1. ClosedInv /\ GraphAcyclic /\ r \in Request /\ TypeOK
  BY DEF SerialInv, ClosedInv, Serial
<1>2. CASE UNCHANGED vars
  <2>1. UNCHANGED <<svc, req>>
    BY <1>2 DEF vars
  <2>2. SearchFresh' = SearchFresh
    BY <2>1, SameRows DEF SearchFresh, Candidate
  <2> QED
    BY <2>1, <2>2, SameRows DEF SerialInv
<1>3. ASSUME NEW code \in Codes, Answer(r, code), req[r].pc # "idle", UNCHANGED svc
      PROVE  GraphAcyclic' /\ SearchFresh'
  <2>1. req'[r].pc = "answered"
    BY <1>1, <1>3, Busy, Answered
  <2> QED
    BY <1>1, <1>3, <2>1, IdleSearch
<1>4. CASE Arrive(r)
  <2>1. UNCHANGED svc /\ req'[r].pc \in {"owned", "answered"}
    BY <1>1, <1>4 DEF Arrive, LoadCreate, LoadUpdate, LoadDeactivate, Admit, TypeOK
  <2> QED
    BY <1>1, <2>1, IdleSearch
<1>5. CASE CheckReferences(r)
  <2>1. CASE Proceed(r, "referenced")
    <3>1. UNCHANGED svc /\ req'[r].pc = "referenced"
      BY <1>1, <1>5, <2>1 DEF CheckReferences, Proceed, TypeOK, Call
    <3> QED
      BY <1>1, <3>1, IdleSearch
  <2>2. CASE ~Proceed(r, "referenced")
    BY <1>3, <1>5, <2>2 DEF CheckReferences, Codes
  <2> QED
    BY <2>1, <2>2
<1>6. CASE CheckGraph(r)
  BY <1>6, CheckGraphSerial
<1>7. CASE CommitCreate(r) \/ CommitUpdate(r) \/ CommitDeactivate(r)
  BY <1>7, CommitSerial
<1>8. CASE Finish(r) \/ StoreFails(r)
  BY <1>3, <1>8 DEF Finish, StoreFails, Codes
<1>9. CASE Respond(r)
  <2>1. UNCHANGED svc /\ req'[r].pc = "idle"
    BY <1>1, <1>9 DEF Respond, Idle, TypeOK
  <2> QED
    BY <1>1, <2>1, IdleSearch
<1> QED
  BY <1>2, <1>4, <1>5, <1>6, <1>7, <1>8, <1>9 DEF Next, Advance, Serial

(* One request at a time keeps the graph acyclic, whatever the services and
   teams: the check itself is right, and only overlap (or a failed second read)
   defeats it, which the runs with two requests show. *)
THEOREM SerialGraphIsAcyclic ==
  ASSUME NEW r, Serial(r)
  PROVE  Spec => []GraphAcyclic
<1>1. SerialInv => GraphAcyclic
  BY DEF SerialInv
<1>2. SerialInv /\ [Next]_vars => SerialInv'
  BY SerialNext
<1> QED
  BY <1>1, <1>2, SerialInit, PTL DEF Spec

-----------------------------------------------------------------------------
\* What the rows show of themselves.
LEMMA Shown ==
  ASSUME TypeOK
  PROVE  /\ \A s \in Service : (ServicesShown[s] # Registry!NoRow) <=> s \in Stored
         /\ Registry!StoredServices = Stored
         /\ \A s \in Stored : ServicesShown[s] =
              [state |-> svc[s].state, chain |-> "any", edges |-> svc[s].edges]
<1>1. \A s \in Stored : ServicesShown[s] =
         [state |-> svc[s].state, chain |-> "any", edges |-> svc[s].edges]
  BY DEF ServicesShown, Stored
<1>2. \A s \in Stored : svc[s].state \in {"active", "inactive"}
  BY DEF TypeOK, Stored, Row, Absent
<1>3. \A s \in Service : (ServicesShown[s] # Registry!NoRow) <=> s \in Stored
  <2> SUFFICES ASSUME NEW s \in Service
               PROVE  (ServicesShown[s] # Registry!NoRow) <=> s \in Stored
    OBVIOUS
  <2>1. CASE s \in Stored
    <3>1. svc[s].state # "absent"
      BY <2>1 DEF Stored
    <3>2. ServicesShown[s].state = svc[s].state
      <4>1. ServicesShown[s] =
              [state |-> svc[s].state, chain |-> "any", edges |-> svc[s].edges]
        BY <2>1, <1>1
      <4> QED
        BY <4>1
    <3>3. ServicesShown[s].state # "absent"
      BY <3>1, <3>2
    <3> QED
      BY <2>1, <3>3 DEF Registry!NoRow
  <2>2. CASE s \notin Stored
    BY <2>2 DEF ServicesShown, Registry!NoRow
  <2> QED
    BY <2>1, <2>2
<1> QED
  BY <1>1, <1>3 DEF Registry!StoredServices, Stored

\* The two constant tables stand still.
LEMMA OneOfEach ==
  /\ Registry!HeldAnchors = {"any"} /\ Registry!StoredChains = {"any"}
BY DEF Registry!HeldAnchors, Registry!StoredChains, Registry!NoRow

LEMMA ShownTyped ==
  ASSUME TypeOK, GraphClosed
  PROVE  Registry!InventoryTypeOK /\ Registry!Closed
<1>1. ASSUME NEW s \in Stored
      PROVE  /\ ServicesShown[s] \in Registry!ServiceRow
             /\ ServicesShown[s].chain = "any" /\ ServicesShown[s].edges = svc[s].edges
  <2>1. svc[s].state \in {"active", "inactive"} /\ svc[s].edges \in SUBSET Service
    BY <1>1 DEF TypeOK, Stored, Row, Absent
  <2>2. ServicesShown[s] = [state |-> svc[s].state, chain |-> "any", edges |-> svc[s].edges]
    BY <1>1, Shown
  <2> QED
    BY <2>1, <2>2 DEF Registry!ServiceRow
<1>2. ServicesShown \in [Service -> Registry!ServiceRow \cup {Registry!NoRow}]
  <2>1. \A s \in Service : ServicesShown[s] \in Registry!ServiceRow \cup {Registry!NoRow}
    BY <1>1, Shown
  <2> QED
    BY <2>1 DEF ServicesShown
<1>3. Registry!InventoryTypeOK
  BY <1>2 DEF Registry!InventoryTypeOK, Registry!ChainRow, ChainStates, Registry!ChainStates
<1>4. Registry!Closed
  BY <1>1, Shown, OneOfEach DEF Registry!Closed, GraphClosed
<1> QED
  BY <1>3, <1>4

\* A step that writes one row, as the inventory sees it.
LEMMA ShownWrite ==
  ASSUME TypeOK, NEW s \in Service, NEW written \in Row, svc' = [svc EXCEPT ![s] = written]
  PROVE  ServicesShown' = [ServicesShown EXCEPT ![s] =
           [state |-> written.state, chain |-> "any", edges |-> written.edges]]
<1>1. \A t \in Service : svc'[t] = IF t = s THEN written ELSE svc[t]
  BY DEF TypeOK
<1>2. written.state # "absent"
  BY DEF Row
<1>3. Stored' = Stored \cup {s}
  BY <1>1, <1>2 DEF Stored
<1> QED
  BY <1>1, <1>3 DEF ServicesShown

LEMMA QuietShown ==
  ASSUME UNCHANGED svc
  PROVE  UNCHANGED Registry!inventory
BY SameRows DEF Registry!inventory, ServicesShown

LEMMA CommitCreateShown ==
  ASSUME ClosedInv, NEW r \in Request, CommitCreate(r)
  PROVE  [Registry!InventoryNext]_(Registry!inventory)
<1>1. req[r] \in Call /\ req[r].id \in Service /\ SlotSeen(req[r])
  BY Busy DEF ClosedInv, EdgesSeen, Call, CommitCreate
<1> DEFINE s == req[r].id
<1>2. CASE s \in Stored
  BY <1>2, QuietShown DEF CommitCreate
<1>3. CASE s \notin Stored
  <2>1. svc' = [svc EXCEPT ![s] = NewRow(req[r])]
    BY <1>3 DEF CommitCreate
  <2>2. req[r].team \in Team /\ req[r].edges \subseteq Stored \ {s}
    BY <1>1, <1>3 DEF SlotSeen, CommitCreate
  <2>3. NewRow(req[r]) \in Row /\ NewRow(req[r]).edges = req[r].edges
        /\ NewRow(req[r]).state = "active"
    BY <2>2 DEF NewRow, Row, Stored
  <2>4. ServicesShown' = [ServicesShown EXCEPT ![s] =
          [state |-> "active", chain |-> "any", edges |-> req[r].edges]]
    BY <1>1, <2>1, <2>3, ShownWrite DEF ClosedInv
  <2>5. Registry!References(s, "any", req[r].edges) /\ s \notin Registry!StoredServices
    BY <1>3, <2>2, Shown, OneOfEach DEF ClosedInv, Registry!References
  <2>6. Registry!AddService(s, "any", req[r].edges)
    BY <2>4, <2>5 DEF Registry!AddService
  <2>7. req[r].edges \in SUBSET Service
    BY <2>2 DEF Stored
  <2> QED
    BY <1>1, <2>6, <2>7 DEF Registry!InventoryNext
<1> QED
  BY <1>2, <1>3

LEMMA CommitUpdateShown ==
  ASSUME ClosedInv, NEW r \in Request, CommitUpdate(r)
  PROVE  [Registry!InventoryNext]_(Registry!inventory)
<1>1. req[r] \in Call /\ req[r].id \in Service /\ SlotSeen(req[r])
  BY Busy DEF ClosedInv, EdgesSeen, Call, CommitUpdate
<1> DEFINE s == req[r].id
           new == [state |-> svc[s].state, team |-> req[r].team, edges |-> req[r].edges]
<1>2. /\ svc' = [svc EXCEPT ![s] = new]
      /\ s \in Stored /\ req[r].team \in Team /\ req[r].edges \subseteq Stored \ {s}
  BY <1>1 DEF SlotSeen, CommitUpdate
<1>3. svc[s].state \in {"active", "inactive"}
  BY <1>2 DEF ClosedInv, TypeOK, Stored, Row, Absent
<1>4. new \in Row
  BY <1>2, <1>3 DEF Row, Stored
<1>5. ServicesShown' = [ServicesShown EXCEPT ![s] =
        [state |-> svc[s].state, chain |-> "any", edges |-> req[r].edges]]
  BY <1>1, <1>2, <1>4, ShownWrite DEF ClosedInv
<1>6. ServicesShown[s] = [state |-> svc[s].state, chain |-> "any", edges |-> svc[s].edges]
  BY <1>2, Shown DEF ClosedInv
<1>7. ServicesShown' =
        [ServicesShown EXCEPT ![s].chain = "any", ![s].edges = req[r].edges]
  BY <1>1, <1>5, <1>6 DEF ServicesShown
<1>8. Registry!References(s, "any", req[r].edges) /\ s \in Registry!StoredServices
  BY <1>2, Shown, OneOfEach DEF ClosedInv, Registry!References
<1>9. Registry!ChangeService(s, "any", req[r].edges)
  BY <1>7, <1>8 DEF Registry!ChangeService
<1>10. req[r].edges \in SUBSET Service
  BY <1>2 DEF Stored
<1> QED
  BY <1>1, <1>9, <1>10 DEF Registry!InventoryNext

LEMMA CommitDeactivateShown ==
  ASSUME ClosedInv, NEW r \in Request, CommitDeactivate(r)
  PROVE  [Registry!InventoryNext]_(Registry!inventory)
<1>1. req[r] \in Call /\ req[r].id \in Service
  BY Busy DEF ClosedInv, Call, CommitDeactivate
<1> DEFINE s == req[r].id
           new == [svc[s] EXCEPT !.state = "inactive"]
<1>2. CASE ~StillActive(s)
  BY <1>2, QuietShown DEF CommitDeactivate
<1>3. CASE StillActive(s)
  <2>1. svc' = [svc EXCEPT ![s].state = "inactive"]
    BY <1>3 DEF CommitDeactivate
  <2>2. s \in Stored /\ svc[s] \in Row /\ svc[s].state = "active"
    BY <1>1, <1>3 DEF ClosedInv, TypeOK, StillActive, Stored, Absent
  <2>3. new \in Row /\ new.state = "inactive" /\ new.edges = svc[s].edges
    BY <2>2 DEF Row
  <2>4. svc' = [svc EXCEPT ![s] = new]
    BY <2>1
  <2>5. ServicesShown' = [ServicesShown EXCEPT ![s] =
          [state |-> "inactive", chain |-> "any", edges |-> svc[s].edges]]
    BY <1>1, <2>3, <2>4, ShownWrite DEF ClosedInv
  <2>6. ServicesShown[s] = [state |-> "active", chain |-> "any", edges |-> svc[s].edges]
    BY <2>2, Shown DEF ClosedInv
  <2>7. ServicesShown' = [ServicesShown EXCEPT ![s].state = "inactive"]
    BY <1>1, <2>5, <2>6 DEF ServicesShown
  <2>8. s \in Registry!StoredServices /\ ServicesShown[s].state = "active"
    BY <2>2, <2>6, Shown DEF ClosedInv
  <2>9. Registry!DeactivateService(s)
    BY <2>7, <2>8 DEF Registry!DeactivateService
  <2> QED
    BY <1>1, <2>9 DEF Registry!InventoryNext
<1> QED
  BY <1>2, <1>3

(* Rows and requests keep their types, whatever their number. *)
THEOREM GraphTyped == Spec => []TypeOK
<1>1. ClosedInv => TypeOK
  BY DEF ClosedInv
<1> QED
  BY <1>1, ClosedInvariance, PTL

(* The dependent-service component keeps what the inventory promises, for any
   number of services and overlapping requests (dependent_service_service.go,
   lines 70-206). *)
THEOREM ServicesRefineInventory == Spec => ImplementsInventory
<1>1. ClosedInv => Registry!InventoryTypeOK /\ Registry!Closed
  BY ShownTyped DEF ClosedInv
<1>2. Init => Registry!InventoryInit
  BY <1>1, ClosedInit DEF Registry!InventoryInit
<1>3. ClosedInv /\ [Next]_vars => [Registry!InventoryNext]_(Registry!inventory)
  <2> SUFFICES ASSUME ClosedInv, [Next]_vars
               PROVE  [Registry!InventoryNext]_(Registry!inventory)
    OBVIOUS
  <2>1. CASE UNCHANGED svc
    BY <2>1, QuietShown
  <2>2. CASE ~UNCHANGED svc
    <3>1. PICK r \in Request : CommitCreate(r) \/ CommitUpdate(r) \/ CommitDeactivate(r)
      BY <2>2 DEF Next, vars, Arrive, Advance, LoadCreate, LoadUpdate, LoadDeactivate,
                  Admit, CheckReferences, CheckGraph, Finish, StoreFails, Respond
    <3> QED
      BY <3>1, CommitCreateShown, CommitUpdateShown, CommitDeactivateShown
  <2> QED
    BY <2>1, <2>2
<1> QED
  BY <1>2, <1>3, ClosedInvariance, PTL
     DEF Spec, ImplementsInventory, Registry!InventorySpec
=============================================================================
