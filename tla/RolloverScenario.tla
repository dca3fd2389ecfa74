-------------------------- MODULE RolloverScenario --------------------------
(***************************************************************************)
(* The rollover-scenario component of the backend: the service and its     *)
(* repository, run by concurrent HTTP requests against one database.       *)
(*                                                                         *)
(* A request holds a slot.  It reads the scenario in one statement, checks *)
(* the copy it read, and later writes in a transaction that also appends   *)
(* the audit entry; other requests run between the two.  Every statement   *)
(* outside a transaction, and every transaction, is one step.              *)
(*                                                                         *)
(* A row keeps what control depends on: state, creator, reviewer, the      *)
(* idempotency key, the frozen input (which stands for the unique triple   *)
(* input_hash, algorithm_version, simulation_time), the stored result and  *)
(* the replay flag.  Names, times, comments and durations are left out.    *)
(***************************************************************************)
EXTENDS AccessControl, Sequences, Naturals

CONSTANTS
  Scenario,    \* ids the table hands out
  Request,     \* request slots: how many requests may be in flight
  User, RoleOf,
  Key,         \* idempotency keys clients send
  NoKey,       \* the empty column of a row never simulated
  Input,       \* frozen snapshots
  Outcome,     \* Outcome[i]: what the simulator computes from snapshot i
  NoResult,    \* the placeholder texts of a new draft
  NoOne,       \* verified_by is NULL
  SeedScenario, SeedInput, SeedKey, SeedUser,   \* the demonstration record
  MaxTrail     \* bound: no new request for a scenario with this many entries

ASSUME RoleAssumption == RoleOf \in [User -> Roles]
ASSUME NullAssumption ==
  /\ NoOne \notin User
  /\ NoKey \notin Key
  /\ \A i \in Input : Outcome[i] # NoResult
ASSUME SeedAssumption ==
  /\ SeedScenario \in Scenario /\ SeedInput \in Input /\ SeedKey \in Key
  /\ SeedUser \in User
  /\ RoleOf[SeedUser] = "pki_operator"
ASSUME BoundAssumption == MaxTrail \in [Scenario -> Nat]

VARIABLES
  row,    \* rollover_scenarios, by id
  req,    \* the request in each slot
  trail   \* audit_logs, the entries of each scenario in order

vars == <<row, req, trail>>

-----------------------------------------------------------------------------
Absent == [state |-> "absent", createdBy |-> NoOne, verifiedBy |-> NoOne,
           key |-> NoKey, input |-> NoResult, result |-> NoResult,
           replay |-> FALSE]

Row == [state : ScenarioStates, createdBy : User, verifiedBy : User \cup {NoOne},
        key : Key \cup {NoKey}, input : Input,
        result : {Outcome[i] : i \in Input} \cup {NoResult}, replay : BOOLEAN]

Ops == {"create", "simulate", "transition", "replay"}

Codes == {"pending", "ok", "reused", "not_found", "forbidden",
          "reviewer_conflict", "state_conflict", "conflict", "idempotency",
          "identical", "replay_differs", "internal"}

Idle == [pc |-> "idle"]

\* arg is the idempotency key of a simulate and the to_state of a transition.
Active == [pc : {"loaded", "checked", "committed", "answered"}, op : Ops,
           id : Scenario, by : User, arg : Key \cup RequestableStates \cup {"none"},
           seen : Row \cup {Absent}, code : Codes]

Entry == [action : Ops, by : User, before : Row \cup {Absent}, after : Row]

Exists(s) == row[s].state # "absent"

May(u, permission) == HasPermission(RoleOf[u], permission)

RequireOwnership(u, scenario) ==
  RoleOf[u] \in Steward \/ scenario.createdBy = u

\* Slip: the reviewer's role is looked at, not who the reviewer is.
SeparatedByRole(u, scenario) == May(u, "scenario.verify")

ReviewerSeparated(u, scenario) == scenario.createdBy # u

\* unique index on idempotency_key; an empty string is a value like any other
KeyTaken(s, k) == \E t \in Scenario \ {s} : Exists(t) /\ row[t].key = k

\* unique index idx_scenario_input
InputTaken(s, i) == \E t \in Scenario \ {s} : Exists(t) /\ row[t].input = i

-----------------------------------------------------------------------------
SeedRow == [state |-> "simulated", createdBy |-> SeedUser, verifiedBy |-> NoOne,
            key |-> SeedKey, input |-> SeedInput, result |-> Outcome[SeedInput],
            replay |-> FALSE]

Init ==
  /\ row = [s \in Scenario |-> IF s = SeedScenario THEN SeedRow ELSE Absent]
  /\ req = [r \in Request |-> Idle]
  /\ trail = [s \in Scenario |-> <<>>]

Receivable(r, s) == req[r] = Idle /\ Len(trail[s]) < MaxTrail[s]

\* The slot after the first read: refused with a code, or past its checks.
Admit(r, op, s, u, arg, verdict) ==
  req' = [req EXCEPT ![r] =
    [pc |-> IF verdict = "pending" THEN "loaded" ELSE "answered",
     op |-> op, id |-> s, by |-> u, arg |-> arg, seen |-> row[s],
     code |-> verdict]]

Answer(r, code) ==
  req' = [req EXCEPT ![r].pc = "answered", ![r].code = code]

\* One transaction: the row and its audit entry, or neither.
Write(s, u, action, written, before, after) ==
  /\ row' = [row EXCEPT ![s] = written]
  /\ trail' = [trail EXCEPT ![s] =
       Append(@, [action |-> action, by |-> u, before |-> before, after |-> after])]

-----------------------------------------------------------------------------
(* POST /rollover-scenarios.  The inventory reads that build the snapshot
   touch other tables; their outcome is the input i. *)
\* Slip: the new row is stored without its state.
DraftWithoutState(u, i) == [Absent EXCEPT !.createdBy = u, !.input = i]

Draft(u, i) == [Absent EXCEPT !.state = "draft", !.createdBy = u, !.input = i]

Create(r, s, u, i) ==
  /\ Receivable(r, s)
  /\ May(u, "scenario.write")
  /\ ~Exists(s)
  /\ LET call == [pc |-> "committed", op |-> "create", id |-> s, by |-> u,
                  arg |-> "none", seen |-> Draft(u, i), code |-> "pending"]
     IN \/ /\ ~KeyTaken(s, NoKey) /\ ~InputTaken(s, i)
           /\ Write(s, u, "create", Draft(u, i), Absent, Draft(u, i))
           /\ req' = [req EXCEPT ![r] = call]
        \/ /\ KeyTaken(s, NoKey) \/ InputTaken(s, i)
           /\ req' = [req EXCEPT ![r] =
                [call EXCEPT !.pc = "answered", !.code = "identical"]]
           /\ UNCHANGED <<row, trail>>

(* POST /rollover-scenarios/:id/simulate *)
SimulateVerdict(s, u) ==
  IF ~May(u, "scenario.run") THEN "forbidden"
  ELSE IF ~Exists(s) THEN "not_found"
  ELSE IF ~RequireOwnership(u, row[s]) THEN "forbidden"
  ELSE "pending"

LoadSimulate(r, s, u, k) ==
  /\ Receivable(r, s)
  /\ Admit(r, "simulate", s, u, k, SimulateVerdict(s, u))
  /\ UNCHANGED <<row, trail>>

\* Slip: whatever row holds the key is taken for the answer.
BoundToAny(q, p) == Exists(p)

BoundTo(q, p) == p = q.id

\* FindByIdempotencyKey, then the state of the copy read before it.
CheckKey(r) ==
  LET q == req[r]
      prior == {s \in Scenario : Exists(s) /\ row[s].key = q.arg}
  IN /\ q.pc = "loaded" /\ q.op = "simulate"
     /\ \/ \E p \in prior : ~BoundTo(q, p) /\ Answer(r, "idempotency")
        \/ \E p \in prior :
             /\ BoundTo(q, p)
             /\ req' = [req EXCEPT ![r] =
                  [q EXCEPT !.pc = "answered", !.code = "reused", !.seen = row[p]]]
        \/ /\ prior = {} /\ q.seen.state # "draft"
           /\ Answer(r, "state_conflict")
        \/ /\ prior = {} /\ q.seen.state = "draft"
           /\ req' = [req EXCEPT ![r].pc = "checked"]
     /\ UNCHANGED <<row, trail>>

\* The columns a simulation sets, and no others.
Simulated(scenario, k, result) ==
  [scenario EXCEPT !.state = "simulated", !.key = k, !.result = result]

\* Slip: UPDATE ... WHERE id = ? alone.
StillThere(s, from) == Exists(s)

\* UPDATE ... WHERE id = ? AND scenario_state = ? finds the row unchanged.
StillIn(s, from) == row[s].state = from

\* Slip: the writer tries again on the copy it holds.
KeepTrying(r, s, from) == ~StillIn(s, from) /\ UNCHANGED vars

\* No row was updated: 409, "scenario state changed concurrently".
LostRace(r, s, from) ==
  ~StillIn(s, from) /\ Answer(r, "conflict") /\ UNCHANGED <<row, trail>>

CommitSimulate(r) ==
  LET q == req[r]
      result == Outcome[q.seen.input]
  IN /\ q.pc = "checked"
     /\ \/ /\ StillIn(q.id, "draft") /\ ~KeyTaken(q.id, q.arg)
           /\ Write(q.id, q.by, "simulate", Simulated(row[q.id], q.arg, result),
                    q.seen, Simulated(q.seen, q.arg, result))
           /\ req' = [req EXCEPT ![r].pc = "committed"]
        \/ /\ StillIn(q.id, "draft") /\ KeyTaken(q.id, q.arg)
           /\ Answer(r, "internal")
           /\ UNCHANGED <<row, trail>>
        \/ LostRace(r, q.id, "draft")

(* POST /rollover-scenarios/:id/transition *)
\* Slip: the route's own permission is taken for every target state.
NeededByRoute(to) == "scenario.write"

Needed(to) == IF to = "verified" THEN "scenario.verify" ELSE "scenario.write"

TransitionVerdict(s, u, to) ==
  IF ~May(u, Needed(to))
    THEN IF to # "verified" \/ ~May(u, "scenario.write") THEN "forbidden"
         ELSE IF ~Exists(s) THEN "not_found"
         ELSE IF row[s].createdBy = u THEN "reviewer_conflict"
         ELSE "forbidden"
  ELSE IF ~Exists(s) THEN "not_found"
  ELSE IF to # "verified" /\ ~RequireOwnership(u, row[s]) THEN "forbidden"
  ELSE IF ~CanTransitionScenario(row[s].state, to) THEN "state_conflict"
  ELSE IF to = "verified" /\ ~ReviewerSeparated(u, row[s])
    THEN "reviewer_conflict"
  ELSE "pending"

LoadTransition(r, s, u, to) ==
  /\ Receivable(r, s)
  /\ Admit(r, "transition", s, u, to, TransitionVerdict(s, u, to))
  /\ UNCHANGED <<row, trail>>

\* The columns a transition sets; a return to draft keeps key and result.
Moved(scenario, u, to) ==
  [scenario EXCEPT !.state = to,
                   !.verifiedBy = IF to = "verified" THEN u ELSE @]

CommitTransition(r) ==
  LET q == req[r]
  IN /\ q.pc = "loaded" /\ q.op = "transition"
     /\ \/ /\ StillIn(q.id, q.seen.state)
           /\ Write(q.id, q.by, "transition", Moved(row[q.id], q.by, q.arg),
                    q.seen, Moved(q.seen, q.by, q.arg))
           /\ req' = [req EXCEPT ![r].pc = "committed"]
        \/ LostRace(r, q.id, q.seen.state)

(* POST /rollover-scenarios/:id/replay *)
\* Slip: drafts are replayed too.
ReplayVerdictAnyState(s, u) ==
  IF ~May(u, "scenario.run") THEN "forbidden"
  ELSE IF ~Exists(s) THEN "not_found"
  ELSE IF ~RequireOwnership(u, row[s]) THEN "forbidden"
  ELSE "pending"

ReplayVerdict(s, u) ==
  IF ~May(u, "scenario.run") THEN "forbidden"
  ELSE IF ~Exists(s) THEN "not_found"
  ELSE IF ~RequireOwnership(u, row[s]) THEN "forbidden"
  ELSE IF row[s].state = "draft" THEN "state_conflict"
  ELSE "pending"

LoadReplay(r, s, u) ==
  /\ Receivable(r, s)
  /\ Admit(r, "replay", s, u, "none", ReplayVerdict(s, u))
  /\ UNCHANGED <<row, trail>>

\* Slip: the whole copy goes back to the row.
FlaggedWhole(stored, seen, passed) == [seen EXCEPT !.replay = passed]

\* The one column a replay sets.
Flagged(stored, seen, passed) == [stored EXCEPT !.replay = passed]

\* The flag goes to the row by id alone; the audit entry copies what was read.
CommitReplay(r) ==
  LET q == req[r]
      passed == q.seen.result = Outcome[q.seen.input]
  IN /\ q.pc = "loaded" /\ q.op = "replay"
     /\ Write(q.id, q.by, "replay", Flagged(row[q.id], q.seen, passed),
              q.seen, [q.seen EXCEPT !.replay = passed])
     /\ IF passed THEN req' = [req EXCEPT ![r].pc = "committed"]
                  ELSE Answer(r, "replay_differs")

-----------------------------------------------------------------------------
\* The record read back after the commit is the body of the answer.
Finish(r) ==
  LET q == req[r]
  IN /\ q.pc = "committed"
     /\ req' = [req EXCEPT ![r] = [q EXCEPT !.pc = "answered", !.code = "ok",
                                            !.seen = row[q.id]]]
     /\ UNCHANGED <<row, trail>>

\* A failed statement, audit insert or commit, or a cancelled request: a
\* transaction is rolled back, a committed one stays although the answer is 500.
StoreFails(r) ==
  /\ req[r].pc \in {"loaded", "checked", "committed"}
  /\ Answer(r, "internal")
  /\ UNCHANGED <<row, trail>>

\* The answer has left; the slot is free again.
Respond(r) ==
  /\ req[r].pc = "answered"
  /\ req' = [req EXCEPT ![r] = Idle]
  /\ UNCHANGED <<row, trail>>

\* The process dies; only what was committed survives.
Crash ==
  /\ \E r \in Request : req[r] # Idle
  /\ req' = [r \in Request |-> Idle]
  /\ UNCHANGED <<row, trail>>

Arrive(r) ==
  \E s \in Scenario, u \in User :
    \/ \E i \in Input : Create(r, s, u, i)
    \/ \E k \in Key : LoadSimulate(r, s, u, k)
    \/ \E to \in RequestableStates : LoadTransition(r, s, u, to)
    \/ LoadReplay(r, s, u)

Advance(r) ==
  \/ CheckKey(r) \/ CommitSimulate(r) \/ CommitTransition(r) \/ CommitReplay(r)
  \/ Finish(r) \/ Respond(r)

Next ==
  \/ \E r \in Request : Arrive(r) \/ Advance(r) \/ StoreFails(r)
  \/ Crash

Spec == Init /\ [][Next]_vars

\* Go schedules every runnable goroutine, and a statement returns or fails.
FairSpec == Spec /\ \A r \in Request : WF_vars(Advance(r))

-----------------------------------------------------------------------------
(* Every variable holds what the schema and the request types allow. *)
TypeOK ==
  /\ row \in [Scenario -> Row \cup {Absent}]
  /\ req \in [Request -> Active \cup {Idle}]
  /\ trail \in [Scenario -> Seq(Entry)]

(* A verified scenario names a reviewer who is not its creator and whose role
   may verify, and no other scenario names one: the check ran on a copy read
   before the write (service lines 192-199). *)
ReviewerSeparation ==
  \A s \in Scenario :
    /\ row[s].state = "verified" <=> row[s].verifiedBy # NoOne
    /\ row[s].state = "verified" =>
         /\ row[s].verifiedBy # row[s].createdBy
         /\ May(row[s].verifiedBy, "scenario.verify")

(* Whatever left draft has a result, a stored result or a set replay flag means
   the simulator still computes that result from the frozen input, and so no
   replay is ever refused as differing (service lines 249, 261). *)
ResultReproducible ==
  /\ \A s \in Scenario :
       LET computed == Exists(s) /\ row[s].result = Outcome[row[s].input]
       IN /\ row[s].state \notin {"absent", "draft"} => computed
          /\ row[s].result # NoResult => computed
          /\ row[s].replay => computed
  /\ \A r \in Request : req[r] # Idle => req[r].code # "replay_differs"

\* Entries of a scenario that changed its state.
Moves(s) == {n \in DOMAIN trail[s] : trail[s][n].action # "replay"}

(* The audit entries of a scenario tell a walk of the state machine without a
   gap that ends in its present state: concurrent requests never both leave the
   state they both read (compare-and-set, repository lines 80, 92). *)
TrailIsWalk ==
  \A s \in Scenario : \A n \in Moves(s) :
    LET e == trail[s][n] IN
      /\ \/ e.action = "create" /\ e.before = Absent /\ e.after.state = "draft"
         \/ CanTransitionScenario(e.before.state, e.after.state)
      /\ \A m \in Moves(s) :
           m < n /\ (\A k \in Moves(s) : k <= m \/ n <= k)
             => trail[s][m].after.state = e.before.state
      /\ (\A k \in Moves(s) : k <= n) => e.after.state = row[s].state

(* Every audit entry was written by someone who had the right to the change it
   records on the scenario as it stands: rights are checked on the copy read,
   and a verification needs the other role (service 33-38, handler 69-73). *)
TrailAuthorised ==
  \A s \in Scenario : \A n \in DOMAIN trail[s] :
    LET e == trail[s][n] IN
      IF e.after.state = "verified" /\ e.before.state # "verified"
      THEN May(e.by, "scenario.verify") /\ e.by # row[s].createdBy
      ELSE /\ May(e.by, IF e.action \in {"simulate", "replay"} THEN "scenario.run"
                        ELSE "scenario.write")
           /\ RoleOf[e.by] \in Steward \/ e.by = row[s].createdBy

\* Keys that are or were in the record of a scenario, as far as the log tells.
KeysOf(s) ==
  ({row[s].key} \cup {trail[s][n].before.key : n \in DOMAIN trail[s]}
                \cup {trail[s][n].after.key : n \in DOMAIN trail[s]}) \ {NoKey}

(* A successful answer to simulate(id, key) shows a result computed from the
   frozen input, and that scenario was simulated under that key: no answer
   carries another request's run (service lines 105-109, 151). *)
SimulateAnswerFits ==
  \A r \in Request :
    req[r] # Idle /\ req[r].op = "simulate" /\ req[r].code \in {"ok", "reused"}
      => /\ req[r].arg \in KeysOf(req[r].id)
         /\ req[r].seen.result = Outcome[req[r].seen.input]

(* The frozen input and the creator never change, a stored result is never
   replaced or lost, not even by a reset to draft and a second simulation, and
   nothing but the replay flag of a verified or rolled-back scenario moves. *)
EvidenceFrozen ==
  [][\A s \in Scenario : Exists(s) =>
       /\ row'[s].input = row[s].input
       /\ row'[s].createdBy = row[s].createdBy
       /\ row[s].result # NoResult => row'[s].result = row[s].result
       /\ row[s].state \in {"verified", "rollback"} =>
            row'[s] = [row[s] EXCEPT !.replay = row'[s].replay]]_vars

\* The record without what the abstract lifecycle does not know.
ViewOf(scenario) ==
  [state |-> scenario.state, createdBy |-> scenario.createdBy,
   verifiedBy |-> scenario.verifiedBy, input |-> scenario.input,
   result |-> scenario.result]

Life == [s \in Scenario |-> ViewOf(row[s])]

SeededLife ==
  [s \in Scenario |-> ViewOf(IF s = SeedScenario THEN SeedRow ELSE Absent)]

Lifecycle == INSTANCE ScenarioLifecycle WITH
  life <- Life, Blank <- ViewOf(Absent), Seeded <- SeededLife

(* Reading first and writing later still amounts to one authorised lifecycle
   step per committed transaction, and to nothing for all other steps. *)
Implements == Lifecycle!Spec

(* A request that passed its first read is answered: a lost race, a taken key
   and a failed replay all end in an answer (or the process dies). *)
EveryRequestAnswered ==
  \A r \in Request : req[r] # Idle ~> (req[r] = Idle \/ req[r].pc = "answered")

-----------------------------------------------------------------------------
(* What the code's messages and documents say and the code does not do. *)

(* "an identical frozen scenario already exists" (service line 84). *)
IdenticalMeansIdentical ==
  \A r \in Request : req[r] # Idle /\ req[r].code = "identical" =>
    \E t \in Scenario : Exists(t) /\ row[t].input = req[r].seen.input
=============================================================================
