-------------------------- MODULE ScenarioLifecycle --------------------------
(***************************************************************************)
(* What the rollover-scenario component promises, with no requests in      *)
(* flight, no idempotency keys and no audit log: every operation happens   *)
(* at one instant, under the authority it needs, on the current record.    *)
(* RolloverScenario, whose operations read first and write later, is shown *)
(* to implement this.                                                      *)
(***************************************************************************)
EXTENDS AccessControl

CONSTANTS Scenario, User, RoleOf, Input, Outcome, NoOne, NoResult,
          Blank,     \* the record of an id that no scenario has yet
          Seeded     \* the records the database starts with

VARIABLE life        \* life[s]: state, creator, reviewer, input and result

vars == <<life>>

Exists(s) == life[s] # Blank

May(u, permission) == HasPermission(RoleOf[u], permission)
Manages(u, s) == RoleOf[u] \in Steward \/ life[s].createdBy = u

Init == life = Seeded

\* A new draft on an input that no other scenario was frozen from.
Propose(s, u, i) ==
  /\ May(u, "scenario.write")
  /\ ~Exists(s)
  /\ \A t \in Scenario : Exists(t) => life[t].input # i
  /\ life' = [life EXCEPT ![s] =
       [state |-> "draft", createdBy |-> u, verifiedBy |-> NoOne,
        input |-> i, result |-> NoResult]]

\* A simulation stores what the algorithm computes from the frozen input.
Run(s, u) ==
  /\ May(u, "scenario.run")
  /\ Exists(s) /\ Manages(u, s)
  /\ life[s].state = "draft"
  /\ life' = [life EXCEPT ![s].state = "simulated",
                          ![s].result = Outcome[life[s].input]]

Move(s, u, to) ==
  /\ May(u, "scenario.write")
  /\ Exists(s) /\ Manages(u, s)
  /\ to \in RequestableStates \ {"verified"}
  /\ CanTransitionScenario(life[s].state, to)
  /\ life' = [life EXCEPT ![s].state = to]

\* The only step that another person than the creator must take.
Verify(s, u) ==
  /\ May(u, "scenario.verify")
  /\ Exists(s)
  /\ life[s].createdBy # u
  /\ CanTransitionScenario(life[s].state, "verified")
  /\ life' = [life EXCEPT ![s].state = "verified", ![s].verifiedBy = u]

\* Every step changes a record.  Said first, it spares TLC the search for a
\* step when the implementing component only read something.
Next ==
  /\ life' # life
  /\ \E s \in Scenario, u \in User :
       \/ \E i \in Input : Propose(s, u, i)
       \/ Run(s, u)
       \/ \E to \in ScenarioStates : Move(s, u, to)
       \/ Verify(s, u)

Spec == Init /\ [][Next]_vars
=============================================================================
