----------------------- MODULE RolloverScenarioProofs -----------------------
(***************************************************************************)
(* Theorems about RolloverScenario, for any number of scenarios, requests, *)
(* users, keys and inputs.  The inductive invariant adds to the properties *)
(* what a request in flight has established about the copy it read, and    *)
(* which parts of that copy no other request can invalidate.               *)
(***************************************************************************)
EXTENDS RolloverScenario, TLAPS

\* What holds of one stored record, alone.
GoodRow(scenario) ==
  /\ scenario.state = "verified" <=> scenario.verifiedBy # NoOne
  /\ scenario.state = "verified" =>
       /\ scenario.verifiedBy # scenario.createdBy
       /\ May(scenario.verifiedBy, "scenario.verify")
  /\ scenario.state # "draft" => scenario.result = Outcome[scenario.input]
  /\ scenario.result # NoResult => scenario.result = Outcome[scenario.input]
  /\ scenario.replay => scenario.result = Outcome[scenario.input]

\* The copy agrees with the record on the columns nothing ever rewrites, and
\* a result it shows is still there.
SameOrigin(copy, scenario) ==
  /\ copy.createdBy = scenario.createdBy
  /\ copy.input = scenario.input
  /\ copy.result # NoResult => scenario.result = copy.result

\* What an unfinished request has checked, by operation.
Cleared(q) ==
  CASE q.op = "simulate" ->
         /\ q.arg \in Key
         /\ May(q.by, "scenario.run") /\ RequireOwnership(q.by, q.seen)
    [] q.op = "transition" ->
         /\ q.arg \in RequestableStates
         /\ May(q.by, Needed(q.arg))
         /\ CanTransitionScenario(q.seen.state, q.arg)
         /\ IF q.arg = "verified" THEN ReviewerSeparated(q.by, q.seen)
                                  ELSE RequireOwnership(q.by, q.seen)
    [] q.op = "replay" ->
         /\ q.seen.state # "draft"
         /\ May(q.by, "scenario.run") /\ RequireOwnership(q.by, q.seen)
    [] OTHER -> FALSE

GoodSlot(q, scenario) ==
  /\ q.code # "replay_differs"
  /\ q.pc # "answered" => scenario \in Row
  /\ q.pc \in {"loaded", "checked"} =>
       /\ q.seen \in Row
       /\ GoodRow(q.seen)
       /\ SameOrigin(q.seen, scenario)
       /\ Cleared(q)
  /\ q.pc = "checked" => q.op = "simulate" /\ q.seen.state = "draft"

RowsGood == \A s \in Scenario : row[s] \in Row => GoodRow(row[s])

SlotsGood ==
  \A r \in Request : req[r] # Idle => GoodSlot(req[r], row[req[r].id])

IInv == TypeOK /\ RowsGood /\ SlotsGood

-----------------------------------------------------------------------------
(* Records of the type are exactly the existing ones. *)
LEMMA ExistsIsRow ==
  ASSUME TypeOK, NEW s \in Scenario
  PROVE  /\ Exists(s) <=> row[s] \in Row
         /\ ~Exists(s) => row[s] = Absent
BY DEF TypeOK, Exists, Row, Absent, ScenarioStates

(* Nothing a request may ask for leaves a draft or a closed scenario. *)
LEMMA Successors ==
  ASSUME NEW from \in ScenarioStates, NEW to \in RequestableStates,
         CanTransitionScenario(from, to)
  PROVE  from \notin {"draft", "verified", "rollback"}
BY DEF CanTransitionScenario, ScenarioSuccessors, ScenarioStates,
       RequestableStates

(* A step that only rewrites one slot keeps the invariant when the new slot
   is well typed and good. *)
LEMMA SlotStep ==
  ASSUME IInv, UNCHANGED <<row, trail>>,
         NEW r \in Request, NEW q,
         q = Idle \/ (q \in Active /\ GoodSlot(q, row[q.id])),
         req' = [req EXCEPT ![r] = q]
  PROVE  IInv'
<1>1. TypeOK'
  BY DEF IInv, TypeOK
<1>2. RowsGood'
  BY DEF IInv, RowsGood
<1>3. SlotsGood'
  <2> SUFFICES ASSUME NEW x \in Request, req'[x] # Idle
               PROVE  GoodSlot(req'[x], row'[req'[x].id])
    BY DEF SlotsGood
  <2>1. CASE x = r
    BY <2>1 DEF IInv, TypeOK
  <2>2. CASE x # r
    BY <2>2 DEF IInv, TypeOK, SlotsGood
  <2> QED BY <2>1, <2>2
<1> QED BY <1>1, <1>2, <1>3 DEF IInv

(* A transaction on scenario s keeps the invariant when it writes a good row
   of the same origin and leaves its own slot good. *)
LEMMA WriteStep ==
  ASSUME IInv, NEW r \in Request, NEW s \in Scenario, NEW u \in User,
         NEW action \in Ops, NEW written \in Row,
         NEW before \in Row \cup {Absent}, NEW after \in Row,
         GoodRow(written),
         row[s] \in Row => SameOrigin(row[s], written),
         Write(s, u, action, written, before, after),
         NEW q \in Active, q.id = s, GoodSlot(q, written),
         req' = [req EXCEPT ![r] = q]
  PROVE  IInv'
<1>1. TypeOK'
  <2>1. [action |-> action, by |-> u, before |-> before, after |-> after] \in Entry
    BY DEF Entry
  <2>2. row' \in [Scenario -> Row \cup {Absent}]
    BY DEF IInv, TypeOK, Write
  <2>3. req' \in [Request -> Active \cup {Idle}]
    BY DEF IInv, TypeOK
  <2>4. trail' \in [Scenario -> Seq(Entry)]
    BY <2>1 DEF IInv, TypeOK, Write
  <2> QED BY <2>2, <2>3, <2>4 DEF TypeOK
<1>2. row' = [row EXCEPT ![s] = written] /\ row \in [Scenario -> Row \cup {Absent}]
  BY DEF Write, IInv, TypeOK
<1>3. RowsGood'
  BY <1>2 DEF IInv, RowsGood
<1>4. SlotsGood'
  <2> SUFFICES ASSUME NEW x \in Request, req'[x] # Idle
               PROVE  GoodSlot(req'[x], row'[req'[x].id])
    BY DEF SlotsGood
  <2>1. CASE x = r
    BY <2>1, <1>2 DEF IInv, TypeOK
  <2>2. CASE x # r
    <3>1. req'[x] = req[x] /\ req[x] \in Active /\ req[x].id \in Scenario
      BY <2>2 DEF IInv, TypeOK, Active, Idle
    <3>2. GoodSlot(req[x], row[req[x].id])
      BY <3>1 DEF IInv, SlotsGood
    <3>3. CASE req[x].id # s
      BY <1>2, <3>1, <3>2, <3>3
    <3>4. CASE req[x].id = s
      <4>1. row'[s] = written
        BY <1>2
      <4>2. GoodSlot(req[x], written)
        BY <3>2, <3>4, <3>1 DEF GoodSlot, SameOrigin, Active
      <4> QED BY <3>1, <3>4, <4>1, <4>2
    <3> QED BY <3>3, <3>4
  <2> QED BY <2>1, <2>2
<1> QED BY <1>1, <1>3, <1>4 DEF IInv

-----------------------------------------------------------------------------
(* The demonstration record is a good row and no request is in flight. *)
LEMMA InitIInv == Init => IInv
<1> SUFFICES ASSUME Init PROVE IInv
  OBVIOUS
<1> USE RoleAssumption, NullAssumption, SeedAssumption
<1>1. SeedRow \in Row /\ GoodRow(SeedRow)
  BY DEF SeedRow, Row, GoodRow, ScenarioStates
<1>2. Absent \notin Row
  BY DEF Absent, Row, ScenarioStates
<1>3. TypeOK
  BY <1>1 DEF Init, TypeOK
<1>4. RowsGood
  BY <1>1, <1>2 DEF Init, RowsGood
<1>5. SlotsGood
  BY DEF Init, SlotsGood
<1> QED BY <1>3, <1>4, <1>5 DEF IInv

(* A new draft is a good row under its creator's name. *)
LEMMA CreateStep ==
  ASSUME IInv, NEW r \in Request, NEW s \in Scenario, NEW u \in User,
         NEW i \in Input, Create(r, s, u, i)
  PROVE  IInv'
<1> DEFINE call == [pc |-> "committed", op |-> "create", id |-> s, by |-> u,
                    arg |-> "none", seen |-> Draft(u, i), code |-> "pending"]
<1>1. Draft(u, i) \in Row /\ GoodRow(Draft(u, i))
  BY NullAssumption DEF Draft, Absent, Row, GoodRow, ScenarioStates
<1>2. row[s] \notin Row
  BY ExistsIsRow DEF Create, IInv
<1>3. call \in Active /\ GoodSlot(call, Draft(u, i))
  BY <1>1 DEF Active, Ops, Codes, GoodSlot
<1>4. CASE /\ Write(s, u, "create", Draft(u, i), Absent, Draft(u, i))
           /\ req' = [req EXCEPT ![r] = call]
  <2>1. "create" \in Ops
    BY DEF Ops
  <2> QED BY <1>1, <1>2, <1>3, <1>4, <2>1, WriteStep
<1>5. CASE /\ req' = [req EXCEPT ![r] =
                [call EXCEPT !.pc = "answered", !.code = "identical"]]
           /\ UNCHANGED <<row, trail>>
  <2> DEFINE refused == [call EXCEPT !.pc = "answered", !.code = "identical"]
  <2>1. refused \in Active /\ GoodSlot(refused, row[refused.id])
    BY <1>1 DEF Active, Ops, Codes, GoodSlot
  <2> QED BY <1>5, <2>1, SlotStep
<1> QED BY <1>4, <1>5 DEF Create

(* A request admitted by the checks of its operation on the row it read
   starts out good; a refused one needs nothing. *)
LEMMA AdmitStep ==
  ASSUME IInv, UNCHANGED <<row, trail>>,
         NEW r \in Request, NEW op \in Ops, NEW s \in Scenario, NEW u \in User,
         NEW arg \in Key \cup RequestableStates \cup {"none"},
         NEW verdict \in Codes \ {"replay_differs"},
         Admit(r, op, s, u, arg, verdict),
         verdict = "pending" =>
           /\ Exists(s)
           /\ Cleared([pc |-> "loaded", op |-> op, id |-> s, by |-> u,
                       arg |-> arg, seen |-> row[s], code |-> verdict])
  PROVE  IInv'
<1> DEFINE q == [pc |-> IF verdict = "pending" THEN "loaded" ELSE "answered",
                 op |-> op, id |-> s, by |-> u, arg |-> arg, seen |-> row[s],
                 code |-> verdict]
<1>1. q \in Active
  BY DEF Active, IInv, TypeOK
<1>2. GoodSlot(q, row[s])
  <2>1. CASE verdict = "pending"
    <3>1. row[s] \in Row /\ GoodRow(row[s])
      BY <2>1, ExistsIsRow DEF IInv, RowsGood
    <3> QED BY <2>1, <3>1 DEF GoodSlot, SameOrigin
  <2>2. CASE verdict # "pending"
    BY <2>2 DEF GoodSlot
  <2> QED BY <2>1, <2>2
<1>3. req' = [req EXCEPT ![r] = q]
  BY DEF Admit
<1> QED BY <1>1, <1>2, <1>3, SlotStep

LEMMA LoadSimulateStep ==
  ASSUME IInv, NEW r \in Request, NEW s \in Scenario, NEW u \in User,
         NEW k \in Key, LoadSimulate(r, s, u, k)
  PROVE  IInv'
<1>1. SimulateVerdict(s, u) \in Codes \ {"replay_differs"}
  BY DEF SimulateVerdict, Codes
<1>2. SimulateVerdict(s, u) = "pending" =>
        Exists(s) /\ May(u, "scenario.run") /\ RequireOwnership(u, row[s])
  BY DEF SimulateVerdict
<1>3. "simulate" \in Ops
  BY DEF Ops
<1> QED BY <1>1, <1>2, <1>3, AdmitStep DEF LoadSimulate, Cleared

LEMMA LoadTransitionStep ==
  ASSUME IInv, NEW r \in Request, NEW s \in Scenario, NEW u \in User,
         NEW to \in RequestableStates, LoadTransition(r, s, u, to)
  PROVE  IInv'
<1>1. TransitionVerdict(s, u, to) \in Codes \ {"replay_differs"}
  BY DEF TransitionVerdict, Codes
<1>2. TransitionVerdict(s, u, to) = "pending" =>
        /\ Exists(s) /\ May(u, Needed(to))
        /\ CanTransitionScenario(row[s].state, to)
        /\ IF to = "verified" THEN ReviewerSeparated(u, row[s])
                              ELSE RequireOwnership(u, row[s])
  BY DEF TransitionVerdict
<1>3. "transition" \in Ops
  BY DEF Ops
<1> QED BY <1>1, <1>2, <1>3, AdmitStep DEF LoadTransition, Cleared

LEMMA LoadReplayStep ==
  ASSUME IInv, NEW r \in Request, NEW s \in Scenario, NEW u \in User,
         LoadReplay(r, s, u)
  PROVE  IInv'
<1>1. ReplayVerdict(s, u) \in Codes \ {"replay_differs"}
  BY DEF ReplayVerdict, Codes
<1>2. ReplayVerdict(s, u) = "pending" =>
        /\ Exists(s) /\ May(u, "scenario.run") /\ RequireOwnership(u, row[s])
        /\ row[s].state # "draft"
  BY DEF ReplayVerdict
<1>3. "replay" \in Ops
  BY DEF Ops
<1> QED BY <1>1, <1>2, <1>3, AdmitStep DEF LoadReplay, Cleared

(* What holds of the slot an action of a busy request works on. *)
LEMMA BusySlot ==
  ASSUME IInv, NEW r \in Request, req[r].pc \in {"loaded", "checked", "committed"}
  PROVE  /\ req[r] \in Active /\ req[r].id \in Scenario /\ req[r].by \in User
         /\ GoodSlot(req[r], row[req[r].id])
         /\ row[req[r].id] \in Row /\ GoodRow(row[req[r].id])
<1>1. req[r] # Idle /\ req[r] \in Active
  BY DEF IInv, TypeOK, Idle
<1>2. GoodSlot(req[r], row[req[r].id]) /\ req[r].id \in Scenario /\ req[r].by \in User
  BY <1>1 DEF IInv, SlotsGood, Active
<1>3. row[req[r].id] \in Row
  BY <1>2 DEF GoodSlot
<1> QED BY <1>1, <1>2, <1>3 DEF IInv, RowsGood

(* Answering an unfinished request keeps the invariant. *)
LEMMA AnswerStep ==
  ASSUME IInv, UNCHANGED <<row, trail>>, NEW r \in Request,
         req[r].pc \in {"loaded", "checked", "committed"},
         NEW code \in Codes \ {"replay_differs"}, Answer(r, code)
  PROVE  IInv'
<1> DEFINE q == [req[r] EXCEPT !.pc = "answered", !.code = code]
<1>1. q \in Active /\ GoodSlot(q, row[q.id])
  BY BusySlot DEF Active, GoodSlot
<1>2. req' = [req EXCEPT ![r] = q]
  BY DEF Answer, IInv, TypeOK
<1> QED BY <1>1, <1>2, SlotStep

LEMMA CheckKeyStep ==
  ASSUME IInv, NEW r \in Request, CheckKey(r)
  PROVE  IInv'
<1> DEFINE q == req[r]
           prior == {s \in Scenario : Exists(s) /\ row[s].key = q.arg}
<1>1. q.pc = "loaded" /\ q.op = "simulate" /\ UNCHANGED <<row, trail>>
  BY DEF CheckKey
<1>2. q \in Active /\ GoodSlot(q, row[q.id])
  BY <1>1, BusySlot
<1>3. CASE \E code \in {"idempotency", "state_conflict"} : Answer(r, code)
  BY <1>1, <1>3, AnswerStep DEF Codes
<1>4. CASE \E p \in prior : req' = [req EXCEPT ![r] =
             [q EXCEPT !.pc = "answered", !.code = "reused", !.seen = row[p]]]
  <2> PICK p \in prior : req' = [req EXCEPT ![r] =
             [q EXCEPT !.pc = "answered", !.code = "reused", !.seen = row[p]]]
    BY <1>4
  <2> DEFINE n == [q EXCEPT !.pc = "answered", !.code = "reused", !.seen = row[p]]
  <2>1. n \in Active /\ GoodSlot(n, row[n.id])
    BY <1>2 DEF Active, Codes, GoodSlot, IInv, TypeOK
  <2> QED BY <1>1, <2>1, SlotStep
<1>5. CASE q.seen.state = "draft" /\ req' = [req EXCEPT ![r].pc = "checked"]
  <2> DEFINE n == [q EXCEPT !.pc = "checked"]
  <2>1. n \in Active /\ GoodSlot(n, row[n.id])
    BY <1>1, <1>2, <1>5 DEF Active, GoodSlot, Cleared
  <2>2. req' = [req EXCEPT ![r] = n]
    BY <1>5 DEF IInv, TypeOK
  <2> QED BY <1>1, <2>1, <2>2, SlotStep
<1> QED BY <1>3, <1>4, <1>5 DEF CheckKey

(* The result computed from the copy is the result of the row's own input, and
   the row left draft unverified. *)
LEMMA CommitSimulateStep ==
  ASSUME IInv, NEW r \in Request, CommitSimulate(r)
  PROVE  IInv'
<1> DEFINE q == req[r]
           result == Outcome[q.seen.input]
           written == Simulated(row[q.id], q.arg, result)
           after == Simulated(q.seen, q.arg, result)
           n == [q EXCEPT !.pc = "committed"]
<1>1. q.pc = "checked"
  BY DEF CommitSimulate
<1>2. /\ q \in Active /\ q.id \in Scenario /\ q.by \in User
      /\ GoodSlot(q, row[q.id])
      /\ row[q.id] \in Row /\ GoodRow(row[q.id])
  BY <1>1, BusySlot
<1>3. q.seen \in Row /\ SameOrigin(q.seen, row[q.id]) /\ q.arg \in Key
  BY <1>1, <1>2 DEF GoodSlot, Cleared
<1>4. CASE /\ StillIn(q.id, "draft")
           /\ Write(q.id, q.by, "simulate", written, q.seen, after)
           /\ req' = [req EXCEPT ![r].pc = "committed"]
  <2>1. result \in {Outcome[i] : i \in Input}
    BY <1>3 DEF Row
  <2>2. written \in Row /\ after \in Row
    BY <1>2, <1>3, <2>1 DEF Row, Simulated, ScenarioStates
  <2>3. GoodRow(written)
    BY <1>2, <1>3, <1>4 DEF GoodRow, Simulated, SameOrigin, StillIn, Row
  <2>4. SameOrigin(row[q.id], written)
    BY <1>2, <1>3 DEF SameOrigin, Simulated, Row, GoodRow
  <2>5. n \in Active /\ GoodSlot(n, written) /\ n.id = q.id
    BY <1>2, <2>2 DEF Active, GoodSlot
  <2>6. req' = [req EXCEPT ![r] = n] /\ "simulate" \in Ops
    BY <1>4 DEF IInv, TypeOK, Ops
  <2> QED BY <1>2, <1>3, <1>4, <2>2, <2>3, <2>4, <2>5, <2>6, WriteStep
<1>5. CASE \E code \in {"internal", "conflict"} :
             Answer(r, code) /\ UNCHANGED <<row, trail>>
  BY <1>1, <1>5, AnswerStep DEF Codes
<1> QED BY <1>4, <1>5 DEF CommitSimulate, LostRace

(* The row still has the state the transition was checked against; creator
   and input never differ from the copy. *)
LEMMA CommitTransitionStep ==
  ASSUME IInv, NEW r \in Request, CommitTransition(r)
  PROVE  IInv'
<1> DEFINE q == req[r]
           written == Moved(row[q.id], q.by, q.arg)
           after == Moved(q.seen, q.by, q.arg)
           n == [q EXCEPT !.pc = "committed"]
<1>1. q.pc = "loaded" /\ q.op = "transition"
  BY DEF CommitTransition
<1>2. /\ q \in Active /\ q.id \in Scenario /\ q.by \in User
      /\ GoodSlot(q, row[q.id])
      /\ row[q.id] \in Row /\ GoodRow(row[q.id])
  BY <1>1, BusySlot
<1>3. q.seen \in Row /\ SameOrigin(q.seen, row[q.id]) /\ Cleared(q)
  BY <1>1, <1>2 DEF GoodSlot
<1>4. CASE /\ StillIn(q.id, q.seen.state)
           /\ Write(q.id, q.by, "transition", written, q.seen, after)
           /\ req' = [req EXCEPT ![r].pc = "committed"]
  <2>1. /\ q.arg \in RequestableStates
        /\ row[q.id].state \notin {"draft", "verified", "rollback"}
    BY <1>1, <1>2, <1>3, <1>4, Successors DEF Cleared, StillIn, Row
  <2>2. written \in Row /\ after \in Row
    BY <1>2, <1>3, <2>1 DEF Row, Moved, RequestableStates
  <2>3. /\ written.state = q.arg
        /\ written.createdBy = row[q.id].createdBy
        /\ written.input = row[q.id].input
        /\ written.result = row[q.id].result
        /\ written.replay = row[q.id].replay
        /\ written.verifiedBy =
             IF q.arg = "verified" THEN q.by ELSE row[q.id].verifiedBy
    BY <1>2 DEF Moved, Row
  <2>4. q.arg = "verified" =>
          q.by # row[q.id].createdBy /\ May(q.by, "scenario.verify")
    BY <1>1, <1>3 DEF Cleared, Needed, ReviewerSeparated, SameOrigin
  <2>5. GoodRow(written)
    BY <1>2, <2>1, <2>3, <2>4, NullAssumption DEF GoodRow
  <2>6. SameOrigin(row[q.id], written)
    BY <2>3 DEF SameOrigin
  <2>7. n \in Active /\ GoodSlot(n, written) /\ n.id = q.id
    BY <1>2, <2>2 DEF Active, GoodSlot
  <2>8. req' = [req EXCEPT ![r] = n] /\ "transition" \in Ops
    BY <1>4 DEF IInv, TypeOK, Ops
  <2> QED BY <1>2, <1>3, <1>4, <2>2, <2>5, <2>6, <2>7, <2>8, WriteStep
<1>5. CASE Answer(r, "conflict") /\ UNCHANGED <<row, trail>>
  BY <1>1, <1>5, AnswerStep DEF Codes
<1> QED BY <1>4, <1>5 DEF CommitTransition, LostRace

(* A replay always passes: the copy had left draft, so it holds the outcome of
   its input; the record has the same input but may be a draft again. *)
LEMMA CommitReplayStep ==
  ASSUME IInv, NEW r \in Request, CommitReplay(r)
  PROVE  IInv'
<1> DEFINE q == req[r]
           passed == q.seen.result = Outcome[q.seen.input]
           written == [row[q.id] EXCEPT !.replay = passed]
           after == [q.seen EXCEPT !.replay = passed]
           n == [q EXCEPT !.pc = "committed"]
<1>1. q.pc = "loaded" /\ q.op = "replay"
  BY DEF CommitReplay
<1>2. /\ q \in Active /\ q.id \in Scenario /\ q.by \in User
      /\ GoodSlot(q, row[q.id])
      /\ row[q.id] \in Row /\ GoodRow(row[q.id])
  BY <1>1, BusySlot
<1>3. /\ q.seen \in Row /\ GoodRow(q.seen) /\ SameOrigin(q.seen, row[q.id])
      /\ q.seen.state # "draft"
  BY <1>1, <1>2 DEF GoodSlot, Cleared
<1>4. passed
  BY <1>3 DEF GoodRow
<1>5. written \in Row /\ after \in Row
  BY <1>2, <1>3 DEF Row
<1>6. row[q.id].result = Outcome[row[q.id].input]
  BY <1>2, <1>3, <1>4, NullAssumption DEF SameOrigin, Row
<1>7. GoodRow(written) /\ SameOrigin(row[q.id], written)
  BY <1>2, <1>6 DEF GoodRow, SameOrigin, Row
<1>8. n \in Active /\ GoodSlot(n, written) /\ n.id = q.id
  BY <1>2, <1>5 DEF Active, GoodSlot
<1>9. req' = [req EXCEPT ![r] = n] /\ "replay" \in Ops
  BY <1>4 DEF CommitReplay, IInv, TypeOK, Ops
<1>10. Write(q.id, q.by, "replay", written, q.seen, after)
  BY DEF CommitReplay, Flagged
<1> HIDE DEF q, passed, written, after, n
<1> QED BY <1>2, <1>3, <1>5, <1>7, <1>8, <1>9, <1>10, WriteStep

LEMMA FinishStep ==
  ASSUME IInv, NEW r \in Request, Finish(r)
  PROVE  IInv'
<1> DEFINE q == req[r]
           n == [q EXCEPT !.pc = "answered", !.code = "ok", !.seen = row[q.id]]
<1>1. q.pc = "committed"
  BY DEF Finish
<1>2. q \in Active /\ GoodSlot(q, row[q.id]) /\ row[q.id] \in Row
  BY <1>1, BusySlot
<1>3. n \in Active /\ GoodSlot(n, row[n.id])
  BY <1>2 DEF Active, Codes, GoodSlot
<1> QED BY <1>3, SlotStep DEF Finish

LEMMA CrashStep ==
  ASSUME IInv, Crash
  PROVE  IInv'
<1>1. TypeOK' /\ RowsGood' /\ SlotsGood'
  BY DEF Crash, IInv, TypeOK, RowsGood, SlotsGood
<1> QED BY <1>1 DEF IInv

-----------------------------------------------------------------------------
(* Every step of every request, and a crash, keeps the invariant. *)
LEMMA NextIInv == IInv /\ [Next]_vars => IInv'
<1> SUFFICES ASSUME IInv, [Next]_vars PROVE IInv'
  OBVIOUS
<1>1. ASSUME NEW r \in Request, Arrive(r) PROVE IInv'
  <2> PICK s \in Scenario, u \in User :
         \/ \E i \in Input : Create(r, s, u, i)
         \/ \E k \in Key : LoadSimulate(r, s, u, k)
         \/ \E to \in RequestableStates : LoadTransition(r, s, u, to)
         \/ LoadReplay(r, s, u)
    BY <1>1 DEF Arrive
  <2>1. CASE \E i \in Input : Create(r, s, u, i)
    BY <2>1, CreateStep
  <2>2. CASE \E k \in Key : LoadSimulate(r, s, u, k)
    BY <2>2, LoadSimulateStep
  <2>3. CASE \E to \in RequestableStates : LoadTransition(r, s, u, to)
    BY <2>3, LoadTransitionStep
  <2>4. CASE LoadReplay(r, s, u)
    BY <2>4, LoadReplayStep
  <2> QED BY <2>1, <2>2, <2>3, <2>4
<1>2. ASSUME NEW r \in Request, Advance(r) PROVE IInv'
  <2>1. CASE CheckKey(r)
    BY <2>1, CheckKeyStep
  <2>2. CASE CommitSimulate(r)
    BY <2>2, CommitSimulateStep
  <2>3. CASE CommitTransition(r)
    BY <2>3, CommitTransitionStep
  <2>4. CASE CommitReplay(r)
    BY <2>4, CommitReplayStep
  <2>5. CASE Finish(r)
    BY <2>5, FinishStep
  <2>6. CASE Respond(r)
    BY <2>6, SlotStep DEF Respond
  <2> QED BY <1>2, <2>1, <2>2, <2>3, <2>4, <2>5, <2>6 DEF Advance
<1>3. ASSUME NEW r \in Request, StoreFails(r) PROVE IInv'
  BY <1>3, AnswerStep DEF StoreFails, Codes
<1>4. CASE Crash
  BY <1>4, CrashStep
<1>5. CASE UNCHANGED vars
  BY <1>5 DEF vars, IInv, TypeOK, RowsGood, SlotsGood
<1> QED BY <1>1, <1>2, <1>3, <1>4, <1>5 DEF Next

(* The inductive invariant holds in every reachable state. *)
THEOREM Invariance == Spec => []IInv
BY InitIInv, NextIInv, PTL DEF Spec

(* Every reachable state is well typed. *)
THEOREM TypeCorrect == Spec => []TypeOK
<1>1. IInv => TypeOK
  BY DEF IInv
<1> QED BY <1>1, Invariance, PTL

(* No scenario is verified by its creator or by a role that may not verify. *)
THEOREM ReviewersAreSeparate == Spec => []ReviewerSeparation
<1>1. IInv => ReviewerSeparation
  <2> SUFFICES ASSUME IInv, NEW s \in Scenario
               PROVE  /\ row[s].state = "verified" <=> row[s].verifiedBy # NoOne
                      /\ row[s].state = "verified" =>
                           /\ row[s].verifiedBy # row[s].createdBy
                           /\ May(row[s].verifiedBy, "scenario.verify")
    BY DEF ReviewerSeparation
  <2>1. CASE row[s] \in Row
    BY <2>1 DEF IInv, RowsGood, GoodRow
  <2>2. CASE row[s] = Absent
    BY <2>2 DEF Absent
  <2> QED BY <2>1, <2>2 DEF IInv, TypeOK
<1> QED BY <1>1, Invariance, PTL

(* Stored results are the outcome of the frozen input and no replay differs. *)
THEOREM ResultsAreReproducible == Spec => []ResultReproducible
<1>1. IInv => ResultReproducible
  <2> SUFFICES ASSUME IInv PROVE ResultReproducible
    OBVIOUS
  <2>1. ASSUME NEW s \in Scenario
        PROVE  LET computed == Exists(s) /\ row[s].result = Outcome[row[s].input]
               IN /\ row[s].state \notin {"absent", "draft"} => computed
                  /\ row[s].result # NoResult => computed
                  /\ row[s].replay => computed
    <3>1. CASE row[s] \in Row
      BY <2>1, <3>1, ExistsIsRow DEF IInv, RowsGood, GoodRow
    <3>2. CASE row[s] = Absent
      BY <3>2 DEF Absent
    <3> QED BY <3>1, <3>2 DEF IInv, TypeOK
  <2>2. \A r \in Request : req[r] # Idle => req[r].code # "replay_differs"
    BY DEF IInv, SlotsGood, GoodSlot
  <2> QED BY <2>1, <2>2 DEF ResultReproducible
<1> QED BY <1>1, Invariance, PTL

-----------------------------------------------------------------------------
\* What one transaction may do to a record that existed before it.
Frozen(old, new) ==
  /\ new.input = old.input
  /\ new.createdBy = old.createdBy
  /\ old.result # NoResult => new.result = old.result
  /\ old.state \in {"verified", "rollback"} =>
       new = [old EXCEPT !.replay = new.replay]

(* A simulation commits on a draft, which has the same input as the copy. *)
LEMMA SimulateFreezes ==
  ASSUME IInv, NEW r \in Request, CommitSimulate(r), row' # row
  PROVE  /\ row' = [row EXCEPT ![req[r].id] =
              Simulated(row[req[r].id], req[r].arg, Outcome[row[req[r].id].input])]
         /\ row[req[r].id].state = "draft"
         /\ Frozen(row[req[r].id], row'[req[r].id])
<1> DEFINE q == req[r]
           written == Simulated(row[q.id], q.arg, Outcome[q.seen.input])
<1>1. /\ q.id \in Scenario /\ GoodSlot(q, row[q.id]) /\ q.pc = "checked"
      /\ row[q.id] \in Row /\ GoodRow(row[q.id])
  BY BusySlot DEF CommitSimulate
<1>2. row' = [row EXCEPT ![q.id] = written] /\ row[q.id].state = "draft"
  BY DEF CommitSimulate, LostRace, Write, StillIn
<1>3. q.seen.input = row[q.id].input
  BY <1>1 DEF GoodSlot, SameOrigin
<1>4. Frozen(row[q.id], written)
  BY <1>1, <1>2, <1>3 DEF Frozen, Simulated, GoodRow, Row
<1>5. row'[q.id] = written
  BY <1>1, <1>2 DEF IInv, TypeOK
<1> QED BY <1>2, <1>3, <1>4, <1>5

(* A transition commits on a record that is neither a draft nor closed, and
   under the authority its target state needs. *)
LEMMA TransitionFreezes ==
  ASSUME IInv, NEW r \in Request, CommitTransition(r), row' # row
  PROVE  /\ row' = [row EXCEPT ![req[r].id] =
              Moved(row[req[r].id], req[r].by, req[r].arg)]
         /\ CanTransitionScenario(row[req[r].id].state, req[r].arg)
         /\ Frozen(row[req[r].id], row'[req[r].id])
<1> DEFINE q == req[r]
           written == Moved(row[q.id], q.by, q.arg)
<1>1. /\ q.id \in Scenario /\ GoodSlot(q, row[q.id])
      /\ q.pc = "loaded" /\ q.op = "transition" /\ row[q.id] \in Row
  BY BusySlot DEF CommitTransition
<1>2. row' = [row EXCEPT ![q.id] = written] /\ row[q.id].state = q.seen.state
  BY DEF CommitTransition, LostRace, Write, StillIn
<1>3. q.arg \in RequestableStates /\ CanTransitionScenario(q.seen.state, q.arg)
  BY <1>1 DEF GoodSlot, Cleared
<1>4. row[q.id].state \notin {"draft", "verified", "rollback"}
  BY <1>1, <1>2, <1>3, Successors DEF Row
<1>5. Frozen(row[q.id], written)
  BY <1>1, <1>4 DEF Frozen, Moved, Row
<1>6. row'[q.id] = written
  BY <1>1, <1>2 DEF IInv, TypeOK
<1> QED BY <1>2, <1>3, <1>5, <1>6

(* A replay changes the flag alone. *)
LEMMA ReplayFreezes ==
  ASSUME IInv, NEW r \in Request, CommitReplay(r)
  PROVE  \E flag \in BOOLEAN :
           row' = [row EXCEPT ![req[r].id] = [row[req[r].id] EXCEPT !.replay = flag]]
BY DEF CommitReplay, Write, Flagged

(* Every step that changes rows is one of the four transactions. *)
LEMMA WritingSteps ==
  ASSUME IInv, [Next]_vars, row' # row
  PROVE  \/ \E r \in Request, s \in Scenario, u \in User, i \in Input :
              Create(r, s, u, i)
         \/ \E r \in Request :
              CommitSimulate(r) \/ CommitTransition(r) \/ CommitReplay(r)
BY DEF Next, Arrive, Advance, StoreFails, Crash, LoadSimulate, LoadTransition,
       LoadReplay, CheckKey, Finish, Respond, vars

(* Input, creator and stored result of a scenario never change, and a verified
   or rolled-back one is closed but for its replay flag. *)
THEOREM EvidenceIsFrozen == Spec => EvidenceFrozen
<1> DEFINE Step == \A s \in Scenario : Exists(s) => Frozen(row[s], row'[s])
<1>1. ASSUME IInv, [Next]_vars PROVE Step
  <2> SUFFICES ASSUME NEW s \in Scenario, Exists(s)
               PROVE  Frozen(row[s], row'[s])
    OBVIOUS
  <2>0. row[s] \in Row /\ row \in [Scenario -> Row \cup {Absent}]
    BY <1>1, ExistsIsRow DEF IInv, TypeOK
  <2>1. CASE row' = row
    BY <2>0, <2>1 DEF Frozen, Row
  <2>2. ASSUME NEW r \in Request, NEW t \in Scenario, NEW u \in User,
               NEW i \in Input, Create(r, t, u, i)
        PROVE  Frozen(row[s], row'[s])
    <3>1. row'[s] = row[s]
      BY <2>0, <2>2 DEF Create, Write, Exists
    <3> QED BY <2>0, <3>1 DEF Frozen, Row
  <2>3. ASSUME NEW r \in Request, row' # row,
               CommitSimulate(r) \/ CommitTransition(r) \/ CommitReplay(r)
        PROVE  Frozen(row[s], row'[s])
    <3>1. CASE s # req[r].id
      <4>1. row'[s] = row[s]
        BY <1>1, <2>0, <2>3, <3>1, SimulateFreezes, TransitionFreezes, ReplayFreezes
      <4> QED BY <2>0, <4>1 DEF Frozen, Row
    <3>2. CASE s = req[r].id
      <4>1. CASE CommitReplay(r)
        <5>1. PICK flag \in BOOLEAN : row' = [row EXCEPT ![req[r].id] =
                                     [row[req[r].id] EXCEPT !.replay = flag]]
          BY <1>1, <4>1, ReplayFreezes
        <5>2. row'[s] = [row[s] EXCEPT !.replay = flag]
          BY <2>0, <3>2, <5>1
        <5> QED BY <2>0, <5>2 DEF Frozen, Row
      <4> QED BY <1>1, <2>3, <3>2, <4>1, SimulateFreezes, TransitionFreezes
    <3> QED BY <3>1, <3>2
  <2> QED BY <1>1, <2>1, <2>2, <2>3, WritingSteps
<1>2. Step =>
       \A s \in Scenario : Exists(s) =>
         /\ row'[s].input = row[s].input
         /\ row'[s].createdBy = row[s].createdBy
         /\ row[s].result # NoResult => row'[s].result = row[s].result
         /\ row[s].state \in {"verified", "rollback"} =>
              row'[s] = [row[s] EXCEPT !.replay = row'[s].replay]
  BY DEF Frozen
<1> QED BY <1>1, <1>2, Invariance, PTL DEF Spec, EvidenceFrozen

-----------------------------------------------------------------------------
(* The abstract specification consults the same tables. *)
LEMMA SameRules ==
  /\ \A u, p : Lifecycle!May(u, p) <=> May(u, p)
  /\ Lifecycle!Steward = Steward
  /\ Lifecycle!ScenarioStates = ScenarioStates
  /\ Lifecycle!RequestableStates = RequestableStates
  /\ \A from, to : Lifecycle!CanTransitionScenario(from, to)
                     <=> CanTransitionScenario(from, to)
<1>1. Lifecycle!Granted = Granted
  BY DEF Lifecycle!Granted, Granted, Lifecycle!Permissions, Permissions
<1>2. Lifecycle!ScenarioStates = ScenarioStates
  BY DEF Lifecycle!ScenarioStates, ScenarioStates
<1>3. Lifecycle!ScenarioSuccessors = ScenarioSuccessors
  BY <1>2 DEF Lifecycle!ScenarioSuccessors, ScenarioSuccessors
<1>4. \A u, p : Lifecycle!May(u, p) <=> May(u, p)
  BY <1>1 DEF Lifecycle!May, May, Lifecycle!HasPermission, HasPermission
<1>5. \A from, to : Lifecycle!CanTransitionScenario(from, to)
                     <=> CanTransitionScenario(from, to)
  BY <1>3 DEF Lifecycle!CanTransitionScenario, CanTransitionScenario
<1>6. Lifecycle!Steward = Steward
  BY DEF Lifecycle!Steward, Steward
<1>7. Lifecycle!RequestableStates = RequestableStates
  BY <1>2 DEF Lifecycle!RequestableStates, RequestableStates
<1> QED BY <1>2, <1>4, <1>5, <1>6, <1>7

(* An existing record is never the abstract blank. *)
LEMMA ExistsInLife ==
  ASSUME TypeOK, NEW s \in Scenario
  PROVE  Lifecycle!Exists(s) <=> Exists(s)
<1>1. Life[s] = ViewOf(row[s])
  BY DEF Life
<1>2. CASE Exists(s)
  BY <1>1, <1>2 DEF Lifecycle!Exists, Exists, ViewOf, Absent
<1>3. CASE ~Exists(s)
  BY <1>1, <1>3, ExistsIsRow DEF Lifecycle!Exists, ViewOf
<1> QED BY <1>2, <1>3

(* Writing one record is writing one entry of the abstract record. *)
LEMMA LifeUpdate ==
  ASSUME NEW s \in Scenario, NEW written,
         row \in [Scenario -> Row \cup {Absent}],
         row' = [row EXCEPT ![s] = written]
  PROVE  /\ Life' = [Life EXCEPT ![s] = ViewOf(written)]
         /\ Life[s] = ViewOf(row[s])
BY DEF Life

(* Rewriting the state and one more field of an abstract record. *)
LEMMA StateAndResult ==
  ASSUME NEW scenario, NEW x, NEW y
  PROVE  [ViewOf(scenario) EXCEPT !.state = x, !.result = y] =
           [state |-> x, createdBy |-> scenario.createdBy,
            verifiedBy |-> scenario.verifiedBy, input |-> scenario.input,
            result |-> y]
<1> DEFINE moved == [state |-> x, createdBy |-> scenario.createdBy,
                     verifiedBy |-> scenario.verifiedBy,
                     input |-> scenario.input, result |-> scenario.result]
<1>1. [ViewOf(scenario) EXCEPT !.state = x] = moved
  BY DEF ViewOf
<1>2. [moved EXCEPT !.result = y] =
        [state |-> x, createdBy |-> scenario.createdBy,
         verifiedBy |-> scenario.verifiedBy, input |-> scenario.input,
         result |-> y]
  OBVIOUS
<1> QED BY <1>1, <1>2

LEMMA StateAndReviewer ==
  ASSUME NEW scenario, NEW x, NEW y
  PROVE  [ViewOf(scenario) EXCEPT !.state = x, !.verifiedBy = y] =
           [state |-> x, createdBy |-> scenario.createdBy, verifiedBy |-> y,
            input |-> scenario.input, result |-> scenario.result]
<1> DEFINE moved == [state |-> x, createdBy |-> scenario.createdBy,
                     verifiedBy |-> scenario.verifiedBy,
                     input |-> scenario.input, result |-> scenario.result]
<1>1. [ViewOf(scenario) EXCEPT !.state = x] = moved
  BY DEF ViewOf
<1>2. [moved EXCEPT !.verifiedBy = y] =
        [state |-> x, createdBy |-> scenario.createdBy, verifiedBy |-> y,
         input |-> scenario.input, result |-> scenario.result]
  OBVIOUS
<1> QED BY <1>1, <1>2

(* The seeded database is the abstract initial state. *)
LEMMA InitRefines == Init => Lifecycle!Init
BY DEF Init, Lifecycle!Init, Life, SeededLife

LEMMA CreateRefines ==
  ASSUME IInv, NEW r \in Request, NEW s \in Scenario, NEW u \in User,
         NEW i \in Input, Create(r, s, u, i), row' # row
  PROVE  Lifecycle!Propose(s, u, i)
<1>1. /\ row' = [row EXCEPT ![s] = Draft(u, i)] /\ ~InputTaken(s, i)
      /\ May(u, "scenario.write") /\ ~Exists(s)
  BY DEF Create, Write
<1>2. ViewOf(Draft(u, i)) =
        [state |-> "draft", createdBy |-> u, verifiedBy |-> NoOne,
         input |-> i, result |-> NoResult]
  BY DEF ViewOf, Draft, Absent
<1>3. Life' = [Life EXCEPT ![s] =
        [state |-> "draft", createdBy |-> u, verifiedBy |-> NoOne,
         input |-> i, result |-> NoResult]]
  BY <1>1, <1>2, LifeUpdate DEF IInv, TypeOK
<1>4. ~Lifecycle!Exists(s)
  BY <1>1, ExistsInLife DEF IInv
<1>5. ASSUME NEW t \in Scenario, Lifecycle!Exists(t) PROVE Life[t].input # i
  <2>1. Exists(t) /\ t # s
    BY <1>1, <1>5, ExistsInLife DEF IInv
  <2>2. row[t].input # i
    BY <1>1, <2>1 DEF InputTaken
  <2> QED BY <2>2 DEF Life, ViewOf
<1> QED BY <1>1, <1>3, <1>4, <1>5, SameRules DEF Lifecycle!Propose

(* The authority checked on the copy is the authority on the record. *)
LEMMA ManagesInLife ==
  ASSUME NEW s \in Scenario, NEW u \in User, NEW copy,
         SameOrigin(copy, row[s]), RequireOwnership(u, copy)
  PROVE  Lifecycle!Manages(u, s)
BY SameRules DEF Lifecycle!Manages, Life, ViewOf, SameOrigin, RequireOwnership

LEMMA SimulateRefines ==
  ASSUME IInv, NEW r \in Request, CommitSimulate(r), row' # row
  PROVE  Lifecycle!Run(req[r].id, req[r].by)
<1> DEFINE q == req[r]
           s == q.id
           written == Simulated(row[s], q.arg, Outcome[row[s].input])
<1>1. /\ s \in Scenario /\ q.by \in User /\ GoodSlot(q, row[s])
      /\ q.pc = "checked" /\ row[s] \in Row
  BY BusySlot DEF CommitSimulate
<1>2. q.op = "simulate" /\ Cleared(q) /\ SameOrigin(q.seen, row[s])
  BY <1>1 DEF GoodSlot
<1>3. row' = [row EXCEPT ![s] = written] /\ row[s].state = "draft"
  BY SimulateFreezes
<1>4. /\ Life' = [Life EXCEPT ![s] = ViewOf(written)]
      /\ Life[s] = ViewOf(row[s])
  BY <1>1, <1>3, LifeUpdate DEF IInv, TypeOK
<1>5. ViewOf(written) = [ViewOf(row[s]) EXCEPT !.state = "simulated",
                             !.result = Outcome[ViewOf(row[s]).input]]
  <2>1. /\ written.state = "simulated"
        /\ written.result = Outcome[row[s].input]
        /\ written.createdBy = row[s].createdBy
        /\ written.verifiedBy = row[s].verifiedBy
        /\ written.input = row[s].input
    BY <1>1 DEF Simulated, Row
  <2>2. ViewOf(written) =
          [state |-> "simulated", createdBy |-> row[s].createdBy,
           verifiedBy |-> row[s].verifiedBy, input |-> row[s].input,
           result |-> Outcome[row[s].input]]
    BY <2>1 DEF ViewOf
  <2>3. ViewOf(row[s]).input = row[s].input
    BY DEF ViewOf
  <2> DEFINE computed == Outcome[row[s].input]
  <2>4. [ViewOf(row[s]) EXCEPT !.state = "simulated", !.result = computed] =
          [state |-> "simulated", createdBy |-> row[s].createdBy,
           verifiedBy |-> row[s].verifiedBy, input |-> row[s].input,
           result |-> computed]
    <3> HIDE DEF computed
    <3> QED BY StateAndResult
  <2> QED BY <2>2, <2>3, <2>4
<1>6. Life' = [Life EXCEPT ![s].state = "simulated",
                           ![s].result = Outcome[Life[s].input]]
  BY <1>1, <1>4, <1>5 DEF Life
<1>7. Lifecycle!May(q.by, "scenario.run") /\ Lifecycle!Manages(q.by, s)
  BY <1>1, <1>2, ManagesInLife, SameRules DEF Cleared
<1>8. Lifecycle!Exists(s)
  BY <1>1, ExistsIsRow, ExistsInLife DEF IInv
<1>9. Life[s].state = "draft"
  BY <1>3, <1>4 DEF ViewOf
<1> QED BY <1>6, <1>7, <1>8, <1>9 DEF Lifecycle!Run

LEMMA TransitionRefines ==
  ASSUME IInv, NEW r \in Request, CommitTransition(r), row' # row
  PROVE  \/ Lifecycle!Move(req[r].id, req[r].by, req[r].arg)
         \/ Lifecycle!Verify(req[r].id, req[r].by)
<1> DEFINE q == req[r]
           s == q.id
           written == Moved(row[s], q.by, q.arg)
<1>1. /\ s \in Scenario /\ q.by \in User /\ GoodSlot(q, row[s])
      /\ q.pc = "loaded" /\ q.op = "transition" /\ row[s] \in Row
  BY BusySlot DEF CommitTransition
<1>0. /\ written.state = q.arg
      /\ written.verifiedBy =
           IF q.arg = "verified" THEN q.by ELSE row[s].verifiedBy
      /\ written.createdBy = row[s].createdBy
      /\ written.input = row[s].input
      /\ written.result = row[s].result
  BY <1>1 DEF Moved, Row
<1>2. Cleared(q) /\ SameOrigin(q.seen, row[s])
  BY <1>1 DEF GoodSlot
<1>3. /\ row' = [row EXCEPT ![s] = written]
      /\ CanTransitionScenario(row[s].state, q.arg)
  BY TransitionFreezes
<1>4. /\ Life' = [Life EXCEPT ![s] = ViewOf(written)]
      /\ Life[s] = ViewOf(row[s])
  BY <1>1, <1>3, LifeUpdate DEF IInv, TypeOK
<1>5. Lifecycle!Exists(s)
  BY <1>1, ExistsIsRow, ExistsInLife DEF IInv
<1>6. CanTransitionScenario(Life[s].state, q.arg)
  BY <1>3, <1>4 DEF ViewOf
<1>7. CASE q.arg = "verified"
  <2>1. ViewOf(written) = [ViewOf(row[s]) EXCEPT !.state = "verified",
                                                 !.verifiedBy = q.by]
    <3>1. ViewOf(written) =
            [state |-> "verified", createdBy |-> row[s].createdBy,
             verifiedBy |-> q.by, input |-> row[s].input,
             result |-> row[s].result]
      BY <1>0, <1>7 DEF ViewOf
    <3>2. [ViewOf(row[s]) EXCEPT !.state = "verified", !.verifiedBy = q.by] =
            [state |-> "verified", createdBy |-> row[s].createdBy,
             verifiedBy |-> q.by, input |-> row[s].input,
             result |-> row[s].result]
      BY StateAndReviewer
    <3> QED BY <3>1, <3>2
  <2>2. Life' = [Life EXCEPT ![s].state = "verified", ![s].verifiedBy = q.by]
    BY <1>1, <1>4, <2>1 DEF Life
  <2>3. Lifecycle!May(q.by, "scenario.verify") /\ Life[s].createdBy # q.by
    BY <1>1, <1>2, <1>4, <1>7, SameRules
       DEF Cleared, Needed, ReviewerSeparated, SameOrigin, ViewOf
  <2> QED BY <1>5, <1>6, <1>7, <2>2, <2>3, SameRules DEF Lifecycle!Verify
<1>8. CASE q.arg # "verified"
  <2>1. ViewOf(written) = [ViewOf(row[s]) EXCEPT !.state = q.arg]
    BY <1>0, <1>8 DEF ViewOf
  <2>2. Life' = [Life EXCEPT ![s].state = q.arg]
    BY <1>1, <1>4, <2>1 DEF Life
  <2>3. /\ Lifecycle!May(q.by, "scenario.write")
        /\ q.arg \in RequestableStates \ {"verified"}
        /\ RequireOwnership(q.by, q.seen)
    BY <1>1, <1>2, <1>8, SameRules DEF Cleared, Needed
  <2>4. Lifecycle!Manages(q.by, s)
    BY <1>1, <1>2, <2>3, ManagesInLife
  <2> QED BY <1>5, <1>6, <2>2, <2>3, <2>4, SameRules DEF Lifecycle!Move
<1> QED BY <1>7, <1>8

LEMMA ReplayRefines ==
  ASSUME IInv, NEW r \in Request, CommitReplay(r)
  PROVE  Life' = Life
<1>1. req[r].id \in Scenario /\ row[req[r].id] \in Row
  BY BusySlot DEF CommitReplay
<1>2. PICK flag \in BOOLEAN : row' = [row EXCEPT ![req[r].id] =
                                     [row[req[r].id] EXCEPT !.replay = flag]]
  BY ReplayFreezes
<1>3. ViewOf([row[req[r].id] EXCEPT !.replay = flag]) = ViewOf(row[req[r].id])
  BY <1>1 DEF ViewOf, Row
<1> QED BY <1>1, <1>2, <1>3 DEF Life, IInv, TypeOK

(* Read-check-write by concurrent requests implements the atomic lifecycle. *)
THEOREM Refinement == Spec => Implements
<1>1. ASSUME IInv, [Next]_vars PROVE [Lifecycle!Next]_(Lifecycle!vars)
  <2>1. CASE row' = row
    BY <2>1 DEF Life, Lifecycle!vars
  <2>2. ASSUME row' # row, NEW r \in Request, NEW s \in Scenario,
               NEW u \in User, NEW i \in Input, Create(r, s, u, i)
        PROVE  [Lifecycle!Next]_(Lifecycle!vars)
    BY <1>1, <2>2, CreateRefines DEF Lifecycle!Next, Lifecycle!vars
  <2>3. ASSUME row' # row, NEW r \in Request, CommitSimulate(r)
        PROVE  [Lifecycle!Next]_(Lifecycle!vars)
    <3>1. req[r].id \in Scenario /\ req[r].by \in User
      BY <1>1, <2>3, BusySlot DEF CommitSimulate
    <3> QED BY <1>1, <2>3, <3>1, SimulateRefines DEF Lifecycle!Next, Lifecycle!vars
  <2>4. ASSUME row' # row, NEW r \in Request, CommitTransition(r)
        PROVE  [Lifecycle!Next]_(Lifecycle!vars)
    <3>1. /\ req[r].id \in Scenario /\ req[r].by \in User
          /\ GoodSlot(req[r], row[req[r].id])
          /\ req[r].pc = "loaded" /\ req[r].op = "transition"
      BY <1>1, <2>4, BusySlot DEF CommitTransition
    <3>2. req[r].arg \in ScenarioStates
      BY <3>1 DEF GoodSlot, Cleared, RequestableStates
    <3> QED BY <1>1, <2>4, <3>1, <3>2, TransitionRefines, SameRules
       DEF Lifecycle!Next, Lifecycle!vars
  <2>5. ASSUME NEW r \in Request, CommitReplay(r)
        PROVE  UNCHANGED Lifecycle!vars
    BY <1>1, <2>5, ReplayRefines DEF Lifecycle!vars
  <2> QED BY <1>1, <2>1, <2>2, <2>3, <2>4, <2>5, WritingSteps
<1> QED BY <1>1, InitRefines, Invariance, PTL DEF Spec, Implements, Lifecycle!Spec
-----------------------------------------------------------------------------
(***************************************************************************)
(* What the audit log of a scenario tells.  An entry holds the copy its    *)
(* request read, not the row it met: the invariant says how much the two   *)
(* have in common at the moment of the write, and what the log keeps of    *)
(* earlier keys.                                                           *)
(***************************************************************************)

\* The row and the entry that one transaction on scenario s leaves behind.
Wrote(s, e, written) ==
  /\ row' = [row EXCEPT ![s] = written]
  /\ trail' = [trail EXCEPT ![s] = Append(@, e)]

\* The writer of the entry had the right to the change it records.
Rightful(e, scenario) ==
  IF e.after.state = "verified" /\ e.before.state # "verified"
  THEN May(e.by, "scenario.verify") /\ e.by # scenario.createdBy
  ELSE /\ May(e.by, IF e.action \in {"simulate", "replay"} THEN "scenario.run"
                    ELSE "scenario.write")
       /\ RoleOf[e.by] \in Steward \/ e.by = scenario.createdBy

\* The entry begins where the row is and ends where the transaction leaves it.
Continues(s, e, written) ==
  /\ e.before.state = row[s].state /\ e.after.state = written.state
  /\ \/ e.action = "create" /\ e.before = Absent /\ e.after.state = "draft"
     \/ CanTransitionScenario(e.before.state, e.after.state)
  /\ written.key \in {row[s].key, e.after.key}
  /\ Moves(s) = {} => e.before.key = row[s].key

\* What the four writing actions have in common.
Fits(s, e, written) ==
  /\ e \in Entry /\ written \in Row
  /\ Exists(s) => written.createdBy = row[s].createdBy
  /\ Rightful(e, written)
  /\ written.key # NoKey => written.result # NoResult
  /\ row[s].result # NoResult => written.result # NoResult
  /\ IF e.action = "replay"
     THEN written.state = row[s].state /\ written.key = row[s].key
     ELSE Continues(s, e, written)

\* The part of TrailIsWalk that is about one scenario.
Walk(s) ==
  \A n \in Moves(s) :
    LET e == trail[s][n] IN
      /\ \/ e.action = "create" /\ e.before = Absent /\ e.after.state = "draft"
         \/ CanTransitionScenario(e.before.state, e.after.state)
      /\ \A m \in Moves(s) :
           m < n /\ (\A k \in Moves(s) : k <= m \/ n <= k)
             => trail[s][m].after.state = e.before.state
      /\ (\A k \in Moves(s) : k <= n) => e.after.state = row[s].state

\* Until the first change the log need not hold the key the row began with.
KeyLogged(s) ==
  \/ row[s].key = NoKey
  \/ Moves(s) = {}
  \/ \E n \in DOMAIN trail[s] :
       row[s].key \in {trail[s][n].before.key, trail[s][n].after.key}

LogGood(s) ==
  /\ Walk(s)
  /\ \A n \in DOMAIN trail[s] : Rightful(trail[s][n], row[s])
  /\ ~Exists(s) => trail[s] = <<>>
  /\ KeyLogged(s)
  /\ row[s].key # NoKey => row[s].result # NoResult

\* What a slot knows of keys and results.
SlotTold(q) ==
  /\ q.pc \in {"loaded", "checked"} /\ Moves(q.id) = {}
       => q.seen.key = row[q.id].key
  /\ q.op = "simulate" =>
       /\ q.pc = "committed" \/ q.code \in {"ok", "reused"}
            => q.arg \in KeysOf(q.id)
       /\ q.pc = "committed" => row[q.id].result # NoResult
       /\ q.code \in {"ok", "reused"} => q.seen.result = Outcome[q.seen.input]

LogsGood == \A s \in Scenario : LogGood(s)
SlotsTold == \A r \in Request : req[r] # Idle => SlotTold(req[r])

TrailInv == LogsGood /\ SlotsTold

-----------------------------------------------------------------------------
(* What appending an entry does to the log and the row. *)
LEMMA AppendedLog ==
  ASSUME TypeOK, NEW s \in Scenario, NEW e, NEW written, Wrote(s, e, written),
         e \in Entry
  PROVE  /\ row'[s] = written
         /\ \A t \in Scenario \ {s} : row'[t] = row[t] /\ trail'[t] = trail[t]
         /\ Len(trail[s]) \in Nat
         /\ DOMAIN trail[s] = 1..Len(trail[s])
         /\ DOMAIN trail'[s] = 1..(Len(trail[s]) + 1)
         /\ trail'[s][Len(trail[s]) + 1] = e
         /\ \A n \in DOMAIN trail[s] : trail'[s][n] = trail[s][n]
<1>1. trail[s] \in Seq(Entry) /\ trail'[s] = Append(trail[s], e)
  BY DEF TypeOK, Wrote
<1>2. row'[s] = written
  BY DEF TypeOK, Wrote
<1>3. \A t \in Scenario \ {s} : row'[t] = row[t] /\ trail'[t] = trail[t]
  BY DEF TypeOK, Wrote
<1> QED BY <1>1, <1>2, <1>3

(* The changes after the write: those before, and the new one unless it is a
   replay. *)
LEMMA AppendedMoves ==
  ASSUME TypeOK, NEW s \in Scenario, NEW e, NEW written, Wrote(s, e, written),
         e \in Entry
  PROVE  /\ \A t \in Scenario \ {s} : Moves(t)' = Moves(t)
         /\ Moves(s)' = IF e.action = "replay" THEN Moves(s)
                        ELSE Moves(s) \cup {Len(trail[s]) + 1}
         /\ \A n \in Moves(s) : /\ n \in DOMAIN trail[s]
                                /\ n \in Nat /\ n < Len(trail[s]) + 1
BY AppendedLog DEF Moves

(* The walk goes on: the new entry begins where the last change ended. *)
LEMMA WalkGoesOn ==
  ASSUME TypeOK, NEW s \in Scenario, NEW e, NEW written, Wrote(s, e, written),
         Fits(s, e, written), Walk(s)
  PROVE  Walk(s)'
<1> DEFINE last == Len(trail[s]) + 1
<1>1. e \in Entry
  BY DEF Fits
<1>2. /\ last \in Nat /\ trail'[s][last] = e /\ row'[s] = written
      /\ \A n \in Moves(s) : /\ n \in Nat /\ n < last
                             /\ trail'[s][n] = trail[s][n]
  BY <1>1, AppendedLog, AppendedMoves
<1>3. CASE e.action = "replay"
  <2>1. Moves(s)' = Moves(s) /\ row'[s].state = row[s].state
    BY <1>1, <1>2, <1>3, AppendedMoves DEF Fits
  <2> QED BY <1>2, <2>1 DEF Walk
<1>4. CASE e.action # "replay"
  <2>1. Moves(s)' = Moves(s) \cup {last}
    BY <1>1, <1>4, AppendedMoves
  <2>2. Continues(s, e, written)
    BY <1>4 DEF Fits
  <2> SUFFICES ASSUME NEW n \in Moves(s) \cup {last}
      PROVE
        /\ \/ /\ trail'[s][n].action = "create" /\ trail'[s][n].before = Absent
              /\ trail'[s][n].after.state = "draft"
           \/ CanTransitionScenario(trail'[s][n].before.state,
                                    trail'[s][n].after.state)
        /\ \A m \in Moves(s) \cup {last} :
             m < n /\ (\A k \in Moves(s) \cup {last} : k <= m \/ n <= k)
               => trail'[s][m].after.state = trail'[s][n].before.state
        /\ (\A k \in Moves(s) \cup {last} : k <= n)
             => trail'[s][n].after.state = row'[s].state
    BY <2>1 DEF Walk
  <2>3. CASE n \in Moves(s)
    <3>1. trail'[s][n] = trail[s][n] /\ n \in Nat /\ n < last
      BY <1>2, <2>3
    <3>2. ~\A k \in Moves(s) \cup {last} : k <= n
      BY <1>2, <3>1
    <3>3. \/ /\ trail'[s][n].action = "create" /\ trail'[s][n].before = Absent
             /\ trail'[s][n].after.state = "draft"
          \/ CanTransitionScenario(trail'[s][n].before.state,
                                   trail'[s][n].after.state)
      BY <1>2, <2>3, <3>1 DEF Walk
    <3>4. ASSUME NEW m \in Moves(s) \cup {last}, m < n,
                 \A k \in Moves(s) \cup {last} : k <= m \/ n <= k
          PROVE  trail'[s][m].after.state = trail'[s][n].before.state
      <4>1. m \in Moves(s) /\ trail'[s][m] = trail[s][m]
        BY <1>2, <3>1, <3>4
      <4> QED BY <1>2, <2>3, <3>1, <3>4, <4>1 DEF Walk
    <3> QED BY <3>2, <3>3, <3>4
  <2>4. CASE n = last
    <3>1. \A m \in Moves(s) :
            (\A k \in Moves(s) \cup {last} : k <= m \/ n <= k)
              => trail[s][m].after.state = row[s].state
      <4> SUFFICES ASSUME NEW m \in Moves(s),
                          \A k \in Moves(s) \cup {last} : k <= m \/ n <= k
                   PROVE  trail[s][m].after.state = row[s].state
        OBVIOUS
      <4>1. ASSUME NEW k \in Moves(s) PROVE k <= m
        <5>1. k \in Nat /\ k < n /\ n \in Nat
          BY <1>2, <2>4
        <5>2. ~(n <= k)
          BY <5>1
        <5> QED BY <5>2
      <4> QED BY <4>1 DEF Walk
    <3> QED BY <1>2, <2>2, <2>4, <3>1 DEF Continues
  <2> QED BY <2>3, <2>4
<1> QED BY <1>3, <1>4
(* No entry of the log loses its right by a write: the creator never changes,
   and where there was no row there was no entry. *)
LEMMA RightsStay ==
  ASSUME TypeOK, NEW s \in Scenario, NEW e, NEW written, Wrote(s, e, written),
         Fits(s, e, written), LogGood(s)
  PROVE  \A n \in DOMAIN trail'[s] : Rightful(trail'[s][n], row'[s])
<1> SUFFICES ASSUME NEW n \in DOMAIN trail'[s]
             PROVE  Rightful(trail'[s][n], written)
  BY AppendedLog DEF Fits
<1>1. CASE n \in DOMAIN trail[s]
  <2>1. trail'[s][n] = trail[s][n] /\ Rightful(trail[s][n], row[s])
    BY <1>1, AppendedLog DEF Fits, LogGood
  <2>2. Exists(s)
    BY <1>1 DEF LogGood
  <2> QED BY <2>1, <2>2 DEF Rightful, Fits
<1>2. CASE n \notin DOMAIN trail[s]
  <2>1. trail'[s][n] = e
    BY <1>2, AppendedLog DEF Fits
  <2> QED BY <2>1 DEF Fits
<1> QED BY <1>1, <1>2

\* The keys the entries of a scenario name.
LoggedKeys(s) ==
  UNION {{trail[s][n].before.key, trail[s][n].after.key} : n \in DOMAIN trail[s]}

(* No key leaves the record of a scenario, and the key of its row is in the log
   from the first change on. *)
LEMMA KeysStay ==
  ASSUME TypeOK, NEW s \in Scenario, NEW e, NEW written, Wrote(s, e, written),
         Fits(s, e, written), KeyLogged(s)
  PROVE  /\ KeyLogged(s)'
         /\ KeysOf(s) \subseteq KeysOf(s)'
         /\ written.key # NoKey => written.key \in KeysOf(s)'
<1>1. LoggedKeys(s)' = LoggedKeys(s) \cup {e.before.key, e.after.key}
  BY AppendedLog DEF Fits, LoggedKeys
<1>2. row'[s] = written
  BY AppendedLog DEF Fits
<1>3. KeysOf(s) = ({row[s].key} \cup LoggedKeys(s)) \ {NoKey}
  BY DEF KeysOf, LoggedKeys
<1>4. KeysOf(s)' = ({written.key} \cup LoggedKeys(s)') \ {NoKey}
  BY <1>2 DEF KeysOf, LoggedKeys
<1>5. KeyLogged(s) <=> row[s].key \in {NoKey} \cup LoggedKeys(s) \/ Moves(s) = {}
  BY DEF KeyLogged, LoggedKeys
<1>6. KeyLogged(s)' <=>
        written.key \in {NoKey} \cup LoggedKeys(s)' \/ Moves(s)' = {}
  BY <1>2 DEF KeyLogged, LoggedKeys
<1>7. CASE e.action = "replay"
  <2>1. written.key = row[s].key /\ Moves(s)' = Moves(s)
    BY <1>7, AppendedMoves DEF Fits
  <2> QED BY <2>1, <1>1, <1>3, <1>4, <1>5, <1>6
<1>8. CASE e.action # "replay"
  <2>1. /\ written.key \in {row[s].key, e.after.key}
        /\ Moves(s) = {} => e.before.key = row[s].key
    BY <1>8 DEF Fits, Continues
  <2>2. row[s].key \in {NoKey} \cup LoggedKeys(s)'
    BY <2>1, <1>1, <1>5
  <2> QED BY <2>1, <2>2, <1>1, <1>3, <1>4, <1>6
<1> QED BY <1>7, <1>8

(* A fitting write keeps every log good. *)
LEMMA LogsStayGood ==
  ASSUME TypeOK, LogsGood, NEW s \in Scenario, NEW e, NEW written,
         Wrote(s, e, written), Fits(s, e, written)
  PROVE  LogsGood'
<1> SUFFICES ASSUME NEW t \in Scenario PROVE LogGood(t)'
  BY DEF LogsGood
<1>1. CASE t = s
  <2>1. LogGood(s)
    BY DEF LogsGood
  <2>2. Walk(s)'
    BY <2>1, WalkGoesOn DEF LogGood
  <2>3. \A n \in DOMAIN trail'[s] : Rightful(trail'[s][n], row'[s])
    BY <2>1, RightsStay
  <2>4. KeyLogged(s)'
    BY <2>1, KeysStay DEF LogGood
  <2>5. row'[s] = written /\ written \in Row
    BY AppendedLog DEF Fits
  <2>6. Exists(s)'
    BY <2>5 DEF Exists, Row, ScenarioStates
  <2>7. row'[s].key # NoKey => row'[s].result # NoResult
    BY <2>5 DEF Fits
  <2> QED BY <1>1, <2>2, <2>3, <2>4, <2>6, <2>7 DEF LogGood
<1>2. CASE t # s
  <2>1. row'[t] = row[t] /\ trail'[t] = trail[t] /\ Moves(t)' = Moves(t)
    BY <1>2, AppendedLog, AppendedMoves DEF Fits
  <2>2. LogGood(t)
    BY DEF LogsGood
  <2> QED BY <2>1, <2>2 DEF LogGood, Walk, KeyLogged, Exists
<1> QED BY <1>1, <1>2

(* What another slot knows stays true through a fitting write. *)
LEMMA OthersStayTold ==
  ASSUME IInv, LogsGood, NEW s \in Scenario, NEW e, NEW written,
         Wrote(s, e, written), Fits(s, e, written),
         NEW q \in Active, SlotTold(q), q.pc # "answered" => row[q.id] \in Row
  PROVE  SlotTold(q)'
<1>1. q.id \in Scenario /\ s \in Scenario
  BY DEF Active
<1>2. TypeOK /\ e \in Entry
  BY DEF IInv, Fits
<1>3. CASE q.id # s
  <2>1. row'[q.id] = row[q.id] /\ trail'[q.id] = trail[q.id]
    BY <1>1, <1>2, <1>3, AppendedLog
  <2>2. Moves(q.id)' = Moves(q.id) /\ KeysOf(q.id)' = KeysOf(q.id)
    BY <2>1 DEF Moves, KeysOf
  <2> QED BY <2>1, <2>2 DEF SlotTold
<1>4. CASE q.id = s
  <2>1. row'[s] = written
    BY <1>2, AppendedLog
  <2>2. KeysOf(s) \subseteq KeysOf(s)'
    BY <1>2, KeysStay DEF LogsGood, LogGood
  <2>3. row[s].result # NoResult => row'[s].result # NoResult
    BY <2>1 DEF Fits
  <2>4. Moves(s)' = {} => Moves(s) = {} /\ row'[s].key = row[s].key
    BY <1>2, <2>1, AppendedMoves DEF Fits
  <2> QED BY <1>4, <2>2, <2>3, <2>4 DEF SlotTold
<1> QED BY <1>3, <1>4

(* A transaction that fits keeps the invariant if its own slot stays told. *)
LEMMA TransactionStep ==
  ASSUME IInv, TrailInv, NEW r \in Request, NEW s \in Scenario,
         NEW u, NEW action, NEW written, NEW before, NEW after,
         Write(s, u, action, written, before, after),
         Fits(s, [action |-> action, by |-> u, before |-> before, after |-> after],
              written),
         NEW n, req' = [req EXCEPT ![r] = n], SlotTold(n)'
  PROVE  TrailInv'
<1> DEFINE e == [action |-> action, by |-> u, before |-> before, after |-> after]
<1>1. Wrote(s, e, written) /\ Fits(s, e, written)
  BY DEF Write, Wrote
<1>2. LogsGood'
  BY <1>1, LogsStayGood DEF IInv, TrailInv
<1>3. SlotsTold'
  <2> SUFFICES ASSUME NEW x \in Request, req'[x] # Idle
               PROVE  SlotTold(req[x])'
    BY DEF SlotsTold
  <2>1. CASE x = r
    BY <2>1 DEF IInv, TypeOK
  <2>2. CASE x # r
    <3>1. req'[x] = req[x] /\ req[x] # Idle
      BY <2>2 DEF IInv, TypeOK
    <3>2. req[x] \in Active /\ SlotTold(req[x])
      BY <3>1 DEF IInv, TypeOK, TrailInv, SlotsTold
    <3>3. req[x].pc # "answered" => row[req[x].id] \in Row
      BY <3>1 DEF IInv, SlotsGood, GoodSlot
    <3> QED BY <1>1, <3>1, <3>2, <3>3, OthersStayTold DEF TrailInv
  <2> QED BY <2>1, <2>2
<1> QED BY <1>2, <1>3 DEF TrailInv

(* What a slot knows depends on the row and the log alone. *)
LEMMA SameRecordSameTold ==
  ASSUME UNCHANGED <<row, trail>>, NEW q, SlotTold(q)
  PROVE  SlotTold(q)'
<1>1. Moves(q.id)' = Moves(q.id) /\ KeysOf(q.id)' = KeysOf(q.id)
  BY DEF Moves, KeysOf
<1> QED BY <1>1 DEF SlotTold

(* A step of one slot alone keeps it if that slot is told. *)
LEMMA QuietStep ==
  ASSUME IInv, TrailInv, NEW r \in Request, UNCHANGED <<row, trail>>,
         NEW n, req' = [req EXCEPT ![r] = n], n = Idle \/ SlotTold(n)
  PROVE  TrailInv'
<1>1. LogsGood'
  BY DEF TrailInv, LogsGood, LogGood, Walk, Moves, KeyLogged, Exists
<1>2. SlotsTold'
  <2> SUFFICES ASSUME NEW x \in Request, req'[x] # Idle
               PROVE  SlotTold(req[x])'
    BY DEF SlotsTold
  <2>1. SlotTold(req'[x])
    BY DEF IInv, TypeOK, TrailInv, SlotsTold
  <2> QED BY <2>1, SameRecordSameTold
<1> QED BY <1>1, <1>2 DEF TrailInv
-----------------------------------------------------------------------------
(* The log is empty at first and the demonstration record has a result. *)
LEMMA InitTrail == Init => TrailInv
<1> SUFFICES ASSUME Init PROVE TrailInv
  OBVIOUS
<1>1. SlotsTold
  BY DEF Init, SlotsTold
<1>2. ASSUME NEW s \in Scenario PROVE LogGood(s)
  <2>1. trail[s] = <<>> /\ Moves(s) = {}
    BY DEF Init, Moves
  <2>2. row[s] = SeedRow \/ row[s] = Absent
    BY DEF Init
  <2>3. row[s].key # NoKey => row[s].result # NoResult
    BY <2>2, SeedAssumption, NullAssumption DEF SeedRow, Absent
  <2> QED BY <2>1, <2>3 DEF LogGood, Walk, KeyLogged
<1> QED BY <1>1, <1>2 DEF TrailInv, LogsGood

LEMMA CreateTrail ==
  ASSUME IInv, TrailInv, NEW r \in Request, NEW s \in Scenario, NEW u \in User,
         NEW i \in Input, Create(r, s, u, i)
  PROVE  TrailInv'
<1> DEFINE call == [pc |-> "committed", op |-> "create", id |-> s, by |-> u,
                    arg |-> "none", seen |-> Draft(u, i), code |-> "pending"]
           e == [action |-> "create", by |-> u, before |-> Absent,
                 after |-> Draft(u, i)]
<1>1. row[s] = Absent /\ May(u, "scenario.write")
  BY ExistsIsRow DEF Create, IInv
<1>2. Draft(u, i) \in Row
  BY DEF Draft, Absent, Row, ScenarioStates
<1>3. Fits(s, e, Draft(u, i))
  <2>1. e \in Entry
    BY <1>2 DEF Entry, Ops
  <2>2. Rightful(e, Draft(u, i)) /\ Continues(s, e, Draft(u, i))
    BY <1>1 DEF Rightful, Continues, Draft, Absent
  <2> QED BY <1>1, <1>2, <2>1, <2>2 DEF Fits, Exists, Draft, Absent
<1>4. CASE /\ Write(s, u, "create", Draft(u, i), Absent, Draft(u, i))
           /\ req' = [req EXCEPT ![r] = call]
  <2>1. SlotTold(call)'
    BY DEF SlotTold
  <2> QED BY <1>3, <1>4, <2>1, TransactionStep
<1>5. CASE /\ req' = [req EXCEPT ![r] =
                [call EXCEPT !.pc = "answered", !.code = "identical"]]
           /\ UNCHANGED <<row, trail>>
  <2> DEFINE refused == [call EXCEPT !.pc = "answered", !.code = "identical"]
  <2>1. SlotTold(refused)
    BY DEF SlotTold
  <2> QED BY <1>5, <2>1, QuietStep
<1> QED BY <1>4, <1>5 DEF Create

(* The copy of an admitted request is the row, so it shows the row's key. *)
LEMMA AdmitTrail ==
  ASSUME IInv, TrailInv, UNCHANGED <<row, trail>>,
         NEW r \in Request, NEW op, NEW s, NEW u, NEW arg,
         NEW verdict, verdict \notin {"ok", "reused"},
         Admit(r, op, s, u, arg, verdict)
  PROVE  TrailInv'
<1> DEFINE n == [pc |-> IF verdict = "pending" THEN "loaded" ELSE "answered",
                 op |-> op, id |-> s, by |-> u, arg |-> arg, seen |-> row[s],
                 code |-> verdict]
<1>1. SlotTold(n)
  BY DEF SlotTold
<1>2. req' = [req EXCEPT ![r] = n]
  BY DEF Admit
<1> QED BY <1>1, <1>2, QuietStep

LEMMA LoadTrail ==
  ASSUME IInv, TrailInv, NEW r \in Request, NEW s \in Scenario, NEW u \in User,
         \/ \E k \in Key : LoadSimulate(r, s, u, k)
         \/ \E to \in RequestableStates : LoadTransition(r, s, u, to)
         \/ LoadReplay(r, s, u)
  PROVE  TrailInv'
<1>1. CASE \E k \in Key : LoadSimulate(r, s, u, k)
  <2>1. SimulateVerdict(s, u) \notin {"ok", "reused"}
    BY DEF SimulateVerdict
  <2> QED BY <1>1, <2>1, AdmitTrail DEF LoadSimulate
<1>2. CASE \E to \in RequestableStates : LoadTransition(r, s, u, to)
  <2> PICK to \in RequestableStates : LoadTransition(r, s, u, to)
    BY <1>2
  <2>1. TransitionVerdict(s, u, to) \notin {"ok", "reused"}
    BY DEF TransitionVerdict
  <2> QED BY <2>1, AdmitTrail DEF LoadTransition
<1>3. CASE LoadReplay(r, s, u)
  <2>1. ReplayVerdict(s, u) \notin {"ok", "reused"}
    BY DEF ReplayVerdict
  <2> QED BY <1>3, <2>1, AdmitTrail DEF LoadReplay
<1> QED BY <1>1, <1>2, <1>3

(* An answer that is neither ok nor reused promises nothing. *)
LEMMA AnswerTrail ==
  ASSUME IInv, TrailInv, UNCHANGED <<row, trail>>, NEW r \in Request,
         req[r].pc \in {"loaded", "checked", "committed"},
         NEW code \in Codes \ {"ok", "reused"}, Answer(r, code)
  PROVE  TrailInv'
<1> DEFINE n == [req[r] EXCEPT !.pc = "answered", !.code = code]
<1>1. SlotTold(n)
  BY BusySlot DEF SlotTold, Active
<1>2. req' = [req EXCEPT ![r] = n]
  BY DEF Answer, IInv, TypeOK
<1> QED BY <1>1, <1>2, QuietStep

(* A busy slot, its row and what it was told. *)
LEMMA ToldSlot ==
  ASSUME IInv, TrailInv, NEW r \in Request,
         req[r].pc \in {"loaded", "checked", "committed"}
  PROVE  /\ req[r] \in Active /\ SlotTold(req[r])
         /\ req[r].id \in Scenario /\ LogGood(req[r].id)
         /\ row[req[r].id] \in Row /\ GoodRow(row[req[r].id])
         /\ req[r].pc # "committed" =>
              /\ req[r].seen \in Row
              /\ SameOrigin(req[r].seen, row[req[r].id]) /\ Cleared(req[r])
<1>1. req[r] # Idle
  BY DEF Idle
<1>2. /\ req[r] \in Active /\ req[r].id \in Scenario
      /\ row[req[r].id] \in Row /\ GoodRow(row[req[r].id])
      /\ GoodSlot(req[r], row[req[r].id])
  BY BusySlot
<1> QED BY <1>1, <1>2 DEF TrailInv, SlotsTold, LogsGood, GoodSlot

(* The row that holds the key is the request's own and was simulated. *)
LEMMA CheckKeyTrail ==
  ASSUME IInv, TrailInv, NEW r \in Request, CheckKey(r)
  PROVE  TrailInv'
<1> DEFINE q == req[r]
           prior == {s \in Scenario : Exists(s) /\ row[s].key = q.arg}
<1>1. q.pc = "loaded" /\ q.op = "simulate" /\ UNCHANGED <<row, trail>>
  BY DEF CheckKey
<1>2. /\ q \in Active /\ SlotTold(q) /\ q.id \in Scenario /\ LogGood(q.id)
      /\ row[q.id] \in Row /\ GoodRow(row[q.id]) /\ q.arg \in Key
  BY <1>1, ToldSlot DEF Cleared
<1>3. CASE \E code \in {"idempotency", "state_conflict"} : Answer(r, code)
  BY <1>1, <1>3, AnswerTrail DEF Codes
<1>4. CASE \E p \in prior :
             /\ BoundTo(q, p)
             /\ req' = [req EXCEPT ![r] =
                  [q EXCEPT !.pc = "answered", !.code = "reused", !.seen = row[p]]]
  <2> PICK p \in prior :
         /\ BoundTo(q, p)
         /\ req' = [req EXCEPT ![r] =
              [q EXCEPT !.pc = "answered", !.code = "reused", !.seen = row[p]]]
    BY <1>4
  <2> DEFINE n == [q EXCEPT !.pc = "answered", !.code = "reused", !.seen = row[p]]
  <2>1. p = q.id /\ row[p].key = q.arg /\ q.arg # NoKey
    BY <1>2, NullAssumption DEF BoundTo
  <2>2. q.arg \in KeysOf(q.id)
    BY <2>1 DEF KeysOf
  <2>3. row[p].result = Outcome[row[p].input]
    BY <1>2, <2>1 DEF LogGood, GoodRow
  <2>4. /\ n.pc = "answered" /\ n.id = q.id /\ n.arg = q.arg /\ n.seen = row[p]
    BY <1>2 DEF Active
  <2>5. SlotTold(n)
    BY <2>2, <2>3, <2>4 DEF SlotTold
  <2> QED BY <1>1, <2>5, QuietStep
<1>5. CASE req' = [req EXCEPT ![r].pc = "checked"]
  <2> DEFINE n == [q EXCEPT !.pc = "checked"]
  <2>1. /\ n.pc = "checked" /\ n.id = q.id /\ n.arg = q.arg /\ n.seen = q.seen
        /\ n.code = q.code /\ n.op = q.op
    BY <1>2 DEF Active
  <2>2. SlotTold(n)
    BY <1>1, <1>2, <2>1 DEF SlotTold
  <2>3. req' = [req EXCEPT ![r] = n]
    BY <1>5 DEF IInv, TypeOK
  <2> QED BY <1>1, <2>2, <2>3, QuietStep
<1> QED BY <1>3, <1>4, <1>5 DEF CheckKey

(* The copy was a draft and so is the row; its first key is in the entry. *)
LEMMA CommitSimulateTrail ==
  ASSUME IInv, TrailInv, NEW r \in Request, CommitSimulate(r)
  PROVE  TrailInv'
<1> DEFINE q == req[r]
           result == Outcome[q.seen.input]
           written == Simulated(row[q.id], q.arg, result)
           after == Simulated(q.seen, q.arg, result)
           e == [action |-> "simulate", by |-> q.by, before |-> q.seen,
                 after |-> after]
<1>1. q.pc = "checked"
  BY DEF CommitSimulate
<1>2. /\ q \in Active /\ SlotTold(q) /\ q.id \in Scenario /\ LogGood(q.id)
      /\ q.by \in User /\ row[q.id] \in Row /\ q.seen \in Row
      /\ SameOrigin(q.seen, row[q.id])
  BY <1>1, ToldSlot DEF Active
<1>3. /\ q.op = "simulate" /\ q.seen.state = "draft" /\ q.arg \in Key
      /\ May(q.by, "scenario.run") /\ RequireOwnership(q.by, q.seen)
  BY <1>1, ToldSlot, BusySlot DEF GoodSlot, Cleared
<1>4. CASE /\ StillIn(q.id, "draft")
           /\ Write(q.id, q.by, "simulate", written, q.seen, after)
           /\ req' = [req EXCEPT ![r].pc = "committed"]
  <2>1. result \in {Outcome[i] : i \in Input} /\ result # NoResult
    BY <1>2, NullAssumption DEF Row
  <2>2. written \in Row /\ after \in Row
    BY <1>2, <1>3, <2>1 DEF Row, Simulated, ScenarioStates
  <2>3. /\ written.state = "simulated" /\ written.key = q.arg
        /\ written.result = result /\ written.createdBy = row[q.id].createdBy
        /\ after.state = "simulated" /\ after.key = q.arg
    BY <1>2 DEF Row, Simulated
  <2>4. e \in Entry
    BY <1>2, <2>2 DEF Entry, Ops
  <2>5. Rightful(e, written)
    BY <1>2, <1>3, <2>3
       DEF Rightful, RequireOwnership, SameOrigin
  <2>6. Continues(q.id, e, written)
    <3>1. CanTransitionScenario("draft", "simulated")
      BY DEF CanTransitionScenario, ScenarioSuccessors, ScenarioStates
    <3>2. Moves(q.id) = {} => q.seen.key = row[q.id].key
      BY <1>1, <1>2 DEF SlotTold
    <3> QED BY <1>3, <1>4, <2>3, <3>1, <3>2 DEF Continues, StillIn
  <2>7. Fits(q.id, e, written)
    BY <2>1, <2>2, <2>3, <2>4, <2>5, <2>6 DEF Fits
  <2>8. Wrote(q.id, e, written) /\ TypeOK
    BY <1>4 DEF Write, Wrote, IInv
  <2> PICK n : n = [q EXCEPT !.pc = "committed"]
    OBVIOUS
  <2>9. n.id = q.id /\ n.arg = q.arg
    BY <1>2 DEF Active
  <2>10. n.arg \in KeysOf(n.id)'
    BY <1>2, <1>3, <2>3, <2>7, <2>8, <2>9, KeysStay, NullAssumption DEF LogGood
  <2>11. row'[n.id].result # NoResult
    BY <2>1, <2>3, <2>4, <2>8, <2>9, <1>2, AppendedLog
  <2>12. SlotTold(n)'
    <3>1. n.pc = "committed" /\ n.seen = q.seen /\ n.code = q.code
      BY <1>2 DEF Active
    <3>2. n.code \in {"ok", "reused"} => n.seen.result = Outcome[n.seen.input]
      BY <1>2, <1>3, <3>1 DEF SlotTold
    <3> QED BY <2>10, <2>11, <3>1, <3>2 DEF SlotTold
  <2>13. req' = [req EXCEPT ![r] = n]
    BY <1>4 DEF IInv, TypeOK
  <2> HIDE DEF after, written, result
  <2> QED BY <1>2, <1>4, <2>7, <2>12, <2>13, TransactionStep
<1>5. CASE \E code \in {"internal", "conflict"} :
             Answer(r, code) /\ UNCHANGED <<row, trail>>
  BY <1>1, <1>5, AnswerTrail DEF Codes
<1> QED BY <1>4, <1>5 DEF CommitSimulate, LostRace

(* A slot of another operation than simulate knows only the key of its copy. *)
LEMMA CommittedTold ==
  ASSUME NEW q \in Active, q.op # "simulate",
         NEW n, n = [q EXCEPT !.pc = "committed"]
  PROVE  SlotTold(n)'
BY DEF SlotTold, Active

(* The row is where the copy was, and rights are about its creator. *)
LEMMA CommitTransitionTrail ==
  ASSUME IInv, TrailInv, NEW r \in Request, CommitTransition(r)
  PROVE  TrailInv'
<1> DEFINE q == req[r]
           written == Moved(row[q.id], q.by, q.arg)
           after == Moved(q.seen, q.by, q.arg)
           e == [action |-> "transition", by |-> q.by, before |-> q.seen,
                 after |-> after]
<1>1. q.pc = "loaded" /\ q.op = "transition"
  BY DEF CommitTransition
<1>2. /\ q \in Active /\ SlotTold(q) /\ q.id \in Scenario /\ LogGood(q.id)
      /\ q.by \in User /\ row[q.id] \in Row /\ q.seen \in Row
      /\ SameOrigin(q.seen, row[q.id])
  BY <1>1, ToldSlot DEF Active
<1>3. /\ q.arg \in RequestableStates /\ May(q.by, Needed(q.arg))
      /\ CanTransitionScenario(q.seen.state, q.arg)
      /\ IF q.arg = "verified" THEN ReviewerSeparated(q.by, q.seen)
                               ELSE RequireOwnership(q.by, q.seen)
  BY <1>1, ToldSlot DEF Cleared
<1>4. CASE /\ StillIn(q.id, q.seen.state)
           /\ Write(q.id, q.by, "transition", written, q.seen, after)
           /\ req' = [req EXCEPT ![r].pc = "committed"]
  <2>1. q.seen.state # "verified"
    BY <1>2, <1>3, Successors DEF Row
  <2>2. written \in Row /\ after \in Row
    BY <1>2, <1>3 DEF Row, Moved, RequestableStates
  <2>3. /\ written.state = q.arg /\ written.key = row[q.id].key
        /\ written.result = row[q.id].result
        /\ written.createdBy = row[q.id].createdBy /\ after.state = q.arg
    BY <1>2 DEF Row, Moved
  <2>4. e \in Entry
    BY <1>2, <2>2 DEF Entry, Ops
  <2>5. Rightful(e, written)
    <3>1. CASE q.arg = "verified"
      BY <1>2, <1>3, <2>1, <2>3, <3>1
         DEF Rightful, Needed, ReviewerSeparated, SameOrigin
    <3>2. CASE q.arg # "verified"
      BY <1>2, <1>3, <2>3, <3>2
         DEF Rightful, Needed, RequireOwnership, SameOrigin
    <3> QED BY <3>1, <3>2
  <2>6. Continues(q.id, e, written)
    BY <1>1, <1>2, <1>3, <1>4, <2>3 DEF Continues, StillIn, SlotTold
  <2>7. Fits(q.id, e, written)
    BY <1>2, <2>2, <2>3, <2>4, <2>5, <2>6 DEF Fits, LogGood
  <2> PICK n : n = [q EXCEPT !.pc = "committed"]
    OBVIOUS
  <2>8. SlotTold(n)'
    BY <1>1, <1>2, CommittedTold
  <2>9. req' = [req EXCEPT ![r] = n]
    BY <1>4 DEF IInv, TypeOK
  <2> HIDE DEF after, written
  <2> QED BY <1>2, <1>4, <2>7, <2>8, <2>9, TransactionStep
<1>5. CASE Answer(r, "conflict") /\ UNCHANGED <<row, trail>>
  BY <1>1, <1>5, AnswerTrail DEF Codes
<1> QED BY <1>4, <1>5 DEF CommitTransition, LostRace

(* A replay moves neither state nor key, whatever copy it logs. *)
LEMMA CommitReplayTrail ==
  ASSUME IInv, TrailInv, NEW r \in Request, CommitReplay(r)
  PROVE  TrailInv'
<1> DEFINE q == req[r]
           passed == q.seen.result = Outcome[q.seen.input]
           written == [row[q.id] EXCEPT !.replay = passed]
           after == [q.seen EXCEPT !.replay = passed]
           e == [action |-> "replay", by |-> q.by, before |-> q.seen,
                 after |-> after]
<1>1. q.pc = "loaded" /\ q.op = "replay"
  BY DEF CommitReplay
<1>2. /\ q \in Active /\ SlotTold(q) /\ q.id \in Scenario /\ LogGood(q.id)
      /\ q.by \in User /\ row[q.id] \in Row /\ q.seen \in Row
      /\ SameOrigin(q.seen, row[q.id])
  BY <1>1, ToldSlot DEF Active
<1>3. /\ q.seen.state # "draft"
      /\ May(q.by, "scenario.run") /\ RequireOwnership(q.by, q.seen)
  BY <1>1, ToldSlot DEF Cleared
<1>4. passed
  BY <1>1, <1>3, BusySlot DEF GoodSlot, GoodRow
<1>5. written \in Row /\ after \in Row
  BY <1>2 DEF Row
<1>6. /\ written.state = row[q.id].state /\ written.key = row[q.id].key
      /\ written.result = row[q.id].result
      /\ written.createdBy = row[q.id].createdBy
      /\ after.state = q.seen.state
  BY <1>2 DEF Row
<1>7. e \in Entry
  BY <1>2, <1>5 DEF Entry, Ops
<1>8. Rightful(e, written)
  BY <1>2, <1>3, <1>6 DEF Rightful, RequireOwnership, SameOrigin
<1>9. Fits(q.id, e, written)
  BY <1>2, <1>5, <1>6, <1>7, <1>8 DEF Fits, LogGood
<1> PICK n : n = [q EXCEPT !.pc = "committed"]
  OBVIOUS
<1>10. SlotTold(n)'
  BY <1>1, <1>2, CommittedTold
<1>11. req' = [req EXCEPT ![r] = n]
  BY <1>4 DEF CommitReplay, IInv, TypeOK
<1>12. Write(q.id, q.by, "replay", written, q.seen, after)
  BY DEF CommitReplay, Flagged
<1> HIDE DEF after, written, passed
<1> QED BY <1>2, <1>9, <1>10, <1>11, <1>12, TransactionStep

(* The record read back has the result that the commit stored. *)
LEMMA FinishTrail ==
  ASSUME IInv, TrailInv, NEW r \in Request, Finish(r)
  PROVE  TrailInv'
<1> DEFINE q == req[r]
           n == [q EXCEPT !.pc = "answered", !.code = "ok", !.seen = row[q.id]]
<1>1. q.pc = "committed"
  BY DEF Finish
<1>2. /\ q \in Active /\ SlotTold(q) /\ GoodRow(row[q.id])
  BY <1>1, ToldSlot
<1>3. /\ n.pc = "answered" /\ n.op = q.op /\ n.id = q.id /\ n.arg = q.arg
      /\ n.seen = row[q.id]
  BY <1>2 DEF Active
<1>4. SlotTold(n)
  BY <1>1, <1>2, <1>3 DEF SlotTold, GoodRow
<1> QED BY <1>4, QuietStep DEF Finish

-----------------------------------------------------------------------------
(* Every step keeps the invariant of the log. *)
LEMMA NextTrail == IInv /\ TrailInv /\ [Next]_vars => TrailInv'
<1> SUFFICES ASSUME IInv, TrailInv, [Next]_vars PROVE TrailInv'
  OBVIOUS
<1>1. ASSUME NEW r \in Request, Arrive(r) PROVE TrailInv'
  BY <1>1, CreateTrail, LoadTrail DEF Arrive
<1>2. ASSUME NEW r \in Request, Advance(r) PROVE TrailInv'
  <2>1. CASE CheckKey(r)
    BY <2>1, CheckKeyTrail
  <2>2. CASE CommitSimulate(r)
    BY <2>2, CommitSimulateTrail
  <2>3. CASE CommitTransition(r)
    BY <2>3, CommitTransitionTrail
  <2>4. CASE CommitReplay(r)
    BY <2>4, CommitReplayTrail
  <2>5. CASE Finish(r)
    BY <2>5, FinishTrail
  <2>6. CASE Respond(r)
    BY <2>6, QuietStep DEF Respond
  <2> QED BY <1>2, <2>1, <2>2, <2>3, <2>4, <2>5, <2>6 DEF Advance
<1>3. ASSUME NEW r \in Request, StoreFails(r) PROVE TrailInv'
  BY <1>3, AnswerTrail DEF StoreFails, Codes
<1>4. ASSUME UNCHANGED <<row, trail>>, \A r \in Request : req'[r] \in {Idle, req[r]}
      PROVE  TrailInv'
  <2>1. LogsGood'
    BY <1>4 DEF TrailInv, LogsGood, LogGood, Walk, Moves, KeyLogged, Exists
  <2>2. SlotsTold'
    BY <1>4, SameRecordSameTold DEF TrailInv, SlotsTold
  <2> QED BY <2>1, <2>2 DEF TrailInv
<1>5. CASE Crash
  BY <1>4, <1>5 DEF Crash
<1>6. CASE UNCHANGED vars
  BY <1>4, <1>6 DEF vars
<1> QED BY <1>1, <1>2, <1>3, <1>5, <1>6 DEF Next

(* The invariant of the log holds in every reachable state. *)
THEOREM TrailInvariance == Spec => []TrailInv
BY InitTrail, NextTrail, Invariance, PTL DEF Spec

(* The log of each scenario is a gapless walk that ends in its state. *)
THEOREM TrailsAreWalks == Spec => []TrailIsWalk
<1>1. TrailInv => TrailIsWalk
  BY DEF TrailInv, LogsGood, LogGood, Walk, TrailIsWalk
<1> QED BY <1>1, TrailInvariance, PTL

(* Each entry of the log was written by someone with the right to it. *)
THEOREM TrailsAreAuthorised == Spec => []TrailAuthorised
<1>1. TrailInv => TrailAuthorised
  BY DEF TrailInv, LogsGood, LogGood, Rightful, TrailAuthorised
<1> QED BY <1>1, TrailInvariance, PTL

(* An answered simulation shows the outcome of the frozen input, and its key
   belongs to the record of the scenario it names. *)
THEOREM AnswersFit == Spec => []SimulateAnswerFits
<1>1. TrailInv => SimulateAnswerFits
  BY DEF TrailInv, SlotsTold, SlotTold, SimulateAnswerFits
<1> QED BY <1>1, TrailInvariance, PTL
=============================================================================
