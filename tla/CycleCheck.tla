------------------------------ MODULE CycleCheck ------------------------------
(***************************************************************************)
(* The depth-first search that keeps the dependency graph acyclic.  The    *)
(* code has it twice: servicesContainCycle, run before a service is stored *)
(* (strict: an edge to an unknown service is an error), and detectCycle,   *)
(* run on a frozen snapshot (not strict: an unknown service has no edges). *)
(*                                                                         *)
(* The recursion is unfolded into an explicit stack of calls.  The outer   *)
(* loop ranges over a Go map, so it takes the services in any order; the   *)
(* inner loop takes a sorted list, and any order here includes that one.   *)
(***************************************************************************)
EXTENDS DependencyEdges, Naturals, Sequences

CONSTANT Node    \* ids that may name a service

VARIABLES
  strict,   \* which of the two searches runs
  edges,    \* edges[n]: what n depends on; its domain are the known services
  todo,     \* services the outer loop has yet to take
  color,    \* state[id]: 0 white, 1 gray, 2 black
  stack,    \* the calls of visit, innermost last: node and unvisited edges
  verdict

vars == <<strict, edges, todo, color, stack, verdict>>

Colors == {"white", "gray", "black"}
Verdicts == {"running", "ok", "cycle", "missing"}

Graphs == UNION {[known -> SUBSET Node] : known \in SUBSET Node}

Known == DOMAIN edges
Succ(n) == IF n \in Known THEN edges[n] ELSE {}

HasCycle == Cyclic(edges)
HasDangling == Dangling(edges)

Init ==
  /\ strict \in BOOLEAN
  /\ edges \in Graphs
  /\ todo = Known
  /\ color = [n \in Node |-> "white"]
  /\ stack = <<>>
  /\ verdict = "running"

Frame(n) == [node |-> n, left |-> Succ(n)]
Top == stack[Len(stack)]

\* Slip: only known services are remembered.
EnteredIfKnown(n) == color' = [m \in Known |-> IF m = n THEN "gray" ELSE color[m]]

\* Slip: a service is marked done when it is entered.
EnteredBlack(n) == color' = [color EXCEPT ![n] = "black"]

Entered(n) == color' = [color EXCEPT ![n] = "gray"]

\* for id := range edges { visit(id) }
TakeNext ==
  /\ verdict = "running" /\ stack = <<>>
  /\ \E n \in todo :
       /\ todo' = todo \ {n}
       /\ IF color[n] = "black"
            THEN UNCHANGED <<color, stack>>
            ELSE Entered(n) /\ stack' = <<Frame(n)>>
       /\ UNCHANGED <<strict, edges, verdict>>

\* Slip: the loop over the edges does not move on.
EdgeKept(next) == stack

EdgeTaken(next) == [stack EXCEPT ![Len(stack)].left = @ \ {next}]

\* for _, next := range edges[id] { visit(next) }
FollowEdge ==
  /\ verdict = "running" /\ stack # <<>>
  /\ \E next \in Top.left :
       \/ /\ strict /\ next \notin Known
          /\ verdict' = "missing" /\ UNCHANGED <<color, stack>>
       \/ /\ strict => next \in Known
          /\ color[next] = "gray"
          /\ verdict' = "cycle" /\ UNCHANGED <<color, stack>>
       \/ /\ strict => next \in Known
          /\ color[next] = "black"
          /\ stack' = EdgeTaken(next) /\ UNCHANGED <<color, verdict>>
       \/ /\ strict => next \in Known
          /\ color[next] = "white"
          /\ Entered(next)
          /\ stack' = Append(EdgeTaken(next), Frame(next))
          /\ UNCHANGED verdict
  /\ UNCHANGED <<strict, edges, todo>>

\* state[id] = 2; return nil
Leave ==
  /\ verdict = "running" /\ stack # <<>> /\ Top.left = {}
  /\ color' = [color EXCEPT ![Top.node] = "black"]
  /\ stack' = SubSeq(stack, 1, Len(stack) - 1)
  /\ UNCHANGED <<strict, edges, todo, verdict>>

Finished == stack = <<>> /\ todo = {}

Accept ==
  /\ verdict = "running" /\ Finished
  /\ verdict' = "ok"
  /\ UNCHANGED <<strict, edges, todo, color, stack>>

Next == TakeNext \/ FollowEdge \/ Leave \/ Accept

\* The search runs in one goroutine that nothing blocks.
Spec == Init /\ [][Next]_vars /\ WF_vars(Next)

-----------------------------------------------------------------------------
(* The colours are total over the services, and the calls on the stack hold
   services and the edges they have left. *)
TypeOK ==
  /\ strict \in BOOLEAN
  /\ edges \in Graphs
  /\ todo \subseteq Node
  /\ color \in [Node -> Colors]
  /\ stack \in Seq([node : Node, left : SUBSET Node])
  /\ verdict \in Verdicts

(* A graph is accepted exactly when it has no cycle and, for the strict search,
   no edge to an unknown service, whatever order the map is walked in; a
   refusal names something the graph really has. *)
VerdictCorrect ==
  /\ verdict = "ok" => ~HasCycle /\ (strict => ~HasDangling)
  /\ verdict = "cycle" => HasCycle
  /\ verdict = "missing" => strict /\ HasDangling

(* The search ends: no service is entered twice. *)
Terminates == <>(verdict # "running")
=============================================================================
