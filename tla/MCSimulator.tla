----------------------------- MODULE MCSimulator -----------------------------
(* Frozen snapshots of three services and two or three chains for TLC. *)
EXTENDS Simulator

\* The overlap is 2 .. 8: sampled are 0, 2, 5, 8, 10 and the simulation time.
ChainOf(anchor, from, to) ==
  [anchor |-> anchor, from |-> from, to |-> to, leaf |-> "api",
   state |-> "validated", valid |-> TRUE]

OldChains == {ChainOf("old", 0, 2), ChainOf("old", 0, 4), ChainOf("old", 0, 9)}
NewChains == {ChainOf("new", 0, 20), ChainOf("new", 5, 20),
              [ChainOf("new", 0, 20) EXCEPT !.state = "revoked"],
              [ChainOf("new", 0, 20) EXCEPT !.leaf = "db"]}

Sound    == [chain |-> 1, trust |-> {"old", "new"}, state |-> "active"]
OldOnly  == [chain |-> 1, trust |-> {"old"},        state |-> "active"]
OnNew    == [chain |-> 2, trust |-> {"old", "new"}, state |-> "active"]
Inactive == [chain |-> 1, trust |-> {"old", "new"}, state |-> "inactive"]
\* The snapshot holds no third chain.
Bare     == [chain |-> 3, trust |-> {"old", "new"}, state |-> "active"]

Kinds == {<<first, second, third>> :
            first \in {Sound, OldOnly, OnNew, Inactive, Bare},
            second \in {Sound, Inactive},
            third \in {Sound, OnNew, Bare}}

Ids == 1 .. 3
Graphs == {g \in [Ids -> SUBSET Ids] : \A s \in Ids : s \notin g[s]}

ServicesOf(kinds, graph) ==
  [s \in Ids |-> [chain |-> kinds[s].chain, trust |-> kinds[s].trust,
                  state |-> kinds[s].state, dependencies |-> graph[s]]]

SmallSnapshots ==
  {[start |-> 2, end |-> 8, simTime |-> at, old |-> "old", new |-> "new",
    candidates |-> candidates, chains |-> <<first, second>>,
    services |-> ServicesOf(kinds, graph)] :
     at \in {7}, candidates \in {{1, 2}}, first \in OldChains,
     second \in NewChains, kinds \in Kinds, graph \in Graphs}
=============================================================================
