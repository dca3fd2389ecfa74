------------------------------ MODULE Simulator ------------------------------
(***************************************************************************)
(* The impact simulator: validate a frozen snapshot, resolve every active  *)
(* service at each sampled time, and sum the failures up.  One simulation  *)
(* is one run of the loop over the sampled times, earliest first, and in   *)
(* it of the loop over the services, in the order of their ids.            *)
(*                                                                         *)
(* The recursion of resolveService is unfolded into a stack of calls, each *)
(* with the dependencies it has yet to resolve.  The services on the stack *)
(* are the code's visiting set and, in order, its path.                    *)
(***************************************************************************)
EXTENDS TrustPaths, Sequences

CONSTANTS
  Snapshots,   \* the frozen inputs a simulation may be given
  Horizon      \* the last time the properties speak of

\* Ids are positive (sortedUnique drops a zero), times are instants.
ASSUME SnapshotAssumption ==
  \A input \in Snapshots :
    /\ {input.start, input.end, input.simTime} \subseteq Int
    /\ DOMAIN input.chains \subseteq Nat \ {0}
    /\ \A c \in DOMAIN input.chains :
         {input.chains[c].from, input.chains[c].to} \subseteq Int
    /\ DOMAIN input.services \subseteq Nat \ {0}
    /\ \A s \in DOMAIN input.services :
         input.services[s].dependencies \subseteq Nat \ {0}

ASSUME HorizonAssumption == Horizon \in Nat

VARIABLES
  snap,
  todo,        \* sampled times still to evaluate; the first is under way
  calls,       \* the calls of resolveService, innermost last
  evidence,    \* evidence[at][s]: what was found of s at that time
  stage,
  explanation  \* what the summary says

vars == <<snap, todo, calls, evidence, stage, explanation>>

Services == DOMAIN snap.services

Stages == {"new", "running", "rejected", "done"}

Statements == {"all clear", "failures", "before overlap", "after overlap"}

Init ==
  /\ snap \in Snapshots
  /\ todo = {}
  /\ calls = <<>>
  /\ evidence = <<>>
  /\ stage = "new"
  /\ explanation = {}

\* Slip: the dependency graph is not looked at.
ValidButCyclic ==
  /\ snap.old # snap.new
  /\ snap.start < snap.end
  /\ snap.candidates \subseteq DOMAIN snap.chains

Valid ==
  /\ snap.old # snap.new
  /\ snap.start < snap.end
  /\ snap.candidates \subseteq DOMAIN snap.chains
  /\ ~Cyclic(Edges(snap))

\* Slip: the minute after the overlap is left out.
TimesWithinOverlap == Samples(snap) \ {snap.end + Minute}

Times == Samples(snap)

Begin ==
  /\ stage = "new"
  /\ \/ /\ Valid
        /\ stage' = "running" /\ todo' = Times
        /\ evidence' = [at \in Times |-> <<>>]
     \/ ~Valid /\ stage' = "rejected" /\ UNCHANGED <<todo, evidence>>
  /\ UNCHANGED <<snap, calls, explanation>>

-----------------------------------------------------------------------------
\* Slip: the times are not sorted.
Latest == Max(todo)

\* The time under way and the services not yet resolved at it.
Now == Min(todo)
Waiting == ActiveServices(snap) \ DOMAIN evidence[Now]

Top == calls[Len(calls)]
CallPath == [i \in 1 .. Len(calls) |-> calls[i].service]
Visiting == {calls[i].service : i \in 1 .. Len(calls)}

\* What is to be resolved next: the loop's next service, or the innermost
\* call's next dependency.
Pending == IF calls = <<>> THEN Waiting ELSE Top.left
Callee == Min(Pending)

\* The call that resolves a service for the loop, and not for another call.
Root == IF calls = <<>> THEN Callee ELSE calls[1].service

\* The conditions under which a call goes on to the dependencies.
Enterable(s) ==
  s \in ActiveServices(snap) \ Visiting /\ Direct(snap, s, Now) # NoChain

Found(reachable, chain, path, cycle) ==
  [reachable |-> reachable, chain |-> chain, path |-> path, cycle |-> cycle]

Settle(s, found) ==
  evidence' = [evidence EXCEPT ![Now] =
    [t \in DOMAIN evidence[Now] \cup {s} |->
       IF t = s THEN found ELSE evidence[Now][t]]]

Resolving == stage = "running" /\ todo # {}

Enter ==
  /\ Resolving /\ Pending # {} /\ Enterable(Callee)
  /\ calls' = Append(calls, [service |-> Callee,
                             left |-> snap.services[Callee].dependencies])
  /\ UNCHANGED <<snap, todo, evidence, stage, explanation>>

\* Every call returns the failure of its dependency, and the path to it.
Break ==
  /\ Resolving /\ Pending # {} /\ ~Enterable(Callee)
  /\ calls' = <<>>
  /\ Settle(Root, Found(FALSE, Direct(snap, Root, Now), Append(CallPath, Callee),
                        Callee \in Visiting))
  /\ UNCHANGED <<snap, todo, stage, explanation>>

\* Slip: the caller forgets what else it depends on.
ReturnedEarly ==
  [i \in 1 .. Len(calls) - 1 |->
     IF i = Len(calls) - 1 THEN [calls[i] EXCEPT !.left = {}] ELSE calls[i]]

\* Slip: the caller starts its loop again.
CallerKept == [i \in 1 .. Len(calls) - 1 |-> calls[i]]

\* The caller goes on to its next dependency.
Returned ==
  [i \in 1 .. Len(calls) - 1 |->
     IF i = Len(calls) - 1
     THEN [calls[i] EXCEPT !.left = @ \ {Top.service}] ELSE calls[i]]

Return ==
  /\ Resolving /\ calls # <<>> /\ Top.left = {}
  /\ calls' = Returned
  /\ IF Len(calls) = 1
     THEN Settle(Root, Found(TRUE, Direct(snap, Root, Now), <<Root>>, FALSE))
     ELSE UNCHANGED evidence
  /\ UNCHANGED <<snap, todo, stage, explanation>>

NextPoint ==
  /\ Resolving /\ calls = <<>> /\ Waiting = {}
  /\ todo' = todo \ {Now}
  /\ UNCHANGED <<snap, calls, evidence, stage, explanation>>

\* The times with a failure.
FailingTimes ==
  {at \in DOMAIN evidence : \E s \in DOMAIN evidence[at] : ~evidence[at][s].reachable}

\* Slip: the overlap begins a moment later.
EarlyOrAtStart(at) == at <= snap.start

Early(at) == at < snap.start
Late(at) == at > snap.end

Summary ==
  {w \in Statements :
     \/ w = "all clear" /\ FailingTimes = {}
     \/ w = "failures" /\ FailingTimes # {}
     \/ w = "before overlap" /\ \E at \in FailingTimes : Early(at)
     \/ w = "after overlap" /\ \E at \in FailingTimes : Late(at)}

Explain ==
  /\ stage = "running" /\ todo = {}
  /\ stage' = "done"
  /\ explanation' = Summary
  /\ UNCHANGED <<snap, todo, calls, evidence>>

Next == Begin \/ Enter \/ Break \/ Return \/ NextPoint \/ Explain

\* The simulation runs in its request's goroutine, and nothing blocks it.
Spec == Init /\ [][Next]_vars /\ WF_vars(Next)

AllClear == "all clear" \in explanation

-----------------------------------------------------------------------------
Verdict == [reachable : BOOLEAN, chain : DOMAIN snap.chains \cup {NoChain},
            path : Seq(Nat), cycle : BOOLEAN]

(* The times are evaluated in their order, each for all active services before
   the next, and no call is open between two services. *)
TypeOK ==
  /\ stage \in Stages /\ explanation \subseteq Statements
  /\ calls \in Seq([service : Nat, left : SUBSET Nat])
  /\ stage \in {"running", "done"} => DOMAIN evidence = Times
  /\ todo \subseteq DOMAIN evidence
  /\ \A t \in DOMAIN evidence :
       /\ evidence[t] \in [DOMAIN evidence[t] -> Verdict]
       /\ DOMAIN evidence[t] \subseteq ActiveServices(snap)
       /\ t \notin todo =>
            /\ DOMAIN evidence[t] = ActiveServices(snap)
            /\ \A u \in todo : t < u

(* The recursive search decides what the definition without a search says: a
   service is reachable when it and everything it depends on, however far,
   presents a usable chain (lines 201-269). *)
SearchDecidesReachable ==
  \A t \in DOMAIN evidence : \A s \in DOMAIN evidence[t] :
    evidence[t][s].reachable <=> Reachable(snap, s, t)

(* The path reported for a broken service is a real one: it follows dependency
   edges from the service to one that is absent or presents no chain, through
   services that do; and the search's guard against cycles never fires, since
   validation refused them (lines 146, 248-252). *)
BrokenPathIsReal ==
  \A t \in DOMAIN evidence : \A s \in DOMAIN evidence[t] :
    LET found == evidence[t][s]
        path == found.path
        last == path[Len(path)]
    IN /\ ~found.cycle
       /\ path[1] = s
       /\ \A i \in 1 .. Len(path) - 1 :
            /\ path[i + 1] \in snap.services[path[i]].dependencies
            /\ Direct(snap, path[i], t) # NoChain
       /\ ~found.reachable =>
            last \notin ActiveServices(snap) \/ Direct(snap, last, t) = NoChain

(* The summary tells the failures of the services, and on which side of the
   overlap they lie, as reachability is defined without a search (293-314). *)
SummaryIsTrue ==
  stage = "done" =>
    LET FailsAt(times) ==
          \E at \in times, s \in ActiveServices(snap) : ~Reachable(snap, s, at)
    IN /\ "all clear" \in explanation <=> ~FailsAt(Samples(snap))
       /\ "failures" \in explanation <=> FailsAt(Samples(snap))
       /\ "before overlap" \in explanation <=>
            FailsAt({at \in Samples(snap) : at < snap.start})
       /\ "after overlap" \in explanation <=>
            FailsAt({at \in Samples(snap) : at > snap.end})

(* What "all clear" covers: any time after a sampled one with the same active
   anchors, until a chain's validity begins or ends.  So every phase of the
   rollover is sampled (criticalTimes, activeAnchors, lines 270-292). *)
AllClearHoldsUntilNextEdge ==
  AllClear =>
    \A at \in Samples(snap), t \in 0 .. Horizon, s \in ActiveServices(snap) :
      (/\ at <= t
       /\ ActiveAnchors(snap, at) = ActiveAnchors(snap, t)
       /\ ~\E e \in WindowEdges(snap) : at < e /\ e <= t)
        => Reachable(snap, s, t)

(* A simulation comes to an end, although it resolves a shared dependency once
   for every way that leads to it (lines 259-266). *)
SimulationEnds == <>(stage \in {"rejected", "done"})

-----------------------------------------------------------------------------
(* "All active service trust paths remain reachable before, during, and after
   the proposed overlap window" (line 295), here only of the times during it. *)
AllClearDuringOverlap ==
  AllClear =>
    \A t \in snap.start .. snap.end, s \in ActiveServices(snap) :
      Reachable(snap, s, t)
=============================================================================
