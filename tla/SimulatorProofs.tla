--------------------------- MODULE SimulatorProofs ---------------------------
(***************************************************************************)
(* Theorems about the impact simulator, for every set of frozen snapshots. *)
(*                                                                         *)
(* The inductive invariant says what the open calls of resolveService have *)
(* established: each service on the stack presents a chain of its own, the *)
(* dependencies its call has finished with are reachable, and each service *)
(* is a dependency the call below it still waits for.  So a failure of the *)
(* innermost call is one of the service the loop asked for, and a service  *)
(* met twice would be a cycle, which validation has excluded.              *)
(***************************************************************************)
EXTENDS Simulator, SequenceTheorems, WellFoundedInduction, TLAPS

Call == [service : Nat, left : SUBSET Nat]

Depends(input, s) == input.services[s].dependencies

Presents(input, s, at) == UsableChains(input, s, at) # {}

\* What an open call, of a resolution of root, has established.
GoodCall(input, at, root, call) ==
  /\ call.service \in ActiveServices(input)
  /\ Presents(input, call.service, at)
  /\ call.left \subseteq Depends(input, call.service)
  /\ \A d \in Depends(input, call.service) \ call.left : Reachable(input, d, at)
  /\ Reachable(input, root, at) => Reachable(input, call.service, at)

GoodCalls(input, at, open) ==
  /\ \A i \in 1 .. Len(open) : GoodCall(input, at, open[1].service, open[i])
  /\ \A i \in 1 .. Len(open) - 1 : open[i + 1].service \in open[i].left

\* A path of edges whose members, the last one apart, present a chain.
RealPath(input, at, path) ==
  /\ path \in Seq(Nat) /\ path # <<>>
  /\ \A i \in 1 .. Len(path) - 1 :
       /\ path[i + 1] \in Depends(input, path[i])
       /\ Presents(input, path[i], at)

Broken(input, at, s) == s \notin ActiveServices(input) \/ ~Presents(input, s, at)

GoodFound(input, at, s, found) ==
  /\ found \in [reachable : BOOLEAN, chain : DOMAIN input.chains \cup {NoChain},
                path : Seq(Nat), cycle : BOOLEAN]
  /\ found.reachable <=> Reachable(input, s, at)
  /\ ~found.cycle
  /\ RealPath(input, at, found.path) /\ found.path[1] = s
  /\ ~found.reachable => Broken(input, at, found.path[Len(found.path)])

GoodEvidence ==
  \A t \in DOMAIN evidence : \A s \in DOMAIN evidence[t] :
    GoodFound(snap, t, s, evidence[t][s])

CallsOpen ==
  calls # <<>> =>
    /\ Resolving
    /\ calls[1].service \notin DOMAIN evidence[Now]
    /\ GoodCalls(snap, Now, calls)

StageGood ==
  /\ snap \in Snapshots
  /\ stage \in {"running", "done"} => Valid
  /\ stage # "running" => todo = {}
  /\ stage \in {"new", "rejected"} => evidence = <<>>
  /\ stage # "done" => explanation = {}
  /\ stage = "done" => explanation = Summary

IInv == TypeOK /\ StageGood /\ GoodEvidence /\ CallsOpen

-----------------------------------------------------------------------------
\* A set of integers with a lower bound has a least element.
LEMMA MinOfBounded ==
  ASSUME NEW S \in SUBSET Int, S # {}, NEW low \in Int, \A x \in S : low <= x
  PROVE  Min(S) \in S /\ \A x \in S : Min(S) <= x
<1> DEFINE shifted == {x - low : x \in S}
<1>1. shifted \subseteq Nat /\ shifted # {}
  <2>1. \A x \in S : x - low \in Nat
    OBVIOUS
  <2> QED
    BY <2>1
<1>2. PICK m \in shifted : \A y \in shifted : ~(<<y, m>> \in OpToRel(<, Nat))
  <2> HIDE DEF shifted
  <2> QED BY <1>1, WFMin, NatLessThanWellFounded
<1>3. \A y \in shifted : m <= y
  <2>1. ASSUME NEW i \in Nat, NEW j \in Nat, i < j
        PROVE  <<i, j>> \in OpToRel(<, Nat)
    BY <2>1, Zenon DEF OpToRel
  <2>2. \A y \in shifted : ~(y < m)
    <3> HIDE DEF shifted
    <3> QED BY <1>1, <1>2, <2>1, Zenon
  <2> HIDE DEF shifted
  <2> QED
    BY <1>1, <2>2
<1>4. m + low \in S /\ \A x \in S : m + low <= x
  BY <1>3
<1> QED
  BY <1>4 DEF Min

LEMMA MinOfNat ==
  ASSUME NEW S \in SUBSET Nat, S # {}
  PROVE  Min(S) \in S /\ \A x \in S : Min(S) <= x
BY MinOfBounded

\* The sampled times are instants, with a first one.
LEMMA TimesTyped ==
  ASSUME NEW input \in Snapshots
  PROVE  /\ Samples(input) \subseteq Int
         /\ input.start \in Int /\ input.end \in Int
         /\ input.start < input.end =>
              \E low \in Int : \A t \in Samples(input) : low <= t
<1>1. {input.start, input.end, input.simTime, Minute} \subseteq Int /\ Minute > 0
  BY SnapshotAssumption, MinuteAssumption
<1> DEFINE half == (input.end - input.start) \div 2
<1>2. half \in Int /\ (input.start < input.end => half >= 0)
  BY <1>1
<1> HIDE DEF half
<1>3. Samples(input) = {input.start - Minute, input.start, input.start + half,
                        input.end, input.end + Minute, input.simTime}
  BY DEF Samples, half
<1>4. ASSUME input.start < input.end
      PROVE  \E low \in Int : \A t \in Samples(input) : low <= t
  <2> DEFINE low == IF input.simTime < input.start - Minute
                    THEN input.simTime ELSE input.start - Minute
  <2>1. low \in Int /\ \A t \in Samples(input) : low <= t
    BY <1>1, <1>2, <1>3, <1>4
  <2> QED
    BY <2>1
<1> QED
  BY <1>1, <1>2, <1>3, <1>4

\* What evaluateDirect returns: a usable chain, or none when there is none.
LEMMA DirectIsUsable ==
  ASSUME NEW input \in Snapshots, NEW s, NEW at
  PROVE  /\ Direct(input, s, at) # NoChain <=> Presents(input, s, at)
         /\ Direct(input, s, at) \in DOMAIN input.chains \cup {NoChain}
         /\ Presents(input, s, at) =>
              Direct(input, s, at) \in UsableChains(input, s, at)
<1> DEFINE usable == UsableChains(input, s, at)
<1>1. usable \subseteq DOMAIN input.chains
  BY DEF UsableChains, Offered
<1>2. DOMAIN input.chains \subseteq Nat \ {0}
  BY SnapshotAssumption
<1>3. CASE usable = {}
  BY <1>3 DEF Direct, Presents
<1>4. CASE usable # {}
  <2>1. Direct(input, s, at) = Min(usable)
    BY <1>4 DEF Direct
  <2> HIDE DEF usable
  <2>2. Min(usable) \in usable
    BY <1>1, <1>2, <1>4, MinOfNat
  <2> QED
    BY <2>1, <2>2, <1>1, <1>2, <1>4 DEF NoChain, Presents, usable
<1> QED
  BY <1>3, <1>4

\* A reachable service presents a chain, and so does all it depends on.
LEMMA ReachableHereditary ==
  ASSUME NEW input, NEW at, NEW s, Reachable(input, s, at)
  PROVE  /\ s \in ActiveServices(input) /\ Presents(input, s, at)
         /\ \A d \in Depends(input, s) : Reachable(input, d, at)
BY DEF Reachable, Presents, Depends

LEMMA ReachableByParts ==
  ASSUME NEW input, NEW at, NEW s \in ActiveServices(input),
         Presents(input, s, at),
         \A d \in Depends(input, s) : Reachable(input, d, at)
  PROVE  Reachable(input, s, at)
<1> DEFINE group == {g \in ActiveServices(input) : Reachable(input, g, at)} \cup {s}
<1>1. \A g \in group : Presents(input, g, at) /\ Depends(input, g) \subseteq group
  BY ReachableHereditary
<1>2. group \in SUBSET ActiveServices(input) /\ s \in group
  OBVIOUS
<1> QED
  BY <1>1, <1>2 DEF Reachable, Presents, Depends

\* A usable chain stays usable while the anchors stay and no window edge passes.
LEMMA ReachableUntilEdge ==
  ASSUME NEW input \in Snapshots, NEW at \in Int, NEW t \in Int, NEW s,
         Reachable(input, s, at), at <= t,
         ActiveAnchors(input, at) = ActiveAnchors(input, t),
         ~\E e \in WindowEdges(input) : at < e /\ e <= t
  PROVE  Reachable(input, s, t)
<1>1. ASSUME NEW g, NEW c \in DOMAIN input.chains, Usable(input, g, c, at)
      PROVE  Usable(input, g, c, t)
  <2>1. input.chains[c].from \in Int /\ input.chains[c].to \in Int
    BY SnapshotAssumption
  <2>2. input.chains[c].to \in WindowEdges(input)
    BY DEF WindowEdges
  <2>3. input.chains[c].from <= at /\ at < input.chains[c].to
    BY <1>1 DEF Usable
  <2>4. input.chains[c].from <= t /\ t < input.chains[c].to
    BY <2>1, <2>2, <2>3
  <2> QED
    BY <1>1, <2>4 DEF Usable
<1>2. \A g : UsableChains(input, g, at) \subseteq UsableChains(input, g, t)
  BY <1>1 DEF UsableChains, Offered
<1> QED
  BY <1>2 DEF Reachable

-----------------------------------------------------------------------------
LEMMA FunctionIsSeq ==
  ASSUME NEW S, NEW n \in Nat, NEW f \in [1 .. n -> S]
  PROVE  f \in Seq(S) /\ Len(f) = n
<1>1. f \in Seq(S)
  BY SeqDef
<1>2. Len(f) \in Nat /\ 1 .. Len(f) = 1 .. n
  BY <1>1, LenProperties
<1>3. \A m \in Nat : 1 .. m = 1 .. n => m = n
  <2>1. SUFFICES ASSUME NEW m \in Nat, 1 .. m = 1 .. n, m # n
                 PROVE  FALSE
    OBVIOUS
  <2>2. CASE m < n
    <3>1. n \in 1 .. n /\ n \notin 1 .. m
      BY <2>2
    <3> QED BY <3>1, <2>1
  <2>3. CASE n < m
    <3>1. m \in 1 .. m /\ m \notin 1 .. n
      BY <2>3
    <3> QED BY <3>1, <2>1
  <2> QED
    BY <2>1, <2>2, <2>3
<1> QED
  BY <1>1, <1>2, <1>3

LEMMA PushedShape ==
  ASSUME NEW S, NEW base \in Seq(S), NEW c \in S
  PROVE  /\ Append(base, c) \in Seq(S) /\ Append(base, c) # <<>>
         /\ Len(Append(base, c)) = Len(base) + 1
         /\ \A i \in 1 .. Len(base) : Append(base, c)[i] = base[i]
         /\ Append(base, c)[Len(base) + 1] = c
BY AppendProperties

\* The innermost call, and that there is a first one.
LEMMA TopTyped ==
  ASSUME calls \in Seq(Call), calls # <<>>
  PROVE  /\ Len(calls) \in Nat /\ 1 \in 1 .. Len(calls)
         /\ Len(calls) \in 1 .. Len(calls)
         /\ \A i \in 1 .. Len(calls) : calls[i] \in Call
         /\ Top = calls[Len(calls)]
<1>1. Len(calls) \in Nat \ {0}
  BY EmptySeq
<1> QED
  BY <1>1, ElementOfSeq DEF Top

\* The path of the open calls.
LEMMA CallPathShape ==
  ASSUME calls \in Seq(Call)
  PROVE  /\ CallPath \in Seq(Nat) /\ Len(CallPath) = Len(calls)
         /\ \A i \in 1 .. Len(calls) : CallPath[i] = calls[i].service
<1>1. Len(calls) \in Nat /\ \A i \in 1 .. Len(calls) : calls[i].service \in Nat
  <2>1. \A i \in 1 .. Len(calls) : calls[i] \in Call
    BY ElementOfSeq
  <2> QED
    BY <2>1, LenProperties DEF Call
<1>2. CallPath \in [1 .. Len(calls) -> Nat]
  BY <1>1 DEF CallPath
<1>3. CallPath \in Seq(Nat) /\ Len(CallPath) = Len(calls)
  BY <1>1, <1>2, FunctionIsSeq
<1> QED
  BY <1>3 DEF CallPath

\* A return takes the innermost call away and ticks it off in its caller.
LEMMA ReturnedShape ==
  ASSUME calls \in Seq(Call), calls # <<>>
  PROVE  /\ Returned \in Seq(Call) /\ Len(Returned) = Len(calls) - 1
         /\ \A i \in 1 .. Len(calls) - 1 :
              /\ Returned[i].service = calls[i].service
              /\ Returned[i].left = IF i = Len(calls) - 1
                                    THEN calls[i].left \ {Top.service}
                                    ELSE calls[i].left
<1> DEFINE n == Len(calls)
<1>1. n \in Nat \ {0} /\ n - 1 \in Nat /\ \A i \in 1 .. n - 1 : calls[i] \in Call
  BY TopTyped
<1>2. \A i \in 1 .. n - 1 :
        /\ Returned[i] \in Call
        /\ Returned[i].service = calls[i].service
        /\ Returned[i].left = IF i = n - 1 THEN calls[i].left \ {Top.service}
                                           ELSE calls[i].left
  BY <1>1 DEF Returned, Call
<1>3. Returned \in [1 .. n - 1 -> Call]
  BY <1>2 DEF Returned
<1>4. Returned \in Seq(Call) /\ Len(Returned) = n - 1
  BY <1>1, <1>3, FunctionIsSeq
<1> QED
  BY <1>2, <1>4

\* Recording a finding adds it to its time and leaves the rest alone.
LEMMA SettledShape ==
  ASSUME NEW s, NEW found, Now \in DOMAIN evidence, Settle(s, found)
  PROVE  /\ DOMAIN evidence' = DOMAIN evidence
         /\ \A t \in DOMAIN evidence : t # Now => evidence'[t] = evidence[t]
         /\ DOMAIN evidence'[Now] = DOMAIN evidence[Now] \cup {s}
         /\ evidence'[Now][s] = found
         /\ \A u \in DOMAIN evidence[Now] :
              u # s => evidence'[Now][u] = evidence[Now][u]
         /\ evidence'[Now] = [u \in DOMAIN evidence'[Now] |-> evidence'[Now][u]]
BY DEF Settle

\* The time under way is the first of those still to evaluate.
LEMMA NowTyped ==
  ASSUME IInv, Resolving
  PROVE  /\ snap \in Snapshots /\ Valid /\ stage = "running"
         /\ DOMAIN evidence = Times /\ Times \subseteq Int
         /\ Now \in todo /\ Now \in DOMAIN evidence
         /\ \A t \in todo : t \in Int /\ Now <= t
<1>1. snap \in Snapshots /\ Valid /\ stage = "running" /\ todo # {}
  BY DEF IInv, StageGood, Resolving
<1>2. DOMAIN evidence = Times /\ todo \subseteq Times
  BY <1>1 DEF IInv, TypeOK
<1>3. Times \subseteq Int /\ \E low \in Int : \A t \in Times : low <= t
  BY <1>1, TimesTyped DEF Times, Valid
<1>4. Min(todo) \in todo /\ \A t \in todo : Min(todo) <= t
  BY <1>1, <1>2, <1>3, MinOfBounded
<1> QED
  BY <1>1, <1>2, <1>3, <1>4 DEF Now

\* Ids are positive, those of services and those they depend on.
LEMMA IdsTyped ==
  ASSUME snap \in Snapshots
  PROVE  /\ ActiveServices(snap) \subseteq DOMAIN snap.services
         /\ ActiveServices(snap) \subseteq Nat
         /\ \A s \in ActiveServices(snap) : Depends(snap, s) \subseteq Nat
BY SnapshotAssumption DEF ActiveServices, Depends

LEMMA CalleeTyped ==
  ASSUME IInv, Resolving, Pending # {}
  PROVE  Callee \in Pending /\ Callee \in Nat
<1>1. Pending \subseteq Nat
  <2>1. CASE calls = <<>>
    BY <2>1, NowTyped, IdsTyped DEF Pending, Waiting
  <2>2. CASE calls # <<>>
    BY <2>2, TopTyped DEF Pending, IInv, TypeOK, Call
  <2> QED
    BY <2>1, <2>2
<1> QED
  BY <1>1, MinOfNat DEF Callee

\* No service is met again while it is being resolved: the services from its
\* first call on would all depend on one another.
LEMMA NeverMetAgain ==
  ASSUME IInv, Resolving, calls # <<>>, Pending # {}
  PROVE  Callee \notin Visiting
<1>1. calls \in Seq(Call) /\ GoodCalls(snap, Now, calls)
  BY DEF IInv, TypeOK, Call, CallsOpen
<1>2. /\ Len(calls) \in Nat /\ Len(calls) \in 1 .. Len(calls)
      /\ Callee \in calls[Len(calls)].left
  BY <1>1, TopTyped, CalleeTyped DEF Pending
<1>3. SUFFICES ASSUME NEW j \in 1 .. Len(calls), Callee = calls[j].service
               PROVE  FALSE
  BY DEF Visiting
<1> DEFINE knot == {calls[k].service : k \in j .. Len(calls)}
<1>4. \A k \in 1 .. Len(calls) :
        /\ calls[k].service \in ActiveServices(snap)
        /\ calls[k].left \subseteq Depends(snap, calls[k].service)
  BY <1>1 DEF GoodCalls, GoodCall
<1>5. ASSUME NEW k \in j .. Len(calls)
      PROVE  Depends(snap, calls[k].service) \cap knot # {}
  <2>1. CASE k = Len(calls)
    <3>1. calls[j].service \in Depends(snap, calls[k].service)
      BY <1>2, <1>3, <1>4, <2>1
    <3>2. calls[j].service \in knot
      BY <1>2
    <3> QED
      BY <3>1, <3>2
  <2>2. CASE k # Len(calls)
    <3>1. k \in 1 .. Len(calls) - 1 /\ k + 1 \in j .. Len(calls)
      BY <1>2, <2>2
    <3>2. calls[k + 1].service \in Depends(snap, calls[k].service)
      BY <1>1, <1>2, <1>4, <3>1 DEF GoodCalls
    <3> QED
      BY <3>1, <3>2
  <2> QED
    BY <2>1, <2>2
<1>6. knot \subseteq DOMAIN snap.services /\ knot # {}
  BY <1>2, <1>4, NowTyped, IdsTyped
<1>7. \A n \in knot : Edges(snap)[n] \cap knot # {}
  BY <1>5, <1>6 DEF Edges, Depends
<1>8. Cyclic(Edges(snap))
  BY <1>6, <1>7 DEF Cyclic, Edges
<1> QED
  BY <1>8, NowTyped DEF Valid

-----------------------------------------------------------------------------
\* What changes of the search leave alone.
Kept == UNCHANGED <<snap, todo, stage, explanation>>

LEMMA StageKept ==
  ASSUME IInv, Resolving, Kept
  PROVE  StageGood' /\ Now' = Now /\ Times' = Times /\ Resolving'
<1>1. snap \in Snapshots /\ Valid /\ stage = "running" /\ explanation = {}
  BY NowTyped DEF IInv, StageGood
<1> QED
  BY <1>1 DEF Kept, StageGood, Valid, Now, Times, Resolving

\* A change of the stack keeps the invariant when the new calls are good ones
\* and work for a service not yet resolved.
LEMMA StackChange ==
  ASSUME IInv, Resolving, Kept, evidence' = evidence,
         calls' \in Seq(Call),
         calls' # <<>> => /\ GoodCalls(snap, Now, calls')
                          /\ calls'[1].service \notin DOMAIN evidence[Now]
  PROVE  IInv'
<1>1. StageGood' /\ Now' = Now /\ Times' = Times /\ Resolving'
  BY StageKept
<1>2. TypeOK'
  BY <1>1 DEF IInv, TypeOK, Kept, Verdict, Call
<1>3. GoodEvidence'
  BY DEF IInv, GoodEvidence, Kept
<1>4. CallsOpen'
  BY <1>1 DEF CallsOpen, Kept
<1> QED
  BY <1>1, <1>2, <1>3, <1>4 DEF IInv

\* The end of a resolution keeps it when what was found is the truth.
LEMMA Settling ==
  ASSUME IInv, Resolving, Kept, calls' = <<>>,
         NEW s \in ActiveServices(snap), NEW found, Settle(s, found),
         GoodFound(snap, Now, s, found)
  PROVE  IInv'
<1>1. StageGood' /\ Now' = Now /\ Times' = Times /\ Resolving'
  BY StageKept
<1>2. /\ Now \in DOMAIN evidence /\ Now \in todo /\ stage = "running"
      /\ DOMAIN evidence = Times
  BY NowTyped
<1>3. /\ DOMAIN evidence' = DOMAIN evidence
      /\ \A t \in DOMAIN evidence : t # Now => evidence'[t] = evidence[t]
      /\ DOMAIN evidence'[Now] = DOMAIN evidence[Now] \cup {s}
      /\ evidence'[Now][s] = found
      /\ \A u \in DOMAIN evidence[Now] :
           u # s => evidence'[Now][u] = evidence[Now][u]
      /\ evidence'[Now] = [u \in DOMAIN evidence'[Now] |-> evidence'[Now][u]]
  BY <1>2, SettledShape
<1>4. Verdict' = Verdict /\ found \in Verdict
  BY DEF Verdict, Kept, GoodFound
<1>5. ASSUME NEW t \in DOMAIN evidence'
      PROVE  /\ evidence'[t] \in [DOMAIN evidence'[t] -> Verdict]
             /\ DOMAIN evidence'[t] \subseteq ActiveServices(snap)
  <2>1. /\ evidence[t] \in [DOMAIN evidence[t] -> Verdict]
        /\ DOMAIN evidence[t] \subseteq ActiveServices(snap)
    BY <1>3 DEF IInv, TypeOK
  <2>2. CASE t # Now
    BY <1>3, <2>1, <2>2
  <2>3. CASE t = Now
    <3>1. \A u \in DOMAIN evidence'[Now] : evidence'[Now][u] \in Verdict
      BY <1>3, <1>4, <2>1, <2>3
    <3>2. evidence'[Now] \in [DOMAIN evidence'[Now] -> Verdict]
      BY <1>3, <3>1
    <3> QED
      BY <3>2, <1>3, <2>1, <2>3
  <2> QED
    BY <2>2, <2>3
<1>6. ASSUME NEW t \in DOMAIN evidence', t \notin todo
      PROVE  /\ DOMAIN evidence'[t] = ActiveServices(snap)
             /\ \A u \in todo : t < u
  BY <1>2, <1>3, <1>6 DEF IInv, TypeOK
<1>7. TypeOK'
  <2>1. /\ stage \in Stages /\ explanation \subseteq Statements
        /\ todo \subseteq DOMAIN evidence
    BY DEF IInv, TypeOK
  <2>2. calls' \in Seq([service : Nat, left : SUBSET Nat])
    BY EmptySeq
  <2> QED
    BY <1>1, <1>2, <1>3, <1>4, <1>5, <1>6, <2>1, <2>2 DEF TypeOK, Kept
<1>8. GoodEvidence'
  <2>1. ASSUME NEW t \in DOMAIN evidence', NEW u \in DOMAIN evidence'[t]
        PROVE  GoodFound(snap, t, u, evidence'[t][u])
    <3>1. CASE t = Now /\ u = s
      BY <1>3, <3>1
    <3>2. CASE t = Now /\ u # s
      BY <1>3, <3>2 DEF IInv, GoodEvidence
    <3>3. CASE t # Now
      BY <1>3, <3>3 DEF IInv, GoodEvidence
    <3> QED
      BY <3>1, <3>2, <3>3
  <2> QED
    BY <2>1 DEF GoodEvidence, Kept
<1>9. CallsOpen'
  BY DEF CallsOpen
<1> QED
  BY <1>1, <1>7, <1>8, <1>9 DEF IInv

-----------------------------------------------------------------------------
\* The facts about the open calls that the steps of the search need.
LEMMA OpenCalls ==
  ASSUME IInv, Resolving, calls # <<>>
  PROVE  /\ calls \in Seq(Call)
         /\ calls[1].service \in ActiveServices(snap) \ DOMAIN evidence[Now]
         /\ \A i \in 1 .. Len(calls) :
              GoodCall(snap, Now, calls[1].service, calls[i])
         /\ \A i \in 1 .. Len(calls) - 1 : calls[i + 1].service \in calls[i].left
<1>1. calls \in Seq(Call) /\ GoodCalls(snap, Now, calls)
      /\ calls[1].service \notin DOMAIN evidence[Now]
  BY DEF IInv, TypeOK, CallsOpen, Call
<1>2. 1 \in 1 .. Len(calls)
  BY <1>1, TopTyped
<1> QED
  BY <1>1, <1>2 DEF GoodCalls, GoodCall

\* The first service asked for is active and not yet resolved, and it is not
\* reachable unless the pending one is.
LEMMA RootFacts ==
  ASSUME IInv, Resolving, Pending # {}
  PROVE  /\ Root \in ActiveServices(snap) \ DOMAIN evidence[Now]
         /\ Reachable(snap, Root, Now) => Reachable(snap, Callee, Now)
<1>1. CASE calls = <<>>
  BY <1>1, CalleeTyped DEF Root, Pending, Waiting
<1>2. CASE calls # <<>>
  <2>1. Root = calls[1].service
    BY <1>2 DEF Root
  <2>2. /\ GoodCall(snap, Now, Root, Top)
        /\ Callee \in Top.left
    BY <1>2, <2>1, OpenCalls, TopTyped, CalleeTyped DEF Pending
  <2>3. Callee \in Depends(snap, Top.service)
    BY <2>2 DEF GoodCall
  <2>4. Reachable(snap, Root, Now) => Reachable(snap, Callee, Now)
    BY <2>2, <2>3, ReachableHereditary DEF GoodCall
  <2> QED
    BY <1>2, <2>1, <2>4, OpenCalls
<1> QED
  BY <1>1, <1>2

\* The path to the pending service: along the open calls, each of which
\* presents a chain, from the service asked for.
LEMMA PathToCallee ==
  ASSUME IInv, Resolving, Pending # {}
  PROVE  LET path == Append(CallPath, Callee)
         IN /\ path \in Seq(Nat) /\ path # <<>> /\ Len(path) = Len(calls) + 1
            /\ \A i \in 1 .. Len(calls) : path[i] = calls[i].service
            /\ path[Len(calls) + 1] = Callee /\ path[1] = Root
            /\ RealPath(snap, Now, path)
<1> DEFINE path == Append(CallPath, Callee)
<1>1. calls \in Seq(Call) /\ Len(calls) \in Nat /\ Callee \in Nat
  BY CalleeTyped, LenProperties DEF IInv, TypeOK, Call
<1>2. /\ path \in Seq(Nat) /\ path # <<>> /\ Len(path) = Len(calls) + 1
      /\ \A i \in 1 .. Len(calls) : path[i] = calls[i].service
      /\ path[Len(calls) + 1] = Callee
  BY <1>1, CallPathShape, PushedShape
<1> HIDE DEF path
<1>3. path[1] = Root
  <2>1. CASE calls = <<>>
    <3>1. Len(calls) = 0
      BY <2>1, EmptySeq
    <3> QED
      BY <1>2, <2>1, <3>1 DEF Root
  <2>2. CASE calls # <<>>
    BY <1>1, <1>2, <2>2, TopTyped DEF Root
  <2> QED
    BY <2>1, <2>2
<1>4. ASSUME NEW i \in 1 .. Len(path) - 1
      PROVE  path[i + 1] \in Depends(snap, path[i]) /\ Presents(snap, path[i], Now)
  <2>1. i \in 1 .. Len(calls)
    BY <1>1, <1>2
  <2>2. calls # <<>>
    BY <2>1, EmptySeq
  <2>3. /\ Presents(snap, calls[i].service, Now)
        /\ calls[i].left \subseteq Depends(snap, calls[i].service)
    BY <2>1, <2>2, OpenCalls DEF GoodCall
  <2>4. path[i + 1] \in calls[i].left
    <3>1. CASE i = Len(calls)
      BY <1>2, <2>2, <3>1, CalleeTyped DEF Pending, Top
    <3>2. CASE i # Len(calls)
      <4>1. i \in 1 .. Len(calls) - 1 /\ i + 1 \in 1 .. Len(calls)
        BY <1>1, <2>1, <3>2
      <4> QED
        BY <1>2, <2>2, <4>1, OpenCalls
    <3> QED
      BY <3>1, <3>2
  <2> QED
    BY <1>2, <2>1, <2>3, <2>4
<1>5. RealPath(snap, Now, path)
  BY <1>2, <1>4 DEF RealPath
<1> QED
  BY <1>2, <1>3, <1>5 DEF path

LEMMA EnterKeeps ==
  ASSUME IInv, Enter
  PROVE  IInv'
<1> DEFINE frame == [service |-> Callee, left |-> Depends(snap, Callee)]
<1>1. /\ Resolving /\ Pending # {} /\ Enterable(Callee)
      /\ calls' = Append(calls, frame)
      /\ Kept /\ evidence' = evidence
  BY DEF Enter, Kept, Depends
<1>2. /\ Callee \in ActiveServices(snap)
      /\ Presents(snap, Callee, Now)
      /\ Root \notin DOMAIN evidence[Now]
      /\ Reachable(snap, Root, Now) => Reachable(snap, Callee, Now)
  BY <1>1, NowTyped, DirectIsUsable, RootFacts DEF Enterable
<1>3. calls \in Seq(Call)
  BY DEF IInv, TypeOK, Call
<1>4. frame \in Call
  BY <1>1, <1>2, NowTyped, IdsTyped, CalleeTyped DEF Call
<1>5. GoodCall(snap, Now, Root, frame)
  BY <1>2 DEF GoodCall
<1> HIDE DEF frame
<1>6. PICK open \in Seq(Call) : open = Append(calls, frame)
  BY <1>3, <1>4, PushedShape
<1>7. /\ Len(calls) \in Nat /\ Len(open) = Len(calls) + 1
      /\ \A i \in 1 .. Len(calls) : open[i] = calls[i]
      /\ open[Len(calls) + 1] = frame
  BY <1>3, <1>4, <1>6, PushedShape, LenProperties
<1>8. open[1].service = Root
  <2>1. CASE calls = <<>>
    <3>1. Len(calls) = 0
      BY <2>1, EmptySeq
    <3>2. open[1] = frame
      BY <1>7, <3>1
    <3> QED
      BY <3>2, <2>1 DEF Root, frame
  <2>2. CASE calls # <<>>
    BY <1>3, <1>7, <2>2, TopTyped DEF Root
  <2> QED
    BY <2>1, <2>2
<1>9. ASSUME NEW i \in 1 .. Len(open)
      PROVE  GoodCall(snap, Now, Root, open[i])
  <2>1. CASE i = Len(calls) + 1
    BY <1>5, <1>7, <2>1
  <2>2. CASE i # Len(calls) + 1
    <3>1. i \in 1 .. Len(calls)
      BY <1>7, <2>2
    <3>2. calls # <<>>
      BY <3>1, EmptySeq
    <3> QED
      BY <1>1, <1>7, <3>1, <3>2, OpenCalls DEF Root
  <2> QED
    BY <2>1, <2>2
<1>10. ASSUME NEW i \in 1 .. Len(open) - 1
       PROVE  open[i + 1].service \in open[i].left
  <2>1. i \in 1 .. Len(calls)
    BY <1>7
  <2>2. calls # <<>>
    BY <2>1, EmptySeq
  <2>3. CASE i = Len(calls)
    <3>1. Callee \in Top.left /\ Top = calls[Len(calls)]
      BY <1>1, <2>2, CalleeTyped DEF Pending, Top
    <3> QED
      BY <1>7, <2>3, <2>1, <3>1 DEF frame
  <2>4. CASE i # Len(calls)
    <3>1. i \in 1 .. Len(calls) - 1 /\ i + 1 \in 1 .. Len(calls)
      BY <1>7, <2>1, <2>4
    <3> QED
      BY <1>1, <1>7, <2>1, <2>2, <3>1, OpenCalls
  <2> QED
    BY <2>3, <2>4
<1>11. GoodCalls(snap, Now, open)
  BY <1>8, <1>9, <1>10 DEF GoodCalls
<1> QED
  BY <1>1, <1>2, <1>6, <1>8, <1>11, StackChange

LEMMA BreakKeeps ==
  ASSUME IInv, Break
  PROVE  IInv'
<1> DEFINE path  == Append(CallPath, Callee)
           found == Found(FALSE, Direct(snap, Root, Now), path, Callee \in Visiting)
<1>1. /\ Resolving /\ Pending # {} /\ ~Enterable(Callee)
      /\ calls' = <<>> /\ Kept /\ Settle(Root, found)
  BY DEF Break, Kept
<1>2. Callee \notin Visiting
  <2>1. CASE calls = <<>>
    <3>1. Len(calls) = 0
      BY <2>1, EmptySeq
    <3> QED
      BY <3>1 DEF Visiting
  <2> QED
    BY <1>1, <2>1, NeverMetAgain
<1>3. snap \in Snapshots
  BY <1>1, NowTyped
<1>4. Broken(snap, Now, Callee)
  BY <1>1, <1>2, <1>3, DirectIsUsable DEF Enterable, Broken
<1>5. ~Reachable(snap, Root, Now)
  BY <1>1, <1>4, RootFacts, ReachableHereditary DEF Broken
<1>6. /\ path \in Seq(Nat) /\ Len(path) = Len(calls) + 1
      /\ path[Len(calls) + 1] = Callee /\ path[1] = Root
      /\ RealPath(snap, Now, path)
  BY <1>1, PathToCallee
<1> HIDE DEF path
<1>7. GoodFound(snap, Now, Root, found)
  <2>1. Direct(snap, Root, Now) \in DOMAIN snap.chains \cup {NoChain}
    BY <1>3, DirectIsUsable
  <2>2. /\ found.reachable = FALSE /\ found.cycle = FALSE /\ found.path = path
        /\ found \in [reachable : BOOLEAN, chain : DOMAIN snap.chains \cup {NoChain},
                      path : Seq(Nat), cycle : BOOLEAN]
    <3>1. (Callee \in Visiting) = FALSE
      BY <1>2
    <3>2. found = [reachable |-> FALSE, chain |-> Direct(snap, Root, Now),
                   path |-> path, cycle |-> FALSE]
      BY <3>1, Zenon DEF Found
    <3> HIDE DEF found
    <3> QED
      BY <3>2, <1>6, <2>1
  <2>3. Broken(snap, Now, path[Len(path)])
    BY <1>4, <1>6
  <2> HIDE DEF found
  <2> QED
    BY <1>5, <1>6, <2>2, <2>3 DEF GoodFound
<1>8. Root \in ActiveServices(snap)
  BY <1>1, RootFacts
<1> HIDE DEF found
<1> QED
  BY <1>1, <1>7, <1>8, Settling

LEMMA ReturnKeeps ==
  ASSUME IInv, Return
  PROVE  IInv'
<1>1. /\ Resolving /\ calls # <<>> /\ Top.left = {}
      /\ calls' = Returned /\ Kept
  BY DEF Return, Kept
<1>2. /\ calls \in Seq(Call) /\ Len(calls) \in Nat \ {0}
      /\ Len(calls) \in 1 .. Len(calls) /\ Top = calls[Len(calls)]
      /\ snap \in Snapshots
  BY <1>1, OpenCalls, TopTyped, NowTyped
<1>3. GoodCall(snap, Now, calls[1].service, Top)
  BY <1>1, <1>2, OpenCalls
<1>4. Reachable(snap, Top.service, Now)
  BY <1>1, <1>3, ReachableByParts DEF GoodCall
<1>5. /\ Returned \in Seq(Call) /\ Len(Returned) = Len(calls) - 1
      /\ \A i \in 1 .. Len(calls) - 1 :
           /\ Returned[i].service = calls[i].service
           /\ Returned[i].left = IF i = Len(calls) - 1
                                 THEN calls[i].left \ {Top.service}
                                 ELSE calls[i].left
  BY <1>1, <1>2, ReturnedShape
<1>6. CASE Len(calls) = 1
  <2> DEFINE found == Found(TRUE, Direct(snap, Root, Now), <<Root>>, FALSE)
  <2>1. Root = Top.service /\ Settle(Root, found)
    BY <1>1, <1>2, <1>6 DEF Root, Return
  <2>2. calls' = <<>>
    BY <1>1, <1>5, <1>6, EmptySeq
  <2>3. Root \in ActiveServices(snap) /\ Root \in Nat
    BY <1>2, <1>3, <2>1, IdsTyped DEF GoodCall
  <2>4. found \in [reachable : BOOLEAN, chain : DOMAIN snap.chains \cup {NoChain},
                   path : Seq(Nat), cycle : BOOLEAN]
    BY <1>2, <2>3, DirectIsUsable DEF Found
  <2>5. RealPath(snap, Now, <<Root>>)
    BY <2>3 DEF RealPath
  <2>6. GoodFound(snap, Now, Root, found)
    BY <1>4, <2>1, <2>4, <2>5 DEF GoodFound, Found
  <2> HIDE DEF found
  <2> QED
    BY <1>1, <2>1, <2>2, <2>3, <2>6, Settling
<1>7. CASE Len(calls) # 1
  <2> DEFINE last == Len(calls) - 1
  <2>1. last \in 1 .. last /\ 1 \in 1 .. last /\ evidence' = evidence
    <3>1. last \in Nat \ {0}
      BY <1>2, <1>7
    <3>2. evidence' = evidence
      BY <1>7 DEF Return
    <3> HIDE DEF last
    <3> QED
      BY <3>1, <3>2
  <2>2. PICK open \in Seq(Call) : open = Returned
    BY <1>5
  <2>3. 1 \in 1 .. last /\ open[1].service = calls[1].service
    BY <1>5, <2>1, <2>2
  <2>4. ASSUME NEW i \in 1 .. Len(open)
        PROVE  GoodCall(snap, Now, calls[1].service, open[i])
    <3>1. i \in 1 .. last /\ i \in 1 .. Len(calls)
      BY <1>2, <1>5, <2>2
    <3>2. GoodCall(snap, Now, calls[1].service, calls[i])
      BY <1>1, <3>1, OpenCalls
    <3>3. /\ open[i].service = calls[i].service
          /\ open[i].left \subseteq calls[i].left
          /\ calls[i].left \subseteq open[i].left \cup {Top.service}
      BY <1>5, <2>2, <3>1
    <3> QED
      BY <1>4, <3>2, <3>3 DEF GoodCall
  <2>5. ASSUME NEW i \in 1 .. Len(open) - 1
        PROVE  open[i + 1].service \in open[i].left
    <3>1. i \in 1 .. last /\ i + 1 \in 1 .. last /\ i # last
      BY <1>2, <1>5, <2>2
    <3>2. /\ open[i + 1].service = calls[i + 1].service
          /\ open[i].left = calls[i].left
      BY <1>5, <2>2, <3>1
    <3> QED
      BY <1>1, <1>2, <3>1, <3>2, OpenCalls
  <2>6. GoodCalls(snap, Now, open)
    BY <2>3, <2>4, <2>5 DEF GoodCalls
  <2> QED
    BY <1>1, <2>1, <2>2, <2>3, <2>6, OpenCalls, StackChange
<1> QED
  BY <1>6, <1>7

-----------------------------------------------------------------------------
LEMMA InitGood == Init => IInv
<1> SUFFICES ASSUME Init PROVE IInv
  OBVIOUS
<1>1. DOMAIN evidence = {} /\ Len(calls) = 0
  BY EmptySeq DEF Init
<1>2. TypeOK
  BY <1>1, EmptySeq DEF Init, TypeOK, Stages
<1> QED
  BY <1>1, <1>2 DEF Init, IInv, StageGood, GoodEvidence, CallsOpen

LEMMA BeginKeeps ==
  ASSUME IInv, Begin
  PROVE  IInv'
<1>1. /\ stage = "new" /\ evidence = <<>> /\ todo = {} /\ snap \in Snapshots
      /\ snap' = snap /\ calls' = calls /\ explanation' = explanation
      /\ explanation = {} /\ calls = <<>>
  BY DEF Begin, IInv, StageGood, CallsOpen, Resolving
<1>2. explanation \subseteq Statements /\ calls \in Seq(Call)
  BY DEF IInv, TypeOK, Call
<1>3. DOMAIN <<>> = {}
  OBVIOUS
<1>4. CASE Valid /\ stage' = "running" /\ todo' = Times
           /\ evidence' = [at \in Times |-> <<>>]
  <2>1. /\ DOMAIN evidence' = Times /\ Times' = Times /\ Valid'
        /\ \A t \in Times : evidence'[t] = <<>>
    BY <1>1, <1>4 DEF Times, Valid
  <2>2. TypeOK'
    BY <1>1, <1>2, <1>3, <1>4, <2>1 DEF TypeOK, Stages, Call
  <2>3. StageGood'
    BY <1>1, <1>4, <2>1 DEF StageGood
  <2>4. GoodEvidence' /\ CallsOpen'
    BY <1>1, <1>3, <2>1 DEF GoodEvidence, CallsOpen
  <2> QED
    BY <2>2, <2>3, <2>4 DEF IInv
<1>5. CASE ~Valid /\ stage' = "rejected" /\ UNCHANGED <<todo, evidence>>
  <2>1. TypeOK'
    BY <1>1, <1>2, <1>3, <1>5 DEF TypeOK, Stages, Call
  <2>2. StageGood' /\ GoodEvidence' /\ CallsOpen'
    BY <1>1, <1>3, <1>5 DEF StageGood, GoodEvidence, CallsOpen
  <2> QED
    BY <2>1, <2>2 DEF IInv
<1> QED
  BY <1>4, <1>5 DEF Begin

LEMMA NextPointKeeps ==
  ASSUME IInv, NextPoint
  PROVE  IInv'
<1>1. /\ Resolving /\ calls = <<>> /\ Waiting = {}
      /\ todo' = todo \ {Now} /\ calls' = calls /\ evidence' = evidence
      /\ snap' = snap /\ stage' = stage /\ explanation' = explanation
  BY DEF NextPoint
<1>2. /\ stage = "running" /\ Now \in todo /\ Valid
      /\ \A t \in todo : t \in Int /\ Now <= t
  BY <1>1, NowTyped
<1>3. DOMAIN evidence[Now] = ActiveServices(snap)
  BY <1>1, NowTyped DEF Waiting, IInv, TypeOK
<1>4. ASSUME NEW t \in DOMAIN evidence, t \notin todo'
      PROVE  /\ DOMAIN evidence[t] = ActiveServices(snap)
             /\ \A u \in todo' : t < u
  <2>1. CASE t = Now
    BY <1>1, <1>2, <1>3, <2>1
  <2>2. CASE t # Now
    BY <1>1, <1>4, <2>2 DEF IInv, TypeOK
  <2> QED
    BY <2>1, <2>2
<1>5. TypeOK'
  <2>1. Times' = Times /\ Verdict' = Verdict
    BY <1>1 DEF Times, Verdict
  <2> QED
    BY <1>1, <1>4, <2>1 DEF IInv, TypeOK
<1>6. StageGood'
  BY <1>1, <1>2 DEF IInv, StageGood, Valid
<1>7. GoodEvidence' /\ CallsOpen'
  BY <1>1 DEF IInv, GoodEvidence, CallsOpen
<1> QED
  BY <1>5, <1>6, <1>7 DEF IInv

LEMMA ExplainKeeps ==
  ASSUME IInv, Explain
  PROVE  IInv'
<1>1. /\ stage = "running" /\ todo = {} /\ stage' = "done" /\ calls = <<>>
      /\ UNCHANGED <<snap, todo, calls, evidence>>
  BY DEF Explain, IInv, CallsOpen, Resolving
<1>2. /\ explanation' \subseteq Statements
      /\ explanation' = Summary
  BY DEF Explain, Summary
<1>3. Summary' = Summary /\ Times' = Times /\ Verdict' = Verdict
  BY <1>1 DEF Summary, Early, Late, FailingTimes, Times, Verdict
<1>4. TypeOK'
  BY <1>1, <1>2, <1>3 DEF IInv, TypeOK, Stages
<1>5. StageGood'
  BY <1>1, <1>2, <1>3 DEF IInv, StageGood, Valid
<1>6. GoodEvidence' /\ CallsOpen'
  BY <1>1 DEF IInv, GoodEvidence, CallsOpen
<1> QED
  BY <1>4, <1>5, <1>6 DEF IInv

LEMMA StepKeeps == IInv /\ [Next]_vars => IInv'
<1> SUFFICES ASSUME IInv, [Next]_vars PROVE IInv'
  OBVIOUS
<1>1. CASE UNCHANGED vars
  <2>1. UNCHANGED <<snap, todo, calls, evidence, stage, explanation>>
    BY <1>1 DEF vars
  <2>2. Times' = Times /\ Verdict' = Verdict /\ Now' = Now
    BY <2>1 DEF Times, Verdict, Now
  <2>3. Summary' = Summary /\ Valid' = Valid /\ Resolving' = Resolving
    BY <2>1 DEF Summary, Early, Late, FailingTimes, Valid, Resolving
  <2>4. TypeOK'
    BY <2>1, <2>2 DEF IInv, TypeOK
  <2>5. StageGood'
    BY <2>1, <2>3 DEF IInv, StageGood
  <2>6. GoodEvidence' /\ CallsOpen'
    BY <2>1, <2>2, <2>3 DEF IInv, GoodEvidence, CallsOpen
  <2> QED
    BY <2>4, <2>5, <2>6 DEF IInv
<1> QED
  BY <1>1, BeginKeeps, EnterKeeps, BreakKeeps, ReturnKeeps, NextPointKeeps,
     ExplainKeeps DEF Next

(* What the open calls have established survives every step. *)
THEOREM SimulationInvariance == Spec => []IInv
BY InitGood, StepKeeps, PTL DEF Spec

-----------------------------------------------------------------------------
(* Types: the times are evaluated in their order and each for all active
   services, whatever the snapshot (lines 165-193). *)
THEOREM SimulationTyped == Spec => []TypeOK
<1>1. IInv => TypeOK
  BY DEF IInv
<1> QED
  BY <1>1, SimulationInvariance, PTL

(* The recursive search, with its early returns, decides reachability as it is
   defined without a search, for every graph without a cycle (lines 242-268). *)
THEOREM SearchIsReachability == Spec => []SearchDecidesReachable
<1>1. IInv => SearchDecidesReachable
  BY DEF IInv, GoodEvidence, GoodFound, SearchDecidesReachable
<1> QED
  BY <1>1, SimulationInvariance, PTL

(* The path of a broken service leads along dependencies to one that is absent,
   inactive or without a chain, and the cycle guard never fires (242-268). *)
THEOREM BrokenPathsAreReal == Spec => []BrokenPathIsReal
<1>1. ASSUME IInv, NEW t \in DOMAIN evidence, NEW s \in DOMAIN evidence[t]
      PROVE  LET found == evidence[t][s]
                 path == found.path
                 last == path[Len(path)]
             IN /\ ~found.cycle
                /\ path[1] = s
                /\ \A i \in 1 .. Len(path) - 1 :
                     /\ path[i + 1] \in snap.services[path[i]].dependencies
                     /\ Direct(snap, path[i], t) # NoChain
                /\ ~found.reachable =>
                     last \notin ActiveServices(snap) \/ Direct(snap, last, t) = NoChain
  <2>1. GoodFound(snap, t, s, evidence[t][s]) /\ snap \in Snapshots
    BY <1>1 DEF IInv, GoodEvidence, StageGood
  <2>2. \A u : Direct(snap, u, t) # NoChain <=> Presents(snap, u, t)
    BY <2>1, DirectIsUsable
  <2> QED
    BY <2>1, <2>2 DEF GoodFound, RealPath, Broken, Depends
<1>2. IInv => BrokenPathIsReal
  BY <1>1 DEF BrokenPathIsReal
<1> QED
  BY <1>2, SimulationInvariance, PTL

\* At the end every sampled time fails that has an unreachable service.
LEMMA FailuresAreReal ==
  ASSUME IInv, stage = "done"
  PROVE  /\ FailingTimes = {at \in Samples(snap) :
                              \E s \in ActiveServices(snap) : ~Reachable(snap, s, at)}
         /\ explanation = Summary
<1>1. /\ todo = {} /\ explanation = Summary
      /\ DOMAIN evidence = Samples(snap)
  BY DEF IInv, StageGood, TypeOK, Times
<1>2. \A at \in Samples(snap) : DOMAIN evidence[at] = ActiveServices(snap)
  BY <1>1 DEF IInv, TypeOK
<1>3. \A at \in Samples(snap), s \in ActiveServices(snap) :
        evidence[at][s].reachable <=> Reachable(snap, s, at)
  BY <1>1, <1>2 DEF IInv, GoodEvidence, GoodFound
<1> QED
  BY <1>1, <1>2, <1>3 DEF FailingTimes

(* The summary of a simulation tells exactly the failures there are, and on
   which side of the overlap they lie (lines 293-314). *)
THEOREM SummariesAreTrue == Spec => []SummaryIsTrue
<1> DEFINE FailsAt(times) ==
      \E at \in times, s \in ActiveServices(snap) : ~Reachable(snap, s, at)
<1>1. ASSUME IInv, stage = "done"
      PROVE  /\ "all clear" \in explanation <=> ~FailsAt(Samples(snap))
             /\ "failures" \in explanation <=> FailsAt(Samples(snap))
             /\ "before overlap" \in explanation <=>
                  FailsAt({at \in Samples(snap) : at < snap.start})
             /\ "after overlap" \in explanation <=>
                  FailsAt({at \in Samples(snap) : at > snap.end})
  <2>1. /\ "all clear" \in Summary <=> FailingTimes = {}
        /\ "failures" \in Summary <=> FailingTimes # {}
        /\ "before overlap" \in Summary <=> \E at \in FailingTimes : at < snap.start
        /\ "after overlap" \in Summary <=> \E at \in FailingTimes : at > snap.end
    BY DEF Summary, Statements, Early, Late
  <2> QED
    BY <1>1, <2>1, FailuresAreReal
<1>2. IInv => SummaryIsTrue
  BY <1>1 DEF SummaryIsTrue
<1> QED
  BY <1>2, SimulationInvariance, PTL

\* "All clear" says that every service is reachable at every sampled time.
LEMMA AllClearIsReachable ==
  ASSUME IInv, AllClear, NEW at \in Samples(snap), NEW s \in ActiveServices(snap)
  PROVE  Reachable(snap, s, at)
<1>1. stage = "done"
  BY DEF IInv, StageGood, AllClear
<1>2. FailingTimes = {}
  <2>1. "all clear" \in Summary
    BY <1>1, FailuresAreReal DEF AllClear
  <2> QED
    BY <2>1 DEF Summary
<1> QED
  BY <1>1, <1>2, FailuresAreReal

(* "All clear" covers the time after a sample, with the same active anchors, up
   to the next end or beginning of a chain's validity (lines 270-295). *)
THEOREM AllClearHolds == Spec => []AllClearHoldsUntilNextEdge
<1>1. ASSUME IInv, AllClear,
             NEW at \in Samples(snap), NEW t \in 0 .. Horizon,
             NEW s \in ActiveServices(snap), at <= t,
             ActiveAnchors(snap, at) = ActiveAnchors(snap, t),
             ~\E e \in WindowEdges(snap) : at < e /\ e <= t
      PROVE  Reachable(snap, s, t)
  <2>1. snap \in Snapshots /\ at \in Int /\ t \in Int
    BY <1>1, TimesTyped, HorizonAssumption DEF IInv, StageGood
  <2> QED
    BY <1>1, <2>1, AllClearIsReachable, ReachableUntilEdge
<1>2. IInv => AllClearHoldsUntilNextEdge
  BY <1>1 DEF AllClearHoldsUntilNextEdge
<1> QED
  BY <1>2, SimulationInvariance, PTL

\* The sample that stands for a time: the first one of its phase.
Representative(input, t) ==
  IF t < input.start THEN input.start - Minute
  ELSE IF t <= input.end THEN input.start ELSE input.end + Minute

\* Times no sample stands for: earlier than the first minute before the
\* overlap, and within the minute after it.
Unsampled(input, t) ==
  t < input.start - Minute \/ (input.end < t /\ t < input.end + Minute)

\* Every phase of a rollover is sampled (criticalTimes).
LEMMA PhaseSampled ==
  ASSUME NEW input \in Snapshots, input.start < input.end,
         NEW t \in Int, ~Unsampled(input, t)
  PROVE  LET at == Representative(input, t)
         IN /\ at \in Samples(input) /\ at \in Int /\ at <= t
            /\ ActiveAnchors(input, at) = ActiveAnchors(input, t)
<1> DEFINE at == Representative(input, t)
<1>1. {input.start, input.end, Minute} \subseteq Int /\ Minute > 0
  BY SnapshotAssumption, MinuteAssumption
<1>2. at \in Samples(input)
  BY DEF Representative, Samples
<1>3. /\ at \in Int /\ at <= t
      /\ t < input.start <=> at < input.start
      /\ t > input.end <=> at > input.end
  BY <1>1 DEF Representative, Unsampled
<1> QED
  BY <1>2, <1>3 DEF ActiveAnchors

(* What the sentence of line 295 may claim: an active service is reachable at
   any time a sample stands for, the overlap's among them, unless a chain's
   validity began or ended since that sample. *)
AllClearWhereSampled ==
  AllClear =>
    \A t \in Int, s \in ActiveServices(snap) :
      (/\ ~Unsampled(snap, t)
       /\ ~\E e \in WindowEdges(snap) : Representative(snap, t) < e /\ e <= t)
        => Reachable(snap, s, t)

(* The summary keeps that promise for every snapshot (lines 270-295). *)
THEOREM AllClearMeans == Spec => []AllClearWhereSampled
<1>1. ASSUME IInv, AllClear, NEW t \in Int, NEW s \in ActiveServices(snap),
             ~Unsampled(snap, t),
             ~\E e \in WindowEdges(snap) : Representative(snap, t) < e /\ e <= t
      PROVE  Reachable(snap, s, t)
  <2>1. snap \in Snapshots /\ snap.start < snap.end
    <3>1. stage = "done" /\ snap \in Snapshots
      BY <1>1 DEF IInv, StageGood, AllClear
    <3>2. Valid
      BY <1>1, <3>1 DEF IInv, StageGood
    <3> QED
      BY <3>1, <3>2 DEF Valid
  <2>2. /\ Representative(snap, t) \in Samples(snap)
        /\ Representative(snap, t) \in Int /\ Representative(snap, t) <= t
        /\ ActiveAnchors(snap, Representative(snap, t)) = ActiveAnchors(snap, t)
    BY <1>1, <2>1, PhaseSampled
  <2> QED
    BY <1>1, <2>1, <2>2, AllClearIsReachable, ReachableUntilEdge
<1>2. IInv => AllClearWhereSampled
  BY <1>1 DEF AllClearWhereSampled
<1> QED
  BY <1>2, SimulationInvariance, PTL

-----------------------------------------------------------------------------
\* The ways from a service along its dependencies.  The search enters and
\* returns from each once, not each service once, as it remembers nothing.
Ways == {p \in Seq(Nat) : /\ p # <<>>
                          /\ \A i \in 1 .. Len(p) - 1 :
                               /\ p[i] \in DOMAIN snap.services
                               /\ p[i + 1] \in Depends(snap, p[i])}

Follows(p, k) == \A i \in 1 .. k : p[i] = calls[i].service

\* The way of a service that is not being resolved, a way that leaves the open
\* calls towards a dependency not yet taken up, and one along the open calls.
Fresh(p) == calls = <<>> \/ p[1] # calls[1].service

Beyond(p) ==
  \E k \in 1 .. Len(calls) :
    /\ k < Len(p) /\ Follows(p, k)
    /\ p[k + 1] \in calls[k].left
    /\ k < Len(calls) => p[k + 1] # calls[k + 1].service

Along(p) == Len(p) <= Len(calls) /\ Follows(p, Len(p))

Unentered == {p \in Ways : p[1] \in Waiting /\ (Fresh(p) \/ Beyond(p))}

Unreturned ==
  {p \in Ways : p[1] \in Waiting /\ (Fresh(p) \/ Beyond(p) \/ Along(p))}

Shrinks(old, new) == new \subseteq old /\ new # old

(* No step of a simulation undoes another: each goes on to the next stage, ends
   a time, or enters a way through the graph or returns from one for good
   (lines 165-196, 242-268). *)
EveryStepCounts ==
  \/ <<stage, stage'>> \in {<<"new", "running">>, <<"new", "rejected">>,
                            <<"running", "done">>}
  \/ stage' = stage /\ Shrinks(todo, todo')
  \/ /\ stage' = stage /\ todo' = todo
     /\ Unentered' \subseteq Unentered
     /\ Unreturned' \subseteq Unreturned
     /\ Unentered' # Unentered \/ Unreturned' # Unreturned

\* The way of the service asked for is open until it has its finding.
LEMMA RootWay ==
  ASSUME IInv, Resolving, Root \in Waiting, Root \in Nat
  PROVE  <<Root>> \in Unreturned
<1>1. <<Root>> \in Ways
  BY DEF Ways
<1>2. CASE calls = <<>>
  BY <1>1, <1>2 DEF Unreturned, Fresh
<1>3. CASE calls # <<>>
  <2>1. Len(calls) \in Nat /\ 1 <= Len(calls) /\ Root = calls[1].service
    BY <1>3, OpenCalls, TopTyped DEF Root
  <2>2. Along(<<Root>>)
    BY <2>1 DEF Along, Follows
  <2> QED
    BY <1>1, <2>2 DEF Unreturned
<1> QED
  BY <1>2, <1>3

\* A finding closes every way of its service, and no other.
LEMMA SettlingCounts ==
  ASSUME IInv, Resolving, Kept, calls' = <<>>,
         Root \in ActiveServices(snap) \ DOMAIN evidence[Now],
         NEW found, Settle(Root, found)
  PROVE  EveryStepCounts
<1>1. Root \in Waiting /\ <<Root>> \in Unreturned
  <2>1. Root \in Waiting /\ Root \in Nat
    BY NowTyped, IdsTyped DEF Waiting
  <2> QED
    BY <2>1, RootWay
<1>2. Waiting' = Waiting \ {Root} /\ Ways' = Ways
  <2>1. Now' = Now
    BY StageKept
  <2>2. DOMAIN evidence'[Now] = DOMAIN evidence[Now] \cup {Root}
    BY NowTyped, SettledShape
  <2> QED
    BY <2>1, <2>2 DEF Waiting, Ways, Kept
<1>3. Len(calls') = 0
  BY EmptySeq
<1>4. \A p : ~Beyond(p)' /\ (Along(p)' => Len(p) <= 0)
  BY <1>3 DEF Beyond, Along
<1>5. \A p \in Ways : p[1] \in Waiting' => Fresh(p)
  BY <1>2 DEF Fresh, Root
<1>6. Unentered' \subseteq Unentered /\ Unreturned' \subseteq Unreturned
  BY <1>2, <1>5 DEF Unentered, Unreturned
<1>7. <<Root>> \notin Unreturned'
  BY <1>2 DEF Unreturned
<1> QED
  BY <1>1, <1>6, <1>7 DEF EveryStepCounts, Kept

\* A call takes up the way to its service, and to nothing behind it.
LEMMA EnterCounts ==
  ASSUME IInv, Enter
  PROVE  EveryStepCounts
<1> DEFINE n == Len(calls)
           frame == [service |-> Callee, left |-> Depends(snap, Callee)]
<1>1. /\ Resolving /\ Pending # {} /\ Kept /\ evidence' = evidence
      /\ calls' = Append(calls, frame)
  BY DEF Enter, Kept, Depends
<1>2. calls \in Seq(Call) /\ n \in Nat /\ frame \in Call
  <2>1. calls \in Seq(Call)
    BY DEF IInv, TypeOK, Call
  <2>2. Callee \in ActiveServices(snap)
    BY DEF Enter, Enterable
  <2> QED
    BY <1>1, <2>1, <2>2, NowTyped, IdsTyped, CalleeTyped, LenProperties DEF Call
<1>3. /\ Len(calls') = n + 1 /\ calls' # <<>>
      /\ \A i \in 1 .. n : calls'[i] = calls[i]
      /\ calls'[n + 1].service = Callee
  <2> HIDE DEF frame
  <2>1. /\ Len(calls') = n + 1 /\ calls' # <<>>
        /\ \A i \in 1 .. n : calls'[i] = calls[i]
        /\ calls'[n + 1] = frame
    BY <1>1, <1>2, PushedShape
  <2> QED
    BY <2>1 DEF frame
<1>4. Now' = Now /\ Waiting' = Waiting /\ Ways' = Ways
  BY <1>1, StageKept DEF Waiting, Ways, Kept
<1>5. calls'[1].service = Root
  <2>1. CASE calls = <<>>
    <3>1. n = 0
      BY <2>1, EmptySeq
    <3> QED
      BY <1>3, <2>1, <3>1 DEF Root
  <2>2. CASE calls # <<>>
    BY <1>2, <1>3, <2>2, TopTyped DEF Root
  <2> QED
    BY <2>1, <2>2
<1>6. \A p : Fresh(p)' => Fresh(p)
  BY <1>3, <1>5 DEF Fresh, Root
<1>7. ASSUME NEW p \in Ways, n + 1 <= Len(p), \A i \in 1 .. n : p[i] = calls[i].service,
             p[n + 1] = Callee
      PROVE  Fresh(p) \/ Beyond(p)
  <2>1. CASE calls = <<>>
    BY <2>1 DEF Fresh
  <2>2. CASE calls # <<>>
    <3>1. n \in 1 .. n /\ Callee \in calls[n].left
      BY <1>1, <1>2, <2>2, TopTyped, CalleeTyped DEF Pending
    <3>2. Len(p) \in Nat /\ n < Len(p)
      BY <1>2, <1>7, LenProperties DEF Ways
    <3> QED
      BY <1>7, <3>1, <3>2 DEF Beyond, Follows
  <2> QED
    BY <2>1, <2>2
<1>8. ASSUME NEW p \in Ways, Beyond(p)'
      PROVE  Fresh(p) \/ Beyond(p)
  <2>1. PICK k \in 1 .. n + 1 :
          /\ k < Len(p) /\ \A i \in 1 .. k : p[i] = calls'[i].service
          /\ p[k + 1] \in calls'[k].left
          /\ k < n + 1 => p[k + 1] # calls'[k + 1].service
    BY <1>3, <1>8 DEF Beyond, Follows
  <2>2. Len(p) \in Nat
    BY LenProperties DEF Ways
  <2>3. CASE k = n + 1
    <3>1. /\ n + 1 <= Len(p) /\ p[n + 1] = Callee
          /\ \A i \in 1 .. n : p[i] = calls[i].service
      BY <1>2, <1>3, <2>1, <2>2, <2>3
    <3> QED
      BY <1>7, <3>1
  <2>4. CASE k # n + 1
    <3>1. /\ k \in 1 .. n /\ k < Len(p) /\ p[k + 1] \in calls[k].left
          /\ \A i \in 1 .. k : p[i] = calls[i].service
      BY <1>2, <1>3, <2>1, <2>4
    <3>2. k < n => p[k + 1] # calls[k + 1].service
      BY <1>2, <1>3, <2>1, <3>1
    <3> QED
      BY <3>1, <3>2 DEF Beyond, Follows
  <2> QED
    BY <2>3, <2>4
<1>9. ASSUME NEW p \in Ways, Along(p)'
      PROVE  Fresh(p) \/ Beyond(p) \/ Along(p)
  <2>1. /\ Len(p) \in Nat /\ Len(p) <= n + 1
        /\ \A i \in 1 .. Len(p) : p[i] = calls'[i].service
    BY <1>3, <1>9, LenProperties DEF Along, Follows, Ways
  <2>2. CASE Len(p) = n + 1
    <3>1. p[n + 1] = Callee /\ \A i \in 1 .. n : p[i] = calls[i].service
      BY <1>2, <1>3, <2>1, <2>2
    <3> QED
      BY <1>2, <1>7, <2>2, <3>1
  <2>3. CASE Len(p) # n + 1
    <3>1. Len(p) <= n /\ \A i \in 1 .. Len(p) : p[i] = calls[i].service
      BY <1>2, <1>3, <2>1, <2>3
    <3> QED
      BY <3>1 DEF Along, Follows
  <2> QED
    BY <2>2, <2>3
<1>10. Unentered' \subseteq Unentered /\ Unreturned' \subseteq Unreturned
  BY <1>4, <1>6, <1>8, <1>9 DEF Unentered, Unreturned
<1>11. PICK way \in Ways :
         /\ Len(way) = n + 1 /\ way[1] = Root
         /\ \A i \in 1 .. n : way[i] = calls[i].service
         /\ way[n + 1] = Callee
  <2>1. PICK path \in Seq(Nat) :
          /\ path # <<>> /\ Len(path) = n + 1 /\ path[1] = Root
          /\ \A i \in 1 .. n : path[i] = calls[i].service
          /\ path[n + 1] = Callee /\ RealPath(snap, Now, path)
    BY <1>1, PathToCallee
  <2>2. \A i \in 1 .. n : path[i] \in DOMAIN snap.services
    <3>1. ASSUME NEW i \in 1 .. n
          PROVE  calls[i].service \in DOMAIN snap.services
      <4>1. calls # <<>>
        BY EmptySeq
      <4> QED
        BY <1>1, <4>1, OpenCalls, NowTyped, IdsTyped DEF GoodCall
    <3> QED
      BY <2>1, <3>1
  <2>3. \A i \in 1 .. Len(path) - 1 : /\ path[i] \in DOMAIN snap.services
                                      /\ path[i + 1] \in Depends(snap, path[i])
    BY <1>2, <2>1, <2>2 DEF RealPath
  <2>4. path \in Ways
    BY <2>1, <2>3 DEF Ways
  <2> QED
    BY <2>1, <2>4
<1>12. way \in Unentered
  <2>1. Root \in Waiting
    BY <1>1, RootFacts DEF Waiting
  <2>2. Fresh(way) \/ Beyond(way)
    BY <1>2, <1>7, <1>11
  <2> QED
    BY <1>11, <2>1, <2>2 DEF Unentered
<1>13. way \notin Unentered'
  <2>1. \A i \in 1 .. n + 1 : way[i] = calls'[i].service
    BY <1>2, <1>3, <1>11
  <2>2. ~Fresh(way)'
    BY <1>3, <1>5, <1>11 DEF Fresh
  <2>3. ~Beyond(way)'
    <3>1. ASSUME NEW k \in 1 .. n + 1, k < n + 1
          PROVE  way[k + 1] = calls'[k + 1].service
      BY <1>2, <2>1, <3>1
    <3> QED
      BY <1>2, <1>3, <1>11, <3>1 DEF Beyond
  <2> QED
    BY <2>2, <2>3 DEF Unentered
<1> QED
  BY <1>1, <1>10, <1>12, <1>13 DEF EveryStepCounts, Kept

LEMMA BreakCounts ==
  ASSUME IInv, Break
  PROVE  EveryStepCounts
<1> DEFINE found == Found(FALSE, Direct(snap, Root, Now), Append(CallPath, Callee),
                          Callee \in Visiting)
<1>1. /\ Resolving /\ Pending # {} /\ calls' = <<>> /\ Kept /\ Settle(Root, found)
  BY DEF Break, Kept
<1>2. Root \in ActiveServices(snap) \ DOMAIN evidence[Now]
  BY <1>1, RootFacts
<1> HIDE DEF found
<1> QED
  BY <1>1, <1>2, SettlingCounts

\* A return closes the way along all open calls.
LEMMA ReturnCounts ==
  ASSUME IInv, Return
  PROVE  EveryStepCounts
<1> DEFINE n == Len(calls)
<1>1. /\ Resolving /\ calls # <<>> /\ calls' = Returned /\ Kept
  BY DEF Return, Kept
<1>2. /\ calls \in Seq(Call) /\ n \in Nat \ {0} /\ Top = calls[n]
      /\ Root = calls[1].service
      /\ Root \in ActiveServices(snap) \ DOMAIN evidence[Now]
      /\ \A i \in 1 .. n - 1 : calls[i + 1].service \in calls[i].left
  BY <1>1, OpenCalls, TopTyped DEF Root
<1>3. /\ Len(calls') = n - 1
      /\ \A i \in 1 .. n - 1 :
           /\ calls'[i].service = calls[i].service
           /\ calls'[i].left \subseteq calls[i].left
           /\ i = n - 1 => calls[n].service \notin calls'[i].left
  BY <1>1, <1>2, ReturnedShape
<1>4. CASE n = 1
  <2> DEFINE found == Found(TRUE, Direct(snap, Root, Now), <<Root>>, FALSE)
  <2>1. Settle(Root, found)
    BY <1>4 DEF Return
  <2>2. calls' = <<>>
    <3>1. calls' \in Seq(Call)
      BY <1>1, <1>2, ReturnedShape
    <3> QED
      BY <1>3, <1>4, <3>1, EmptySeq
  <2> HIDE DEF found
  <2> QED
    BY <1>1, <1>2, <2>1, <2>2, SettlingCounts
<1>5. CASE n # 1
  <2>1. evidence' = evidence
    BY <1>5 DEF Return
  <2>2. Now' = Now /\ Waiting' = Waiting /\ Ways' = Ways
    BY <1>1, <2>1, StageKept DEF Waiting, Ways, Kept
  <2>3. 1 \in 1 .. n - 1 /\ calls' # <<>> /\ calls'[1].service = Root
    <3>1. 1 \in 1 .. n - 1 /\ Len(calls') # 0
      BY <1>2, <1>3, <1>5
    <3> QED
      BY <1>2, <1>3, <3>1, EmptySeq
  <2>4. \A p : Fresh(p)' => Fresh(p)
    BY <1>2, <2>3 DEF Fresh
  <2>5. ASSUME NEW p, Beyond(p)'
        PROVE  Beyond(p)
    <3>1. PICK k \in 1 .. n - 1 :
            /\ k < Len(p) /\ \A i \in 1 .. k : p[i] = calls'[i].service
            /\ p[k + 1] \in calls'[k].left
            /\ k < n - 1 => p[k + 1] # calls'[k + 1].service
      BY <1>3, <2>5 DEF Beyond, Follows
    <3>2. /\ k \in 1 .. n /\ p[k + 1] \in calls[k].left
          /\ \A i \in 1 .. k : p[i] = calls[i].service
      BY <1>2, <1>3, <3>1
    <3>3. p[k + 1] # calls[k + 1].service
      <4>1. CASE k = n - 1
        <5>1. calls[n].service \notin calls'[k].left /\ k + 1 = n
          BY <1>2, <1>3, <4>1, <3>1
        <5> QED
          BY <3>1, <5>1
      <4>2. CASE k # n - 1
        <5>1. k < n - 1 /\ k + 1 \in 1 .. n - 1
          BY <1>2, <3>1, <4>2
        <5> QED
          BY <1>3, <3>1, <5>1
      <4> QED
        BY <4>1, <4>2
    <3> QED
      BY <3>1, <3>2, <3>3 DEF Beyond, Follows
  <2>6. ASSUME NEW p \in Ways, Along(p)'
        PROVE  Along(p)
    <3>1. /\ Len(p) \in Nat /\ Len(p) <= n - 1
          /\ \A i \in 1 .. Len(p) : p[i] = calls'[i].service
      BY <1>3, <2>6, LenProperties DEF Along, Follows, Ways
    <3>2. Len(p) <= n /\ \A i \in 1 .. Len(p) : p[i] = calls[i].service
      BY <1>2, <1>3, <3>1
    <3> QED
      BY <3>2 DEF Along, Follows
  <2>7. Unentered' \subseteq Unentered /\ Unreturned' \subseteq Unreturned
    BY <2>2, <2>4, <2>5, <2>6 DEF Unentered, Unreturned
  <2>8. PICK way \in Ways : /\ Len(way) = n
                            /\ \A i \in 1 .. n : way[i] = calls[i].service
    <3>1. /\ CallPath \in Seq(Nat) /\ Len(CallPath) = n
          /\ \A i \in 1 .. n : CallPath[i] = calls[i].service
      BY <1>2, CallPathShape
    <3>2. \A i \in 1 .. n - 1 :
            /\ calls[i].service \in DOMAIN snap.services
            /\ calls[i + 1].service \in Depends(snap, calls[i].service)
      <4>1. ASSUME NEW i \in 1 .. n - 1
            PROVE  /\ calls[i].service \in DOMAIN snap.services
                   /\ calls[i + 1].service \in Depends(snap, calls[i].service)
        <5>1. i \in 1 .. n
          BY <1>2
        <5> QED
          BY <1>1, <1>2, <5>1, OpenCalls, NowTyped, IdsTyped DEF GoodCall
      <4> QED
        BY <4>1
    <3>3. \A i \in 1 .. n - 1 : /\ CallPath[i] \in DOMAIN snap.services
                                /\ CallPath[i + 1] \in Depends(snap, CallPath[i])
      <4>1. \A i \in 1 .. n - 1 : i \in 1 .. n /\ i + 1 \in 1 .. n
        BY <1>2
      <4>2. \A i \in 1 .. n - 1 : /\ CallPath[i] = calls[i].service
                                  /\ CallPath[i + 1] = calls[i + 1].service
        BY <3>1, <4>1
      <4> QED
        BY <3>2, <4>2
    <3>4. CallPath # <<>>
      BY <1>2, <3>1, EmptySeq
    <3>5. CallPath \in Ways
      BY <3>1, <3>3, <3>4 DEF Ways
    <3> QED
      BY <3>1, <3>5
  <2>9. way[1] = Root /\ way \in Unreturned
    <3>1. way[1] = Root /\ Root \in Waiting
      BY <1>2, <2>8 DEF Waiting
    <3>2. Along(way)
      BY <1>2, <2>8 DEF Along, Follows
    <3> QED
      BY <3>1, <3>2 DEF Unreturned
  <2>10. way \notin Unreturned'
    <3>1. ~Fresh(way)'
      BY <2>3, <2>9 DEF Fresh
    <3>2. ~Along(way)'
      BY <1>2, <1>3, <2>8 DEF Along
    <3>3. ~Beyond(way)'
      <4>1. ASSUME NEW k \in 1 .. n - 1, way[k + 1] \in calls'[k].left
            PROVE  k < n - 1 /\ way[k + 1] = calls'[k + 1].service
        <5>1. k + 1 \in 1 .. n /\ way[k + 1] = calls[k + 1].service
          BY <1>2, <2>8
        <5>2. k # n - 1
          BY <1>2, <1>3, <4>1, <5>1
        <5>3. k < n - 1 /\ k + 1 \in 1 .. n - 1
          BY <1>2, <5>2
        <5> QED
          BY <1>3, <5>1, <5>3
      <4> QED
        BY <1>3, <4>1 DEF Beyond
    <3> QED
      BY <3>1, <3>2, <3>3 DEF Unreturned
  <2> QED
    BY <1>1, <2>7, <2>9, <2>10 DEF EveryStepCounts, Kept
<1> QED
  BY <1>4, <1>5

(* In a validated snapshot no way meets a service twice, so a way is no longer
   than the list of services, and there are finitely many (line 146). *)
THEOREM WaysNeverRepeat ==
  ASSUME Valid, NEW p \in Ways,
         NEW i \in 1 .. Len(p), NEW j \in 1 .. Len(p), i < j
  PROVE  p[i] # p[j]
<1>1. SUFFICES ASSUME p[i] = p[j] PROVE FALSE
  OBVIOUS
<1> DEFINE knot == {p[k] : k \in i .. j - 1}
<1>2. Len(p) \in Nat
  BY LenProperties DEF Ways
<1>3. ASSUME NEW k \in i .. j - 1
      PROVE  p[k] \in DOMAIN snap.services /\ Depends(snap, p[k]) \cap knot # {}
  <2>1. k \in 1 .. Len(p) - 1
    BY <1>2
  <2>2. p[k] \in DOMAIN snap.services /\ p[k + 1] \in Depends(snap, p[k])
    BY <2>1 DEF Ways
  <2>3. p[k + 1] \in knot
    <3>1. CASE k + 1 \in i .. j - 1
      BY <3>1
    <3>2. CASE k + 1 \notin i .. j - 1
      <4>1. k + 1 = j /\ i \in i .. j - 1
        BY <3>2
      <4> QED
        BY <1>1, <4>1
    <3> QED
      BY <3>1, <3>2
  <2> QED
    BY <2>2, <2>3
<1>4. knot # {} /\ knot \subseteq DOMAIN snap.services
  <2>1. i \in i .. j - 1
    OBVIOUS
  <2> QED
    BY <1>3, <2>1
<1>5. \A n \in knot : Edges(snap)[n] \cap knot # {}
  BY <1>3, <1>4 DEF Edges, Depends
<1> QED
  BY <1>4, <1>5 DEF Valid, Cyclic, Edges

(* A simulation cannot go round in circles, whatever the snapshot, although a
   shared dependency is resolved once for every way that leads to it: what is
   left of that for `SimulationEnds` is that the next step is taken at all. *)
THEOREM SimulationIsUsedUp == Spec => [][EveryStepCounts]_vars
<1>1. IInv /\ [Next]_vars => [EveryStepCounts]_vars
  <2> SUFFICES ASSUME IInv, Next PROVE EveryStepCounts
    OBVIOUS
  <2>1. CASE Begin
    BY <2>1 DEF Begin, EveryStepCounts
  <2>2. CASE NextPoint
    <3>1. Now \in todo /\ todo' = todo \ {Now} /\ stage' = stage
      BY <2>2, NowTyped DEF NextPoint
    <3> QED
      BY <3>1 DEF EveryStepCounts, Shrinks
  <2>3. CASE Explain
    BY <2>3 DEF Explain, EveryStepCounts
  <2> QED
    BY <2>1, <2>2, <2>3, EnterCounts, BreakCounts, ReturnCounts DEF Next
<1> QED
  BY <1>1, SimulationInvariance, PTL DEF Spec
=============================================================================
