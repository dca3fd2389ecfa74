--------------------------- MODULE CycleCheckProofs ---------------------------
(***************************************************************************)
(* The verdict of the dependency search is right for every graph over      *)
(* every set of services, not only for those TLC enumerates.               *)
(*                                                                         *)
(* The inductive invariant says what the three colours mean: the gray      *)
(* services are those on the stack, each followed from the one below it;   *)
(* an edge the innermost call has already walked ends in a black service;  *)
(* and every non-empty set of black services has a member with no edge     *)
(* into the set, which is what acyclic means for a finite graph.           *)
(***************************************************************************)
EXTENDS CycleCheck, SequenceTheorems, TLAPS

Black == {n \in Node : color[n] = "black"}

\* Every set of these services has a member with no edge into the set.
Acyclic(B) == \A S \in SUBSET B : S # {} => \E n \in S : Succ(n) \cap S = {}

StackIsGray ==
  /\ \A i \in 1 .. Len(stack) : color[stack[i].node] = "gray"
  /\ \A n \in Node : color[n] = "gray" =>
       \E i \in 1 .. Len(stack) : stack[i].node = n

StackIsPath ==
  /\ \A i \in 1 .. Len(stack) - 1 : stack[i + 1].node \in Succ(stack[i].node)
  /\ \A i, j \in 1 .. Len(stack) : stack[i].node = stack[j].node => i = j

\* An edge already walked leads to a black service or to the next call.
WalkedDone ==
  \A i \in 1 .. Len(stack) :
    /\ stack[i].left \subseteq Succ(stack[i].node)
    /\ \A m \in Succ(stack[i].node) \ stack[i].left :
         color[m] = "black" \/ (i < Len(stack) /\ m = stack[i + 1].node)
    /\ strict => stack[i].node \in Known
    /\ strict => Succ(stack[i].node) \ stack[i].left \subseteq Known

BlackDone ==
  /\ \A n \in Black : Succ(n) \subseteq Black
  /\ Acyclic(Black)
  /\ strict => \A n \in Black : Succ(n) \subseteq Known

TakenDone ==
  /\ todo \subseteq Known
  /\ \A n \in Known \ todo : color[n] # "white"

IInv == /\ TypeOK /\ StackIsGray /\ StackIsPath /\ WalkedDone
        /\ BlackDone /\ TakenDone /\ VerdictCorrect
        /\ verdict = "ok" => stack = <<>> /\ todo = {}

-----------------------------------------------------------------------------
Call == [node : Node, left : SUBSET Node]

LEMMA SuccTyped ==
  ASSUME edges \in Graphs, NEW n \in Node
  PROVE  Succ(n) \in SUBSET Node /\ Known \subseteq Node
BY DEF Graphs, Succ, Known

LEMMA Framed ==
  ASSUME edges \in Graphs, NEW n \in Node
  PROVE  Frame(n) \in Call /\ Frame(n).node = n /\ Frame(n).left = Succ(n)
BY SuccTyped DEF Frame, Call

\* Walking an edge shortens the innermost list and nothing else.
LEMMA EdgeTakenShape ==
  ASSUME stack \in Seq(Call), stack # <<>>, NEW next
  PROVE  /\ EdgeTaken(next) \in Seq(Call)
         /\ Len(EdgeTaken(next)) = Len(stack)
         /\ \A i \in 1 .. Len(stack) :
              /\ EdgeTaken(next)[i].node = stack[i].node
              /\ EdgeTaken(next)[i].left =
                   IF i = Len(stack) THEN stack[i].left \ {next} ELSE stack[i].left
<1> DEFINE top == stack[Len(stack)]
           cut == [top EXCEPT !.left = @ \ {next}]
<1>1. Len(stack) \in 1 .. Len(stack)
  BY EmptySeq DEF Call
<1>2. top \in Call
  BY <1>1, ElementOfSeq
<1>3. cut \in Call /\ cut.node = top.node /\ cut.left = top.left \ {next}
  BY <1>2 DEF Call
<1>4. EdgeTaken(next) = [stack EXCEPT ![Len(stack)] = cut]
  BY DEF EdgeTaken
<1>5. /\ EdgeTaken(next) \in Seq(Call)
      /\ Len(EdgeTaken(next)) = Len(stack)
      /\ \A i \in 1 .. Len(stack) :
           EdgeTaken(next)[i] = IF i = Len(stack) THEN cut ELSE stack[i]
  BY <1>1, <1>3, <1>4, ExceptSeq
<1> QED
  BY <1>3, <1>5

LEMMA PushedShape ==
  ASSUME NEW base \in Seq(Call), NEW c \in Call
  PROVE  /\ Append(base, c) \in Seq(Call)
         /\ Len(Append(base, c)) = Len(base) + 1
         /\ \A i \in 1 .. Len(base) : Append(base, c)[i] = base[i]
         /\ Append(base, c)[Len(base) + 1] = c
BY AppendProperties

LEMMA PoppedShape ==
  ASSUME NEW base \in Seq(Call), base # <<>>
  PROVE  LET rest == SubSeq(base, 1, Len(base) - 1)
         IN /\ rest \in Seq(Call)
            /\ Len(rest) = Len(base) - 1
            /\ \A i \in 1 .. Len(base) - 1 : rest[i] = base[i]
<1>1. Len(base) \in Nat \ {0}
  BY EmptySeq
<1>2. \A i \in 1 .. Len(base) - 1 : base[i] \in Call
  BY <1>1, ElementOfSeq
<1>3. 1 \in Int /\ Len(base) - 1 \in Int
  BY <1>1
<1> DEFINE rest == SubSeq(base, 1, Len(base) - 1)
<1>4. /\ rest \in Seq(Call)
      /\ \A i \in 1 .. Len(base) - 1 - 1 + 1 : rest[i] = base[1 + i - 1]
  BY <1>2, <1>3, SubSeqProperties
<1>5. Len(rest) = Len(base) - 1
  <2>1. Len(rest) = IF 1 <= Len(base) - 1 THEN Len(base) - 1 - 1 + 1 ELSE 0
    BY <1>2, <1>3, SubSeqProperties
  <2>2. \A n \in Nat \ {0} : (IF 1 <= n - 1 THEN n - 1 - 1 + 1 ELSE 0) = n - 1
    OBVIOUS
  <2> QED
    BY <1>1, <2>1, <2>2
<1> HIDE DEF rest
<1>6. ASSUME NEW i \in 1 .. Len(base) - 1
      PROVE  rest[i] = base[i]
  <2>1. i \in 1 .. Len(base) - 1 - 1 + 1 /\ 1 + i - 1 = i
    BY <1>1
  <2>2. rest[i] = base[1 + i - 1]
    BY <2>1, <1>4
  <2> QED
    BY <2>1, <2>2
<1> QED
  BY <1>4, <1>5, <1>6 DEF rest

\* The innermost call.
LEMMA TopTyped ==
  ASSUME TypeOK, stack # <<>>
  PROVE  /\ stack \in Seq(Call) /\ Len(stack) \in 1 .. Len(stack)
         /\ Len(stack) \in Nat
         /\ Top \in Call /\ Top.node \in Node /\ Top.left \in SUBSET Node
<1>1. stack \in Seq(Call) /\ Len(stack) \in 1 .. Len(stack) /\ Len(stack) \in Nat
  BY EmptySeq DEF TypeOK, Call
<1>2. Top \in Call
  BY <1>1, ElementOfSeq DEF Top
<1> QED
  BY <1>1, <1>2 DEF Call

\* The edges never change, and neither does what is defined by them alone.
LEMMA SameGraph ==
  ASSUME UNCHANGED edges
  PROVE  /\ Known' = Known
         /\ \A n : Succ(n)' = Succ(n)
         /\ \A n : Frame(n)' = Frame(n)
         /\ HasCycle' = HasCycle /\ HasDangling' = HasDangling
BY DEF Known, Succ, Frame, HasCycle, HasDangling

LEMMA InitGood == Init => IInv
<1> SUFFICES ASSUME Init PROVE IInv
  OBVIOUS
<1>1. TypeOK
  BY EmptySeq, SuccTyped DEF Init, TypeOK, Colors, Verdicts, Known, Graphs
<1>2. StackIsGray /\ StackIsPath /\ WalkedDone
  BY DEF Init, StackIsGray, StackIsPath, WalkedDone
<1>3. BlackDone
  BY DEF Init, BlackDone, Black, Acyclic
<1>4. TakenDone /\ VerdictCorrect
  BY DEF Init, TakenDone, VerdictCorrect
<1> QED
  BY <1>1, <1>2, <1>3, <1>4 DEF IInv, Init

\* An outer iteration starts a tree of its own, or skips a finished service.
LEMMA TakeNextGood == IInv /\ TakeNext => IInv'
<1> SUFFICES ASSUME IInv, TakeNext PROVE IInv'
  OBVIOUS
<1> USE DEF IInv
<1>0. strict' = strict /\ strict \in BOOLEAN
  BY DEF TakeNext, TypeOK
<1> USE <1>0
<1>1. PICK n \in todo :
        /\ todo' = todo \ {n}
        /\ IF color[n] = "black"
             THEN UNCHANGED <<color, stack>>
             ELSE Entered(n) /\ stack' = <<Frame(n)>>
        /\ UNCHANGED <<edges, verdict>>
  BY DEF TakeNext
<1>2. n \in Known /\ n \in Node /\ edges \in Graphs /\ verdict = "running"
      /\ stack = <<>> /\ Len(stack) = 0
  BY DEF TakeNext, TakenDone, TypeOK
<1>3. /\ Known' = Known /\ \A m : Succ(m)' = Succ(m) /\ verdict' = "running"
  BY <1>1, <1>2, SameGraph
<1>4. VerdictCorrect' /\ (verdict = "ok" => stack = <<>> /\ todo = {})'
  BY <1>3 DEF VerdictCorrect
<1>5. \A m \in Node : color[m] # "gray"
  BY <1>2 DEF StackIsGray
<1>6. CASE color[n] = "black"
  <2>1. UNCHANGED <<color, stack, edges, verdict>> /\ todo' = todo \ {n}
    BY <1>1, <1>6
  <2>2. TypeOK' /\ TakenDone'
    BY <2>1, <1>2, <1>3, <1>6 DEF TypeOK, TakenDone
  <2>3. StackIsGray' /\ StackIsPath' /\ WalkedDone' /\ BlackDone'
    BY <2>1, <1>3 DEF StackIsGray, StackIsPath, WalkedDone, BlackDone, Black, Acyclic
  <2> QED
    BY <2>2, <2>3, <1>4
<1>7. CASE color[n] # "black"
  <2>1. /\ color' = [color EXCEPT ![n] = "gray"]
        /\ stack' = <<Frame(n)>> /\ todo' = todo \ {n}
        /\ UNCHANGED <<edges, verdict>>
    BY <1>1, <1>7 DEF Entered
  <2>2. Frame(n) \in Call /\ Frame(n).node = n /\ Frame(n).left = Succ(n)
    BY <1>2, Framed
  <2>3. stack' \in Seq(Call) /\ Len(stack') = 1 /\ stack'[1] = Frame(n)
    BY <2>1, <2>2
  <2>4. color \in [Node -> Colors] /\ color[n] = "white"
    BY <1>2, <1>5, <1>7 DEF TypeOK, Colors
  <2>5. \A m \in Node : color'[m] = IF m = n THEN "gray" ELSE color[m]
    BY <2>1, <2>4
  <2>6. TypeOK'
    BY <2>1, <2>3, <2>4 DEF TypeOK, Call, Colors
  <2>7. StackIsGray' /\ StackIsPath'
    BY <2>2, <2>3, <2>5, <1>2, <1>5 DEF StackIsGray, StackIsPath
  <2>8. WalkedDone'
    BY <2>2, <2>3, <1>2, <1>3 DEF WalkedDone
  <2>9. Black' = Black
    BY <2>4, <2>5, <1>2 DEF Black
  <2>10. BlackDone'
    BY <2>9, <1>3 DEF BlackDone, Acyclic
  <2>11. TakenDone'
    BY <2>1, <2>5, <1>3, <1>2, SuccTyped DEF TakenDone
  <2> QED
    BY <2>6, <2>7, <2>8, <2>10, <2>11, <1>4
<1> QED
  BY <1>6, <1>7

\* The innermost call returns: its service is black, its edges all end in
\* black services, so it closes no cycle with them.
LEMMA LeaveGood == IInv /\ Leave => IInv'
<1> SUFFICES ASSUME IInv, Leave PROVE IInv'
  OBVIOUS
<1> USE DEF IInv
<1>0. strict' = strict /\ strict \in BOOLEAN
  BY DEF Leave, TypeOK
<1> USE <1>0
<1> DEFINE n == Top.node
           len == Len(stack)
<1>1. /\ verdict = "running" /\ stack # <<>> /\ Top.left = {}
      /\ color' = [color EXCEPT ![n] = "black"]
      /\ stack' = SubSeq(stack, 1, len - 1)
      /\ UNCHANGED <<edges, todo, verdict>>
  BY DEF Leave
<1>2. /\ stack \in Seq(Call) /\ len \in 1 .. len /\ len \in Nat
      /\ n \in Node /\ Top = stack[len] /\ edges \in Graphs
  BY <1>1, TopTyped DEF Top, TypeOK
<1>3. /\ stack' \in Seq(Call) /\ Len(stack') = len - 1
      /\ \A i \in 1 .. len - 1 : stack'[i] = stack[i]
  BY <1>1, <1>2, PoppedShape
<1>4. /\ Known' = Known /\ \A m : Succ(m)' = Succ(m) /\ verdict' = "running"
  BY <1>1, SameGraph
<1>5. color \in [Node -> Colors] /\ color[n] = "gray"
  BY <1>1, <1>2 DEF TypeOK, StackIsGray
<1>6. \A m \in Node : color'[m] = IF m = n THEN "black" ELSE color[m]
  BY <1>1, <1>5
<1>7. TypeOK'
  BY <1>1, <1>3, <1>5 DEF TypeOK, Call, Colors
<1>8. StackIsGray'
  <2>1. \A i \in 1 .. len - 1 : stack[i].node # n /\ stack[i].node \in Node
    <3> SUFFICES ASSUME NEW i \in 1 .. len - 1
                 PROVE  stack[i].node # n /\ stack[i].node \in Node
      OBVIOUS
    <3>1. i \in 1 .. len /\ i # len /\ stack[i] \in Call
      BY <1>2, ElementOfSeq
    <3> QED
      BY <3>1, <1>2 DEF StackIsPath, Call
  <2>2. \A i \in 1 .. Len(stack') : color'[stack'[i].node] = "gray"
    BY <2>1, <1>2, <1>3, <1>6 DEF StackIsGray
  <2>3. ASSUME NEW m \in Node, color'[m] = "gray"
        PROVE  \E i \in 1 .. Len(stack') : stack'[i].node = m
    <3>1. m # n /\ color[m] = "gray"
      BY <2>3, <1>6
    <3>2. PICK i \in 1 .. len : stack[i].node = m
      BY <3>1 DEF StackIsGray
    <3>3. i \in 1 .. len - 1
      BY <3>1, <3>2, <1>2
    <3> QED
      BY <3>2, <3>3, <1>2, <1>3
  <2> QED
    BY <2>2, <2>3 DEF StackIsGray
<1>9. StackIsPath'
  BY <1>2, <1>3, <1>4 DEF StackIsPath
<1>10. \A m \in Succ(n) : color[m] = "black"
  BY <1>1, <1>2 DEF WalkedDone
<1>11. WalkedDone'
  <2> SUFFICES ASSUME NEW i \in 1 .. len - 1
               PROVE  /\ stack[i].left \subseteq Succ(stack[i].node)
                      /\ \A m \in Succ(stack[i].node) \ stack[i].left :
                           color'[m] = "black"
                             \/ (i < len - 1 /\ m = stack[i + 1].node)
                      /\ strict => stack[i].node \in Known
                      /\ strict => Succ(stack[i].node) \ stack[i].left \subseteq Known
    BY <1>2, <1>3, <1>4 DEF WalkedDone
  <2>0. i \in 1 .. len
    BY <1>2
  <2>1. i \in 1 .. len /\ stack[i] \in Call /\ stack[i].node \in Node
    <3>1. stack[i] \in Call
      BY <2>0, <1>2, ElementOfSeq
    <3> QED
      BY <2>0, <3>1 DEF Call
  <2>2. ASSUME NEW m \in Succ(stack[i].node) \ stack[i].left
        PROVE  color'[m] = "black" \/ (i < len - 1 /\ m = stack[i + 1].node)
    <3>1. m \in Node
      BY <2>1, <1>2, SuccTyped
    <3>2. color[m] = "black" \/ (i < len /\ m = stack[i + 1].node)
      BY <2>1 DEF WalkedDone
    <3>3. i < len - 1 \/ i + 1 = len
      BY <1>2
    <3> QED
      BY <3>1, <3>2, <3>3, <1>2, <1>6
  <2> QED
    BY <2>1, <2>2 DEF WalkedDone
<1>12. Black' = Black \cup {n} /\ n \notin Black
  BY <1>2, <1>5, <1>6 DEF Black
<1>13. Succ(n) \subseteq Black
  BY <1>2, <1>10, SuccTyped DEF Black
<1>14. BlackDone'
  <2>1. \A m \in Black' : Succ(m) \subseteq Black'
    BY <1>12, <1>13 DEF BlackDone
  <2>2. ASSUME NEW S \in SUBSET (Black \cup {n}), S # {}
        PROVE  \E m \in S : Succ(m) \cap S = {}
    <3>1. CASE S \ {n} = {}
      BY <3>1, <2>2, <1>12, <1>13
    <3>2. CASE S \ {n} # {}
      <4>1. PICK m \in S \ {n} : Succ(m) \cap (S \ {n}) = {}
        BY <3>2 DEF BlackDone, Acyclic
      <4>2. n \notin Succ(m)
        BY <4>1, <1>12 DEF BlackDone
      <4> QED
        BY <4>1, <4>2
    <3> QED
      BY <3>1, <3>2
  <2>3. strict => Succ(n) \subseteq Known
    BY <1>1, <1>2 DEF WalkedDone
  <2> QED
    BY <2>1, <2>2, <2>3, <1>4, <1>12 DEF BlackDone, Acyclic
<1>15. TakenDone'
  BY <1>1, <1>2, <1>4, <1>6, SuccTyped DEF TakenDone
<1> QED
  BY <1>4, <1>7, <1>8, <1>9, <1>11, <1>14, <1>15 DEF VerdictCorrect

\* An edge leads to a finished service, to one under visit, or to a new one.
LEMMA FollowEdgeGood == IInv /\ FollowEdge => IInv'
<1> SUFFICES ASSUME IInv, FollowEdge PROVE IInv'
  OBVIOUS
<1> USE DEF IInv
<1>0. strict' = strict /\ strict \in BOOLEAN
  BY DEF FollowEdge, TypeOK
<1> USE <1>0
<1> DEFINE n == Top.node
           len == Len(stack)
<1>1. verdict = "running" /\ stack # <<>> /\ UNCHANGED <<edges, todo>>
  BY DEF FollowEdge
<1>2. /\ stack \in Seq(Call) /\ len \in 1 .. len /\ len \in Nat
      /\ n \in Node /\ Top = stack[len] /\ edges \in Graphs
      /\ Top.left \in SUBSET Node
  BY <1>1, TopTyped DEF Top, TypeOK
<1>3. PICK next \in Top.left :
       \/ /\ strict /\ next \notin Known
          /\ verdict' = "missing" /\ UNCHANGED <<color, stack>>
       \/ /\ strict => next \in Known
          /\ color[next] = "gray"
          /\ verdict' = "cycle" /\ UNCHANGED <<color, stack>>
       \/ /\ strict => next \in Known
          /\ color[next] = "black"
          /\ stack' = EdgeTaken(next) /\ UNCHANGED <<color, verdict>>
       \/ /\ strict => next \in Known
          /\ color[next] = "white"
          /\ Entered(next)
          /\ stack' = Append(EdgeTaken(next), Frame(next))
          /\ UNCHANGED verdict
  BY DEF FollowEdge
<1>4. /\ Known' = Known /\ \A m : Succ(m)' = Succ(m)
      /\ HasCycle' = HasCycle /\ HasDangling' = HasDangling
  BY <1>1, SameGraph
<1>5. next \in Succ(n) /\ next \in Node /\ todo \subseteq Node
  BY <1>2, <1>3 DEF WalkedDone, TypeOK
<1>6. ASSUME UNCHANGED <<color, stack>>, verdict' \in Verdicts
      PROVE  /\ TypeOK' /\ StackIsGray' /\ StackIsPath' /\ WalkedDone'
             /\ BlackDone' /\ TakenDone'
  <2>1. TypeOK' /\ TakenDone'
    BY <1>6, <1>1, <1>4 DEF TypeOK, TakenDone
  <2>2. StackIsGray' /\ StackIsPath' /\ WalkedDone' /\ BlackDone'
    BY <1>6, <1>4 DEF StackIsGray, StackIsPath, WalkedDone, BlackDone, Black, Acyclic
  <2> QED
    BY <2>1, <2>2
<1>7. CASE strict /\ next \notin Known /\ verdict' = "missing"
           /\ UNCHANGED <<color, stack>>
  <2>1. n \in Known /\ ~(edges[n] \subseteq Known)
    BY <1>2, <1>5, <1>7 DEF WalkedDone, Succ
  <2>2. VerdictCorrect'
    BY <2>1, <1>4, <1>7 DEF VerdictCorrect, HasDangling, Dangling, Known
  <2> QED
    BY <2>2, <1>6, <1>7 DEF Verdicts
<1>8. CASE color[next] = "gray" /\ verdict' = "cycle" /\ UNCHANGED <<color, stack>>
  <2>1. PICK j \in 1 .. len : stack[j].node = next
    BY <1>5, <1>8 DEF StackIsGray
  <2> DEFINE S == {stack[k].node : k \in j .. len}
  <2>2. S # {}
    <3>1. j \in j .. len
      BY <1>2, <2>1
    <3>2. stack[j].node \in S
      BY <3>1
    <3> QED
      BY <3>2
  <2>3. ASSUME NEW k \in j .. len
        PROVE  Succ(stack[k].node) \cap S # {}
    <3>1. CASE k = len
      BY <3>1, <1>2, <1>5, <2>1
    <3>2. CASE k # len
      <4>1. k \in 1 .. len - 1 /\ k + 1 \in j .. len
        BY <3>2, <1>2, <2>1
      <4>2. stack[k + 1].node \in Succ(stack[k].node)
        BY <4>1 DEF StackIsPath
      <4> QED
        BY <4>1, <4>2
    <3> QED
      BY <3>1, <3>2
  <2>31. \A m \in S : Succ(m) \cap S # {}
    BY <2>3
  <2> HIDE DEF S
  <2>32. \A m \in S : m \in Known /\ edges[m] \cap S # {}
    BY <2>31 DEF Succ
  <2>33. S \in SUBSET DOMAIN edges
    BY <2>32 DEF Known
  <2>4. HasCycle
    BY <2>2, <2>32, <2>33 DEF HasCycle, Cyclic
  <2>5. VerdictCorrect'
    BY <2>4, <1>4, <1>8 DEF VerdictCorrect
  <2> QED
    BY <2>5, <1>6, <1>8 DEF Verdicts
<1> DEFINE cut == EdgeTaken(next)
<1>9. /\ cut \in Seq(Call) /\ Len(cut) = len
      /\ \A i \in 1 .. len :
           /\ cut[i].node = stack[i].node
           /\ cut[i].left = IF i = len THEN stack[i].left \ {next} ELSE stack[i].left
  BY <1>1, <1>2, EdgeTakenShape
<1>10. CASE /\ strict => next \in Known
            /\ color[next] = "black"
            /\ stack' = cut /\ UNCHANGED <<color, verdict>>
  <2>1. TypeOK' /\ TakenDone'
    BY <1>10, <1>1, <1>4, <1>9 DEF TypeOK, TakenDone, Call
  <2>2. /\ Len(stack') = len
        /\ \A i \in 1 .. len :
             /\ stack'[i].node = stack[i].node
             /\ stack'[i].left = IF i = len THEN stack[i].left \ {next} ELSE stack[i].left
    BY <1>9, <1>10
  <2>20. color' = color
    BY <1>10
  <2>21. StackIsGray'
    <3>1. \A i \in 1 .. len : color[stack'[i].node] = "gray"
      BY <2>2 DEF StackIsGray
    <3>2. ASSUME NEW m \in Node, color[m] = "gray"
          PROVE  \E i \in 1 .. len : stack'[i].node = m
      BY <2>2, <3>2 DEF StackIsGray
    <3> QED
      BY <3>1, <3>2, <2>2, <2>20 DEF StackIsGray
  <2>22. StackIsPath'
    <3>1. \A i \in 1 .. len - 1 : i \in 1 .. len /\ i + 1 \in 1 .. len
      BY <1>2
    <3> QED
      BY <3>1, <2>2, <1>4 DEF StackIsPath
  <2>3. WalkedDone'
    <3> SUFFICES ASSUME NEW i \in 1 .. len
                 PROVE  /\ stack'[i].left \subseteq Succ(stack'[i].node)
                        /\ \A m \in Succ(stack'[i].node) \ stack'[i].left :
                             color'[m] = "black"
                               \/ (i < len /\ m = stack'[i + 1].node)
                        /\ strict => stack'[i].node \in Known
                        /\ strict => Succ(stack'[i].node) \ stack'[i].left
                                       \subseteq Known
      BY <2>2, <1>4 DEF WalkedDone
    <3>0. stack'[i].node = stack[i].node
      BY <2>2
    <3>1. i < len => stack'[i + 1].node = stack[i + 1].node
      <4>1. i < len => i + 1 \in 1 .. len
        BY <1>2
      <4> QED
        BY <4>1, <2>2
    <3>2. stack'[i].left = IF i = len THEN stack[i].left \ {next} ELSE stack[i].left
      BY <2>2
    <3>3. ASSUME NEW m \in Succ(stack[i].node) \ stack'[i].left
          PROVE  color[m] = "black" \/ (i < len /\ m = stack'[i + 1].node)
      <4>1. CASE m \in stack[i].left
        BY <4>1, <3>2, <3>3, <1>10
      <4>2. CASE m \notin stack[i].left
        BY <4>2, <3>1 DEF WalkedDone
      <4> QED
        BY <4>1, <4>2
    <3>4. stack'[i].left \subseteq Succ(stack[i].node)
      BY <3>2 DEF WalkedDone
    <3>5. strict => stack[i].node \in Known
      BY DEF WalkedDone
    <3>6. strict => Succ(stack[i].node) \ stack'[i].left \subseteq Known
      BY <3>2, <1>10 DEF WalkedDone
    <3> QED
      BY <3>0, <3>3, <3>4, <3>5, <3>6, <2>20
  <2>4. BlackDone'
    BY <1>4, <1>10 DEF BlackDone, Black, Acyclic
  <2> QED
    BY <2>1, <2>21, <2>22, <2>3, <2>4, <1>1, <1>10 DEF VerdictCorrect
<1>11. CASE /\ strict => next \in Known
            /\ color[next] = "white" /\ Entered(next)
            /\ stack' = Append(cut, Frame(next)) /\ UNCHANGED verdict
  <2>1. Frame(next) \in Call /\ Frame(next).node = next
        /\ Frame(next).left = Succ(next)
    BY <1>2, <1>5, Framed
  <2>2. /\ stack' \in Seq(Call) /\ Len(stack') = len + 1
        /\ \A i \in 1 .. len : stack'[i] = cut[i]
        /\ stack'[len + 1] = Frame(next)
    BY <1>9, <1>11, <2>1, PushedShape
  <2>3. color \in [Node -> Colors]
        /\ \A m \in Node : color'[m] = IF m = next THEN "gray" ELSE color[m]
    BY <1>5, <1>11 DEF TypeOK, Entered
  <2>4. TypeOK'
    BY <1>1, <1>5, <1>11, <2>2, <2>3 DEF TypeOK, Entered, Call, Colors
  <2>5. /\ \A i \in 1 .. len : stack'[i].node = stack[i].node
        /\ stack'[len + 1].node = next
        /\ \A i \in 1 .. len : stack[i].node \in Node /\ stack[i].node # next
    <3>1. \A i \in 1 .. len : stack[i] \in Call
      BY <1>2, ElementOfSeq
    <3>2. \A i \in 1 .. len : stack[i].node \in Node /\ stack[i].node # next
      BY <3>1, <1>11 DEF StackIsGray, Call
    <3> QED
      BY <3>2, <1>9, <2>1, <2>2
  <2>6. StackIsGray'
    <3>1. \A i \in 1 .. len + 1 : color'[stack'[i].node] = "gray"
      BY <1>2, <1>5, <2>3, <2>5 DEF StackIsGray
    <3>2. ASSUME NEW m \in Node, color'[m] = "gray"
          PROVE  \E i \in 1 .. len + 1 : stack'[i].node = m
      <4>1. CASE m = next
        BY <4>1, <1>2, <2>5
      <4>2. CASE m # next
        BY <4>2, <3>2, <1>2, <2>3, <2>5 DEF StackIsGray
      <4> QED
        BY <4>1, <4>2
    <3> QED
      BY <3>1, <3>2, <2>2 DEF StackIsGray
  <2>7. StackIsPath'
    <3>1. \A i \in 1 .. len : stack'[i + 1].node \in Succ(stack'[i].node)
      <4> SUFFICES ASSUME NEW i \in 1 .. len
                   PROVE  stack'[i + 1].node \in Succ(stack'[i].node)
        OBVIOUS
      <4>1. CASE i = len
        BY <4>1, <1>2, <1>5, <2>5
      <4>2. CASE i # len
        <5>1. i \in 1 .. len - 1 /\ i + 1 \in 1 .. len
          BY <4>2, <1>2
        <5> QED
          BY <5>1, <2>5 DEF StackIsPath
      <4> QED
        BY <4>1, <4>2
    <3>2. \A i, j \in 1 .. len + 1 : stack'[i].node = stack'[j].node => i = j
      BY <1>2, <2>5 DEF StackIsPath
    <3>3. len + 1 - 1 = len
      BY <1>2
    <3> QED
      BY <3>1, <3>2, <3>3, <1>4, <2>2 DEF StackIsPath
  <2>8. WalkedDone'
    <3> SUFFICES ASSUME NEW i \in 1 .. len + 1
                 PROVE  /\ stack'[i].left \subseteq Succ(stack'[i].node)
                        /\ \A m \in Succ(stack'[i].node) \ stack'[i].left :
                             color'[m] = "black"
                               \/ (i < len + 1 /\ m = stack'[i + 1].node)
                        /\ strict => stack'[i].node \in Known
                        /\ strict => Succ(stack'[i].node) \ stack'[i].left
                                       \subseteq Known
      BY <1>2, <1>4, <2>2 DEF WalkedDone
    <3>1. CASE i = len + 1
      BY <3>1, <1>11, <2>1, <2>2
    <3>2. CASE i # len + 1
      <4>1. i \in 1 .. len /\ stack'[i].node = stack[i].node
        BY <3>2, <1>2, <2>5
      <4>2. stack'[i].left = IF i = len THEN stack[i].left \ {next} ELSE stack[i].left
        BY <4>1, <1>9, <2>2
      <4>3. i < len => i + 1 \in 1 .. len /\ stack'[i + 1].node = stack[i + 1].node
        BY <4>1, <1>2, <2>5
      <4>4. ASSUME NEW m \in Succ(stack[i].node) \ stack'[i].left
            PROVE  color'[m] = "black"
                     \/ (i < len + 1 /\ m = stack'[i + 1].node)
        <5>1. m \in Node
          BY <2>5, <4>1, <1>2, SuccTyped
        <5>2. CASE m \in Succ(stack[i].node) \ stack[i].left
          <6>1. color[m] = "black" \/ (i < len /\ m = stack[i + 1].node)
            BY <5>2, <4>1 DEF WalkedDone
          <6>2. color[m] = "black" => color'[m] = "black"
            BY <5>1, <2>3, <1>11
          <6> QED
            BY <6>1, <6>2, <4>1, <4>3, <1>2
        <5>3. CASE m \notin Succ(stack[i].node) \ stack[i].left
          BY <5>3, <4>1, <4>2, <4>4, <2>5, <1>2
        <5> QED
          BY <5>2, <5>3
      <4>5. strict => Succ(stack[i].node) \ stack'[i].left \subseteq Known
        BY <4>1, <4>2, <1>11 DEF WalkedDone
      <4> QED
        BY <4>1, <4>2, <4>4, <4>5 DEF WalkedDone
    <3> QED
      BY <3>1, <3>2
  <2>9. Black' = Black
    BY <1>5, <1>11, <2>3 DEF Black
  <2>10. BlackDone'
    BY <2>9, <1>4 DEF BlackDone, Acyclic
  <2>11. TakenDone'
    BY <1>1, <1>2, <1>4, <1>5, <2>3, SuccTyped DEF TakenDone
  <2> QED
    BY <2>4, <2>6, <2>7, <2>8, <2>10, <2>11, <1>1, <1>11 DEF VerdictCorrect
<1> QED
  BY <1>3, <1>7, <1>8, <1>10, <1>11

\* Nothing is left to visit: every known service is black.
LEMMA AcceptGood == IInv /\ Accept => IInv'
<1> SUFFICES ASSUME IInv, Accept PROVE IInv'
  OBVIOUS
<1> USE DEF IInv
<1>0. strict' = strict /\ strict \in BOOLEAN
  BY DEF Accept, TypeOK
<1> USE <1>0
<1>1. /\ stack = <<>> /\ todo = {} /\ verdict' = "ok"
      /\ UNCHANGED <<edges, todo, color, stack>>
  BY DEF Accept, Finished
<1>2. /\ Known' = Known /\ \A m : Succ(m)' = Succ(m)
      /\ HasCycle' = HasCycle /\ HasDangling' = HasDangling
  BY <1>1, SameGraph
<1>3. /\ TypeOK' /\ StackIsGray' /\ StackIsPath' /\ WalkedDone'
      /\ BlackDone' /\ TakenDone'
  <2>1. TypeOK' /\ TakenDone'
    BY <1>1, <1>2 DEF TypeOK, TakenDone, Verdicts
  <2>2. StackIsGray' /\ StackIsPath' /\ WalkedDone' /\ BlackDone'
    BY <1>1, <1>2 DEF StackIsGray, StackIsPath, WalkedDone, BlackDone, Black, Acyclic
  <2> QED
    BY <2>1, <2>2
<1>4. Known \subseteq Black
  <2> SUFFICES ASSUME NEW n \in Known PROVE n \in Black
    OBVIOUS
  <2>1. n \in Node /\ color[n] \in Colors /\ color[n] # "white"
    BY <1>1, SuccTyped DEF TakenDone, TypeOK, Known, Graphs
  <2>2. color[n] # "gray"
    BY <2>1, <1>1, EmptySeq DEF StackIsGray
  <2> QED
    BY <2>1, <2>2 DEF Black, Colors
<1>5. ~HasCycle
  <2> SUFFICES ASSUME NEW S \in SUBSET Known, S # {},
                      \A n \in S : edges[n] \cap S # {}
               PROVE  FALSE
    BY DEF HasCycle, Cyclic, Known
  <2> QED
    BY <1>4 DEF BlackDone, Acyclic, Succ
<1>6. strict => ~HasDangling
  BY <1>4 DEF BlackDone, HasDangling, Dangling, Succ, Known
<1> QED
  BY <1>1, <1>2, <1>3, <1>5, <1>6 DEF VerdictCorrect

-----------------------------------------------------------------------------
(* The colours mean what they should in every reachable state of the search. *)
THEOREM SearchInvariance == Spec => []IInv
<1>1. Init => IInv
  BY InitGood
<1>2. IInv /\ [Next]_vars => IInv'
  <2> SUFFICES ASSUME IInv, [Next]_vars PROVE IInv'
    OBVIOUS
  <2>1. CASE TakeNext
    BY <2>1, TakeNextGood
  <2>2. CASE FollowEdge
    BY <2>2, FollowEdgeGood
  <2>3. CASE Leave
    BY <2>3, LeaveGood
  <2>4. CASE Accept
    BY <2>4, AcceptGood
  <2>5. CASE UNCHANGED vars
    <3>1. UNCHANGED <<strict, edges, todo, color, stack, verdict>>
      BY <2>5 DEF vars
    <3>2. TypeOK' /\ StackIsGray' /\ StackIsPath'
      BY <3>1 DEF IInv, TypeOK, StackIsGray, StackIsPath, Succ, Known
    <3>3. WalkedDone' /\ BlackDone' /\ TakenDone'
      BY <3>1 DEF IInv, WalkedDone, BlackDone, TakenDone, Black, Acyclic, Succ, Known
    <3>4. VerdictCorrect'
      BY <3>1, SameGraph DEF IInv, VerdictCorrect
    <3> QED
      BY <3>1, <3>2, <3>3, <3>4 DEF IInv
  <2> QED
    BY <2>1, <2>2, <2>3, <2>4, <2>5 DEF Next
<1> QED
  BY <1>1, <1>2, PTL DEF Spec

(* The search's variables keep their types. *)
THEOREM SearchTyped == Spec => []TypeOK
<1>1. IInv => TypeOK
  BY DEF IInv
<1> QED
  BY <1>1, SearchInvariance, PTL

(* For every dependency graph over any set of services and every order of the
   map, the search accepts only acyclic graphs (without dangling edges, when it
   is strict) and refuses only graphs that have the fault it names. *)
THEOREM VerdictIsCorrect == Spec => []VerdictCorrect
<1>1. IInv => VerdictCorrect
  BY DEF IInv
<1> QED
  BY <1>1, SearchInvariance, PTL

-----------------------------------------------------------------------------
\* The services the graph names, and what is still to do with them.
Named == Known \cup UNION {edges[n] : n \in Known}

Unfinished == {n \in Named : color[n] # "black"}

Unwalked ==
  {e \in Node \X Node :
     /\ e[2] \in Succ(e[1])
     /\ \/ color[e[1]] = "white"
        \/ \E i \in 1 .. Len(stack) :
             stack[i].node = e[1] /\ e[2] \in stack[i].left}

(* No step of the search undoes another: each takes a service off the loop,
   walks an edge for good, finishes a service, or gives the verdict.  So a
   search has at most as many steps as it has services in its loop, edges and
   services to finish, and one more (servicesContainCycle, detectCycle). *)
EveryStepCounts ==
  /\ verdict = "running"
  /\ todo' \subseteq todo
  /\ Unfinished' \subseteq Unfinished
  /\ Unwalked' \subseteq Unwalked
  /\ \/ verdict' # verdict
     \/ todo' # todo
     \/ Unfinished' # Unfinished
     \/ Unwalked' # Unwalked

StackNamed == \A i \in 1 .. Len(stack) : stack[i].node \in Named

\* The graph, and so the services it names, stay.
LEMMA SameNamed ==
  ASSUME UNCHANGED edges
  PROVE  Named' = Named /\ Known' = Known /\ \A n : Succ(n)' = Succ(n)
BY SameGraph DEF Named

LEMMA SuccNamed ==
  ASSUME NEW n
  PROVE  Succ(n) \subseteq Named
BY DEF Succ, Named

\* What is still to do shrinks when no service loses colour and each call that
\* is open has what it had left, or less, or has just been entered.
LEMMA NothingUndone ==
  ASSUME UNCHANGED edges,
         \A m \in Node : color[m] = "black" => color'[m] = "black",
         \A m \in Node : color'[m] = "white" => color[m] = "white",
         \A i \in 1 .. Len(stack') :
           \/ color[stack'[i].node] = "white"
           \/ \E j \in 1 .. Len(stack) : /\ stack'[i].node = stack[j].node
                                         /\ stack'[i].left \subseteq stack[j].left,
         Named \subseteq Node
  PROVE  Unfinished' \subseteq Unfinished /\ Unwalked' \subseteq Unwalked
<1>1. Named' = Named /\ \A n : Succ(n)' = Succ(n)
  BY SameNamed
<1>2. Unfinished' \subseteq Unfinished
  BY <1>1 DEF Unfinished
<1>3. ASSUME NEW e \in Unwalked'
      PROVE  e \in Unwalked
  <2>1. e \in Node \X Node /\ e[1] \in Node /\ e[2] \in Succ(e[1])
    BY <1>1, <1>3 DEF Unwalked
  <2>2. CASE color'[e[1]] = "white"
    BY <2>1, <2>2 DEF Unwalked
  <2>3. CASE \E i \in 1 .. Len(stack') :
               stack'[i].node = e[1] /\ e[2] \in stack'[i].left
    BY <2>1, <2>3 DEF Unwalked
  <2> QED
    BY <1>3, <2>2, <2>3 DEF Unwalked
<1> QED
  BY <1>2, <1>3

LEMMA NamedTyped ==
  ASSUME edges \in Graphs
  PROVE  Named \subseteq Node
BY DEF Named, Known, Graphs

LEMMA TakeNextCounts ==
  ASSUME IInv, StackNamed, TakeNext
  PROVE  EveryStepCounts /\ StackNamed'
<1>1. PICK n \in todo :
        /\ todo' = todo \ {n}
        /\ IF color[n] = "black"
             THEN UNCHANGED <<color, stack>>
             ELSE Entered(n) /\ stack' = <<Frame(n)>>
        /\ UNCHANGED <<edges, verdict>>
  BY DEF TakeNext
<1>2. /\ edges \in Graphs /\ color \in [Node -> Colors] /\ verdict = "running"
      /\ n \in Known /\ n \in Node /\ Named \subseteq Node /\ stack = <<>>
  BY NamedTyped DEF TakeNext, IInv, TypeOK, TakenDone
<1>3. Len(stack) = 0 /\ color[n] # "gray"
  <2>1. Len(stack) = 0
    BY <1>2, EmptySeq
  <2> QED
    BY <2>1, <1>2 DEF IInv, StackIsGray
<1>4. CASE color[n] = "black"
  <2>1. UNCHANGED <<color, stack, edges>>
    BY <1>1, <1>4
  <2>2. Unfinished' \subseteq Unfinished /\ Unwalked' \subseteq Unwalked
    BY <2>1, SameNamed DEF Unfinished, Unwalked
  <2>3. StackNamed'
    BY <2>1, SameNamed DEF StackNamed
  <2> QED
    BY <1>1, <1>2, <2>2, <2>3 DEF EveryStepCounts
<1>5. CASE color[n] # "black"
  <2>1. /\ color' = [color EXCEPT ![n] = "gray"] /\ stack' = <<Frame(n)>>
        /\ color[n] = "white"
    BY <1>1, <1>2, <1>3, <1>5 DEF Entered, Colors
  <2>2. Len(stack') = 1 /\ stack'[1].node = n
    BY <2>1, <1>2, Framed
  <2>3. /\ \A m \in Node : color[m] = "black" => color'[m] = "black"
        /\ \A m \in Node : color'[m] = "white" => color[m] = "white"
        /\ \A i \in 1 .. Len(stack') : color[stack'[i].node] = "white"
    BY <1>2, <2>1, <2>2
  <2>4. Unfinished' \subseteq Unfinished /\ Unwalked' \subseteq Unwalked
    BY <1>1, <1>2, <2>3, NothingUndone
  <2>5. StackNamed'
    BY <1>1, <1>2, <2>2, SameNamed DEF StackNamed, Named
  <2> QED
    BY <1>1, <1>2, <2>4, <2>5 DEF EveryStepCounts
<1> QED
  BY <1>4, <1>5

LEMMA LeaveCounts ==
  ASSUME IInv, StackNamed, Leave
  PROVE  EveryStepCounts /\ StackNamed'
<1> DEFINE n == Top.node
           len == Len(stack)
<1>1. /\ verdict = "running" /\ stack # <<>>
      /\ color' = [color EXCEPT ![n] = "black"]
      /\ stack' = SubSeq(stack, 1, len - 1)
      /\ UNCHANGED <<edges, todo, verdict>>
  BY DEF Leave
<1>2. /\ stack \in Seq(Call) /\ len \in 1 .. len /\ len \in Nat
      /\ n \in Node /\ n = stack[len].node /\ edges \in Graphs
      /\ color \in [Node -> Colors] /\ Named \subseteq Node
  BY <1>1, TopTyped, NamedTyped DEF Top, IInv, TypeOK
<1>3. /\ Len(stack') = len - 1
      /\ \A i \in 1 .. len - 1 : i \in 1 .. len /\ stack'[i] = stack[i]
  BY <1>1, <1>2, PoppedShape
<1>4. /\ \A m \in Node : color'[m] = IF m = n THEN "black" ELSE color[m]
      /\ n \in Named /\ color[n] = "gray"
  BY <1>1, <1>2 DEF StackNamed, IInv, StackIsGray
<1>5. Unfinished' \subseteq Unfinished /\ Unwalked' \subseteq Unwalked
  <2>1. /\ \A m \in Node : color[m] = "black" => color'[m] = "black"
        /\ \A m \in Node : color'[m] = "white" => color[m] = "white"
    BY <1>4
  <2>2. \A i \in 1 .. Len(stack') :
          \E j \in 1 .. Len(stack) : /\ stack'[i].node = stack[j].node
                                     /\ stack'[i].left \subseteq stack[j].left
    BY <1>3
  <2> QED
    BY <1>1, <1>2, <2>1, <2>2, NothingUndone
<1>6. n \in Unfinished /\ n \notin Unfinished'
  BY <1>2, <1>4 DEF Unfinished
<1>7. StackNamed'
  BY <1>1, <1>3, SameNamed DEF StackNamed
<1> QED
  BY <1>1, <1>5, <1>6, <1>7 DEF EveryStepCounts

LEMMA FollowEdgeCounts ==
  ASSUME IInv, StackNamed, FollowEdge
  PROVE  EveryStepCounts /\ StackNamed'
<1> DEFINE n == Top.node
           len == Len(stack)
<1>1. verdict = "running" /\ stack # <<>> /\ UNCHANGED <<edges, todo>>
  BY DEF FollowEdge
<1>2. /\ stack \in Seq(Call) /\ len \in 1 .. len /\ len \in Nat
      /\ n \in Node /\ Top = stack[len] /\ edges \in Graphs
      /\ color \in [Node -> Colors] /\ Named \subseteq Node
  BY <1>1, TopTyped, NamedTyped DEF Top, IInv, TypeOK
<1>3. /\ n \in Named /\ color[n] = "gray" /\ Top.left \subseteq Succ(n)
      /\ \A i \in 1 .. len : stack[i].node = n => i = len
  BY <1>2 DEF StackNamed, IInv, StackIsGray, StackIsPath, WalkedDone
<1>4. CASE UNCHANGED <<color, stack>> /\ verdict' \in {"missing", "cycle"}
  <2>1. Unfinished' \subseteq Unfinished /\ Unwalked' \subseteq Unwalked
    BY <1>1, <1>4, SameNamed DEF Unfinished, Unwalked
  <2>2. StackNamed'
    BY <1>1, <1>4, SameNamed DEF StackNamed
  <2> QED
    BY <1>1, <1>4, <2>1, <2>2 DEF EveryStepCounts
<1>5. ASSUME NEW next \in Top.left, verdict' = verdict,
             \/ color[next] = "black" /\ stack' = EdgeTaken(next) /\ color' = color
             \/ /\ color[next] = "white" /\ Entered(next)
                /\ stack' = Append(EdgeTaken(next), Frame(next))
      PROVE  EveryStepCounts /\ StackNamed'
  <2> DEFINE cut == EdgeTaken(next)
  <2>1. /\ cut \in Seq(Call) /\ Len(cut) = len
        /\ \A i \in 1 .. len :
             /\ cut[i].node = stack[i].node
             /\ cut[i].left =
                  IF i = len THEN stack[i].left \ {next} ELSE stack[i].left
    BY <1>1, <1>2, EdgeTakenShape
  <2>2. next \in Succ(n) /\ next \in Named /\ next \in Node
    BY <1>2, <1>3, SuccNamed
  <2>3. Frame(next) \in Call /\ Frame(next).node = next
    BY <1>2, <2>2, Framed
  <2>4. <<n, next>> \in Unwalked
    BY <1>2, <2>2 DEF Unwalked
  <2>5. CASE color[next] = "black" /\ stack' = cut /\ color' = color
    <3>1. \A i \in 1 .. Len(stack') :
            /\ i \in 1 .. len
            /\ stack'[i].node = stack[i].node
            /\ stack'[i].left \subseteq stack[i].left
            /\ i = len => next \notin stack'[i].left
      BY <2>1, <2>5
    <3>2. Unfinished' \subseteq Unfinished /\ Unwalked' \subseteq Unwalked
      BY <1>1, <1>2, <2>5, <3>1, NothingUndone
    <3>3. <<n, next>> \notin Unwalked'
      <4>1. ~\E i \in 1 .. Len(stack') : stack'[i].node = n /\ next \in stack'[i].left
        BY <1>3, <3>1
      <4> QED
        BY <4>1, <1>3, <2>5 DEF Unwalked
    <3>4. StackNamed'
      BY <1>1, <3>1, SameNamed DEF StackNamed
    <3> QED
      BY <1>1, <1>5, <2>4, <3>2, <3>3, <3>4 DEF EveryStepCounts
  <2>6. CASE /\ color[next] = "white" /\ Entered(next)
             /\ stack' = Append(cut, Frame(next))
    <3>1. /\ Len(stack') = len + 1 /\ stack'[len + 1] = Frame(next)
          /\ \A i \in 1 .. len : stack'[i] = cut[i]
      BY <2>1, <2>3, <2>6, PushedShape
    <3>2. /\ \A i \in 1 .. Len(stack') : i \in 1 .. len \/ i = len + 1
          /\ \A i \in 1 .. len :
               /\ stack'[i].node = stack[i].node
               /\ stack'[i].left \subseteq stack[i].left
               /\ i = len => next \notin stack'[i].left
          /\ stack'[len + 1].node = next
      <4>1. \A i \in 1 .. len + 1 : i \in 1 .. len \/ i = len + 1
        BY <1>2
      <4>2. \A i \in 1 .. len : cut[i].left \subseteq stack[i].left
        BY <2>1
      <4> HIDE DEF cut
      <4> QED
        BY <1>2, <2>1, <2>3, <3>1, <4>1, <4>2
    <3>3. \A m \in Node : color'[m] = IF m = next THEN "gray" ELSE color[m]
      BY <1>2, <2>6 DEF Entered
    <3>4. Unfinished' \subseteq Unfinished /\ Unwalked' \subseteq Unwalked
      <4>1. /\ \A m \in Node : color[m] = "black" => color'[m] = "black"
            /\ \A m \in Node : color'[m] = "white" => color[m] = "white"
        BY <2>6, <3>3
      <4>2. \A i \in 1 .. Len(stack') :
              \/ color[stack'[i].node] = "white"
              \/ \E j \in 1 .. Len(stack) :
                   /\ stack'[i].node = stack[j].node
                   /\ stack'[i].left \subseteq stack[j].left
        BY <2>6, <3>2
      <4> QED
        BY <1>1, <1>2, <4>1, <4>2, NothingUndone
    <3>5. <<n, next>> \notin Unwalked'
      <4>1. n # next /\ color'[n] = "gray"
        BY <1>2, <1>3, <2>6, <3>3
      <4>2. ~\E i \in 1 .. Len(stack') : stack'[i].node = n /\ next \in stack'[i].left
        BY <1>3, <3>2, <4>1
      <4> QED
        BY <4>1, <4>2 DEF Unwalked
    <3>6. StackNamed'
      BY <1>1, <2>2, <3>2, SameNamed DEF StackNamed
    <3> QED
      BY <1>1, <1>5, <2>4, <3>4, <3>5, <3>6 DEF EveryStepCounts
  <2> QED
    BY <1>5, <2>5, <2>6
<1> QED
  BY <1>1, <1>4, <1>5 DEF FollowEdge

LEMMA AcceptCounts ==
  ASSUME IInv, StackNamed, Accept
  PROVE  EveryStepCounts /\ StackNamed'
<1>1. /\ verdict = "running" /\ verdict' # verdict
      /\ UNCHANGED <<edges, todo, color, stack>>
  BY DEF Accept
<1>2. Unfinished' \subseteq Unfinished /\ Unwalked' \subseteq Unwalked
  BY <1>1, SameNamed DEF Unfinished, Unwalked
<1>3. StackNamed'
  BY <1>1, SameNamed DEF StackNamed
<1> QED
  BY <1>1, <1>2, <1>3 DEF EveryStepCounts

(* The search cannot go round in circles, on any graph in any order: what is
   left of that for `Terminates` is that the next step is taken at all. *)
THEOREM SearchIsUsedUp == Spec => [][EveryStepCounts]_vars
<1>1. Init => StackNamed
  <2> SUFFICES ASSUME Init PROVE Len(stack) = 0
    BY DEF StackNamed
  <2> QED
    BY EmptySeq DEF Init
<1>2. IInv /\ StackNamed /\ [Next]_vars => StackNamed' /\ [EveryStepCounts]_vars
  <2> SUFFICES ASSUME IInv, StackNamed, [Next]_vars
               PROVE  StackNamed' /\ [EveryStepCounts]_vars
    OBVIOUS
  <2>1. CASE UNCHANGED vars
    <3>1. UNCHANGED <<edges, stack>>
      BY <2>1 DEF vars
    <3> QED
      BY <2>1, <3>1, SameNamed DEF StackNamed
  <2> QED
    BY <2>1, TakeNextCounts, FollowEdgeCounts, LeaveCounts, AcceptCounts DEF Next
<1> QED
  BY <1>1, <1>2, SearchInvariance, PTL DEF Spec
=============================================================================
