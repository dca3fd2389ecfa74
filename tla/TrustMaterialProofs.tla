------------------------- MODULE TrustMaterialProofs -------------------------
(***************************************************************************)
(* What trust anchors and chains keep for any number of ids, certificates  *)
(* and concurrent requests.                                                *)
(*                                                                         *)
(* Nothing a request saw of an anchor is relied on but that it is there    *)
(* and what its certificate is, and neither ever changes.  Of a chain it   *)
(* relies on the state, which the compare-and-set looks at again.          *)
(***************************************************************************)
EXTENDS TrustMaterial, TLAPS

\* What stays true of the call in a slot while others write.
SlotGood(q) ==
  /\ q.pc # "idle" /\ q.op = "lifecycle" /\ q.pc # "answered" => Held(q.id)
  /\ q.pc # "idle" /\ q.op = "lifecycle" /\ q.arg = "revoke" =>
       /\ q.pc = "committed" => anchor[q.id].revoked
       /\ q.code = "ok" => q.seen.revoked /\ anchor[q.id].revoked
  /\ q.pc = "loaded" /\ q.op = "import" =>
       Held(q.id) /\ <<anchor[q.id].cert, q.arg>> \in Signs
  /\ q.pc = "loaded" /\ q.op = "transition" =>
       q.seen.state \in ChainStates /\ CanTransitionChain(q.seen.state, q.arg)
  /\ q.pc \in {"loaded", "committed"} => q.code = "pending"
  /\ q.pc = "committed" => q.op # "import"

SlotsGood == \A r \in Request : SlotGood(req[r])

\* What is not there has no log.
LogsGood ==
  /\ \A a \in Anchor : ~Held(a) => anchor[a] = NoAnchor /\ anchorLog[a] = <<>>
  /\ \A c \in Chain : ~Stored(c) => chain[c] = NoChain /\ chainLog[c] = <<>>

IInv ==
  /\ TypeOK /\ LogsGood /\ SlotsGood
  /\ LogTellsAnchor /\ ChainLogIsWalk /\ ChainsAreAnchored

-----------------------------------------------------------------------------
LEMMA Nulls ==
  /\ NoOne \notin Anchor /\ NoOne \notin Certificate /\ NoOne \notin Bundle
  /\ "absent" \notin ChainStates
BY NullAssumption DEF ChainStates

\* A held anchor has a row, a stored chain too.
LEMMA Rows ==
  ASSUME TypeOK
  PROVE  /\ \A a \in Anchor : Held(a) <=> anchor[a] \in AnchorRow
         /\ \A c \in Chain : Stored(c) <=> chain[c] \in ChainRow
<1>1. ASSUME NEW a \in Anchor PROVE Held(a) <=> anchor[a] \in AnchorRow
  BY Nulls DEF TypeOK, Held, AnchorRow, NoAnchor
<1>2. ASSUME NEW c \in Chain PROVE Stored(c) <=> chain[c] \in ChainRow
  BY Nulls DEF TypeOK, Stored, ChainRow, NoChain
<1> QED
  BY <1>1, <1>2

\* A slot that is not idle holds a call of one of the three kinds.
LEMMA Busy ==
  ASSUME TypeOK, NEW r \in Request, req[r].pc # "idle"
  PROVE  /\ req[r] \in Calls
         /\ req[r].op \in {"lifecycle", "import", "transition"}
         /\ req[r].op = "lifecycle" =>
              req[r].id \in Anchor /\ req[r].arg \in LifecycleActions
         /\ req[r].op = "import" => req[r].id \in Anchor /\ req[r].arg \in Bundle
         /\ req[r].op = "transition" => req[r].id \in Chain /\ req[r].arg \in ChainStates
<1>1. req[r] \in Calls
  BY DEF TypeOK, Idle
<1> QED
  BY <1>1 DEF Calls, Call

-----------------------------------------------------------------------------
LEMMA InitIInv == Init => IInv
<1> SUFFICES ASSUME Init PROVE IInv
  OBVIOUS
<1>1. ASSUME NEW c \in DOMAIN SeedChain
      PROVE  SeedParent(c) \in DOMAIN SeedAnchor /\ <<SeedAnchor[SeedParent(c)], SeedChain[c]>> \in Signs
  BY SeedAssumption DEF SeedParent
<1>2. /\ DOMAIN SeedAnchor \subseteq Anchor /\ DOMAIN SeedChain \subseteq Chain
      /\ \A a \in DOMAIN SeedAnchor : SeedAnchor[a] \in Certificate
      /\ \A c \in DOMAIN SeedChain : SeedChain[c] \in Bundle
      /\ \A c, d \in DOMAIN SeedChain : SeedChain[c] = SeedChain[d] => c = d
  BY SeedAssumption
<1>3. ASSUME NEW a \in Anchor, a \in DOMAIN SeedAnchor
      PROVE  /\ anchor[a] \in AnchorRow /\ anchor[a].cert = SeedAnchor[a]
             /\ ~anchor[a].revoked /\ ~anchor[a].archived
  <2>1. anchor[a] = [NoAnchor EXCEPT !.cert = SeedAnchor[a]]
    BY <1>3 DEF Init
  <2>2. SeedAnchor[a] \in Certificate
    BY <1>2, <1>3
  <2> QED
    BY <2>1, <2>2 DEF NoAnchor, AnchorRow
<1>4. ASSUME NEW c \in Chain, c \in DOMAIN SeedChain
      PROVE  /\ chain[c] \in ChainRow /\ chain[c].bundle = SeedChain[c]
             /\ chain[c].under = SeedParent(c) /\ chain[c].hash = "printed"
  <2>1. chain[c] = [bundle |-> SeedChain[c], hash |-> "printed",
                    under |-> SeedParent(c), state |-> "validated"]
    BY <1>4 DEF Init
  <2>2. SeedParent(c) \in Anchor /\ SeedChain[c] \in Bundle
    BY <1>1, <1>2, <1>4
  <2> QED
    BY <2>1, <2>2 DEF ChainRow, ChainStates
<1>5. ASSUME NEW a \in Anchor, a \notin DOMAIN SeedAnchor PROVE anchor[a] = NoAnchor
  BY <1>5 DEF Init
<1>6. ASSUME NEW c \in Chain, c \notin DOMAIN SeedChain PROVE chain[c] = NoChain
  BY <1>6 DEF Init
<1>7. TypeOK
  <2>1. anchor \in [Anchor -> AnchorRow \cup {NoAnchor}]
    <3>1. \A a \in Anchor : anchor[a] \in AnchorRow \cup {NoAnchor}
      BY <1>3, <1>5
    <3>2. anchor = [a \in Anchor |-> anchor[a]]
      BY DEF Init
    <3> QED
      BY <3>1, <3>2
  <2>2. chain \in [Chain -> ChainRow \cup {NoChain}]
    <3>1. \A c \in Chain : chain[c] \in ChainRow \cup {NoChain}
      BY <1>4, <1>6
    <3>2. chain = [c \in Chain |-> chain[c]]
      BY DEF Init
    <3> QED
      BY <3>1, <3>2
  <2>3. anchorLog \in [Anchor -> Seq(LifecycleActions \cup {"import"})]
    BY DEF Init
  <2>4. chainLog \in [Chain -> Seq([from : ChainStates \cup {"absent"}, to : ChainStates])]
    BY DEF Init
  <2>5. req \in [Request -> Calls \cup {Idle}]
    BY DEF Init
  <2> QED
    BY <2>1, <2>2, <2>3, <2>4, <2>5 DEF TypeOK
<1>8. LogsGood
  <2>1. \A a \in Anchor : ~Held(a) => anchor[a] = NoAnchor
    <3>1. \A a \in Anchor : anchor[a] \in AnchorRow => Held(a)
      BY <1>7, Rows
    <3> QED
      BY <1>3, <1>5, <3>1
  <2>2. \A c \in Chain : ~Stored(c) => chain[c] = NoChain
    <3>1. \A c \in Chain : chain[c] \in ChainRow => Stored(c)
      BY <1>7, Rows
    <3> QED
      BY <1>4, <1>6, <3>1
  <2>3. (\A a \in Anchor : anchorLog[a] = <<>>) /\ (\A c \in Chain : chainLog[c] = <<>>)
    BY DEF Init
  <2> QED
    BY <2>1, <2>2, <2>3 DEF LogsGood
<1>9. SlotsGood
  BY DEF SlotsGood, SlotGood, Init, Idle
<1>10. LogTellsAnchor
  <2>1. \A a \in Anchor : ~anchor[a].revoked /\ ~anchor[a].archived
    BY <1>3, <1>5 DEF NoAnchor
  <2>2. \A a \in Anchor : anchorLog[a] = <<>>
    BY DEF Init
  <2> QED
    BY <2>1, <2>2 DEF LogTellsAnchor, Logged
<1>11. ChainLogIsWalk
  BY DEF ChainLogIsWalk, Init
<1>12. ChainsAreAnchored
  <2> SUFFICES ASSUME NEW c \in Chain, Stored(c)
               PROVE  /\ Held(chain[c].under)
                      /\ <<anchor[chain[c].under].cert, chain[c].bundle>> \in Signs
                      /\ \A d \in Chain : chain[d].bundle = chain[c].bundle
                           /\ chain[d].hash = chain[c].hash => d = c
    BY DEF ChainsAreAnchored
  <2>1. c \in DOMAIN SeedChain
    BY <1>6 DEF Stored, NoChain
  <2>2. /\ SeedParent(c) \in DOMAIN SeedAnchor /\ SeedParent(c) \in Anchor
        /\ <<SeedAnchor[SeedParent(c)], SeedChain[c]>> \in Signs
    BY <1>1, <1>2, <2>1
  <2>3. chain[c].under = SeedParent(c) /\ chain[c].bundle = SeedChain[c]
    BY <1>4, <2>1
  <2>4. anchor[SeedParent(c)].cert = SeedAnchor[SeedParent(c)]
    BY <1>3, <2>2
  <2>5. ASSUME NEW d \in Chain, chain[d].bundle = chain[c].bundle PROVE d = c
    <3>1. d \in DOMAIN SeedChain
      BY <1>2, <1>6, <2>1, <2>3, <2>5, Nulls DEF NoChain
    <3> QED
      BY <1>2, <1>4, <2>1, <2>3, <2>5, <3>1
  <2> QED
    BY <2>2, <2>3, <2>4, <2>5, <1>2, Nulls DEF Held
<1> QED
  BY <1>7, <1>8, <1>9, <1>10, <1>11, <1>12 DEF IInv

-----------------------------------------------------------------------------
\* What writers do to anchors: none leaves, changes its certificate or is
\* revoked no more.
AnchorsGrow ==
  \A a \in Anchor : Held(a) =>
    /\ Held(a)' /\ anchor'[a].cert = anchor[a].cert
    /\ anchor[a].revoked => anchor'[a].revoked

\* So a slot nobody touches stays good.
LEMMA SlotStays ==
  ASSUME TypeOK, AnchorsGrow, NEW t \in Request, SlotGood(req[t]), req'[t] = req[t],
         \A a \in Anchor : anchor[a].revoked => Held(a)
  PROVE  SlotGood(req[t])'
<1>1. CASE req[t].pc = "idle"
  BY <1>1 DEF SlotGood
<1>2. CASE req[t].pc # "idle"
  BY <1>2, Busy DEF SlotGood, AnchorsGrow
<1> QED
  BY <1>1, <1>2

\* A revoked anchor is held.
LEMMA RevokedHeld ==
  ASSUME IInv PROVE \A a \in Anchor : anchor[a].revoked => Held(a)
BY DEF IInv, LogsGood, NoAnchor

\* A step that changes one slot and, of the tables, at most lets anchors grow.
LEMMA SlotsStep ==
  ASSUME IInv, AnchorsGrow, NEW r \in Request,
         \A t \in Request \ {r} : req'[t] = req[t], SlotGood(req[r])'
  PROVE  SlotsGood'
<1>1. ASSUME NEW t \in Request \ {r} PROVE SlotGood(req[t])'
  BY RevokedHeld, SlotStays DEF IInv, SlotsGood
<1> QED
  BY <1>1 DEF SlotsGood

LEMMA QuietStep ==
  ASSUME IInv, UNCHANGED tables, NEW r \in Request,
         req' \in [Request -> Calls \cup {Idle}],
         \A t \in Request \ {r} : req'[t] = req[t], SlotGood(req'[r])
  PROVE  IInv'
<1>1. AnchorsGrow
  BY DEF AnchorsGrow, tables, Held
<1>2. SlotGood(req[r])'
  BY DEF SlotGood, tables, Held
<1>3. SlotsGood'
  BY <1>1, <1>2, SlotsStep
<1>4. TypeOK'
  BY DEF IInv, TypeOK, tables
<1>5. LogsGood'
  BY DEF IInv, LogsGood, Held, Stored, tables
<1>6. LogTellsAnchor' /\ ChainLogIsWalk' /\ ChainsAreAnchored'
  BY DEF IInv, LogTellsAnchor, Logged, ChainLogIsWalk, ChainsAreAnchored, Held,
         Stored, tables
<1> QED
  BY <1>3, <1>4, <1>5, <1>6 DEF IInv

\* Ending a call with a code keeps the rest of it.
LEMMA Ended ==
  ASSUME TypeOK, NEW r \in Request, req[r].pc # "idle",
         NEW pc \in {"committed", "answered"}, NEW code \in Codes,
         req' = [req EXCEPT ![r].pc = pc, ![r].code = code]
  PROVE  /\ req' \in [Request -> Calls \cup {Idle}]
         /\ req'[r].pc = pc /\ req'[r].code = code
         /\ req'[r].op = req[r].op /\ req'[r].id = req[r].id
         /\ req'[r].arg = req[r].arg /\ req'[r].seen = req[r].seen
         /\ \A t \in Request \ {r} : req'[t] = req[t]
<1> DEFINE ended == [[req[r] EXCEPT !.pc = pc] EXCEPT !.code = code]
<1>1. req[r] \in Calls
  BY Busy
<1>2. /\ ended \in Calls /\ ended.pc = pc /\ ended.code = code
      /\ ended.op = req[r].op /\ ended.id = req[r].id
      /\ ended.arg = req[r].arg /\ ended.seen = req[r].seen
  <2>1. ASSUME NEW Op, NEW Id, NEW Arg, NEW Copy, req[r] \in Call(Op, Id, Arg, Copy)
        PROVE  /\ ended \in Call(Op, Id, Arg, Copy) /\ ended.pc = pc /\ ended.code = code
               /\ ended.op = req[r].op /\ ended.id = req[r].id
               /\ ended.arg = req[r].arg /\ ended.seen = req[r].seen
    BY <2>1 DEF Call
  <2> HIDE DEF ended
  <2> QED
    BY <1>1, <2>1 DEF Calls
<1>3. req' = [req EXCEPT ![r] = ended]
  BY DEF TypeOK
<1> HIDE DEF ended
<1> QED
  BY <1>2, <1>3 DEF TypeOK

LEMMA AnswerStep ==
  ASSUME IInv, UNCHANGED tables, NEW r \in Request, req[r].pc # "idle",
         NEW code \in Codes \ {"ok", "pending"}, Answer(r, code)
  PROVE  IInv'
<1>1. /\ req' \in [Request -> Calls \cup {Idle}]
      /\ req'[r].pc = "answered" /\ req'[r].code = code
      /\ \A t \in Request \ {r} : req'[t] = req[t]
  BY Ended DEF IInv, Answer
<1>2. SlotGood(req'[r])
  BY <1>1 DEF SlotGood
<1> QED
  BY <1>1, <1>2, QuietStep

\* Every first read, with the verdict it gives.
LEMMA AdmitStep ==
  ASSUME IInv, NEW r \in Request, NEW op, NEW id, NEW arg, NEW seen, NEW verdict,
         verdict \in Codes \ {"ok"},
         Admit(r, op, id, arg, seen, verdict),
         \/ /\ op = "lifecycle" /\ id \in Anchor /\ arg \in LifecycleActions
            /\ seen \in AnchorRow \cup {NoAnchor}
            /\ verdict = "pending" => Held(id)
         \/ /\ op = "import" /\ id \in Anchor /\ arg \in Bundle
            /\ seen \in AnchorRow \cup {NoAnchor}
            /\ verdict = "pending" => Held(id) /\ <<anchor[id].cert, arg>> \in Signs
         \/ /\ op = "transition" /\ id \in Chain /\ arg \in ChainStates
            /\ seen \in ChainRow \cup {NoChain}
            /\ verdict = "pending" =>
                 seen.state \in ChainStates /\ CanTransitionChain(seen.state, arg)
  PROVE  IInv'
<1> DEFINE call == [pc |-> IF verdict = "pending" THEN "loaded" ELSE "answered",
                    op |-> op, id |-> id, arg |-> arg, seen |-> seen,
                    code |-> verdict]
<1>1. UNCHANGED tables /\ req' = [req EXCEPT ![r] = call]
  BY DEF Admit
<1>2. call \in Calls
  BY DEF Calls, Call
<1>3. SlotGood(call)
  BY DEF SlotGood
<1> HIDE DEF call
<1>4. /\ req' \in [Request -> Calls \cup {Idle}] /\ req'[r] = call
      /\ \A t \in Request \ {r} : req'[t] = req[t]
  BY <1>1, <1>2 DEF IInv, TypeOK
<1> QED
  BY <1>1, <1>3, <1>4, QuietStep

LEMMA ArriveStep ==
  ASSUME IInv, NEW r \in Request, Arrive(r)
  PROVE  IInv'
<1>1. ASSUME NEW a \in Anchor, NEW action \in LifecycleActions,
             LoadLifecycle(r, a, action)
      PROVE  IInv'
  <2>1. /\ LifecycleVerdict(a, action) \in Codes \ {"ok"}
        /\ LifecycleVerdict(a, action) = "pending" => Held(a)
        /\ anchor[a] \in AnchorRow \cup {NoAnchor}
    BY DEF LifecycleVerdict, Codes, IInv, TypeOK
  <2> QED
    BY <1>1, <2>1, AdmitStep DEF LoadLifecycle
<1>2. ASSUME NEW a \in Anchor, NEW b \in Bundle, LoadImport(r, a, b)
      PROVE  IInv'
  <2>1. /\ ImportVerdict(a, b) \in Codes \ {"ok"}
        /\ ImportVerdict(a, b) = "pending" => Held(a) /\ <<anchor[a].cert, b>> \in Signs
        /\ anchor[a] \in AnchorRow \cup {NoAnchor}
    BY DEF ImportVerdict, VerifiesUnder, Codes, IInv, TypeOK
  <2> QED
    BY <1>2, <2>1, AdmitStep DEF LoadImport
<1>3. ASSUME NEW c \in Chain, NEW to \in ChainStates, LoadTransition(r, c, to)
      PROVE  IInv'
  <2>1. chain[c] \in ChainRow \cup {NoChain}
    BY DEF IInv, TypeOK
  <2>2. Stored(c) => chain[c].state \in ChainStates
    BY <2>1, Rows DEF IInv, ChainRow
  <2>3. /\ TransitionVerdict(c, to) \in Codes \ {"ok"}
        /\ TransitionVerdict(c, to) = "pending" =>
             Stored(c) /\ CanTransitionChain(chain[c].state, to)
    BY DEF TransitionVerdict, Codes
  <2> QED
    BY <1>3, <2>1, <2>2, <2>3, AdmitStep DEF LoadTransition
<1> QED
  BY <1>1, <1>2, <1>3 DEF Arrive

\* Moving on to the read-back keeps the call.
LEMMA Committed ==
  ASSUME IInv, NEW r \in Request, req[r].pc = "loaded",
         req' = [req EXCEPT ![r].pc = "committed"]
  PROVE  /\ req' \in [Request -> Calls \cup {Idle}]
         /\ req'[r].pc = "committed" /\ req'[r].code = "pending"
         /\ req'[r].op = req[r].op /\ req'[r].id = req[r].id
         /\ req'[r].arg = req[r].arg /\ req'[r].seen = req[r].seen
         /\ \A t \in Request \ {r} : req'[t] = req[t]
<1>1. req[r].code = "pending"
  BY DEF IInv, SlotsGood, SlotGood
<1>2. req[r] \in Calls
  BY Busy DEF IInv
<1> DEFINE done == [req[r] EXCEPT !.pc = "committed"]
<1>3. /\ done \in Calls /\ done.pc = "committed" /\ done.code = req[r].code
      /\ done.op = req[r].op /\ done.id = req[r].id
      /\ done.arg = req[r].arg /\ done.seen = req[r].seen
  <2>1. ASSUME NEW Op, NEW Id, NEW Arg, NEW Copy, req[r] \in Call(Op, Id, Arg, Copy)
        PROVE  /\ done \in Call(Op, Id, Arg, Copy) /\ done.pc = "committed"
               /\ done.code = req[r].code
               /\ done.op = req[r].op /\ done.id = req[r].id
               /\ done.arg = req[r].arg /\ done.seen = req[r].seen
    BY <2>1 DEF Call
  <2> HIDE DEF done
  <2> QED
    BY <1>2, <2>1 DEF Calls
<1> HIDE DEF done
<1>4. req' = [req EXCEPT ![r] = done]
  BY DEF done
<1> QED
  BY <1>1, <1>3, <1>4 DEF IInv, TypeOK

-----------------------------------------------------------------------------
\* Appending the action to the log tells what Saved did to the row.
\* What the log tells of revocation and of archiving.
TellsRevoked(log) == \E n \in 1 .. Len(log) : log[n] = "revoke"
TellsArchived(log) == \E n \in 1 .. Len(log) :
  /\ log[n] = "archive"
  /\ \A m \in 1 .. Len(log) : log[m] = "restore" => m < n

LEMMA LogFollows ==
  ASSUME NEW log \in Seq(LifecycleActions \cup {"import"}),
         NEW action \in LifecycleActions
  PROVE  /\ TellsRevoked(Append(log, action)) <=> TellsRevoked(log) \/ action = "revoke"
         /\ TellsArchived(Append(log, action)) <=>
              IF action = "revoke" THEN TellsArchived(log) ELSE action = "archive"
<1> DEFINE last == Len(log) + 1
           longer == Append(log, action)
           revoked == TellsRevoked(log)
           archived == TellsArchived(log)
<1>1. /\ Len(log) \in Nat /\ Len(longer) = last
      /\ longer[last] = action
      /\ \A n \in 1 .. Len(log) : longer[n] = log[n]
  OBVIOUS
<1>r. revoked <=> \E n \in 1 .. Len(log) : log[n] = "revoke"
  BY DEF TellsRevoked
<1>a. archived <=> \E n \in 1 .. Len(log) :
         /\ log[n] = "archive"
         /\ \A m \in 1 .. Len(log) : log[m] = "restore" => m < n
  BY DEF TellsArchived
<1>2. \A n \in 1 .. last : n \in 1 .. Len(log) \/ n = last
  BY <1>1
<1>3. \A n \in 1 .. Len(log) : n \in 1 .. last /\ n < last
  BY <1>1
<1>4. last \in 1 .. last /\ ~(last < last)
  BY <1>1
<1>5. \A n \in 1 .. Len(log) : ~(last < n)
  BY <1>1
<1> HIDE DEF last, longer, revoked, archived
<1>6. (revoked \/ action = "revoke") <=> \E n \in 1 .. last : longer[n] = "revoke"
  BY <1>1, <1>2, <1>3, <1>4, <1>r
<1>7. CASE action = "revoke"
  <2>1. archived <=> \E n \in 1 .. last :
           /\ longer[n] = "archive"
           /\ \A m \in 1 .. last : longer[m] = "restore" => m < n
    BY <1>1, <1>2, <1>3, <1>4, <1>a, <1>7
  <2> QED
    BY <2>1, <1>1, <1>6, <1>7 DEF TellsRevoked, TellsArchived, longer, revoked, archived
<1>8. CASE action = "archive"
  <2>1. \E n \in 1 .. last :
           /\ longer[n] = "archive"
           /\ \A m \in 1 .. last : longer[m] = "restore" => m < n
    BY <1>1, <1>2, <1>3, <1>4, <1>8
  <2> QED
    BY <2>1, <1>1, <1>6, <1>8 DEF TellsRevoked, TellsArchived, longer, revoked, archived
<1>9. CASE action = "restore"
  <2>1. ~\E n \in 1 .. last :
           /\ longer[n] = "archive"
           /\ \A m \in 1 .. last : longer[m] = "restore" => m < n
    BY <1>1, <1>2, <1>4, <1>5, <1>9
  <2> QED
    BY <2>1, <1>1, <1>6, <1>9 DEF TellsRevoked, TellsArchived, longer, revoked, archived
<1> QED
  BY <1>7, <1>8, <1>9 DEF LifecycleActions

LEMMA ImportAnchorStep ==
  ASSUME IInv, NEW a \in Anchor, NEW cert \in Certificate, ImportAnchor(a, cert)
  PROVE  IInv'
<1>1. /\ anchor[a] = NoAnchor /\ anchorLog[a] = <<>> /\ ~Held(a)
      /\ anchor' = [anchor EXCEPT ![a].cert = cert]
      /\ anchorLog' = [anchorLog EXCEPT ![a] = Append(@, "import")]
      /\ UNCHANGED <<chain, chainLog, req>>
  BY DEF ImportAnchor, IInv, LogsGood
<1>2. /\ anchor'[a] \in AnchorRow /\ anchor'[a].cert = cert
      /\ ~anchor'[a].revoked /\ ~anchor'[a].archived
      /\ anchorLog'[a] = <<"import">>
  <2>1. anchor'[a] = [NoAnchor EXCEPT !.cert = cert]
    BY <1>1 DEF IInv, TypeOK
  <2>2. anchorLog'[a] = Append(<<>>, "import")
    BY <1>1 DEF IInv, TypeOK
  <2>3. Append(<<>>, "import") = <<"import">>
    OBVIOUS
  <2> QED
    BY <2>1, <2>2, <2>3 DEF NoAnchor, AnchorRow
<1>3. \A b \in Anchor \ {a} : anchor'[b] = anchor[b] /\ anchorLog'[b] = anchorLog[b]
  BY <1>1 DEF IInv, TypeOK
<1>4. TypeOK'
  <2>1. anchor' \in [Anchor -> AnchorRow \cup {NoAnchor}]
    BY <1>1, <1>2, <1>3 DEF IInv, TypeOK
  <2>2. anchorLog' \in [Anchor -> Seq(LifecycleActions \cup {"import"})]
    BY <1>1 DEF IInv, TypeOK
  <2> QED
    BY <2>1, <2>2, <1>1 DEF IInv, TypeOK
<1>5. Held(a)' /\ \A b \in Anchor \ {a} : Held(b)' <=> Held(b)
  BY <1>2, <1>3, Nulls DEF Held
<1>6. AnchorsGrow
  BY <1>1, <1>3, <1>5 DEF AnchorsGrow
<1>7. SlotsGood'
  <2>1. ASSUME NEW t \in Request PROVE SlotGood(req[t])'
    BY <1>1, <1>6, RevokedHeld, SlotStays DEF IInv, SlotsGood
  <2> QED
    BY <2>1 DEF SlotsGood
<1>8. LogsGood'
  BY <1>1, <1>3, <1>5 DEF IInv, LogsGood, Stored
<1>9. LogTellsAnchor'
  BY <1>2, <1>3 DEF IInv, LogTellsAnchor, Logged
<1>10. ChainLogIsWalk' /\ ChainsAreAnchored'
  <2>1. ChainLogIsWalk'
    BY <1>1 DEF IInv, ChainLogIsWalk
  <2>2. ASSUME NEW c \in Chain, Stored(c) PROVE chain[c].under \in Anchor
    BY <2>2, Rows DEF IInv, ChainRow
  <2>3. ASSUME NEW c \in Chain, Stored(c)
        PROVE  Held(chain[c].under)' /\ anchor'[chain[c].under].cert = anchor[chain[c].under].cert
    BY <1>3, <1>5, <1>1, <2>2, <2>3 DEF IInv, ChainsAreAnchored
  <2>4. ChainsAreAnchored'
    BY <1>1, <2>3 DEF IInv, ChainsAreAnchored, Stored, Held
  <2> QED
    BY <2>1, <2>4
<1> QED
  BY <1>4, <1>7, <1>8, <1>9, <1>10 DEF IInv

LEMMA CommitLifecycleStep ==
  ASSUME IInv, NEW r \in Request, CommitLifecycle(r)
  PROVE  IInv'
<1> DEFINE a == req[r].id
           action == req[r].arg
<1>1. /\ req[r].pc = "loaded" /\ req[r].op = "lifecycle"
      /\ anchor' = [anchor EXCEPT ![a] = Saved(req[r], @)]
      /\ anchorLog' = [anchorLog EXCEPT ![a] = Append(@, action)]
      /\ req' = [req EXCEPT ![r].pc = "committed"]
      /\ UNCHANGED <<chain, chainLog>>
  BY DEF CommitLifecycle
<1>2. a \in Anchor /\ action \in LifecycleActions
  BY <1>1, Busy DEF IInv
<1>3. Held(a) /\ anchor[a] \in AnchorRow
  BY <1>1, <1>2, Rows DEF IInv, SlotsGood, SlotGood
<1>4. /\ anchor'[a] \in AnchorRow /\ anchor'[a].cert = anchor[a].cert
      /\ anchor'[a].revoked = (anchor[a].revoked \/ action = "revoke")
      /\ anchor'[a].archived =
           IF action = "revoke" THEN anchor[a].archived ELSE action = "archive"
  <2>1. anchor'[a] = Saved(req[r], anchor[a])
    BY <1>1, <1>2 DEF IInv, TypeOK
  <2> QED
    BY <2>1, <1>3 DEF Saved, AnchorRow
<1>5. anchorLog'[a] = Append(anchorLog[a], action)
  BY <1>1, <1>2 DEF IInv, TypeOK
<1>6. \A b \in Anchor \ {a} : anchor'[b] = anchor[b] /\ anchorLog'[b] = anchorLog[b]
  BY <1>1 DEF IInv, TypeOK
<1>7. /\ req' \in [Request -> Calls \cup {Idle}]
      /\ req'[r].pc = "committed" /\ req'[r].code = "pending"
      /\ req'[r].op = "lifecycle" /\ req'[r].id = a /\ req'[r].arg = action
      /\ \A t \in Request \ {r} : req'[t] = req[t]
  BY <1>1, Committed
<1> HIDE DEF a, action
<1>8. \A b \in Anchor : Held(b)' <=> Held(b)
  BY <1>3, <1>4, <1>6 DEF Held
<1>9. TypeOK'
  <2>1. anchor' \in [Anchor -> AnchorRow \cup {NoAnchor}]
    BY <1>1, <1>4, <1>6 DEF IInv, TypeOK
  <2>2. anchorLog' \in [Anchor -> Seq(LifecycleActions \cup {"import"})]
    BY <1>1, <1>2 DEF IInv, TypeOK
  <2> QED
    BY <2>1, <2>2, <1>1, <1>7 DEF IInv, TypeOK
<1>10. AnchorsGrow
  BY <1>4, <1>6, <1>8 DEF AnchorsGrow
<1>11. SlotsGood'
  <2>1. SlotGood(req[r])'
    BY <1>2, <1>3, <1>4, <1>7, <1>8 DEF SlotGood
  <2> QED
    BY <2>1, <1>7, <1>10, SlotsStep
<1>12. LogsGood'
  BY <1>1, <1>3, <1>6, <1>8 DEF IInv, LogsGood, Stored
<1>13. LogTellsAnchor'
  <2>1. anchorLog[a] \in Seq(LifecycleActions \cup {"import"})
    BY <1>2 DEF IInv, TypeOK
  <2>2. anchor[a].revoked \in BOOLEAN /\ anchor[a].archived \in BOOLEAN
    BY <1>3 DEF AnchorRow
  <2>3. /\ anchor[a].revoked <=> \E n \in 1 .. Len(anchorLog[a]) : anchorLog[a][n] = "revoke"
        /\ anchor[a].archived <=> \E n \in 1 .. Len(anchorLog[a]) :
             /\ anchorLog[a][n] = "archive"
             /\ \A m \in 1 .. Len(anchorLog[a]) : anchorLog[a][m] = "restore" => m < n
    BY <1>2, <2>1 DEF IInv, LogTellsAnchor, Logged
  <2>4. /\ anchor'[a].revoked <=> TellsRevoked(anchorLog'[a])
        /\ anchor'[a].archived <=> TellsArchived(anchorLog'[a])
    <3>1. /\ TellsRevoked(Append(anchorLog[a], action)) <=>
               TellsRevoked(anchorLog[a]) \/ action = "revoke"
          /\ TellsArchived(Append(anchorLog[a], action)) <=>
               IF action = "revoke" THEN TellsArchived(anchorLog[a]) ELSE action = "archive"
      BY <1>2, <2>1, LogFollows
    <3>2. /\ anchor[a].revoked <=> TellsRevoked(anchorLog[a])
          /\ anchor[a].archived <=> TellsArchived(anchorLog[a])
      BY <2>3 DEF TellsRevoked, TellsArchived
    <3> QED
      BY <1>4, <1>5, <2>2, <3>1, <3>2
  <2>5. DOMAIN anchorLog'[a] = 1 .. Len(anchorLog'[a])
    BY <1>5, <1>2, <2>1
  <2>6. \A b \in Anchor \ {a} :
          /\ anchor'[b].revoked <=> {n \in DOMAIN anchorLog'[b] : anchorLog'[b][n] = "revoke"} # {}
          /\ anchor'[b].archived <=>
               \E n \in {n \in DOMAIN anchorLog'[b] : anchorLog'[b][n] = "archive"} :
                 \A m \in {n1 \in DOMAIN anchorLog'[b] : anchorLog'[b][n1] = "restore"} : m < n
    BY <1>6 DEF IInv, LogTellsAnchor, Logged
  <2> QED
    BY <2>4, <2>5, <2>6 DEF LogTellsAnchor, Logged, TellsRevoked, TellsArchived
<1>14. ChainLogIsWalk' /\ ChainsAreAnchored'
  <2>1. ChainLogIsWalk'
    BY <1>1 DEF IInv, ChainLogIsWalk
  <2>2. ASSUME NEW c \in Chain, Stored(c) PROVE chain[c].under \in Anchor
    BY <2>2, Rows DEF IInv, ChainRow
  <2>3. ChainsAreAnchored'
    BY <1>1, <1>4, <1>6, <1>8, <2>2 DEF IInv, ChainsAreAnchored, Stored
  <2> QED
    BY <2>1, <2>3
<1> QED
  BY <1>9, <1>11, <1>12, <1>13, <1>14 DEF IInv

-----------------------------------------------------------------------------
\* An entry that starts where the log ended, by a legal step, makes a longer
\* walk.
Entries == [from : ChainStates \cup {"absent"}, to : ChainStates]

EntryOf(from, to) == [from |-> from, to |-> to]

Walks(log) ==
  \A n \in DOMAIN log :
    /\ log[n].from # "absent" => CanTransitionChain(log[n].from, log[n].to)
    /\ n > 1 => log[n].from = log[n - 1].to

LEMMA WalkGrows ==
  ASSUME NEW log \in Seq(Entries),
         NEW from \in ChainStates \cup {"absent"}, NEW to \in ChainStates,
         Walks(log),
         from # "absent" => CanTransitionChain(from, to),
         log # <<>> => from = log[Len(log)].to
  PROVE  Walks(Append(log, EntryOf(from, to)))
<1> DEFINE last == Len(log) + 1
           longer == Append(log, EntryOf(from, to))
<1>1. /\ Len(log) \in Nat /\ Len(longer) = last /\ DOMAIN longer = 1 .. last
      /\ longer[last] = [from |-> from, to |-> to]
      /\ \A n \in 1 .. Len(log) : longer[n] = log[n] /\ n \in DOMAIN log
  BY DEF Entries, EntryOf
<1>2. SUFFICES ASSUME NEW n \in 1 .. last
               PROVE  /\ longer[n].from # "absent" => CanTransitionChain(longer[n].from, longer[n].to)
                      /\ n > 1 => longer[n].from = longer[n - 1].to
  BY <1>1 DEF Walks
<1>3. CASE n = last
  <2>1. longer[n].from = from /\ longer[n].to = to
    BY <1>1, <1>3
  <2>2. n > 1 => log # <<>> /\ n - 1 = Len(log) /\ Len(log) \in 1 .. Len(log)
    BY <1>1, <1>3
  <2> QED
    BY <1>1, <2>1, <2>2
<1>4. CASE n # last
  <2>1. n \in 1 .. Len(log) /\ (n > 1 => n - 1 \in 1 .. Len(log)) /\ n # Len(longer)
    BY <1>1, <1>4
  <2> QED
    BY <1>1, <2>1 DEF Walks
<1> QED
  BY <1>3, <1>4

\* What the two steps that write a chain have in common: the chain, its log
\* and the slot that did it.
Enters(c, from, to, row) ==
  /\ chain[c].state = from
  /\ from # "absent" => CanTransitionChain(from, to)
  /\ row \in ChainRow /\ row.state = to
  /\ Held(row.under) /\ <<anchor[row.under].cert, row.bundle>> \in Signs
  /\ \A d \in Chain \ {c} : ~(chain[d].bundle = row.bundle /\ chain[d].hash = row.hash)
  /\ chain' = [chain EXCEPT ![c] = row]
  /\ chainLog' = [chainLog EXCEPT ![c] = Append(@, [from |-> from, to |-> to])]
  /\ UNCHANGED <<anchor, anchorLog>>

Turns(r) ==
  /\ req' \in [Request -> Calls \cup {Idle}]
  /\ \A t \in Request \ {r} : req'[t] = req[t]
  /\ SlotGood(req'[r])

LEMMA ChainStep ==
  ASSUME IInv, NEW c \in Chain, NEW from \in ChainStates \cup {"absent"},
         NEW to \in ChainStates, NEW row, Enters(c, from, to, row),
         NEW r \in Request, Turns(r)
  PROVE  IInv'
<1>1. chain'[c] = row /\ \A d \in Chain \ {c} : chain'[d] = chain[d]
  BY DEF IInv, TypeOK, Enters
<1>2. /\ chainLog'[c] = Append(chainLog[c], [from |-> from, to |-> to])
      /\ \A d \in Chain \ {c} : chainLog'[d] = chainLog[d]
  BY DEF IInv, TypeOK, Enters
<1>3. TypeOK'
  <2>1. chain' \in [Chain -> ChainRow \cup {NoChain}]
    BY DEF IInv, TypeOK, Enters
  <2>2. chainLog' \in [Chain -> Seq([from : ChainStates \cup {"absent"}, to : ChainStates])]
    <3>1. [from |-> from, to |-> to] \in Entries /\ chainLog \in [Chain -> Seq(Entries)]
      BY DEF IInv, TypeOK, Entries
    <3>2. chainLog'[c] \in Seq(Entries)
      BY <1>2, <3>1
    <3>3. chainLog' \in [Chain -> Seq(Entries)]
      BY <1>2, <3>1, <3>2 DEF Enters
    <3> QED
      BY <3>3 DEF Entries
  <2> QED
    BY <2>1, <2>2 DEF IInv, TypeOK, Enters, Turns
<1>4. SlotsGood'
  <2>1. AnchorsGrow
    BY DEF AnchorsGrow, Held, Enters
  <2>2. SlotGood(req[r])'
    BY DEF SlotGood, Held, Enters, Turns
  <2> QED
    BY <2>1, <2>2, SlotsStep DEF Turns
<1>5. LogsGood'
  BY <1>1, <1>2, Nulls DEF IInv, LogsGood, Held, Stored, Enters
<1>6. LogTellsAnchor'
  BY DEF IInv, LogTellsAnchor, Logged, Enters
<1>7. ChainLogIsWalk'
  <2>1. chainLog[c] \in Seq([from : ChainStates \cup {"absent"}, to : ChainStates])
    BY DEF IInv, TypeOK
  <2>2. chain[c].state = from
    BY DEF Enters
  <2>3. chainLog[c] # <<>> => from = chainLog[c][Len(chainLog[c])].to
    <3>1. chainLog[c] # <<>> => Len(chainLog[c]) \in DOMAIN chainLog[c]
      BY <2>1
    <3> QED
      BY <2>2, <3>1 DEF IInv, ChainLogIsWalk
  <2>4. Walks(chainLog[c]) /\ (from # "absent" => CanTransitionChain(from, to))
    BY DEF IInv, ChainLogIsWalk, Walks, Enters
  <2>5. /\ Walks(chainLog'[c])
        /\ \A n \in DOMAIN chainLog'[c] : n = Len(chainLog'[c]) => chainLog'[c][n].to = to
    <3>1. PICK log, longer : log = chainLog[c] /\ longer = chainLog'[c]
      OBVIOUS
    <3>2. log \in Seq(Entries) /\ longer = Append(log, EntryOf(from, to))
      BY <1>2, <2>1, <3>1 DEF Entries, EntryOf
    <3>3. Walks(log)
      BY <2>4, <3>1 DEF Walks
    <3>4. /\ from # "absent" => CanTransitionChain(from, to)
          /\ log # <<>> => from = log[Len(log)].to
      BY <2>3, <2>4, <3>1
    <3>5. Walks(longer)
      BY <3>2, <3>3, <3>4, WalkGrows
    <3>6. \A n \in DOMAIN longer : n = Len(longer) => longer[n].to = to
      BY <3>2 DEF Entries, EntryOf
    <3> QED
      BY <3>1, <3>5, <3>6 DEF Walks
  <2> QED
    BY <1>1, <1>2, <2>5 DEF IInv, ChainLogIsWalk, Walks, Enters
<1>8. ChainsAreAnchored'
  <2>1. \A d \in Chain : Stored(d)' => d = c \/ Stored(d)
    BY <1>1 DEF Stored
  <2> QED
    BY <1>1, <2>1 DEF IInv, ChainsAreAnchored, Held, Enters
<1> QED
  BY <1>3, <1>4, <1>5, <1>6, <1>7, <1>8 DEF IInv

LEMMA CommitImportStep ==
  ASSUME IInv, NEW r \in Request, CommitImport(r)
  PROVE  IInv'
<1> DEFINE q == req[r]
<1>1. q.pc = "loaded" /\ q.op = "import"
  BY DEF CommitImport
<1>2. /\ q.id \in Anchor /\ q.arg \in Bundle
      /\ Held(q.id) /\ <<anchor[q.id].cert, q.arg>> \in Signs
  BY <1>1, Busy DEF IInv, SlotsGood, SlotGood
<1>3. CASE Answer(r, "conflict") /\ UNCHANGED tables
  BY <1>1, <1>3, AnswerStep DEF Codes
<1>4. CASE ~(Answer(r, "conflict") /\ UNCHANGED tables)
  <2>1. PICK c \in Chain :
          /\ ~Stored(c)
          /\ chain' = [chain EXCEPT ![c] =
               [bundle |-> q.arg, hash |-> "joined", under |-> q.id, state |-> "validated"]]
          /\ chainLog' = [chainLog EXCEPT ![c] =
               Append(@, [from |-> "absent", to |-> "validated"])]
    BY <1>4 DEF CommitImport
  <2>2. Answer(r, "ok") /\ UNCHANGED <<anchor, anchorLog>>
    BY <1>4 DEF CommitImport
  <2>3. /\ req' \in [Request -> Calls \cup {Idle}]
        /\ req'[r].pc = "answered" /\ req'[r].op = "import"
        /\ \A t \in Request \ {r} : req'[t] = req[t]
    BY <1>1, <2>2, Ended DEF Answer, IInv, Codes
  <2>4. SlotGood(req'[r])
    BY <2>3 DEF SlotGood
  <2> DEFINE row == [bundle |-> q.arg, hash |-> "joined", under |-> q.id, state |-> "validated"]
  <2>5. row \in ChainRow /\ "validated" \in ChainStates
    BY <1>2 DEF ChainRow, ChainStates
  <2>6. /\ row.state = "validated" /\ row.under = q.id /\ row.bundle = q.arg
        /\ row.hash = "joined"
        /\ chain[c].state = "absent"
    BY <2>1 DEF Stored
  <2>7. \A d \in Chain \ {c} : ~(chain[d].bundle = row.bundle /\ chain[d].hash = row.hash)
    BY <1>4, <2>6 DEF CommitImport, FingerprintTaken
  <2>8. chain' = [chain EXCEPT ![c] = row]
    BY <2>1
  <2>9. Enters(c, "absent", "validated", row)
    <3> HIDE DEF row, q
    <3> QED
      BY <1>2, <2>1, <2>2, <2>5, <2>6, <2>7, <2>8 DEF Enters
  <2>10. Turns(r)
    BY <2>3, <2>4 DEF Turns
  <2> HIDE DEF row, q
  <2> QED
    BY <2>5, <2>9, <2>10, ChainStep
<1> QED
  BY <1>3, <1>4

LEMMA CommitTransitionStep ==
  ASSUME IInv, NEW r \in Request, CommitTransition(r)
  PROVE  IInv'
<1> DEFINE q == req[r]
<1>1. q.pc = "loaded" /\ q.op = "transition"
  BY DEF CommitTransition
<1>2. /\ q.id \in Chain /\ q.arg \in ChainStates
      /\ q.seen.state \in ChainStates /\ CanTransitionChain(q.seen.state, q.arg)
  BY <1>1, Busy DEF IInv, SlotsGood, SlotGood
<1>3. CASE ~StillIn(q.id, q.seen.state)
  BY <1>1, <1>3, AnswerStep DEF CommitTransition, Codes
<1>4. CASE StillIn(q.id, q.seen.state)
  <2>1. /\ chain' = [chain EXCEPT ![q.id].state = q.arg]
        /\ chainLog' = [chainLog EXCEPT ![q.id] =
             Append(@, [from |-> q.seen.state, to |-> q.arg])]
        /\ req' = [req EXCEPT ![r].pc = "committed"]
        /\ UNCHANGED <<anchor, anchorLog>>
    BY <1>4 DEF CommitTransition
  <2>2. /\ req' \in [Request -> Calls \cup {Idle}]
        /\ req'[r].pc = "committed" /\ req'[r].code = "pending"
        /\ req'[r].op = "transition"
        /\ \A t \in Request \ {r} : req'[t] = req[t]
    BY <1>1, <2>1, Committed
  <2>3. SlotGood(req'[r])
    BY <2>2 DEF SlotGood
  <2> DEFINE c == q.id
             row == [chain[c] EXCEPT !.state = q.arg]
  <2>4. Stored(c) /\ chain[c] \in ChainRow
    BY <1>2, <1>4, Nulls, Rows DEF IInv, StillIn, Stored
  <2>5. /\ row \in ChainRow /\ row.state = q.arg
        /\ row.under = chain[c].under /\ row.bundle = chain[c].bundle /\ row.hash = chain[c].hash
    BY <1>2, <2>4 DEF ChainRow
  <2>6. /\ Held(row.under) /\ <<anchor[row.under].cert, row.bundle>> \in Signs
        /\ \A d \in Chain \ {c} : ~(chain[d].bundle = row.bundle /\ chain[d].hash = row.hash)
    BY <1>2, <2>4, <2>5 DEF IInv, ChainsAreAnchored
  <2>7. chain' = [chain EXCEPT ![c] = row] /\ chain[c].state = q.seen.state
    BY <1>4, <2>1 DEF StillIn
  <2>8. Enters(c, q.seen.state, q.arg, row)
    <3>1. chainLog' = [chainLog EXCEPT ![c] =
            Append(@, [from |-> q.seen.state, to |-> q.arg])]
      BY <2>1
    <3> HIDE DEF row, c, q
    <3> QED
      BY <1>2, <2>1, <2>5, <2>6, <2>7, <3>1 DEF Enters
  <2>9. Turns(r)
    BY <2>2, <2>3 DEF Turns
  <2>10. c \in Chain
    BY <1>2
  <2> HIDE DEF row, c, q
  <2> QED
    BY <1>2, <2>8, <2>9, <2>10, ChainStep
<1> QED
  BY <1>3, <1>4

-----------------------------------------------------------------------------
LEMMA FinishStep ==
  ASSUME IInv, NEW r \in Request, Finish(r)
  PROVE  IInv'
<1> DEFINE read == IF req[r].op = "lifecycle" THEN anchor[req[r].id] ELSE chain[req[r].id]
           told == [req[r] EXCEPT !.pc = "answered", !.code = "ok", !.seen = read]
<1>1. /\ req[r].pc = "committed" /\ UNCHANGED tables
      /\ req' = [req EXCEPT ![r] = told]
  BY DEF Finish
<1>2. req[r].op \in {"lifecycle", "transition"}
  BY <1>1, Busy DEF IInv, SlotsGood, SlotGood
<1>3. CASE req[r].op = "lifecycle"
  <2>1. read = anchor[req[r].id] /\ req[r].id \in Anchor
    BY <1>1, <1>3, Busy DEF IInv
  <2>2. read \in AnchorRow \cup {NoAnchor}
    BY <2>1 DEF IInv, TypeOK
  <2>3. req[r] \in Call({"lifecycle"}, Anchor, LifecycleActions, AnchorRow \cup {NoAnchor})
    BY <1>1, <1>3, Busy DEF IInv, Calls, Call
  <2>4. /\ told \in Calls
        /\ told.pc = "answered" /\ told.op = "lifecycle" /\ told.id = req[r].id
        /\ told.arg = req[r].arg /\ told.code = "ok" /\ told.seen = read
    <3> HIDE DEF read
    <3> QED
      BY <2>2, <2>3 DEF Calls, Call, Codes
  <2>5. req[r].arg = "revoke" => anchor[req[r].id].revoked
    BY <1>1, <1>3 DEF IInv, SlotsGood, SlotGood
  <2> HIDE DEF read, told
  <2>6. SlotGood(told)
    BY <2>1, <2>4, <2>5 DEF SlotGood
  <2>7. /\ req' \in [Request -> Calls \cup {Idle}] /\ req'[r] = told
        /\ \A t \in Request \ {r} : req'[t] = req[t]
    BY <1>1, <2>4 DEF IInv, TypeOK
  <2> QED
    BY <1>1, <2>6, <2>7, QuietStep
<1>4. CASE req[r].op = "transition"
  <2>1. read = chain[req[r].id] /\ req[r].id \in Chain
    BY <1>1, <1>4, Busy DEF IInv
  <2>2. read \in ChainRow \cup {NoChain}
    BY <2>1 DEF IInv, TypeOK
  <2>3. req[r] \in Call({"transition"}, Chain, ChainStates, ChainRow \cup {NoChain})
    BY <1>1, <1>4, Busy DEF IInv, Calls, Call
  <2>4. told \in Calls /\ told.pc = "answered" /\ told.op = "transition"
    <3> HIDE DEF read
    <3> QED
      BY <2>2, <2>3 DEF Calls, Call, Codes
  <2> HIDE DEF read, told
  <2>5. SlotGood(told)
    BY <2>4 DEF SlotGood
  <2>6. /\ req' \in [Request -> Calls \cup {Idle}] /\ req'[r] = told
        /\ \A t \in Request \ {r} : req'[t] = req[t]
    BY <1>1, <2>4 DEF IInv, TypeOK
  <2> QED
    BY <1>1, <2>5, <2>6, QuietStep
<1> QED
  BY <1>2, <1>3, <1>4

LEMMA RespondStep ==
  ASSUME IInv, NEW r \in Request, Respond(r)
  PROVE  IInv'
<1>1. UNCHANGED tables /\ req' = [req EXCEPT ![r] = Idle]
  BY DEF Respond
<1>2. /\ req' \in [Request -> Calls \cup {Idle}] /\ req'[r] = Idle
      /\ \A t \in Request \ {r} : req'[t] = req[t]
  BY <1>1 DEF IInv, TypeOK
<1>3. SlotGood(Idle)
  BY DEF SlotGood, Idle
<1> QED
  BY <1>1, <1>2, <1>3, QuietStep

LEMMA StutterStep ==
  ASSUME IInv, UNCHANGED vars
  PROVE  IInv'
<1>1. TypeOK'
  BY DEF IInv, TypeOK, vars
<1>2. LogsGood'
  BY DEF IInv, LogsGood, Held, Stored, vars
<1>3. SlotsGood'
  BY DEF IInv, SlotsGood, SlotGood, Held, vars
<1>4. LogTellsAnchor' /\ ChainLogIsWalk' /\ ChainsAreAnchored'
  BY DEF IInv, LogTellsAnchor, Logged, ChainLogIsWalk, ChainsAreAnchored, Held,
         Stored, vars
<1> QED
  BY <1>1, <1>2, <1>3, <1>4 DEF IInv

LEMMA NextIInv == IInv /\ [Next]_vars => IInv'
<1> SUFFICES ASSUME IInv, [Next]_vars PROVE IInv'
  OBVIOUS
<1>1. ASSUME NEW a \in Anchor, NEW cert \in Certificate, ImportAnchor(a, cert)
      PROVE  IInv'
  BY <1>1, ImportAnchorStep
<1>2. ASSUME NEW r \in Request, Arrive(r) \/ Advance(r) PROVE IInv'
  <2>1. ASSUME StoreFails(r) PROVE IInv'
    BY <2>1, AnswerStep DEF StoreFails, Codes
  <2> QED
    BY <1>2, <2>1, ArriveStep, CommitLifecycleStep, CommitImportStep,
       CommitTransitionStep, FinishStep, RespondStep DEF Advance
<1> QED
  BY <1>1, <1>2, StutterStep DEF Next

-----------------------------------------------------------------------------
(* What every slot was told of anchors and chains stays true of the tables,
   whatever else runs: the invariant the others are read off. *)
THEOREM MaterialInvariance == Spec => []IInv
<1> QED
  BY InitIInv, NextIInv, PTL DEF Spec

(* Variables keep their types for any number of rows and requests. *)
THEOREM MaterialTyped == Spec => []TypeOK
<1>1. IInv => TypeOK
  BY DEF IInv
<1> QED
  BY <1>1, MaterialInvariance, PTL

(* The log of every anchor tells its row, for writers that check copies and
   write by id alone (trust_anchor_service.go, lines 97-123). *)
THEOREM AnchorLogIsComplete == Spec => []LogTellsAnchor
<1>1. IInv => LogTellsAnchor
  BY DEF IInv
<1> QED
  BY <1>1, MaterialInvariance, PTL

(* Who was told of a successful revocation was shown a revoked anchor, and it
   stays revoked (trust_anchor_service.go, lines 100-127). *)
THEOREM RevocationsHold == Spec => []RevocationHolds
<1>1. IInv => RevocationHolds
  <2> SUFFICES ASSUME IInv, NEW r \in Request, req[r] # Idle, req[r].op = "lifecycle",
                      req[r].arg = "revoke", req[r].code = "ok"
               PROVE  req[r].seen.revoked /\ anchor[req[r].id].revoked
    BY DEF RevocationHolds
  <2>1. req[r].pc # "idle"
    BY DEF IInv, TypeOK, Calls, Call
  <2> QED
    BY <2>1 DEF IInv, SlotsGood, SlotGood
<1> QED
  BY <1>1, MaterialInvariance, PTL

(* The log of every chain is a gapless legal walk to the state of its row
   (certificate_chain_repository.go, line 67). *)
THEOREM ChainLogsAreWalks == Spec => []ChainLogIsWalk
<1>1. IInv => ChainLogIsWalk
  BY DEF IInv
<1> QED
  BY <1>1, MaterialInvariance, PTL

(* Every stored chain verifies under its stored anchor and is imported
   once at most, its seeded copy apart (certificate_chain_service.go, lines 33-68). *)
THEOREM ChainsStayAnchored == Spec => []ChainsAreAnchored
<1>1. IInv => ChainsAreAnchored
  BY DEF IInv
<1> QED
  BY <1>1, MaterialInvariance, PTL

-----------------------------------------------------------------------------
\* What the rows show of themselves to the inventory.
LEMMA SameTable ==
  /\ Shelf!ChainStates = ChainStates
  /\ \A from, to : Shelf!CanTransitionChain(from, to) <=> CanTransitionChain(from, to)
<1>1. Shelf!ChainStates = ChainStates
  BY DEF Shelf!ChainStates, ChainStates
<1>2. Shelf!ChainSuccessors = ChainSuccessors
  BY <1>1 DEF Shelf!ChainSuccessors, ChainSuccessors
<1> QED
  BY <1>1, <1>2 DEF Shelf!CanTransitionChain, CanTransitionChain

LEMMA Shown ==
  ASSUME TypeOK
  PROVE  /\ Shelf!HeldAnchors = {a \in Anchor : Held(a)}
         /\ Shelf!StoredChains = {c \in Chain : Stored(c)}
         /\ \A c \in Chain : Stored(c) =>
              ChainsShown[c] = [state |-> chain[c].state, under |-> chain[c].under]
         /\ Shelf!StoredServices = {}
<1>1. \A a \in Anchor : AnchorsShown[a] # "absent" <=> Held(a)
  BY DEF AnchorsShown
<1>2. ASSUME NEW c \in Chain, Stored(c)
      PROVE  /\ ChainsShown[c] = [state |-> chain[c].state, under |-> chain[c].under]
             /\ ChainsShown[c] # Shelf!NoRow
  <2>1. ChainsShown[c] = [state |-> chain[c].state, under |-> chain[c].under]
    BY <1>2 DEF ChainsShown
  <2>2. chain[c].state # "absent"
    BY <1>2 DEF Stored
  <2>3. ChainsShown[c].state # "absent"
    BY <2>1, <2>2
  <2> QED
    BY <2>1, <2>3 DEF Shelf!NoRow
<1>3. \A c \in Chain : ~Stored(c) => ChainsShown[c] = Shelf!NoRow
  BY DEF ChainsShown, Shelf!NoRow
<1> QED
  BY <1>1, <1>2, <1>3 DEF Shelf!HeldAnchors, Shelf!StoredChains, Shelf!StoredServices

LEMMA ShownTyped ==
  ASSUME TypeOK, ChainsAreAnchored
  PROVE  Shelf!InventoryInit
<1>1. AnchorsShown \in [Anchor -> {"absent", "trusted", "revoked"}]
  BY DEF AnchorsShown
<1>2. ASSUME NEW c \in Chain, Stored(c)
      PROVE  ChainsShown[c] \in Shelf!ChainRow /\ ChainsShown[c].under = chain[c].under
  <2>1. chain[c].state \in ChainStates /\ chain[c].under \in Anchor
    BY <1>2, Rows DEF ChainRow
  <2>2. ChainsShown[c] = [state |-> chain[c].state, under |-> chain[c].under]
    BY <1>2, Shown
  <2> QED
    BY <2>1, <2>2, SameTable DEF Shelf!ChainRow
<1>3. ChainsShown \in [Chain -> Shelf!ChainRow \cup {Shelf!NoRow}]
  <2>1. \A c \in Chain : ChainsShown[c] \in Shelf!ChainRow \cup {Shelf!NoRow}
    BY <1>2 DEF ChainsShown, Shelf!NoRow
  <2> QED
    BY <2>1 DEF ChainsShown
<1>4. << >> \in [{} -> Shelf!ServiceRow \cup {Shelf!NoRow}]
  OBVIOUS
<1>5. Shelf!Closed
  <2>1. \A c \in Shelf!StoredChains : ChainsShown[c].under \in Shelf!HeldAnchors
    <3> SUFFICES ASSUME NEW c \in Chain, Stored(c)
                 PROVE  ChainsShown[c].under \in Shelf!HeldAnchors
      BY Shown
    <3>1. Held(chain[c].under) /\ chain[c].under \in Anchor
      BY Rows DEF ChainsAreAnchored, ChainRow
    <3> QED
      BY <3>1, <1>2, Shown
  <2> QED
    BY <2>1, Shown DEF Shelf!Closed
<1> QED
  BY <1>1, <1>3, <1>4, <1>5 DEF Shelf!InventoryInit, Shelf!InventoryTypeOK

LEMMA ImportAnchorShown ==
  ASSUME IInv, NEW a \in Anchor, NEW cert \in Certificate, ImportAnchor(a, cert)
  PROVE  Shelf!InventoryNext
<1>1. /\ anchor[a] = NoAnchor /\ ~Held(a)
      /\ anchor' = [anchor EXCEPT ![a].cert = cert] /\ UNCHANGED chain
  BY DEF ImportAnchor, IInv, LogsGood
<1>2. anchor'[a].cert = cert /\ ~anchor'[a].revoked
  BY <1>1 DEF IInv, TypeOK, NoAnchor
<1>3. \A b \in Anchor \ {a} : anchor'[b] = anchor[b]
  BY <1>1 DEF IInv, TypeOK
<1>4. Held(a)' /\ \A b \in Anchor \ {a} : Held(b)' <=> Held(b)
  BY <1>2, <1>3, Nulls DEF Held
<1>5. AnchorsShown' = [AnchorsShown EXCEPT ![a] = "trusted"]
  BY <1>2, <1>3, <1>4 DEF AnchorsShown
<1>6. AnchorsShown[a] = "absent" /\ UNCHANGED ChainsShown
  BY <1>1 DEF AnchorsShown, ChainsShown, Stored
<1>7. Shelf!ImportAnchor(a)
  BY <1>5, <1>6 DEF Shelf!ImportAnchor
<1> QED
  BY <1>7 DEF Shelf!InventoryNext

\* A revocation is the inventory's; archiving and restoring are not seen.
LEMMA CommitLifecycleShown ==
  ASSUME IInv, NEW r \in Request, CommitLifecycle(r)
  PROVE  [Shelf!InventoryNext]_(Shelf!inventory)
<1> DEFINE a == req[r].id
           action == req[r].arg
<1>1. /\ req[r].pc = "loaded" /\ req[r].op = "lifecycle"
      /\ anchor' = [anchor EXCEPT ![a] = Saved(req[r], @)] /\ UNCHANGED chain
  BY DEF CommitLifecycle
<1>2. a \in Anchor /\ action \in LifecycleActions
  BY <1>1, Busy DEF IInv
<1>3. Held(a) /\ anchor[a] \in AnchorRow
  BY <1>1, <1>2, Rows DEF IInv, SlotsGood, SlotGood
<1>4. /\ anchor'[a].cert = anchor[a].cert
      /\ anchor'[a].revoked = (anchor[a].revoked \/ action = "revoke")
  <2>1. anchor'[a] = Saved(req[r], anchor[a])
    BY <1>1, <1>2 DEF IInv, TypeOK
  <2> QED
    BY <2>1, <1>3 DEF Saved, AnchorRow
<1>5. \A b \in Anchor \ {a} : anchor'[b] = anchor[b]
  BY <1>1 DEF IInv, TypeOK
<1>6. \A b \in Anchor : Held(b)' <=> Held(b)
  BY <1>4, <1>5 DEF Held
<1>7. UNCHANGED ChainsShown
  BY <1>1 DEF ChainsShown, Stored
<1>8. CASE action = "revoke"
  <2>1. anchor'[a].revoked
    BY <1>4, <1>8
  <2>2. AnchorsShown' = [AnchorsShown EXCEPT ![a] = "revoked"]
    BY <2>1, <1>2, <1>3, <1>5, <1>6 DEF AnchorsShown
  <2>3. AnchorsShown[a] # "absent"
    BY <1>2, <1>3 DEF AnchorsShown
  <2>4. Shelf!RevokeAnchor(a)
    BY <2>2, <2>3, <1>7 DEF Shelf!RevokeAnchor
  <2> QED
    BY <1>2, <2>4 DEF Shelf!InventoryNext
<1>9. CASE action # "revoke"
  <2>1. \A b \in Anchor : anchor'[b].revoked = anchor[b].revoked
    BY <1>3, <1>4, <1>5, <1>9 DEF AnchorRow
  <2>2. UNCHANGED AnchorsShown
    BY <2>1, <1>6 DEF AnchorsShown
  <2> QED
    BY <2>2, <1>7 DEF Shelf!inventory
<1> QED
  BY <1>8, <1>9

LEMMA CommitImportShown ==
  ASSUME IInv, NEW r \in Request, CommitImport(r)
  PROVE  [Shelf!InventoryNext]_(Shelf!inventory)
<1> DEFINE q == req[r]
<1>1. q.id \in Anchor /\ Held(q.id)
  BY Busy DEF IInv, SlotsGood, SlotGood, CommitImport
<1>2. CASE UNCHANGED tables
  BY <1>2 DEF tables, Shelf!inventory, AnchorsShown, ChainsShown, Held, Stored
<1>3. ASSUME NEW c \in Chain, ~Stored(c), UNCHANGED anchor,
             chain' = [chain EXCEPT ![c] =
               [bundle |-> q.arg, hash |-> "joined", under |-> q.id, state |-> "validated"]]
      PROVE  Shelf!InventoryNext
  <2>1. /\ chain'[c].state = "validated" /\ chain'[c].under = q.id
        /\ \A d \in Chain \ {c} : chain'[d] = chain[d]
    BY <1>3 DEF IInv, TypeOK
  <2>2. Stored(c)' /\ \A d \in Chain \ {c} : Stored(d)' <=> Stored(d)
    BY <2>1 DEF Stored
  <2>3. ChainsShown' = [ChainsShown EXCEPT ![c] = [state |-> "validated", under |-> q.id]]
    BY <2>1, <2>2 DEF ChainsShown
  <2>4. UNCHANGED AnchorsShown
    BY <1>3 DEF AnchorsShown, Held
  <2>5. c \notin Shelf!StoredChains /\ q.id \in Shelf!HeldAnchors
    BY <1>1, <1>3, Shown DEF IInv
  <2>6. Shelf!ImportChain(c, q.id)
    BY <2>3, <2>4, <2>5 DEF Shelf!ImportChain
  <2> QED
    BY <1>1, <2>6 DEF Shelf!InventoryNext
<1> QED
  BY <1>2, <1>3 DEF CommitImport

LEMMA CommitTransitionShown ==
  ASSUME IInv, NEW r \in Request, CommitTransition(r)
  PROVE  [Shelf!InventoryNext]_(Shelf!inventory)
<1> DEFINE q == req[r]
           c == q.id
<1>1. /\ c \in Chain /\ q.arg \in ChainStates
      /\ q.seen.state \in ChainStates /\ CanTransitionChain(q.seen.state, q.arg)
  BY Busy DEF IInv, SlotsGood, SlotGood, CommitTransition
<1>2. CASE ~StillIn(c, q.seen.state)
  BY <1>2 DEF CommitTransition, tables, Shelf!inventory, AnchorsShown, ChainsShown, Held, Stored
<1>3. CASE StillIn(c, q.seen.state)
  <2>1. chain' = [chain EXCEPT ![c].state = q.arg] /\ UNCHANGED anchor
    BY <1>3 DEF CommitTransition
  <2>2. Stored(c) /\ chain[c] \in ChainRow /\ chain[c].state = q.seen.state
    BY <1>1, <1>3, Nulls, Rows DEF IInv, StillIn, Stored
  <2>3. /\ chain'[c].state = q.arg /\ chain'[c].under = chain[c].under
        /\ \A d \in Chain \ {c} : chain'[d] = chain[d]
    BY <1>1, <2>1, <2>2 DEF IInv, TypeOK, ChainRow
  <2>4. \A d \in Chain : Stored(d)' <=> Stored(d)
    BY <1>1, <2>2, <2>3, Nulls DEF Stored
  <2>5. ChainsShown[c] = [state |-> q.seen.state, under |-> chain[c].under]
    BY <1>1, <2>2, Shown DEF IInv
  <2>6. ChainsShown' = [ChainsShown EXCEPT ![c] = [state |-> q.arg, under |-> chain[c].under]]
    BY <2>2, <2>3, <2>4 DEF ChainsShown
  <2>7. ChainsShown' = [ChainsShown EXCEPT ![c].state = q.arg]
    BY <1>1, <2>5, <2>6 DEF ChainsShown
  <2>8. UNCHANGED AnchorsShown
    BY <2>1 DEF AnchorsShown, Held
  <2>9. c \in Shelf!StoredChains /\ Shelf!CanTransitionChain(ChainsShown[c].state, q.arg)
    BY <1>1, <2>2, <2>5, Shown, SameTable DEF IInv
  <2>10. Shelf!MoveChain(c, q.arg)
    BY <2>7, <2>8, <2>9 DEF Shelf!MoveChain
  <2> QED
    BY <1>1, <2>10, SameTable DEF Shelf!InventoryNext
<1> QED
  BY <1>2, <1>3

(* Anchors and chains keep what the inventory promises, for any number of
   overlapping requests (trust_anchor_service.go, lines 28-127, and
   certificate_chain_service.go, lines 29-147). *)
THEOREM MaterialRefinesInventory == Spec => ImplementsInventory
<1>1. Init => Shelf!InventoryInit
  BY InitIInv, ShownTyped DEF IInv
<1>2. IInv /\ [Next]_vars => [Shelf!InventoryNext]_(Shelf!inventory)
  <2> SUFFICES ASSUME IInv, [Next]_vars
               PROVE  [Shelf!InventoryNext]_(Shelf!inventory)
    OBVIOUS
  <2>1. CASE UNCHANGED <<anchor, chain>>
    BY <2>1 DEF Shelf!inventory, AnchorsShown, ChainsShown, Held, Stored
  <2>2. CASE \E a \in Anchor, cert \in Certificate : ImportAnchor(a, cert)
    BY <2>2, ImportAnchorShown
  <2>3. CASE \E r \in Request : CommitLifecycle(r) \/ CommitImport(r) \/ CommitTransition(r)
    BY <2>3, CommitLifecycleShown, CommitImportShown, CommitTransitionShown
  <2> QED
    BY <2>1, <2>2, <2>3
       DEF Next, vars, tables, Arrive, Advance, LoadLifecycle, LoadImport, LoadTransition,
           Admit, Finish, StoreFails, Respond
<1> QED
  BY <1>1, <1>2, MaterialInvariance, PTL
     DEF Spec, ImplementsInventory, Shelf!InventorySpec
=============================================================================
