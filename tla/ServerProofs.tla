----------------------------- MODULE ServerProofs -----------------------------
(***************************************************************************)
(* A process that serves has a complete database, for any number of        *)
(* processes, accounts and crashes: a process knows the row of every       *)
(* account it has passed, rows never change, and only one transaction at a *)
(* time, begun on an empty domain, can commit.                             *)
(***************************************************************************)
EXTENDS Server, FiniteSetTheorems, TLAPS

Known(p) ==
  /\ \A a \in Account : seen[p][a] # 0 => seen[p][a] = rows[a]
  /\ pc[p] \in {"find", "create"} =>
       next[p] \in Account /\ \A a \in Account : a < next[p] => seen[p][a] # 0
  /\ pc[p] \in {"count", "insert", "writing"} => \A a \in Account : seen[p][a] # 0
  /\ pc[p] \in {"serving", "stopping"} => domain = 1

OneWriter ==
  \A p, o \in Instance : pc[p] = "writing" => domain = 0 /\ (pc[o] = "writing" => p = o)

Whole == domain # 0 => owner = rows[Operator] /\ \A a \in Account : rows[a] # 0

IInv == TypeOK /\ (\A p \in Instance : Known(p)) /\ OneWriter /\ Whole

-----------------------------------------------------------------------------
LEMMA Places == N \in Nat /\ N >= 1 /\ Operator \in Account /\ MaxFaults \in Nat
BY AccountsAssumption, FaultsAssumption DEF Account

\* An account is missing, so fewer than all are stored.
LEMMA NewId ==
  ASSUME TypeOK, NEW a \in Account, rows[a] = 0
  PROVE  Cardinality({b \in Account : rows[b] # 0}) + 1 \in 1..N
<1> DEFINE S == {b \in Account : rows[b] # 0}
<1>1. IsFiniteSet(Account) /\ Cardinality(Account) = N
  BY Places, FS_Interval DEF Account
<1>2. S \in SUBSET Account /\ S # Account
  OBVIOUS
<1>3. /\ IsFiniteSet(S) /\ Cardinality(S) <= Cardinality(Account)
      /\ Cardinality(S) # Cardinality(Account)
  BY <1>1, <1>2, FS_Subset
<1>4. Cardinality(S) \in Nat
  BY <1>3, FS_CardinalityType
<1> QED
  BY <1>1, <1>3, <1>4, Places

LEMMA Start0 == Init => IInv
BY Places DEF Init, IInv, TypeOK, Known, OneWriter, Whole, Nobody, Account

\* Steps that leave the database alone and what the process knows.
LEMMA MovesKeep ==
  ASSUME IInv, NEW p \in Instance, NEW step, Goto(p, step),
         UNCHANGED <<rows, domain, owner, next, seen>>,
         TypeOK', step # "writing",
         step \in {"find", "create"} => pc[p] \in {"find", "create"},
         step \in {"count", "insert"} => pc[p] \in {"count", "insert", "writing"},
         step \in {"serving", "stopping"} => domain = 1
  PROVE  IInv'
<1>1. /\ pc'[p] = step /\ \A o \in Instance \ {p} : pc'[o] = pc[o]
  BY DEF Goto, IInv, TypeOK
<1>2. ASSUME NEW o \in Instance PROVE Known(o)'
  <2>1. CASE o = p
    BY <1>1, <2>1 DEF IInv, Known
  <2>2. CASE o # p
    BY <1>1, <2>2 DEF IInv, Known
  <2> QED
    BY <2>1, <2>2
<1>3. OneWriter' /\ Whole'
  BY <1>1 DEF IInv, OneWriter, Whole
<1> QED
  BY <1>2, <1>3 DEF IInv

LEMMA ExitsKeep ==
  ASSUME IInv, NEW p \in Instance, Exits(p), UNCHANGED <<rows, domain, owner>>,
         open' \in [Instance -> SUBSET Request], UNCHANGED answered, faults' \in 0..MaxFaults
  PROVE  IInv'
<1>1. exit' \in [Instance -> 0..1]
  BY DEF Exits, IInv, TypeOK
<1>2. pc' \in [Instance -> {"down", "find", "create", "count", "insert", "writing",
                            "serving", "stopping", "stopped"}]
  BY DEF Exits, Goto, IInv, TypeOK
<1>3. TypeOK'
  BY <1>1, <1>2 DEF Exits, IInv, TypeOK
<1> QED
  BY <1>3, MovesKeep DEF Exits

LEMMA StartKeeps ==
  ASSUME IInv, NEW p \in Instance, Start(p)
  PROVE  IInv'
<1>1. /\ pc'[p] = "find" /\ next'[p] = 1 /\ seen'[p] = Nobody
      /\ \A o \in Instance \ {p} : pc'[o] = pc[o] /\ next'[o] = next[o] /\ seen'[o] = seen[o]
      /\ UNCHANGED <<rows, domain, owner>>
  BY DEF Start, Goto, IInv, TypeOK
<1>2. TypeOK'
  BY Places DEF Start, Goto, IInv, TypeOK, Nobody
<1>3. ASSUME NEW o \in Instance PROVE Known(o)'
  <2>1. CASE o = p
    BY <1>1, <2>1, Places DEF Known, Nobody, Account
  <2>2. CASE o # p
    BY <1>1, <2>2 DEF IInv, Known
  <2> QED
    BY <2>1, <2>2
<1>4. OneWriter' /\ Whole'
  BY <1>1 DEF IInv, OneWriter, Whole
<1> QED
  BY <1>2, <1>3, <1>4 DEF IInv

\* A process takes the row of the account it is at, found or just made.
LEMMA TakeKeeps ==
  ASSUME IInv, NEW p \in Instance, NEW id \in 1..N, pc[p] \in {"find", "create"}, Take(p, id),
         rows' \in [Account -> 0..N], rows'[next[p]] = id,
         \A a \in Account : rows[a] # 0 => rows'[a] = rows[a],
         UNCHANGED <<domain, owner, exit, open, answered, faults>>
  PROVE  IInv'
<1>1. /\ next[p] \in Account /\ N \in Nat
      /\ \A a \in Account : a < next[p] => seen[p][a] # 0
      /\ \A a \in Account : seen[p][a] # 0 => seen[p][a] = rows[a]
  BY Places DEF IInv, Known
<1>2. /\ pc'[p] = IF next[p] = N THEN "count" ELSE "find"
      /\ next'[p] = next[p] + 1 /\ seen'[p] = [seen[p] EXCEPT ![next[p]] = id]
      /\ \A o \in Instance \ {p} : pc'[o] = pc[o] /\ next'[o] = next[o] /\ seen'[o] = seen[o]
  BY DEF Take, Goto, IInv, TypeOK
<1>3. seen[p] \in [Account -> 0..N] /\ seen'[p] \in [Account -> 0..N]
  <2>1. id \in 0..N
    BY <1>1
  <2> QED
    BY <1>1, <1>2, <2>1 DEF IInv, TypeOK
<1>4. TypeOK'
  <2>1. pc' \in [Instance -> {"down", "find", "create", "count", "insert", "writing",
                              "serving", "stopping", "stopped"}]
    BY DEF Take, Goto, IInv, TypeOK
  <2>2. next' \in [Instance -> 1..(N + 1)]
    <3>1. next[p] + 1 \in 1..(N + 1)
      BY <1>1 DEF Account
    <3> QED
      BY <3>1 DEF Take, IInv, TypeOK
  <2>3. seen' \in [Instance -> [Account -> 0..N]]
    BY <1>3 DEF Take, IInv, TypeOK
  <2> QED
    BY <2>1, <2>2, <2>3 DEF IInv, TypeOK
<1>5. ASSUME NEW o \in Instance PROVE Known(o)'
  <2>1. CASE o = p
    <3>1. \A a \in Account : seen'[p][a] # 0 => seen'[p][a] = rows'[a]
      BY <1>1, <1>2, <1>3
    <3>2. \A a \in Account : a < next[p] + 1 => seen'[p][a] # 0
      BY <1>1, <1>2, <1>3 DEF Account
    <3>3. CASE next[p] = N
      <4>1. \A a \in Account : seen'[p][a] # 0
        BY <1>1, <3>2, <3>3 DEF Account
      <4> QED
        BY <1>2, <2>1, <3>1, <3>3, <4>1 DEF Known
    <3>4. CASE next[p] # N
      <4>1. next'[p] \in Account
        BY <1>1, <1>2, <3>4 DEF Account
      <4> QED
        BY <1>2, <2>1, <3>1, <3>2, <3>4, <4>1 DEF Known
    <3> QED
      BY <3>3, <3>4
  <2>2. CASE o # p
    <3>1. Known(o) /\ seen[o] \in [Account -> 0..N]
      BY DEF IInv, TypeOK
    <3> QED
      BY <1>2, <2>2, <3>1 DEF Known
  <2> QED
    BY <2>1, <2>2
<1>6. OneWriter'
  BY <1>2 DEF IInv, OneWriter
<1>7. Whole'
  BY Places DEF IInv, Whole
<1> QED
  BY <1>4, <1>5, <1>6, <1>7 DEF IInv

LEMMA FindKeeps ==
  ASSUME IInv, NEW p \in Instance, Find(p)
  PROVE  IInv'
<1>1. next[p] \in Account /\ rows \in [Account -> 0..N] /\ pc[p] = "find"
  BY DEF Find, IInv, Known, TypeOK
<1>2. CASE Missing(p) /\ Goto(p, "create") /\ UNCHANGED <<next, seen>>
  <2>1. TypeOK'
    BY <1>2 DEF Find, Goto, IInv, TypeOK
  <2> QED
    BY <1>1, <1>2, <2>1, MovesKeep DEF Find
<1>3. CASE ~Missing(p) /\ Take(p, rows[next[p]])
  <2>1. rows[next[p]] \in 1..N
    BY <1>1, <1>3, Places DEF Missing
  <2> QED
    BY <1>1, <1>3, <2>1, TakeKeeps DEF Find
<1> QED
  BY <1>2, <1>3 DEF Find

LEMMA CreateKeeps ==
  ASSUME IInv, NEW p \in Instance, Create(p)
  PROVE  IInv'
<1> DEFINE id == Cardinality({a \in Account : rows[a] # 0}) + 1
<1>1. next[p] \in Account /\ rows \in [Account -> 0..N] /\ pc[p] = "create"
  BY DEF Create, IInv, Known, TypeOK
<1>2. CASE /\ rows[next[p]] = 0 /\ rows' = [rows EXCEPT ![next[p]] = id]
           /\ Take(p, id) /\ UNCHANGED exit
  <2>1. id \in 1..N
    BY <1>1, <1>2, NewId DEF IInv
  <2> HIDE DEF id
  <2>2. /\ rows' \in [Account -> 0..N] /\ rows'[next[p]] = id
        /\ \A a \in Account : rows[a] # 0 => rows'[a] = rows[a]
    BY <1>1, <1>2, <2>1
  <2> QED
    BY <1>1, <1>2, <2>1, <2>2, TakeKeeps DEF Create
<1>3. CASE Exits(p) /\ UNCHANGED rows
  BY <1>3, ExitsKeep DEF Create, IInv, TypeOK
<1> QED
  BY <1>2, <1>3 DEF Create

LEMMA CountKeeps ==
  ASSUME IInv, NEW p \in Instance, CountAnchors(p)
  PROVE  IInv'
<1>1. TypeOK'
  BY DEF CountAnchors, Goto, IInv, TypeOK
<1>2. CASE Counted
  <2>1. domain = 1
    BY <1>2 DEF Counted, IInv, TypeOK
  <2> QED
    BY <1>1, <1>2, <2>1, MovesKeep DEF CountAnchors
<1>3. CASE ~Counted
  BY <1>1, <1>3, MovesKeep DEF CountAnchors
<1> QED
  BY <1>2, <1>3

LEMMA InsertKeeps ==
  ASSUME IInv, NEW p \in Instance, Insert(p)
  PROVE  IInv'
<1>1. CASE Free /\ Goto(p, "writing") /\ UNCHANGED <<next, seen, exit>>
  <2>1. /\ pc'[p] = "writing" /\ \A o \in Instance \ {p} : pc'[o] = pc[o]
        /\ UNCHANGED <<rows, domain, owner, next, seen>>
    BY <1>1 DEF Insert, Goto, IInv, TypeOK
  <2>2. TypeOK'
    BY <1>1 DEF Insert, Goto, IInv, TypeOK
  <2>3. ASSUME NEW o \in Instance PROVE Known(o)'
    <3>1. CASE o = p
      BY <2>1, <3>1 DEF Insert, IInv, Known
    <3>2. CASE o # p
      BY <2>1, <3>2 DEF IInv, Known
    <3> QED
      BY <3>1, <3>2
  <2>4. OneWriter'
    BY <1>1, <2>1 DEF Insert, Free, OneWriter
  <2>5. Whole'
    BY <2>1 DEF IInv, Whole
  <2> QED
    BY <2>2, <2>3, <2>4, <2>5 DEF IInv
<1>2. CASE Exits(p)
  BY <1>2, ExitsKeep DEF Insert, IInv, TypeOK
<1> QED
  BY <1>1, <1>2 DEF Insert

LEMMA CommitKeeps ==
  ASSUME IInv, NEW p \in Instance, Commit(p)
  PROVE  IInv'
<1>1. /\ pc[p] = "writing" /\ domain = 0 /\ \A o \in Instance \ {p} : pc[o] # "writing"
      /\ \A a \in Account : seen[p][a] # 0 /\ seen[p][a] = rows[a]
  BY DEF Commit, IInv, OneWriter, Known
<1>2. /\ pc'[p] = "serving" /\ \A o \in Instance \ {p} : pc'[o] = pc[o]
      /\ domain' = 1 /\ owner' = rows[Operator] /\ UNCHANGED <<rows, next, seen>>
  BY <1>1, Places DEF Commit, Goto, IInv, TypeOK
<1>3. TypeOK'
  BY <1>2, Places DEF Commit, Goto, IInv, TypeOK
<1>4. ASSUME NEW o \in Instance PROVE Known(o)'
  BY <1>2 DEF IInv, Known
<1>5. OneWriter' /\ Whole'
  BY <1>1, <1>2 DEF OneWriter, Whole
<1> QED
  BY <1>3, <1>4, <1>5 DEF IInv

\* Requests and the end of a process touch nothing that was stored.
LEMMA ServingKeeps ==
  ASSUME IInv, NEW p \in Instance,
         \/ Terminate(p) \/ Shutdown(p) \/ \E r \in Request : Accept(p, r) \/ Answer(p, r)
  PROVE  IInv'
<1>1. CASE Terminate(p)
  <2>1. TypeOK' /\ domain = 1
    BY <1>1 DEF Terminate, Goto, IInv, TypeOK, Known
  <2> QED
    BY <1>1, <2>1, MovesKeep DEF Terminate
<1>2. CASE Shutdown(p)
  <2>1. TypeOK'
    BY <1>2 DEF Shutdown, Goto, IInv, TypeOK
  <2> QED
    BY <1>2, <2>1, MovesKeep DEF Shutdown
<1>3. ASSUME NEW r \in Request, Accept(p, r) \/ Answer(p, r)
      PROVE  IInv'
  <2>1. UNCHANGED <<rows, domain, owner, pc, next, seen>>
    BY <1>3 DEF Accept, Answer, process
  <2>2. TypeOK'
    BY <1>3, <2>1 DEF Accept, Answer, IInv, TypeOK
  <2> QED
    BY <2>1, <2>2 DEF IInv, Known, OneWriter, Whole
<1> QED
  BY <1>1, <1>2, <1>3

LEMMA CrashKeeps ==
  ASSUME IInv, NEW p \in Instance, Crash(p)
  PROVE  IInv'
<1>1. open' \in [Instance -> SUBSET Request] /\ faults' \in 0..MaxFaults
  BY Places DEF Crash, IInv, TypeOK
<1> QED
  BY <1>1, ExitsKeep DEF Crash

LEMMA Inductive == IInv /\ [Next]_vars => IInv'
<1> SUFFICES ASSUME IInv, [Next]_vars PROVE IInv'
  OBVIOUS
<1>1. CASE UNCHANGED vars
  BY <1>1 DEF vars, IInv, TypeOK, Known, OneWriter, Whole
<1>2. CASE Next
  BY <1>2, StartKeeps, FindKeeps, CreateKeeps, CountKeeps, InsertKeeps, CommitKeeps,
     ServingKeeps, CrashKeeps DEF Next, Open
<1> QED
  BY <1>1, <1>2

LEMMA Invariance == Spec => []IInv
BY Start0, Inductive, PTL DEF Spec

\* Every variable holds what the code's types allow, one copy at most.
THEOREM ServerTyped == Spec => []TypeOK
BY Invariance, PTL DEF IInv

\* Any number of processes and crashes: who serves has every account and one
\* copy of the domain (database.go, lines 74-106).
THEOREM ServingIsSeeded == Spec => []ServesSeeded
<1>1. IInv => ServesSeeded
  BY DEF IInv, Known, Whole, ServesSeeded
<1> QED
  BY <1>1, Invariance, PTL
=============================================================================
