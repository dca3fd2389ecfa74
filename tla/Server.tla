------------------------------- MODULE Server -------------------------------
(***************************************************************************)
(* A server process from its start to its end: it opens and seeds the      *)
(* database, serves, and drains its requests when told to stop.  Several   *)
(* processes may start on one database, crash at any point and be          *)
(* restarted, as after an update or a failed health check.                 *)
(*                                                                         *)
(* The accounts are looked up and created one by one, the domain records   *)
(* in one transaction, told here by their copies and their owner.  Unique  *)
(* columns refuse a second copy, and an insert waits for the transaction   *)
(* that holds the same code.                                               *)
(***************************************************************************)
EXTENDS Naturals, FiniteSets

CONSTANTS
  Instance, Request,
  N,            \* seed accounts; five in the code
  Operator,     \* the place of the account that owns the seeded scenario
  MaxFaults     \* bound: crashes and database errors

ASSUME AccountsAssumption == N \in Nat \ {0} /\ Operator \in 1..N
ASSUME FaultsAssumption == MaxFaults \in Nat

VARIABLES
  rows,         \* the id of each account's row, 0 for none
  domain,       \* copies of the domain records
  owner,        \* the id of the seeded scenario's creator
  pc, next, seen,   \* of each process: its step, account and map of accounts
  exit,         \* of each process: the code it last ended with, 0 while it runs
  open,         \* the requests each process has accepted
  answered,
  faults

process == <<pc, next, seen>>
vars == <<rows, domain, owner, pc, next, seen, exit, open, answered, faults>>

Account == 1..N

Nobody == [a \in Account |-> 0]

Init ==
  /\ rows = Nobody /\ domain = 0 /\ owner = 0
  /\ pc = [p \in Instance |-> "down"] /\ next = [p \in Instance |-> 1]
  /\ seen = [p \in Instance |-> Nobody] /\ exit = [p \in Instance |-> 1]
  /\ open = [p \in Instance |-> {}] /\ answered = {} /\ faults = 0

Goto(p, step) == pc' = [pc EXCEPT ![p] = step]

\* An error on the way up ends the process; nothing is served yet.
Exits(p) ==
  /\ Goto(p, "down") /\ exit' = [exit EXCEPT ![p] = 1]
  /\ UNCHANGED <<next, seen>>

-----------------------------------------------------------------------------
(* Opening the database. *)

\* The restart policy, or a person after a stop.
Start(p) ==
  /\ pc[p] \in {"down", "stopped"}
  /\ Goto(p, "find")
  /\ next' = [next EXCEPT ![p] = 1] /\ seen' = [seen EXCEPT ![p] = Nobody]
  /\ exit' = [exit EXCEPT ![p] = 0]
  /\ UNCHANGED <<rows, domain, owner, open, answered, faults>>

Take(p, id) ==
  /\ seen' = [seen EXCEPT ![p][next[p]] = id]
  /\ next' = [next EXCEPT ![p] = @ + 1]
  /\ Goto(p, IF next[p] = N THEN "count" ELSE "find")

\* Slip: an account is created without a look.
Unseen(p) == TRUE

Missing(p) == rows[next[p]] = 0

Find(p) ==
  /\ pc[p] = "find"
  /\ \/ /\ Missing(p)
        /\ Goto(p, "create") /\ UNCHANGED <<next, seen>>
     \/ /\ ~Missing(p)
        /\ Take(p, rows[next[p]])
  /\ UNCHANGED <<rows, domain, owner, exit, open, answered, faults>>

\* Another process may have created it since.
Create(p) ==
  LET id == Cardinality({a \in Account : rows[a] # 0}) + 1
  IN /\ pc[p] = "create"
     /\ \/ /\ rows[next[p]] = 0
           /\ rows' = [rows EXCEPT ![next[p]] = id]
           /\ Take(p, id) /\ UNCHANGED exit
        \/ /\ rows[next[p]] # 0
           /\ Exits(p) /\ UNCHANGED rows
     /\ UNCHANGED <<domain, owner, open, answered, faults>>

\* Slip: accounts are taken for a seeded database.
CountedByAccounts == TRUE

Counted == domain # 0

CountAnchors(p) ==
  /\ pc[p] = "count"
  /\ Goto(p, IF Counted THEN "serving" ELSE "insert")
  /\ UNCHANGED <<rows, domain, owner, next, seen, exit, open, answered, faults>>

\* Slip: the code column is not unique.
FreeAnyway == TRUE

Free == domain = 0

\* The first insert of the transaction takes the unique code or waits for it.
Insert(p) ==
  /\ pc[p] = "insert" /\ \A o \in Instance : pc[o] # "writing"
  /\ \/ /\ Free
        /\ Goto(p, "writing") /\ UNCHANGED <<next, seen, exit>>
     \/ /\ ~Free
        /\ Exits(p)
  /\ UNCHANGED <<rows, domain, owner, open, answered, faults>>

Commit(p) ==
  /\ pc[p] = "writing"
  /\ domain' = domain + 1 /\ owner' = seen[p][Operator]
  /\ Goto(p, "serving")
  /\ UNCHANGED <<rows, next, seen, exit, open, answered, faults>>

-----------------------------------------------------------------------------
(* Serving and stopping. *)

Accept(p, r) ==
  /\ pc[p] = "serving"
  /\ r \notin answered /\ \A o \in Instance : r \notin open[o]
  /\ open' = [open EXCEPT ![p] = @ \cup {r}]
  /\ UNCHANGED <<rows, domain, owner, process, exit, answered, faults>>

Answer(p, r) ==
  /\ r \in open[p]
  /\ open' = [open EXCEPT ![p] = @ \ {r}] /\ answered' = answered \cup {r}
  /\ UNCHANGED <<rows, domain, owner, process, exit, faults>>

\* Before it serves a process has no handler for the signal: see Crash.
Terminate(p) ==
  /\ pc[p] = "serving"
  /\ Goto(p, "stopping")
  /\ UNCHANGED <<rows, domain, owner, next, seen, exit, open, answered, faults>>

\* Slip: the listener is closed and nothing waited for.
Closed(p) == TRUE

Drained(p) == open[p] = {}

\* Shutdown ends well when nothing is open, or with an error at its timeout.
Shutdown(p) ==
  /\ pc[p] = "stopping"
  /\ Goto(p, "stopped") /\ open' = [open EXCEPT ![p] = {}]
  /\ exit' = [exit EXCEPT ![p] = IF Drained(p) THEN 0 ELSE 1]
  /\ UNCHANGED <<rows, domain, owner, next, seen, answered, faults>>

\* Anywhere on its way; what is not committed is rolled back.
Crash(p) ==
  /\ pc[p] \notin {"down", "stopped"} /\ faults < MaxFaults
  /\ Exits(p)
  /\ open' = [open EXCEPT ![p] = {}] /\ faults' = faults + 1
  /\ UNCHANGED <<rows, domain, owner, answered>>

Open(p) ==
  Start(p) \/ Find(p) \/ Create(p) \/ CountAnchors(p) \/ Insert(p) \/ Commit(p)

Next ==
  \E p \in Instance :
    \/ Open(p) \/ Terminate(p) \/ Shutdown(p) \/ Crash(p)
    \/ \E r \in Request : Accept(p, r) \/ Answer(p, r)

\* The policy restarts what went down, and every step on the way up returns.
Fairness ==
  \A p \in Instance :
    /\ WF_vars(Start(p) /\ pc[p] = "down")
    /\ WF_vars(Find(p) \/ Create(p) \/ CountAnchors(p) \/ Insert(p) \/ Commit(p))
    /\ WF_vars(Shutdown(p))
    /\ \A r \in Request : WF_vars(Answer(p, r))

Spec == Init /\ [][Next]_vars /\ Fairness

-----------------------------------------------------------------------------
(* Every variable holds what the code's types allow, one copy at most. *)
TypeOK ==
  /\ rows \in [Account -> 0..N] /\ domain \in 0..1 /\ owner \in 0..N
  /\ pc \in [Instance -> {"down", "find", "create", "count", "insert", "writing",
                          "serving", "stopping", "stopped"}]
  /\ next \in [Instance -> 1..(N + 1)] /\ seen \in [Instance -> [Account -> 0..N]]
  /\ exit \in [Instance -> 0..1]
  /\ open \in [Instance -> SUBSET Request] /\ answered \subseteq Request
  /\ faults \in 0..MaxFaults

(* Whatever crashed or started beside it, a process that serves has every
   account and one copy of the domain, owned by the operator's account
   (database.go, lines 74-106). *)
ServesSeeded ==
  \A p \in Instance : pc[p] \in {"serving", "stopping"} =>
    /\ \A a \in Account : rows[a] # 0
    /\ domain = 1 /\ owner = rows[Operator]

(* No crash leaves a database on which a process cannot come up: it serves
   again and again unless it was told to stop (database.go, lines 78-81). *)
ComesUp == \A p \in Instance : []<>(pc[p] \in {"serving", "stopped"})

(* A request accepted is answered, unless the process ends with an error:
   stopping drops nobody (main.go, lines 101-108). *)
AcceptedIsAnswered ==
  \A p \in Instance : \A r \in Request :
    r \in open[p] ~> (r \in answered \/ exit[p] = 1)
=============================================================================
