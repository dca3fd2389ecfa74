# CertRollover in TLA+

CertRollover (`src/`) plans the replacement of trust anchors: it keeps an
inventory of trust anchors, certificate chains and the services that depend on
them, freezes that inventory into *rollover scenarios*, simulates each scenario
and walks it through a reviewed state machine. The backend is a Go HTTP server
on one SQL database; a TypeScript page is its client.

This directory holds TLA+ models of the backend and of the page's session, the TLC
configurations that check them on small instances, and TLAPS proofs for every size
of instance.

    tlc -workers 2 -config GraphRaces.cfg MCDependencyGraph.tla
    tlapm RolloverScenarioProofs.tla

`PROJECT.json` maps every definition to the source lines it stands for and lists
runs, mutants, findings, hazards and theorems.

## 1. The system

Paths below are relative to `src/backend/internal` unless they start with `src/`.

| Component | State | Operations that change it | Modelled in |
|---|---|---|---|
| Rollover scenarios (`service/`, `repository/`, `handler/rollover_scenario_*.go`) | table `rollover_scenarios` | create, simulate, transition, replay | `RolloverScenario`, `ScenarioLifecycle`; the reads of create: `SnapshotFreeze` |
| Dependent services (`service/dependent_service_service.go`) | table `dependent_services` | create, update, deactivate | `DependencyGraph`, `Inventory` |
| Cycle search (`service/common.go:59-95`, `algorithm/simulator.go:318-347`) | none beyond the call | one search | `CycleCheck`, `DependencyEdges` |
| Roles and state tables (`constants/`) | none | none | `AccessControl` |
| Audit log (`service/common.go:51-57`) | table `audit_logs`, append only | written with each change | part of each write step |
| Transactions (`repository/trust_anchor_repository.go:21-29`) | the database's | begin, commit, roll back | a write is one step, or `StoreFails` |
| Trust anchors (`service/trust_anchor_service.go`) | table `trust_anchors` | import, archive, revoke, restore | `TrustMaterial`, `Inventory` |
| Certificate chains (`service/certificate_chain_service.go`) | table `certificate_chains` | import, transition | `TrustMaterial`, `Inventory` |
| Impact simulator (`algorithm/simulator.go`) | none | none: a function of the snapshot | `TrustPaths`, `Simulator`, `CycleCheck` |
| Snapshot freeze (`service/rollover_scenario_service.go:40-89`) | the request's | reads three tables, inserts a draft | `SnapshotFreeze` |
| Authentication and rate limit (`middleware/auth.go`) | tokens; a bucket per client and scope | log in, count | `Sessions` |
| Opening and seeding (`database/database.go`) | all tables | seed once | `Server`; its result is the `Init` of the others |
| Server (`src/backend/cmd/server/main.go`) | the process | start, serve, shut down | `Server` |
| Frontend session (`src/frontend/src/stores/auth.ts`, `api/client.ts`) | the token in localStorage and in each page | log in, log out, reload | `Sessions` |
| Frontend lists and retry key | lists on display | fetch, simulate | not modelled: display; its fresh keys are the clients' `Key` of `RolloverScenario` |
| Configuration, X.509 parsing, redaction, pages | none | none | not modelled: pure, or rendering |

**How they interact.** A request passes the authentication, rate-limit and
permission middleware, then a handler calls one service. A service reads rows
through repositories, *checks the copy it read*, and writes in a transaction that
also appends the audit entry; after the commit it reads the record back for the
answer. A dependent service refers to a chain and anchors; a chain to an anchor;
a scenario holds copies of all of them, taken when it was created.

**What is hard.** Everything that happens between a read and its write. Requests
run in goroutines of their own, so any other request's reads and writes come in
between. The code defends itself in three ways, and not everywhere: a
compare-and-set (`UPDATE ... WHERE id = ? AND state = ?`), unique indexes, and an
immutable column. Where none of the three stands the last writer wins. Besides: a
statement may fail after the commit, the process may die anywhere, and a client
repeats what it got no answer to. `PROJECT.json` lists each hazard with its line.

**What makes each component correct.**

* Scenarios: a verification never comes from the creator; state and log walk the
  state machine together; frozen evidence never changes; a stored result is what
  the simulator computes from it; a key's answer is that key's run; every
  request is answered.
* Dependent services: edges lead to existing services, no cycle is stored,
  owners change only their team's services, a deactivation happens once.
* Cycle search: right on every graph in every order, and it ends.
* Trust anchors: one lifecycle per anchor, revocation is not undone by accident.
* Chains: a chain enters under an anchor that may carry it; compare-and-set.
* Snapshot: what a scenario freezes is no single state of the inventory, for it is
  read in four statements; it must still be whole, and each row must lie between the
  request's beginning and its end.
* Sessions and limits: who is refused or logged out has given cause; the window
  never lets twice its limit pass.
* Server: a process serves only a completely seeded database, comes up after any
  crash, and a stop drops no request silently.

## 2. Modules

`AccessControl` (roles, permissions, the scenario state table) is pure data that
the others EXTEND.

### RolloverScenario, ScenarioLifecycle

`row[s]` is the table row, `trail[s]` the audit entries of scenario `s`, and
`req[r]` the request in slot `r`. A slot passes through the control points of the
service's functions:

| Step | Code |
|---|---|
| `Create` | `Service.Create`, insert guarded by two unique indexes |
| `LoadSimulate`, `CheckKey`, `CommitSimulate` | `Service.Simulate`: `GetByID` and ownership; `FindByIdempotencyKey` and the state of the copy; the transaction |
| `LoadTransition`, `CommitTransition` | `Handler.Transition` (permission by target) and `Service.Transition` |
| `LoadReplay`, `CommitReplay` | `Service.Replay`; the flag is stored by id alone |
| `Finish`, `Respond` | the read after the commit; the answer leaves |
| `StoreFails`, `Crash` | a failed statement or transaction; the process dies |

Every statement outside a transaction and every transaction is one step. A row
keeps what control depends on. `input` is one value for the unique triple of input
hash, algorithm version and simulation time; `Outcome[i]` is what the simulator
answers for it, an arbitrary function, so nothing here depends on what it
computes. A draft's idempotency key is the empty string, and it is subject to the
unique index like any other value: `KeyTaken(s, NoKey)`.

`ScenarioLifecycle` is the abstract specification: no requests, no keys, no log;
each operation happens at one instant on the current record under the authority
it needs. `RolloverScenario!Implements` is the refinement, with `life[s]` mapped to
the row without key and replay flag.

### CycleCheck, DependencyEdges

`DependencyEdges` defines `Cyclic` and `Dangling` without recursion (a graph is
cyclic when some non-empty set of services each has an edge into the set).
`CycleCheck` unfolds the recursive search into a stack of calls. The variable
`strict`, fixed by `Init`, chooses between the two copies in the code: `servicesContainCycle` refuses an
edge to an unknown service, `detectCycle` gives it no edges. The outer loop walks
a Go map, so it may take any order.

### DependencyGraph

`svc[s]` is a row (state, team, edges), `deactivations[s]` counts the audit
entries. An update passes `LoadUpdate` (row and ownership), `CheckReferences`
(`validateReferences`, the first read of all services), `CheckGraph` (the second
read and the search), `CommitUpdate` (by id alone), `Finish`, `Respond`; a create
skips the first read and checks under the id `^uint(0)` (`Fresh`); a deactivation
is a compare-and-set. The search itself is the operator `Cyclic(g) \/ Dangling(g)`,
which is what `CycleCheckProofs` shows it to answer. The second read's error is
dropped by the code (`all, _ :=`): with `ReadsFail` it may return no rows. Chain
and anchor references may refuse at will. A crash is not an action of its own: to
the table it is a `StoreFails` and `Respond` of each slot.

### TrustPaths, Simulator

A snapshot is a record of the overlap, the two anchors, the candidate chains and
the frozen chains and services. `TrustPaths` holds what needs no search: the
sampled times, the anchors active at a time, the chain a service presents
(`Direct`, the first usable one by id), and `Reachable`, the meaning of the search
without the search: some set of active services contains the service, is closed
under dependencies, and each member presents a usable chain. `Simulator` is the
loop of `Simulate`, one call at a time: `Begin` validates and lists the times; at the
earliest time left, `Enter` and `Return` are a call of `resolveService` that goes on to
its dependencies and one that found them all reachable; `Break` is the failure of the
innermost call, which every call below it returns at once; `NextPoint` ends a time and
`Explain` draws the summary. `calls` is the recursion's stack: its services are the
code's `visiting` set and, in order, its `path`. `Cyclic` in its validation is again what
the search of `CycleCheck` is shown to answer. Reasons, codes and criticality are left
out; times are ticks.

### TrustMaterial

`anchor[a]` and `chain[c]` are rows, `anchorLog` and `chainLog` their audit entries.
A lifecycle action is `LoadLifecycle` (read, the check of `revoked_at` on the copy),
`CommitLifecycle` (the columns of the action, by id alone), `Finish`; a chain is
imported by `LoadImport` (its anchor, and the offline validation against it) and
`CommitImport` (insert under two unique indexes), and moves by `LoadTransition` and a
compare-and-set in `CommitTransition`. An anchor is imported in one transaction that
reads nothing before. A certificate stands for an anchor's unique code and
fingerprint. `Signs` is the relation of `ValidateChain`: a bundle may verify under
several roots, as one reissued with the same subject and key. A chain's unique
fingerprint is its bundle with the text that was hashed (`hash`), for the seed and an
import hash different ones; its code is whatever the client sends, so an import may
meet a taken one whenever a chain is stored. The permissions the routes ask for come before every read and
play no further part; a crash is a `StoreFails` and `Respond` of each slot.

### Inventory

The abstract specification of anchors, chains and services together: one state, each
write at one instant, nothing ever deleted, references always to stored rows.
`TrustMaterial!ImplementsInventory` maps the rows of anchors and chains to it and
`DependencyGraph!ImplementsInventory` those of the services. What the inventory does
*not* promise is a graph without cycles: see `VCycleRace`.

### SnapshotFreeze

The inventory, written by anyone in any way `Inventory` allows, and a create request
beside it: `ReadAnchors`, `ReadCandidates`, `ReadChains` (a page of `PageSize`, in the order
`Rank`), `ReadServices`, then `Freeze`, which is `buildSnapshot`, `ValidateSnapshot` and the
insert, or `Refused`. `draft[k].began` is a history value: the chains as the request
found them. Because `TrustMaterial` and `DependencyGraph` implement `Inventory`, what is
shown here of its writers holds beside theirs.

### Sessions

The pages of one browser, the requests in flight and the middleware. `store` is the
token in localStorage, `view` the pages that show a session: such a page sends the
stored token, whichever that is by now, and a login sends one that the open route does
not look at. A request passes `Authenticate` (and the permission check), `ReadClock`,
`Count` (the part under the mutex) and `Serve`; its answer is `Receive`d by the page, where
a 401 clears the store (`useAuth.ts` listens on every page, the login page too), or is
`Lost`. `Restart` empties the buckets and keeps the tokens. `Reload` drops the answers a
page waits for. One limiter stands for the three, which count apart, and one address for
all clients; a count past the limit stays where it is, as it can matter no more.

### Server

`rows`, `domain` and `owner` are the database, the rest is the state of each process on
its way through `database.Open` and `run`: `Find` and `Create` for each account in turn,
`CountAnchors`, `Insert` and `Commit` of the domain's transaction, then `Accept` and `Answer`,
`Terminate` and `Shutdown`. `Crash` ends a process anywhere on that way, as would a failing
statement or a signal before the handler stands; `Start` is the restart policy of
`src/docker-compose.yml`, or a person after a stop. The database is PostgreSQL as
deployed: an insert of a taken unique value waits for the other transaction and then fails.

## 3. Runs

`MC*` modules give the constants their values. Requests in flight are two: each
hazard here is one write between another request's read and write, and two slots
hold it; slots are symmetric. `MaxTrail` bounds the log of each scenario by
refusing *new* requests, so what is in flight always completes; a system that
reached its bound stops, hence `CHECK_DEADLOCK FALSE` in the scenario runs, as in
the runs of the cycle search, the simulator and the snapshot, which end. Everywhere
else deadlock is checked.

| Run | Instance | Shows |
|---|---|---|
| ScenarioReview | one scenario of five log entries and a draft beside it; operator, reviewer and admin | from creation to verified or rolled back: `ReviewerSeparation`, `TrailIsWalk`, `TrailAuthorised`, `EvidenceFrozen`, `Implements`. A replay read while the record was executing may land after its verification or rollback. Five entries are one full walk (create, simulate, ready, executing, verified) |
| ScenarioKeys | two scenarios of two entries, two keys, operator and owner | keys that move between scenarios, resets, repeated simulations: `SimulateAnswerFits`, `ResultReproducible`, and `EveryRequestAnswered` under fairness |
| CycleSearch | both searches on every graph over three ids, edges to unknown ids included | `VerdictCorrect`, `Terminates` |
| GraphRaces | two services, two requests, failing reads | `GraphClosed`, `DeactivatedOnce`, `ImplementsInventory` |
| Simulation | every graph over three services of thirty combinations of kinds, three old and four new chains, windows that end before, in and after the overlap | `SearchDecidesReachable`, `BrokenPathIsReal`, `SummaryIsTrue`, `AllClearHoldsUntilNextEdge`, and `SimulationEnds` under fairness. Three services hold a shared dependency, a chain of two edges and a cycle; six times are sampled |
| TrustMaterial | two anchors, one of them to be imported, three chains, one of them seeded, a bundle that verifies under both anchors, two requests; a seeded row takes new requests up to two log entries, another up to one | `LogTellsAnchor`, `RevocationHolds`, `ChainLogIsWalk`, `ChainsAreAnchored`, `ImplementsInventory` |
| Snapshot | two anchors, three chains and a page of two, two services, one create request, three writes to the inventory | `OnlyThePageCuts`, `FrozenIsBetween`, `FrozenGraphIsSound`. Three writes close a cycle of two and still move a chain between two reads; requests never touch each other, so one is enough |
| Sessions | two pages, two requests, one user and one address, limit 1, a window of 2 ticks, stalls of 1, tokens of 1, a clock of 3 | `UnderTwiceTheLimit`, `RefusedForCause`, `EndedForCause`. Windows begin, end and overlap, tokens expire, restarts come between. The clock goes as far as a window and a stall, so that a request can be too old to refuse another for: a bucket that is never started again (`CountedForever`) is found |
| Server | three processes, two accounts, two requests, two crashes | `ServesSeeded`, `ComesUp`, `AcceptedIsAnswered`. Two processes race while the third restarts into what they left |

Each property of a passing run has a mutant in `PROJECT.json`: an operator marked
*Slip* in the module, a bug one could write at that place, under which the run
fails. A dropped compare-and-set (`StillThere`) breaks the walk and the refinement,
a retry on the old copy (`KeepTrying`) the answers, a role check in place of a
person check (`SeparatedByRole`) the reviewer separation.

**Fairness.** `FairSpec` asks weak fairness of `Advance(r)` for each slot and of
nothing else: Go's scheduler runs every runnable goroutine, and a database call
returns or fails when the request's context ends. No request need arrive, no
statement need succeed. `EveryRequestAnswered` holds because no path waits for
another. `CycleCheck` and `Simulator` ask weak fairness of their only process. `Server` asks it of each
process's way up, of the restart of a process that went down (`restart: unless-stopped`),
of `Shutdown` (it has a timeout) and of each handler (`WriteTimeout`, contexts); not of a
start after a stop, and of no crash. Strong fairness is nowhere needed: the insert that
waits is enabled for good once the domain is committed, and crashes are finitely many.

**Violations.** Three places where the code does not do what its messages or
`src/README.md` say; TLC shows each on the model of the code as it is:

| Run | What happens |
|---|---|
| VIdentical | A second draft cannot be created while another one was never simulated: both rows have the empty key, and the client is told an identical scenario exists. |
| VCycleRace | Two updates that pass the cycle check on graphs without each other store a cycle. |
| VGap | A chain that ends and is replaced between two sampled times of the overlap is not noticed: "all active service trust paths remain reachable before, during, and after". |

Others were seen on the same models, or beside them, and have no run of their own:

* After a reset to draft and a simulation under a new key the row keeps that key only:
  a repetition of the first request is refused with 409, although `src/README.md:54` has
  repeated requests return the stored result; and the freed key then simulates a
  different scenario, which `src/README.md:126` asks clients not to do and the code lets
  through.
* Ownership is checked on a copy and an update written by id
  (`dependent_service_service.go:136`), so an owner's late update takes back a service that
  was given to another team meanwhile.
* Two updates of one service in flight: the later writes every column as its author
  saw it, and the earlier is lost with no conflict reported
  (`dependent_service_service.go:169`).
* A replay stores its flag by id and logs the copy it read, so its before and after
  snapshots may show a state the row no longer has (`rollover_scenario_service.go:253`).
* The error of the second read of an update is dropped
  (`dependent_service_service.go:147`): the cycle check then passes on no rows at all, with
  no other request about; this is `ReadsFail`.
* A candidate chain beyond the page of 200 is read, found, and then refused as not in
  the snapshot.
* The column `certificate_state` is written at import and at revocation; answers compute
  the state from the dates (`dto/trust_anchor.go:51`), as `src/gb-537.md:35` says, while the
  list filter (`repository/trust_anchor_repository.go:129`) and the frozen snapshot
  (`common.go:114`) use the column.
* The unique index on `chain_fingerprint` does not meet the seeded chains: the seed hashes
  the printed list of fingerprints (`database.go:201`), an import the joined one
  (`certificate_chain_service.go:66`), so the seeded bundle can be stored once more under
  another code. `ChainsAreAnchored` excepts the seeded copy and no other.
* Two revocations of an anchor that both pass the check of the copy both succeed, and the
  later replaces `revoked_at` (`trust_anchor_service.go:101`); the log holds both.
* A failed login in one page, or a late 401, ends the session of every page of the
  browser; after a login in one page the calls of another carry the new user's token
  (`src/frontend/src/stores/auth.ts:28`), which no property forbids.
  `EndedForCause` says how far this goes, and that it goes no further.

## 4. Proofs

| Module | Theorem | For every |
|---|---|---|
| RolloverScenarioProofs | `TypeCorrect`, `ReviewersAreSeparate`, `ResultsAreReproducible`, `EvidenceIsFrozen`, `Refinement` | set of scenarios, requests, users, keys, inputs |
| RolloverScenarioProofs | `TrailsAreWalks`, `TrailsAreAuthorised`, `AnswersFit` | the same |
| CycleCheckProofs | `SearchTyped`, `VerdictIsCorrect`, `SearchIsUsedUp` | set of services, graph, order |
| SimulatorProofs | `SimulationTyped`, `SearchIsReachability`, `BrokenPathsAreReal`, `SummariesAreTrue`, `AllClearHolds`, `AllClearMeans`, `SimulationIsUsedUp`, `WaysNeverRepeat` | set of snapshots: any services, graph, chains and times |
| DependencyGraphProofs | `GraphTyped`, `EdgesAreClosed`, `OneDeactivation`, `ServicesRefineInventory` | set of services, teams, requests, failing reads |
| DependencyGraphProofs | `SerialGraphIsAcyclic` | the same with one request slot and working reads |
| TrustMaterialProofs | `MaterialTyped`, `AnchorLogIsComplete`, `RevocationsHold`, `ChainLogsAreWalks`, `ChainsStayAnchored`, `MaterialRefinesInventory` | set of anchors, chains, certificates, bundles, requests |
| SnapshotFreezeProofs | `FreezeTyped`, `OnlyTheLastAreCut`, `FrozenLiesBetween`, `FrozenGraphsAreSound` | finite set of chains, page size, inventory, number of writes |
| SessionsProofs | `SessionsTyped`, `LimitsHold`, `RefusalsHaveCause`, `SessionsEndForCause` | limit, window longer than the stall, set of users, pages, requests |
| ServerProofs | `ServerTyped`, `ServingIsSeeded` | number of processes, accounts, crashes |

They assume only the named ASSUMEs of the modules, which TLC evaluates in each run.

**Scenarios.** None of the properties is inductive by itself, for a commit uses
what a request read earlier. `IInv` adds to the types what is true of every row
(`RowsGood`: the result, once stored, is `Outcome` of the input; a verified row
names a reviewer apart from its creator) and what is still true of every copy in a
slot (`SlotsGood`: input and creator of the copy are the row's; a request past its
checks had the right to its change). The immutable columns carry what was checked
on the copy to the moment of the write; the compare-and-set carries the state.
`Refinement` follows: each commit under `IInv` is one abstract step on the current
row, and every other step stutters.

**The log of scenarios.** An entry holds the copy its request read, which may lag
behind the row in key, result and flag. `Fits` says what an entry and the row it meets
have in common all the same: the state of a change (compare-and-set), the creator
(immutable) and, until the first change, the key. From these the walk goes on, each entry
keeps its right, and `KeyLogged` follows: a key that a second simulation replaces is in
the log already, or is in the copy the new entry holds. So no key leaves the record of a
scenario, which is what an answer under an old key (`AnswersFit`) rests on.

**Cycle search.** The invariant is the colours': the stack is the path of gray
services, each frame's edges already followed are black (or gray above it), black
services have only black successors. An edge to a gray service closes a cycle along
the stack; at the end all services are black, and the black set of an acyclic part
grows only by services all of whose edges lead into it, so no closed set exists.
`SearchIsUsedUp` is what of `Terminates` is no liveness: no step undoes another, and each
takes something from the loop's list, from the edges not yet walked or from the
unfinished services, or gives the verdict. A search of a finite graph so has no more
steps than these have members, and one.

**Simulator.** `Reachable` is a greatest set, the search a recursion; they meet in what
the open calls have established (`GoodCalls`). Each service on the stack presents a chain
of its own; the dependencies its call has finished with are reachable; and the service the
loop asked for is reachable only if each service on the stack is. So a return with nothing
left has shown its service reachable (`ReachableByParts`: the reachable services and this one
are closed under dependencies), and a failure at the top is a failure of the root, with the
stack as its path. `NeverMetAgain` shows the cycle guard idle: a service met twice would
make the calls from its first one on a set that validation has refused. `SummariesAreTrue`
adds that every time and service has its finding when the summary is drawn. `AllClearMeans`
is the sentence of the summary as far as it holds: `PhaseSampled` finds a sample for every
time from a minute before the overlap on, the minute after the overlap apart, and
`ReachableUntilEdge` carries its finding to that time unless a chain's validity begins or
ends between; `VGap` shows that this exception is needed. The search remembers nothing
between two ways to one service, so `SimulationIsUsedUp` counts ways instead of services:
`Unentered` and `Unreturned` are the ways through the graph that the search at this time
has yet to enter and to return from, and each step takes one of them away and gives none
back, or ends the time. By `WaysNeverRepeat` a way is no longer than the list of services.

**Dependency graph.** `GraphClosed` rests on services never being deleted: the
edges a request checked stay good while it waits. `SerialGraphIsAcyclic` adds that
with one slot the graph searched is the graph stored, plus that a new row can
close no cycle because no stored edge leads to it. `VCycleRace` shows that the first
assumption cannot be dropped, `ReadsFail` (above) why the second is made.

**Trust material.** `LogTellsAnchor` needs no copy to be fresh: a write sets only
the columns of its action, so the entry appended with it says what it did to the row
(`LogFollows`). `SlotsGood` carries what a request was told to its write: anchors
never leave, keep their certificate and stay revoked (`AnchorsGrow`), and the
compare-and-set looks at a chain's state again. A write of the whole copy
(`SavedWhole`) would break both anchor properties. `MaterialRefinesInventory` maps each
commit to one abstract write: an import finds its anchor still there, a transition's
compare-and-set makes its move legal on the row it meets.

**Snapshot.** The page is the difficulty. A chain that was stored at the beginning is
still stored when the page is read, for nothing is deleted; if it is not on the page then
at least `PageSize` chains come before it, and the first `PageSize` of those are the page:
numbering the stored chains by how many come before them is a bijection onto an
initial segment, which gives the count. `FrozenLiesBetween` uses that moves along the
chain's state machine compose (`Onward` is transitive, because no walk is longer than two
steps), and that an inventory step only grows. `FrozenGraphsAreSound` needs the
invariant that edges lead to stored services at every instant, so that one SELECT never
sees half of an edge; cycles the search itself refuses.

**Sessions.** `admitted` is a log of what passed. Two windows of one key begin at least a
window apart by the readings that began them (`Apart`), and a request that passed was
counted at most a stall after its reading (`Dated`). In a span shorter than a window
less the stall, at most two windows let requests pass, and the first of the earlier one
lies before the span: hence twice the limit less one. The stall is what the code leaves
open by reading the clock before the lock; it must be shorter than a window
(`LimitAssumption`). A refusal finds a full bucket, whose entries are all in the log and
recent. A session ends by an answer, and a 401 to a call carries a dead token, as tokens
only age.

**Server.** A process has seen the row of every account before its own (`Known`), rows
never change, and a transaction that may commit was begun on an empty domain with no
other (`OneWriter`).

**Only model-checked.** Liveness (`EveryRequestAnswered`, `Terminates`, `SimulationEnds`,
`ComesUp`, `AcceptedIsAnswered`): the prover does not reach it. Every other property of a
passing run is a theorem.

## 5. Not modelled, and why

X.509 parsing and chain validation, redaction, configuration, rendering and the lists of
the page: pure functions, or none of the state above. Signatures, bcrypt and the SQL
engine are external; a transaction is taken to be atomic and durable. Comments, names,
times and durations of rows are left out, as no property tells them apart. `List`, `Get`
and `Compare` only read. A user's role and team come from the token: there is no
operation that changes a user.

What serial use of the dependent services guarantees (`GraphAcyclic`) has no run, since
the theorem covers it for every instance and `VCycleRace` shows where it ends.

## 6. What could come next

1. Snapshots in the log of dependent services, which would show the lost update
   (`dependent_service_service.go:169`) that no property covers.
2. `CompactText`'s byte limit, as an operator over byte sequences.
3. Proofs: that the page's sessions and the server's processes use up what they wait for,
   as `SearchIsUsedUp` and `SimulationIsUsedUp` show of the searches.
4. Connections: the pool of twenty, `SetMaxOpenConns(1)` of SQLite, and what a request
   that holds a transaction waits for.
