---------------------------- MODULE TrustMaterial ----------------------------
(***************************************************************************)
(* Trust anchors and the certificate chains imported under them, written   *)
(* by concurrent requests.                                                 *)
(*                                                                         *)
(* An anchor's lifecycle action reads the row, checks the copy and writes  *)
(* the columns it changes, by id alone.  A chain is imported against a     *)
(* copy of its anchor and moves by compare-and-set.  Each change appends   *)
(* its audit entry in the same transaction, and the record is read back    *)
(* for the answer.                                                         *)
(*                                                                         *)
(* A row keeps what control depends on.  A certificate stands for the      *)
(* unique code and fingerprint of an anchor.  Of a chain, bundle and hash  *)
(* together stand for its unique fingerprint, as the seed and the import   *)
(* hash a bundle's fingerprints in different texts; its code the client    *)
(* chooses.  Signs holds the pairs of a root and a bundle that verifies    *)
(* under it: a reissued root or a cross-signed bundle gives several.       *)
(* Times, parsing and the routes' permission checks, which precede every   *)
(* read, are left out.                                                     *)
(***************************************************************************)
EXTENDS AccessControl, Sequences, Naturals

CONSTANTS
  Anchor, Chain,       \* ids the tables hand out
  Certificate, Bundle, \* what clients import
  Signs,               \* which roots a bundle verifies under
  NoOne,               \* the column of a row that is not there
  Request,             \* request slots: how many requests may be in flight
  SeedAnchor, SeedChain,   \* the demonstration rows, by id
  MaxLog               \* bound by id: no new request with this many entries

ASSUME SignsAssumption == Signs \subseteq Certificate \X Bundle
ASSUME NullAssumption == NoOne \notin Anchor \cup Certificate \cup Bundle
ASSUME SeedAssumption ==
  /\ DOMAIN SeedAnchor \subseteq Anchor
  /\ SeedAnchor \in [DOMAIN SeedAnchor -> Certificate]
  /\ DOMAIN SeedChain \subseteq Chain
  /\ SeedChain \in [DOMAIN SeedChain -> Bundle]
  /\ \A c, d \in DOMAIN SeedChain : SeedChain[c] = SeedChain[d] => c = d
  /\ \A a, b \in DOMAIN SeedAnchor : SeedAnchor[a] = SeedAnchor[b] => a = b
  /\ \A c \in DOMAIN SeedChain :
       \E a \in DOMAIN SeedAnchor : <<SeedAnchor[a], SeedChain[c]>> \in Signs
ASSUME BoundAssumption == MaxLog \in [Anchor \cup Chain -> Nat]

VARIABLES
  anchor,      \* trust_anchors, by id
  chain,       \* certificate_chains, by id
  anchorLog,   \* audit_logs, the actions on each anchor in order
  chainLog,    \* audit_logs, the states each chain left and entered
  req          \* the request in each slot

tables == <<anchor, chain, anchorLog, chainLog>>
vars == <<anchor, chain, anchorLog, chainLog, req>>

-----------------------------------------------------------------------------
NoAnchor == [cert |-> NoOne, revoked |-> FALSE, archived |-> FALSE]
NoChain == [bundle |-> NoOne, hash |-> "none", under |-> NoOne, state |-> "absent"]

AnchorRow == [cert : Certificate, revoked : BOOLEAN, archived : BOOLEAN]
\* The text hashed: fmt.Sprint of the list by the seed, joined by an import.
ChainRow == [bundle : Bundle, hash : {"printed", "joined"}, under : Anchor,
             state : ChainStates]

LifecycleActions == {"revoke", "archive", "restore"}

Codes == {"pending", "ok", "not_found", "conflict", "illegal", "unverified", "internal"}

Idle == [pc |-> "idle"]

Call(Op, Id, Arg, Copy) ==
  [pc : {"loaded", "committed", "answered"}, op : Op, id : Id, arg : Arg,
   seen : Copy, code : Codes]

Calls ==
  Call({"lifecycle"}, Anchor, LifecycleActions, AnchorRow \cup {NoAnchor}) \cup
  Call({"import"}, Anchor, Bundle, AnchorRow \cup {NoAnchor}) \cup
  Call({"transition"}, Chain, ChainStates, ChainRow \cup {NoChain})

Held(a) == anchor[a].cert # NoOne
Stored(c) == chain[c].state # "absent"

SeedParent(c) ==
  CHOOSE a \in DOMAIN SeedAnchor : <<SeedAnchor[a], SeedChain[c]>> \in Signs

Init ==
  /\ anchor = [a \in Anchor |->
       IF a \in DOMAIN SeedAnchor THEN [NoAnchor EXCEPT !.cert = SeedAnchor[a]]
       ELSE NoAnchor]
  /\ chain = [c \in Chain |->
       IF c \in DOMAIN SeedChain
         THEN [bundle |-> SeedChain[c], hash |-> "printed",
               under |-> SeedParent(c), state |-> "validated"]
         ELSE NoChain]
  /\ anchorLog = [a \in Anchor |-> <<>>]
  /\ chainLog = [c \in Chain |-> <<>>]
  /\ req = [r \in Request |-> Idle]

-----------------------------------------------------------------------------
Admit(r, op, id, arg, seen, verdict) ==
  /\ req[r] = Idle
  /\ req' = [req EXCEPT ![r] =
       [pc |-> IF verdict = "pending" THEN "loaded" ELSE "answered", op |-> op,
        id |-> id, arg |-> arg, seen |-> seen, code |-> verdict]]
  /\ UNCHANGED tables

Answer(r, code) ==
  req' = [req EXCEPT ![r].pc = "answered", ![r].code = code]

\* Unique indexes on anchor_code and fingerprint_sha256.
CertificateHeld(cert) == \E a \in Anchor : anchor[a].cert = cert

(* POST /trust-anchors: one transaction, nothing read before it.  Another
   row may hold the code or the fingerprint: 409, and nothing changes. *)
ImportAnchor(a, cert) ==
  /\ ~Held(a) /\ ~CertificateHeld(cert)
  /\ anchor' = [anchor EXCEPT ![a].cert = cert]
  /\ anchorLog' = [anchorLog EXCEPT ![a] = Append(@, "import")]
  /\ UNCHANGED <<chain, chainLog, req>>

(* POST /trust-anchors/:id/lifecycle *)
\* Slip: the error of the read is dropped.
LifecycleVerdictAnyRow(a, action) ==
  IF action \in {"revoke", "restore"} /\ anchor[a].revoked THEN "conflict"
  ELSE "pending"

LifecycleVerdict(a, action) ==
  IF ~Held(a) THEN "not_found"
  ELSE IF action \in {"revoke", "restore"} /\ anchor[a].revoked THEN "conflict"
  ELSE "pending"

LoadLifecycle(r, a, action) ==
  /\ Len(anchorLog[a]) < MaxLog[a]
  /\ Admit(r, "lifecycle", a, action, anchor[a], LifecycleVerdict(a, action))

\* Slip: the whole record is saved, as it was read.
SavedWhole(q, stored) ==
  [q.seen EXCEPT !.revoked = @ \/ q.arg = "revoke",
                 !.archived = IF q.arg = "revoke" THEN @ ELSE q.arg = "archive"]

\* Only the columns of the action.
Saved(q, stored) ==
  [stored EXCEPT !.revoked = @ \/ q.arg = "revoke",
                 !.archived = IF q.arg = "revoke" THEN @ ELSE q.arg = "archive"]

CommitLifecycle(r) ==
  LET q == req[r]
  IN /\ q.pc = "loaded" /\ q.op = "lifecycle"
     /\ anchor' = [anchor EXCEPT ![q.id] = Saved(q, @)]
     /\ anchorLog' = [anchorLog EXCEPT ![q.id] = Append(@, q.arg)]
     /\ req' = [req EXCEPT ![r].pc = "committed"]
     /\ UNCHANGED <<chain, chainLog>>

-----------------------------------------------------------------------------
(* POST /certificate-chains *)
\* Slip: any anchor in the inventory will do.
VerifiesSomewhere(a, b) == \E other \in Anchor : <<anchor[other].cert, b>> \in Signs

VerifiesUnder(a, b) == <<anchor[a].cert, b>> \in Signs

ImportVerdict(a, b) ==
  IF ~Held(a) THEN "not_found"
  ELSE IF ~VerifiesUnder(a, b) THEN "unverified"
  ELSE "pending"

\* The anchor's revocation and archiving are not looked at.
LoadImport(r, a, b) ==
  Admit(r, "import", a, b, anchor[a], ImportVerdict(a, b))

\* Slip: chain_fingerprint is not unique.
FingerprintIgnored(b) == FALSE

\* Unique index on chain_fingerprint, which a seeded copy does not meet.
FingerprintTaken(b) == \E c \in Chain : chain[c].bundle = b /\ chain[c].hash = "joined"

\* Unique index on chain_code: any stored chain may have the code sent.
\* No row is read back: the answer is the row just written.
CommitImport(r) ==
  LET q == req[r]
  IN /\ q.pc = "loaded" /\ q.op = "import"
     /\ \/ /\ \E c \in Chain : Stored(c)
           /\ Answer(r, "conflict")
           /\ UNCHANGED tables
        \/ /\ ~FingerprintTaken(q.arg)
           /\ \E c \in Chain :
                /\ ~Stored(c)
                /\ chain' = [chain EXCEPT ![c] =
                     [bundle |-> q.arg, hash |-> "joined", under |-> q.id,
                      state |-> "validated"]]
                /\ chainLog' = [chainLog EXCEPT ![c] =
                     Append(@, [from |-> "absent", to |-> "validated"])]
           /\ Answer(r, "ok")
           /\ UNCHANGED <<anchor, anchorLog>>

(* POST /certificate-chains/:id/transition *)
TransitionVerdict(c, to) ==
  IF ~Stored(c) THEN "not_found"
  ELSE IF ~CanTransitionChain(chain[c].state, to) THEN "illegal"
  ELSE "pending"

LoadTransition(r, c, to) ==
  /\ Len(chainLog[c]) < MaxLog[c]
  /\ Admit(r, "transition", c, to, chain[c], TransitionVerdict(c, to))

\* Slip: UPDATE ... WHERE id = ? alone.
StillThere(c, from) == Stored(c)

\* UPDATE ... WHERE id = ? AND chain_state = ? finds the row unchanged.
StillIn(c, from) == chain[c].state = from

CommitTransition(r) ==
  LET q == req[r]
  IN /\ q.pc = "loaded" /\ q.op = "transition"
     /\ \/ /\ StillIn(q.id, q.seen.state)
           /\ chain' = [chain EXCEPT ![q.id].state = q.arg]
           /\ chainLog' = [chainLog EXCEPT ![q.id] =
                Append(@, [from |-> q.seen.state, to |-> q.arg])]
           /\ req' = [req EXCEPT ![r].pc = "committed"]
           /\ UNCHANGED <<anchor, anchorLog>>
        \/ /\ ~StillIn(q.id, q.seen.state)
           /\ Answer(r, "conflict")
           /\ UNCHANGED tables

-----------------------------------------------------------------------------
\* The record read back after the commit is the body of the answer.
Finish(r) ==
  LET q == req[r]
  IN /\ q.pc = "committed"
     /\ req' = [req EXCEPT ![r] =
          [q EXCEPT !.pc = "answered", !.code = "ok",
                    !.seen = IF q.op = "lifecycle" THEN anchor[q.id] ELSE chain[q.id]]]
     /\ UNCHANGED tables

\* A statement or a transaction fails, or the request is cancelled.
StoreFails(r) ==
  /\ req[r].pc \in {"loaded", "committed"}
  /\ Answer(r, "internal")
  /\ UNCHANGED tables

\* The answer has left, or the process died and the slot is new.
Respond(r) ==
  /\ req[r].pc = "answered"
  /\ req' = [req EXCEPT ![r] = Idle]
  /\ UNCHANGED tables

Arrive(r) ==
  \/ \E a \in Anchor, action \in LifecycleActions : LoadLifecycle(r, a, action)
  \/ \E a \in Anchor, b \in Bundle : LoadImport(r, a, b)
  \/ \E c \in Chain, to \in ChainStates \ {"imported"} : LoadTransition(r, c, to)

Advance(r) ==
  \/ CommitLifecycle(r) \/ CommitImport(r) \/ CommitTransition(r)
  \/ Finish(r) \/ StoreFails(r) \/ Respond(r)

Next ==
  \/ \E a \in Anchor, cert \in Certificate : ImportAnchor(a, cert)
  \/ \E r \in Request : Arrive(r) \/ Advance(r)

Spec == Init /\ [][Next]_vars

-----------------------------------------------------------------------------
(* Every variable holds what the schema and the request types allow. *)
TypeOK ==
  /\ anchor \in [Anchor -> AnchorRow \cup {NoAnchor}]
  /\ chain \in [Chain -> ChainRow \cup {NoChain}]
  /\ anchorLog \in [Anchor -> Seq(LifecycleActions \cup {"import"})]
  /\ chainLog \in [Chain -> Seq([from : ChainStates \cup {"absent"}, to : ChainStates])]
  /\ req \in [Request -> Calls \cup {Idle}]

Logged(a, action) == {n \in DOMAIN anchorLog[a] : anchorLog[a][n] = action}

(* The audit log of an anchor tells its row: it is revoked when a revocation
   was logged, and archived when an archiving was logged that no later restore
   follows.  Writers check copies and write by id, and still no write undoes
   a column another request changed (service lines 97-119). *)
LogTellsAnchor ==
  \A a \in Anchor :
    /\ anchor[a].revoked <=> Logged(a, "revoke") # {}
    /\ anchor[a].archived <=>
         \E n \in Logged(a, "archive") : \A m \in Logged(a, "restore") : m < n

(* Who was told that a revocation succeeded was shown a revoked anchor, and it
   stays revoked, whatever restores were under way (service lines 101-127). *)
RevocationHolds ==
  \A r \in Request :
    req[r] # Idle /\ req[r].op = "lifecycle" /\ req[r].arg = "revoke" /\ req[r].code = "ok"
      => req[r].seen.revoked /\ anchor[req[r].id].revoked

(* The log of a chain is a walk of its state machine without a gap that ends in
   the state of the row (repository line 67). *)
ChainLogIsWalk ==
  \A c \in Chain : LET log == chainLog[c] IN
    \A n \in DOMAIN log :
      /\ log[n].from # "absent" => CanTransitionChain(log[n].from, log[n].to)
      /\ n > 1 => log[n].from = log[n - 1].to
      /\ n = Len(log) => chain[c].state = log[n].to

(* Every stored chain stands under an anchor that is stored and that its bundle
   verifies against, and no bundle is imported twice, under the same anchor or
   another it verifies against, although anchor and bundle were looked at before
   the insert (chain service lines 33-41, 67).  A seeded bundle may be imported
   once more: the seed hashes its fingerprints as another text (database line
   201, chain service line 66). *)
ChainsAreAnchored ==
  \A c \in Chain : Stored(c) =>
    /\ Held(chain[c].under)
    /\ <<anchor[chain[c].under].cert, chain[c].bundle>> \in Signs
    /\ \A d \in Chain :
         chain[d].bundle = chain[c].bundle /\ chain[d].hash = chain[c].hash => d = c

AnchorsShown == [a \in Anchor |->
  IF ~Held(a) THEN "absent" ELSE IF anchor[a].revoked THEN "revoked" ELSE "trusted"]

ChainsShown == [c \in Chain |->
  IF Stored(c) THEN [state |-> chain[c].state, under |-> chain[c].under]
  ELSE [state |-> "absent"]]

Shelf == INSTANCE Inventory WITH
  anchor <- AnchorsShown, chain <- ChainsShown, Service <- {}, svc <- << >>

(* Anchors and chains are the inventory's, whose writers act at one instant:
   reading first and writing later shows nobody a revocation undone, a chain
   that skips a state, or one whose anchor is not there. *)
ImplementsInventory == Shelf!InventorySpec
=============================================================================
