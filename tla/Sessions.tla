------------------------------ MODULE Sessions ------------------------------
(***************************************************************************)
(* Who is logged in, and how much they may ask: the pages of a browser,    *)
(* which share one stored token, and the middleware that authenticates and *)
(* counts their requests.                                                  *)
(*                                                                         *)
(* A request passes authentication, the permission check, the reading of   *)
(* the clock, the counting under the lock and the handler; other requests  *)
(* run between any two of these.  The clock ticks; Stall bounds how long a *)
(* request may be held up between reading it and being counted.            *)
(*                                                                         *)
(* One client address stands for all; signatures and passwords are the     *)
(* environment's.  Beyond Limit + 1 a count tells nothing more and stays.  *)
(***************************************************************************)
EXTENDS FiniteSets, Naturals

CONSTANTS
  User, Tab,
  Slot,        \* requests in flight
  None, Address,
  Limit,       \* requests per window; 30 or 60 in the code
  Window,      \* a minute
  Expiry,      \* of a token
  Stall,       \* bound: ticks between a clock reading and its counting
  MaxTime      \* bound: of the clock

Token == [user : User, issued : Nat]

ASSUME NullAssumption == None \notin Token \cup User /\ Address \notin User
ASSUME LimitAssumption ==
  /\ Limit \in Nat \ {0} /\ Window \in Nat /\ Expiry \in Nat \ {0}
  /\ Stall \in Nat /\ Stall < Window /\ MaxTime \in Nat

VARIABLES
  clock,
  store,      \* the token in localStorage
  view,       \* the pages that show a session
  req,        \* the request in each slot
  bucket,     \* the limiter's buckets, by key
  admitted    \* every request a limiter let pass since the process started

vars == <<clock, store, view, req, bucket, admitted>>

-----------------------------------------------------------------------------
Idle == [pc |-> "idle"]

Kinds == {"login", "call"}

Call == [pc : {"sent", "authorised", "timed", "admitted", "answered"}, kind : Kinds,
         tab : Tab, user : User \cup {None}, token : Token \cup {None}, at : Nat,
         code : {"pending", "ok", "unauthorized", "refused"}]

Keys == User \cup {Address}

NoBucket == [count |-> 0]

Busy(s) == req[s] # Idle

Live(t) == t # None /\ clock < t.issued + Expiry

Init ==
  /\ clock = 0 /\ store = None
  /\ view = {}
  /\ req = [s \in Slot |-> Idle]
  /\ bucket = [k \in Keys |-> NoBucket]
  /\ admitted = {}

-----------------------------------------------------------------------------
(* The pages. *)

Send(s, t, kind, u, token) ==
  /\ ~Busy(s)
  /\ req' = [req EXCEPT ![s] = [pc |-> "sent", kind |-> kind, tab |-> t, user |-> u,
                                token |-> token, at |-> 0, code |-> "pending"]]
  /\ UNCHANGED <<clock, store, view, bucket, admitted>>

\* The form is shown to a page without a session, its button off while it waits.
\* The open route does not look at a token sent with it.
SendLogin(s, t, u) ==
  /\ t \notin view
  /\ \A o \in Slot : Busy(o) => ~(req[o].tab = t /\ req[o].kind = "login")
  /\ Send(s, t, "login", u, None)

\* A page with a session sends the stored token, whichever that is by now.
SendCall(s, t) ==
  /\ t \in view
  /\ Send(s, t, "call", None, store)

SetSession(t, token) ==
  /\ store' = token
  /\ view' = IF token = None THEN view \ {t} ELSE view \cup {t}

Logout(t) ==
  /\ t \in view
  /\ SetSession(t, None)
  /\ UNCHANGED <<clock, req, bucket, admitted>>

\* A page that is loaded again takes the stored token and hears no old answer.
Reload(t) ==
  /\ view' = IF store = None THEN view \ {t} ELSE view \cup {t}
  /\ req' = [s \in Slot |-> IF Busy(s) /\ req[s].tab = t THEN Idle ELSE req[s]]
  /\ UNCHANGED <<clock, store, bucket, admitted>>

\* Slip: any refusal ends the session.
EndsOnError(code) == code # "ok"

EndsSession(code) == code = "unauthorized"

\* The answer to a login holds the new token.
Receive(s) ==
  LET q == req[s] IN
  /\ q.pc = "answered"
  /\ \/ /\ EndsSession(q.code) /\ SetSession(q.tab, None)
     \/ /\ q.kind = "login" /\ q.code = "ok"
        /\ SetSession(q.tab, q.token)
     \/ /\ ~EndsSession(q.code) /\ ~(q.kind = "login" /\ q.code = "ok")
        /\ UNCHANGED <<store, view>>
  /\ req' = [req EXCEPT ![s] = Idle]
  /\ UNCHANGED <<clock, bucket, admitted>>

\* The connection breaks before or after the server did its part.
Lost(s) ==
  /\ Busy(s)
  /\ req' = [req EXCEPT ![s] = Idle]
  /\ UNCHANGED <<clock, store, view, bucket, admitted>>

-----------------------------------------------------------------------------
(* The middleware. *)

Set(s, q) ==
  /\ req' = [req EXCEPT ![s] = q]
  /\ UNCHANGED <<clock, store, view>>

Answered(q, code) == [q EXCEPT !.pc = "answered", !.code = code, !.at = 0]

\* The login route is open.  Of the others some ask for a permission the user
\* lacks, and some have no limiter.
Authenticate(s) ==
  LET q == req[s] IN
  /\ q.pc = "sent"
  /\ \/ /\ q.kind # "login" /\ ~Live(q.token)
        /\ Set(s, Answered(q, "unauthorized"))
     \/ /\ q.kind # "login" /\ Live(q.token)
        /\ \/ Set(s, Answered(q, "refused"))
           \/ \E pc \in {"authorised", "admitted"} : Set(s, [q EXCEPT !.pc = pc])
     \/ /\ q.kind = "login"
        /\ Set(s, [q EXCEPT !.pc = "authorised"])
  /\ UNCHANGED <<bucket, admitted>>

ReadClock(s) ==
  /\ req[s].pc = "authorised"
  /\ Set(s, [req[s] EXCEPT !.pc = "timed", !.at = clock])
  /\ UNCHANGED <<bucket, admitted>>

Key(q) == IF q.kind = "login" THEN Address ELSE q.token.user

\* Slip: the bucket is stored before it is counted up.
CountedLate(b, at) ==
  IF b = NoBucket \/ at >= b.start + Window THEN [start |-> at, count |-> 0] ELSE b

\* Slip: a full bucket is replaced.
CountedAnew(b, at) ==
  IF b = NoBucket \/ b.count >= Limit THEN [start |-> at, count |-> 1]
  ELSE [b EXCEPT !.count = @ + 1]

\* Slip: a bucket is never started again.
CountedForever(b, at) ==
  IF b = NoBucket THEN [start |-> at, count |-> 1]
  ELSE [b EXCEPT !.count = IF @ > Limit THEN @ ELSE @ + 1]

Counted(b, at) ==
  IF b = NoBucket \/ at >= b.start + Window THEN [start |-> at, count |-> 1]
  ELSE [b EXCEPT !.count = IF @ > Limit THEN @ ELSE @ + 1]

\* Slip: one off.
ExceededAtLimit(b) == b.count >= Limit

Exceeded(b) == b.count > Limit

\* The part under the lock.  A reading older than the bucket counts in it.
Count(s) ==
  LET q == req[s]
      k == Key(q)
      b == Counted(bucket[k], q.at)
  IN /\ q.pc = "timed"
     /\ bucket' = [bucket EXCEPT ![k] = b]
     /\ \/ /\ Exceeded(b)
           /\ Set(s, Answered(q, "refused")) /\ UNCHANGED admitted
        \/ /\ ~Exceeded(b)
           /\ Set(s, [q EXCEPT !.pc = "admitted", !.at = 0])
           /\ admitted' = admitted \cup
                {[key |-> k, start |-> b.start, place |-> b.count, when |-> clock]}

\* A login is answered with a token or, if user or password is wrong, refused.
Serve(s) ==
  LET q == req[s] IN
  /\ q.pc = "admitted"
  /\ \/ q.kind # "login" /\ Set(s, Answered(q, "ok"))
     \/ q.kind = "login" /\ Set(s, Answered(q, "unauthorized"))
     \/ /\ q.kind = "login"
        /\ Set(s, [Answered(q, "ok") EXCEPT !.token = [user |-> q.user, issued |-> clock]])
  /\ UNCHANGED <<bucket, admitted>>

Tick ==
  /\ clock < MaxTime
  /\ \A s \in Slot : req[s].pc = "timed" => clock - req[s].at < Stall
  /\ clock' = clock + 1
  /\ UNCHANGED <<store, view, req, bucket, admitted>>

\* Counts are the process's; tokens need none of its state.
Restart ==
  /\ bucket' = [k \in Keys |-> NoBucket] /\ admitted' = {}
  /\ req' = [s \in Slot |-> Idle]
  /\ UNCHANGED <<clock, store, view>>

Page(t) ==
  \/ Logout(t) \/ Reload(t)
  \/ \E s \in Slot :
       \/ \E u \in User : SendLogin(s, t, u)
       \/ SendCall(s, t)

Handle(s) ==
  Authenticate(s) \/ ReadClock(s) \/ Count(s) \/ Serve(s) \/ Receive(s) \/ Lost(s)

Next ==
  \/ \E t \in Tab : Page(t)
  \/ \E s \in Slot : Handle(s)
  \/ Tick \/ Restart

Spec == Init /\ [][Next]_vars

-----------------------------------------------------------------------------
(* Every variable holds what the code's types allow. *)
TypeOK ==
  /\ clock \in Nat
  /\ store \in Token \cup {None} /\ view \subseteq Tab
  /\ req \in [Slot -> Call \cup {Idle}]
  /\ bucket \in [Keys -> [start : Nat, count : 1..(Limit + 1)] \cup {NoBucket}]
  /\ admitted \in SUBSET [key : Keys, start : Nat, place : 1..Limit, when : Nat]

\* The requests of a key let pass less than span ticks ago.
Recent(k, span) == {x \in admitted : x.key = k /\ clock - x.when < span}

(* Less than twice the limit passes in any window less the stall, although a
   window begins with any request and clocks are read before the lock is held
   (lines 113-122): of two windows in that span one began before it. *)
UnderTwiceTheLimit ==
  \A k \in Keys : Cardinality(Recent(k, Window - Stall)) < 2 * Limit

(* Nobody is refused for what others asked, or for requests long past: the
   limit was used up under the same key within a window and a stall. *)
RefusedForCause ==
  [][\A s \in Slot :
       req[s].pc = "timed" /\ req'[s].pc = "answered"
       => Cardinality(Recent(Key(req[s]), Window + Stall)) >= Limit]_vars

(* A live session is never ended by the answer to a call made with it, across
   restarts too.  What may end it is a failed login, or a late answer to a call
   made with another token (client.ts, line 46). *)
EndedForCause ==
  [][store # None /\ store' = None /\ req' # req
     => \E s \in Slot :
          /\ req[s].pc = "answered" /\ req[s].code = "unauthorized"
          /\ req[s].kind = "login" \/ req[s].token # store \/ ~Live(store)]_vars
=============================================================================
