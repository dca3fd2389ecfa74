---------------------------- MODULE SessionsProofs ----------------------------
(***************************************************************************)
(* The limiter and the session, for any number of users, pages, requests   *)
(* in flight, any limit and any window longer than the stall.              *)
(*                                                                         *)
(* Windows of one key begin at least a window apart by the clock readings  *)
(* that began them, and a reading is at most a stall old when it counts.   *)
(* So within a window less the stall at most two windows let requests      *)
(* pass, and the request that began the first is not among them.           *)
(***************************************************************************)
EXTENDS Sessions, FiniteSetTheorems, TLAPS

\* What a clock reading and a verdict are worth while the request waits.
SlotGood(q) ==
  /\ q.pc = "timed" => q.at <= clock /\ clock <= q.at + Stall
  /\ q.pc \in {"authorised", "timed", "admitted"} /\ q.kind = "call" => q.token \in Token
  /\ q.pc = "answered" /\ q.code = "unauthorized" /\ q.kind = "call" => ~Live(q.token)
  /\ q.pc = "answered" /\ q.code = "ok" /\ q.kind = "login" => q.token \in Token
  /\ q.pc # "idle" /\ q.kind = "login" => q.user \in User

SlotsGood == \A s \in Slot : SlotGood(req[s])

Under(k) == {x \in admitted : x.key = k}

\* When a request was let pass, told by the window it counted in.
Dated(x) ==
  /\ x.start <= x.when /\ x.when <= clock /\ x.when < x.start + Window + Stall
  /\ x.place = 1 => x.when <= x.start + Stall

Apart(x, y) ==
  /\ x.start < y.start => x.start + Window <= y.start
  /\ x.start = y.start /\ x.place = y.place => x = y

BucketGood(k) ==
  /\ bucket[k] = NoBucket => Under(k) = {}
  /\ bucket[k] # NoBucket =>
       /\ bucket[k].start <= clock
       /\ \A x \in Under(k) :
            /\ x.start <= bucket[k].start
            /\ x.start < bucket[k].start => x.start + Window <= bucket[k].start
            /\ x.start = bucket[k].start => x.place <= bucket[k].count
       /\ \A p \in 1..Limit : p <= bucket[k].count =>
            \E x \in Under(k) : x.start = bucket[k].start /\ x.place = p

LogGood ==
  /\ IsFiniteSet(admitted)
  /\ \A x \in admitted : Dated(x)
  /\ \A x, y \in admitted : x.key = y.key => Apart(x, y)

IInv == TypeOK /\ SlotsGood /\ LogGood /\ \A k \in Keys : BucketGood(k)

Entries == [key : Keys, start : Nat, place : 1..Limit, when : Nat]

Buckets == [start : Nat, count : 1..(Limit + 1)]

-----------------------------------------------------------------------------
LEMMA CallOrIdle ==
  ASSUME TypeOK, NEW s \in Slot
  PROVE  /\ Busy(s) <=> req[s] \in Call
         /\ req[s].pc # "idle" => req[s] \in Call
<1>1. req[s] \in Call \cup {Idle}
  BY DEF TypeOK
<1>2. Idle \notin Call /\ Idle.pc = "idle"
  BY DEF Idle, Call
<1> QED
  BY <1>1, <1>2 DEF Busy

\* What is recent comes from at most two windows.
LEMMA RecentIsFew ==
  ASSUME IInv, NEW k \in Keys
  PROVE  Cardinality(Recent(k, Window - Stall)) < 2 * Limit
<1> DEFINE R == Recent(k, Window - Stall)
<1>1. /\ Limit \in Nat /\ Limit >= 1 /\ Window \in Nat /\ Stall \in Nat /\ Stall < Window
      /\ clock \in Nat
  BY LimitAssumption DEF IInv, TypeOK
<1>2. \A x \in R : /\ x \in admitted /\ x \in Entries /\ x.key = k /\ Dated(x)
                   /\ clock - x.when < Window - Stall
  BY DEF Recent, IInv, LogGood, TypeOK, Entries
<1>3. \A x, y \in R : Apart(x, y)
  BY <1>2 DEF IInv, LogGood
<1>4. \A x \in R : x.start \in Nat /\ x.when \in Nat /\ x.place \in 1..Limit
  BY <1>2 DEF Entries
<1>5. ASSUME NEW x \in R, NEW y \in R, x.start < y.start PROVE x.place # 1
  BY <1>1, <1>2, <1>3, <1>4, <1>5 DEF Dated, Apart
<1>6. ASSUME NEW x \in R, NEW y \in R, NEW z \in R, x.start < y.start, y.start < z.start
      PROVE  FALSE
  BY <1>1, <1>2, <1>3, <1>4, <1>6 DEF Dated, Apart
<1>7. /\ IsFiniteSet(1..(2 * Limit - 1)) /\ Cardinality(1..(2 * Limit - 1)) = 2 * Limit - 1
  BY <1>1, FS_Interval
<1>8. SUFFICES \E f : f \in Injection(R, 1..(2 * Limit - 1))
  <2>1. PICK f : f \in Injection(R, 1..(2 * Limit - 1))
    BY <1>8
  <2>2. IsFiniteSet(R) /\ Cardinality(R) <= 2 * Limit - 1
    BY <1>7, <2>1, FS_Injection
  <2>3. Cardinality(R) \in Nat
    BY <2>2, FS_CardinalityType
  <2> QED
    BY <1>1, <2>2, <2>3
<1>9. CASE \A x, y \in R : x.start = y.start
  <2> DEFINE f == [x \in R |-> x.place]
  <2>1. f \in [R -> 1..(2 * Limit - 1)]
    BY <1>1, <1>4
  <2>2. \A x, y \in R : f[x] = f[y] => x = y
    BY <1>3, <1>9 DEF Apart
  <2>3. f \in Injection(R, 1..(2 * Limit - 1))
    BY <2>1, <2>2 DEF Injection, IsInjective
  <2> QED
    BY <2>3
<1>10. CASE \E x, y \in R : x.start < y.start
  <2>1. PICK a \in R, b \in R : a.start < b.start
    BY <1>10
  <2>2. \A x \in R : x.start = b.start \/ (x.start = a.start /\ x.place # 1)
    BY <1>4, <1>5, <1>6, <2>1
  <2> DEFINE f == [x \in R |-> IF x.start = b.start THEN x.place ELSE Limit + x.place - 1]
  <2>3. f \in [R -> 1..(2 * Limit - 1)]
    BY <1>1, <1>4, <2>2
  <2>4. \A x, y \in R : f[x] = f[y] => x.start = y.start /\ x.place = y.place
    BY <1>1, <1>4, <2>2
  <2>5. \A x, y \in R : f[x] = f[y] => x = y
    BY <1>3, <2>4 DEF Apart
  <2>6. f \in Injection(R, 1..(2 * Limit - 1))
    BY <2>3, <2>5 DEF Injection, IsInjective
  <2> QED
    BY <2>6
<1> QED
  BY <1>4, <1>9, <1>10

LEMMA KeyTyped ==
  ASSUME IInv, NEW s \in Slot, req[s].pc = "timed"
  PROVE  Key(req[s]) \in Keys
<1>1. req[s] \in Call /\ SlotGood(req[s])
  BY CallOrIdle DEF IInv, SlotsGood
<1>2. CASE req[s].kind = "login"
  BY <1>2 DEF Key, Keys
<1>3. CASE req[s].kind = "call"
  <2>1. req[s].token \in Token
    BY <1>1, <1>3 DEF SlotGood
  <2>2. req[s].token.user \in User
    BY <2>1 DEF Token
  <2> QED
    BY <1>3, <2>2 DEF Key, Keys
<1> QED
  BY <1>1, <1>2, <1>3 DEF Call, Kinds

\* A request that finds the bucket full finds the limit among the recent.
LEMMA RefusalHasCause ==
  ASSUME IInv, NEW s \in Slot, req[s].pc = "timed",
         Exceeded(Counted(bucket[Key(req[s])], req[s].at))
  PROVE  Cardinality(Recent(Key(req[s]), Window + Stall)) >= Limit
<1> DEFINE q == req[s]
           k == Key(q)
           R == Recent(k, Window + Stall)
           Q == {x \in R : x.start = bucket[k].start}
<1>1. /\ Limit \in Nat /\ Limit >= 1 /\ Window \in Nat /\ Stall \in Nat
      /\ clock \in Nat /\ q \in Call /\ q.at \in Nat
  BY LimitAssumption, CallOrIdle DEF IInv, TypeOK, Call
<1>2. k \in Keys
  BY <1>1, KeyTyped
<1>3. bucket[k] \in Buckets \cup {NoBucket}
  BY <1>2 DEF IInv, TypeOK, Buckets
<1>4. /\ bucket[k] # NoBucket /\ bucket[k] \in Buckets
      /\ q.at < bucket[k].start + Window /\ bucket[k].count >= Limit
  BY <1>1, <1>3 DEF Exceeded, Counted, Buckets
<1>5. bucket[k].start \in Nat
  BY <1>4 DEF Buckets
<1>6. clock <= q.at + Stall
  BY DEF IInv, SlotsGood, SlotGood
<1>7. \A p \in 1..Limit : \E x \in Under(k) : x.start = bucket[k].start /\ x.place = p
  BY <1>1, <1>2, <1>4 DEF IInv, BucketGood, Buckets
<1>8. ASSUME NEW p \in 1..Limit PROVE \E x \in Q : x.place = p
  <2>1. PICK x \in Under(k) : x.start = bucket[k].start /\ x.place = p
    BY <1>7
  <2>2. x \in admitted /\ x.key = k /\ Dated(x) /\ x.when \in Nat
    BY <2>1 DEF Under, IInv, LogGood, TypeOK
  <2>3. clock - x.when < Window + Stall
    BY <1>1, <1>4, <1>5, <1>6, <2>1, <2>2 DEF Dated
  <2> QED
    BY <2>1, <2>2, <2>3 DEF Recent
<1>9. /\ IsFiniteSet(R) /\ Q \in SUBSET R
  BY FS_Subset DEF Recent, IInv, LogGood
<1>10. IsFiniteSet(Q) /\ Cardinality(Q) <= Cardinality(R)
  BY <1>9, FS_Subset
<1>11. \A x \in Q : x.place \in 1..Limit
  BY DEF Recent, IInv, TypeOK
<1>12. [x \in Q |-> x.place] \in Surjection(Q, 1..Limit)
  BY <1>8, <1>11 DEF Surjection
<1>13. Cardinality(1..Limit) <= Cardinality(Q)
  BY <1>10, <1>12, FS_Surjection
<1>14. Cardinality(1..Limit) = Limit
  BY <1>1, FS_Interval
<1>15. Cardinality(R) \in Nat /\ Cardinality(Q) \in Nat
  BY <1>9, <1>10, FS_CardinalityType
<1> QED
  BY <1>1, <1>10, <1>13, <1>14, <1>15

-----------------------------------------------------------------------------
\* Most steps leave the limiter and the clock alone.
Limiter == <<clock, bucket, admitted>>

LEMMA LimiterQuiet ==
  ASSUME IInv, UNCHANGED Limiter
  PROVE  LogGood' /\ \A k \in Keys : BucketGood(k)'
<1>1. UNCHANGED <<clock, bucket, admitted>>
  BY DEF Limiter
<1>2. LogGood'
  BY <1>1 DEF IInv, LogGood, Dated, Apart
<1>3. ASSUME NEW k \in Keys PROVE BucketGood(k)'
  BY <1>1 DEF IInv, BucketGood, Under
<1> QED
  BY <1>2, <1>3

\* It is enough to look at the slots and at the tokens.
LEMMA QuietStep ==
  ASSUME IInv, UNCHANGED Limiter,
         store' \in Token \cup {None}, view' \subseteq Tab,
         req' \in [Slot -> Call \cup {Idle}],
         \A s \in Slot : req'[s] = req[s] \/ SlotGood(req'[s])
  PROVE  IInv'
<1>1. UNCHANGED <<clock, bucket, admitted>>
  BY DEF Limiter
<1>2. TypeOK'
  BY <1>1 DEF IInv, TypeOK
<1>3. ASSUME NEW s \in Slot PROVE SlotGood(req[s])'
  <2>1. SlotGood(req'[s])
    BY DEF IInv, SlotsGood
  <2> QED
    BY <1>1, <2>1 DEF SlotGood, Live
<1> QED
  BY <1>2, <1>3, LimiterQuiet DEF IInv, SlotsGood

LEMMA IdleGood == Idle \in Call \cup {Idle} /\ SlotGood(Idle)
BY DEF Idle, SlotGood

LEMMA OneSlot ==
  ASSUME IInv, NEW s \in Slot, NEW q \in Call \cup {Idle}, SlotGood(q),
         req' = [req EXCEPT ![s] = q], UNCHANGED Limiter,
         store' \in Token \cup {None}, view' \subseteq Tab
  PROVE  IInv'
<1>1. req' \in [Slot -> Call \cup {Idle}]
  BY DEF IInv, TypeOK
<1>2. \A o \in Slot : req'[o] = req[o] \/ SlotGood(req'[o])
  BY DEF IInv, TypeOK
<1> QED
  BY <1>1, <1>2, QuietStep

LEMMA Tokens ==
  ASSUME IInv
  PROVE  store \in Token \cup {None} /\ view \subseteq Tab
BY DEF IInv, TypeOK

LEMMA PageKeeps ==
  ASSUME IInv, NEW t \in Tab, Page(t)
  PROVE  IInv'
<1>1. ASSUME NEW s \in Slot, NEW kind \in Kinds, NEW u \in User \cup {None},
             NEW token \in Token \cup {None},
             kind = "login" => u \in User, Send(s, t, kind, u, token)
      PROVE  IInv'
  <2> DEFINE q == [pc |-> "sent", kind |-> kind, tab |-> t, user |-> u,
                   token |-> token, at |-> 0, code |-> "pending"]
  <2>1. q \in Call /\ SlotGood(q)
    BY <1>1 DEF Call, SlotGood
  <2>2. /\ req' = [req EXCEPT ![s] = q] /\ UNCHANGED Limiter
        /\ UNCHANGED <<store, view>>
    BY <1>1 DEF Send, Limiter
  <2> QED
    BY <2>1, <2>2, OneSlot, Tokens
<1>2. CASE Logout(t)
  <2>1. /\ UNCHANGED Limiter /\ req' = req
        /\ store' = None /\ view' = view \ {t}
    BY <1>2 DEF Logout, SetSession, Limiter
  <2> QED
    BY <2>1, QuietStep, Tokens DEF IInv, TypeOK
<1>3. CASE Reload(t)
  <2>1. /\ UNCHANGED Limiter /\ store' = store /\ view' \in {view \ {t}, view \cup {t}}
        /\ req' = [s \in Slot |-> IF Busy(s) /\ req[s].tab = t THEN Idle ELSE req[s]]
    BY <1>3 DEF Reload, Limiter
  <2>2. req' \in [Slot -> Call \cup {Idle}]
    BY <2>1 DEF IInv, TypeOK
  <2>3. \A s \in Slot : req'[s] = req[s] \/ SlotGood(req'[s])
    BY <2>1, IdleGood
  <2> QED
    BY <2>1, <2>2, <2>3, QuietStep, Tokens
<1> QED
  BY <1>1, <1>2, <1>3, Tokens DEF Page, SendLogin, SendCall, Kinds

LEMMA SetKeeps ==
  ASSUME IInv, NEW s \in Slot, NEW q \in Call, SlotGood(q), Set(s, q),
         UNCHANGED <<bucket, admitted>>
  PROVE  IInv'
BY OneSlot, Tokens DEF Set, Limiter

LEMMA AnsweredCall ==
  ASSUME NEW q \in Call, NEW code \in {"ok", "unauthorized", "refused"}
  PROVE  /\ Answered(q, code) \in Call
         /\ Answered(q, code).pc = "answered" /\ Answered(q, code).code = code
         /\ Answered(q, code).kind = q.kind /\ Answered(q, code).token = q.token
         /\ Answered(q, code).user = q.user
BY DEF Answered, Call

LEMMA AuthenticateKeeps ==
  ASSUME IInv, NEW s \in Slot, Authenticate(s)
  PROVE  IInv'
<1> DEFINE q == req[s]
<1>1. q.pc = "sent" /\ q \in Call /\ UNCHANGED <<bucket, admitted>>
  BY CallOrIdle DEF Authenticate, IInv
<1>u. q.kind = "login" => q.user \in User
  BY <1>1 DEF IInv, SlotsGood, SlotGood
<1>2. ASSUME NEW code \in {"unauthorized", "refused"},
             code = "unauthorized" => q.kind = "login" \/ ~Live(q.token),
             Set(s, Answered(q, code))
      PROVE  IInv'
  <2>1. SlotGood(Answered(q, code))
    BY <1>1, <1>2, <1>u, AnsweredCall DEF SlotGood
  <2> QED
    BY <1>1, <1>2, <2>1, AnsweredCall, SetKeeps
<1>3. ASSUME NEW pc \in {"authorised", "admitted"}, q.kind = "call" => q.token \in Token,
             Set(s, [q EXCEPT !.pc = pc])
      PROVE  IInv'
  <2> DEFINE d == [q EXCEPT !.pc = pc]
  <2>1. d \in Call /\ d.pc = pc /\ d.kind = q.kind /\ d.token = q.token /\ d.user = q.user
    BY <1>1, <1>3 DEF Call
  <2>2. SlotGood(d)
    BY <1>3, <1>u, <2>1 DEF SlotGood
  <2> QED
    BY <1>1, <1>3, <2>1, <2>2, SetKeeps
<1>4. Live(q.token) => q.token \in Token
  BY <1>1 DEF Live, Call
<1> QED
  BY <1>1, <1>2, <1>3, <1>4 DEF Authenticate

LEMMA ReadClockKeeps ==
  ASSUME IInv, NEW s \in Slot, ReadClock(s)
  PROVE  IInv'
<1> DEFINE q == [req[s] EXCEPT !.pc = "timed", !.at = clock]
<1>1. req[s] \in Call /\ req[s].pc = "authorised" /\ SlotGood(req[s])
  BY CallOrIdle DEF ReadClock, IInv, SlotsGood
<1>2. clock \in Nat /\ Stall \in Nat
  BY LimitAssumption DEF IInv, TypeOK
<1>3. /\ q \in Call /\ q.pc = "timed" /\ q.at = clock
      /\ q.kind = req[s].kind /\ q.token = req[s].token /\ q.user = req[s].user
  BY <1>1, <1>2 DEF Call
<1>4. SlotGood(q)
  BY <1>1, <1>2, <1>3 DEF SlotGood
<1> QED
  BY <1>3, <1>4, SetKeeps DEF ReadClock

LEMMA ServeKeeps ==
  ASSUME IInv, NEW s \in Slot, Serve(s)
  PROVE  IInv'
<1> DEFINE q == req[s]
           new == [user |-> q.user, issued |-> clock]
           told == [Answered(q, "ok") EXCEPT !.token = new]
<1>1. q \in Call /\ q.pc = "admitted" /\ UNCHANGED <<bucket, admitted>>
  BY CallOrIdle DEF Serve, IInv
<1>u. q.kind = "login" => q.user \in User
  BY <1>1 DEF IInv, SlotsGood, SlotGood
<1>2. CASE q.kind # "login" /\ Set(s, Answered(q, "ok"))
  <2>1. SlotGood(Answered(q, "ok"))
    BY <1>1, <1>2, AnsweredCall DEF SlotGood
  <2> QED
    BY <1>1, <1>2, <2>1, AnsweredCall, SetKeeps
<1>3. CASE q.kind = "login" /\ Set(s, Answered(q, "unauthorized"))
  <2>1. SlotGood(Answered(q, "unauthorized"))
    BY <1>1, <1>3, <1>u, AnsweredCall DEF SlotGood
  <2> QED
    BY <1>1, <1>3, <2>1, AnsweredCall, SetKeeps
<1>4. CASE q.kind = "login" /\ Set(s, told)
  <2>1. q.user \in User
    BY <1>4, <1>u
  <2>2. new \in Token
    BY <2>1 DEF Token, IInv, TypeOK
  <2>3. /\ told \in Call /\ told.pc = "answered" /\ told.code = "ok"
        /\ told.token = new /\ told.user = q.user
    BY <1>1, <2>2 DEF Answered, Call
  <2>4. SlotGood(told)
    BY <2>1, <2>2, <2>3 DEF SlotGood
  <2> QED
    BY <1>1, <1>4, <2>3, <2>4, SetKeeps
<1> QED
  BY <1>2, <1>3, <1>4 DEF Serve

LEMMA ReceiveKeeps ==
  ASSUME IInv, NEW s \in Slot, Receive(s)
  PROVE  IInv'
<1> DEFINE q == req[s]
<1>1. /\ q \in Call /\ q.pc = "answered" /\ SlotGood(q)
      /\ req' = [req EXCEPT ![s] = Idle] /\ UNCHANGED Limiter
  BY CallOrIdle DEF Receive, IInv, SlotsGood, Limiter
<1>2. ASSUME NEW token \in Token \cup {None}, SetSession(q.tab, token)
      PROVE  store' \in Token \cup {None} /\ view' \subseteq Tab
  BY <1>1, <1>2, Tokens DEF SetSession, Call
<1>3. store' \in Token \cup {None} /\ view' \subseteq Tab
  <2>1. q.token \in Token \cup {None}
    BY <1>1 DEF Call
  <2> QED
    BY <1>2, <2>1, Tokens DEF Receive
<1> QED
  BY <1>1, <1>3, IdleGood, OneSlot

LEMMA LostKeeps ==
  ASSUME IInv, NEW s \in Slot, Lost(s)
  PROVE  IInv'
BY IdleGood, OneSlot, Tokens DEF Lost, Limiter

-----------------------------------------------------------------------------
\* A bucket counted up, told by what the log says of its key.
Follows(k, b) ==
  /\ b.start <= clock /\ clock < b.start + Window + Stall
  /\ b.count = 1 => clock <= b.start + Stall
  /\ \A x \in Under(k) :
       /\ x.start <= b.start
       /\ x.start < b.start => x.start + Window <= b.start
       /\ x.start = b.start /\ b.count <= Limit => x.place < b.count
  /\ \A p \in 1..Limit : p < b.count =>
       \E x \in Under(k) : x.start = b.start /\ x.place = p

\* What counting makes of a bucket.
LEMMA CountFacts ==
  ASSUME IInv, NEW s \in Slot, req[s].pc = "timed"
  PROVE  LET q == req[s]
             k == Key(q)
             b == Counted(bucket[k], q.at)
         IN q \in Call /\ k \in Keys /\ b \in Buckets /\ Follows(k, b)
<1> DEFINE q == req[s]
           k == Key(q)
           old == bucket[k]
           b == Counted(old, q.at)
<1>1. /\ q \in Call /\ k \in Keys /\ SlotGood(q) /\ BucketGood(k)
      /\ q.at \in Nat /\ clock \in Nat
  BY CallOrIdle, KeyTyped DEF IInv, SlotsGood, TypeOK, Call
<1>2. /\ Limit \in Nat /\ Limit >= 1 /\ Window \in Nat /\ Stall \in Nat /\ Stall < Window
  BY LimitAssumption
<1>3. q.at <= clock /\ clock <= q.at + Stall
  BY <1>1 DEF SlotGood
<1>4. old \in Buckets \cup {NoBucket}
  BY <1>1 DEF IInv, TypeOK, Buckets
<1>5. \A x \in Under(k) : x.start \in Nat /\ x.place \in 1..Limit
  BY DEF Under, IInv, TypeOK
<1>6. CASE old = NoBucket \/ q.at >= old.start + Window
  <2>1. b = [start |-> q.at, count |-> 1]
    BY <1>6 DEF Counted
  <2>2. b \in Buckets /\ b.start = q.at /\ b.count = 1
    BY <1>1, <1>2, <2>1 DEF Buckets
  <2>3. ASSUME NEW x \in Under(k)
        PROVE  x.start < b.start /\ x.start + Window <= b.start
    <3>1. old # NoBucket /\ x.start <= old.start
      BY <1>1, <2>3 DEF BucketGood
    <3>2. old.start \in Nat
      BY <1>4, <3>1 DEF Buckets
    <3> QED
      BY <1>1, <1>2, <1>5, <1>6, <2>2, <3>1, <3>2
  <2> QED
    BY <1>1, <1>2, <1>3, <1>5, <2>2, <2>3 DEF Follows
<1>7. CASE ~(old = NoBucket \/ q.at >= old.start + Window)
  <2>1. /\ old \in Buckets /\ q.at < old.start + Window
        /\ b = [old EXCEPT !.count = IF old.count > Limit THEN old.count ELSE old.count + 1]
    BY <1>1, <1>2, <1>4, <1>7 DEF Counted, Buckets
  <2>2. /\ old.start \in Nat /\ old.count \in 1..(Limit + 1)
        /\ b \in Buckets /\ b.start = old.start
        /\ b.count = IF old.count > Limit THEN old.count ELSE old.count + 1
    BY <1>2, <2>1 DEF Buckets
  <2>3. /\ old.start <= clock
        /\ \A x \in Under(k) :
             /\ x.start <= old.start
             /\ x.start < old.start => x.start + Window <= old.start
             /\ x.start = old.start => x.place <= old.count
        /\ \A p \in 1..Limit : p <= old.count =>
             \E x \in Under(k) : x.start = old.start /\ x.place = p
    BY <1>1, <1>7 DEF BucketGood
  <2>4. b.count > 1
    BY <1>2, <2>2
  <2>5. ASSUME NEW x \in Under(k), x.start = b.start, b.count <= Limit
        PROVE  x.place < b.count
    BY <1>2, <1>5, <2>2, <2>3, <2>5
  <2>6. ASSUME NEW p \in 1..Limit, p < b.count
        PROVE  \E x \in Under(k) : x.start = b.start /\ x.place = p
    <3>1. p <= old.count
      BY <1>2, <2>2, <2>6
    <3> QED
      BY <2>2, <2>3, <3>1
  <2>7. clock < b.start + Window + Stall
    BY <1>1, <1>2, <1>3, <2>1, <2>2
  <2> QED
    BY <1>1, <2>2, <2>3, <2>4, <2>5, <2>6, <2>7 DEF Follows
<1> QED
  BY <1>6, <1>7

\* The slot that was counted, the others as they were.
LEMMA CountedSlot ==
  ASSUME IInv, NEW s \in Slot, NEW d \in Call, SlotGood(d),
         req' = [req EXCEPT ![s] = d], clock' = clock
  PROVE  SlotsGood' /\ req' \in [Slot -> Call \cup {Idle}]
<1>1. \A o \in Slot : SlotGood(req'[o])
  BY DEF IInv, TypeOK, SlotsGood
<1>2. ASSUME NEW o \in Slot PROVE SlotGood(req[o])'
  <2>1. SlotGood(req'[o])
    BY <1>1
  <2> QED
    BY <2>1 DEF SlotGood, Live
<1> QED
  BY <1>2 DEF SlotsGood, IInv, TypeOK

LEMMA RefusedKeeps ==
  ASSUME IInv, NEW s \in Slot, NEW d \in Call, SlotGood(d),
         req' = [req EXCEPT ![s] = d], UNCHANGED <<clock, store, view, admitted>>,
         NEW k \in Keys, NEW b \in Buckets, Follows(k, b), b.count > Limit,
         bucket' = [bucket EXCEPT ![k] = b]
  PROVE  IInv'
<1>1. /\ Limit \in Nat /\ Limit >= 1 /\ b.start \in Nat /\ b.count \in 1..(Limit + 1)
      /\ clock \in Nat /\ b # NoBucket
  BY LimitAssumption DEF Buckets, IInv, TypeOK, NoBucket
<1>2. /\ bucket'[k] = b /\ \A j \in Keys \ {k} : bucket'[j] = bucket[j]
      /\ bucket' \in [Keys -> Buckets \cup {NoBucket}]
  BY DEF IInv, TypeOK, Buckets
<1>3. TypeOK' /\ SlotsGood'
  BY <1>2, CountedSlot DEF IInv, TypeOK, Buckets
<1>4. LogGood'
  BY DEF IInv, LogGood, Dated, Apart
<1>5. ASSUME NEW j \in Keys PROVE BucketGood(j)'
  <2>1. Under(j)' = Under(j)
    BY DEF Under
  <2>2. CASE j = k
    <3>1. \A x \in Under(k) : x.place \in 1..Limit
      BY DEF Under, IInv, TypeOK
    <3> QED
      BY <1>1, <1>2, <2>1, <2>2, <3>1 DEF BucketGood, Follows
  <2>3. CASE j # k
    BY <1>2, <2>1, <2>3 DEF IInv, BucketGood
  <2> QED
    BY <2>2, <2>3
<1> QED
  BY <1>3, <1>4, <1>5 DEF IInv

LEMMA AdmittedKeeps ==
  ASSUME IInv, NEW s \in Slot, NEW d \in Call, SlotGood(d),
         req' = [req EXCEPT ![s] = d], UNCHANGED <<clock, store, view>>,
         NEW k \in Keys, NEW b \in Buckets, Follows(k, b), b.count <= Limit,
         bucket' = [bucket EXCEPT ![k] = b],
         NEW e, e = [key |-> k, start |-> b.start, place |-> b.count, when |-> clock],
         admitted' = admitted \cup {e}
  PROVE  IInv'
<1>1. /\ Limit \in Nat /\ Limit >= 1 /\ b.start \in Nat /\ b.count \in 1..Limit
      /\ clock \in Nat /\ Window \in Nat /\ Stall \in Nat /\ b # NoBucket
  BY LimitAssumption DEF Buckets, IInv, TypeOK, NoBucket
<1>2. /\ bucket'[k] = b /\ \A j \in Keys \ {k} : bucket'[j] = bucket[j]
      /\ bucket' \in [Keys -> Buckets \cup {NoBucket}]
  BY DEF IInv, TypeOK, Buckets
<1>3. /\ e \in Entries /\ e.key = k /\ e.start = b.start /\ e.place = b.count
      /\ e.when = clock
  BY <1>1 DEF Entries
<1>4. TypeOK' /\ SlotsGood'
  BY <1>2, <1>3, CountedSlot DEF IInv, TypeOK, Buckets, Entries
<1>5. \A x \in admitted : x \in Entries /\ (x.key = k => x \in Under(k))
  BY DEF IInv, TypeOK, Entries, Under
<1>6. LogGood'
  <2>1. IsFiniteSet(admitted')
    BY FS_AddElement DEF IInv, LogGood
  <2>2. Dated(e)'
    BY <1>1, <1>3 DEF Dated, Follows
  <2>3. \A x \in admitted : Dated(x)'
    BY DEF IInv, LogGood, Dated
  <2>4. ASSUME NEW x \in admitted, x.key = k PROVE Apart(x, e) /\ Apart(e, x)
    <3>1. x \in Under(k) /\ x.start \in Nat /\ x.place \in 1..Limit
      BY <1>5, <2>4 DEF Entries
    <3> QED
      BY <1>1, <1>3, <3>1 DEF Apart, Follows
  <2>5. Apart(e, e)
    BY <1>1, <1>3 DEF Apart
  <2>6. \A x, y \in admitted' : x.key = y.key => Apart(x, y)
    BY <1>3, <2>4, <2>5 DEF IInv, LogGood
  <2> QED
    BY <2>1, <2>2, <2>3, <2>6 DEF LogGood, Apart
<1>7. ASSUME NEW j \in Keys PROVE BucketGood(j)'
  <2>1. CASE j = k
    <3>1. Under(k)' = Under(k) \cup {e}
      BY <1>3 DEF Under
    <3>2. ASSUME NEW x \in Under(k)'
          PROVE  /\ x.start <= b.start
                 /\ x.start < b.start => x.start + Window <= b.start
                 /\ x.start = b.start => x.place <= b.count
      <4>1. CASE x = e
        BY <1>1, <1>3, <4>1
      <4>2. CASE x \in Under(k)
        <5>1. x.place \in 1..Limit
          BY <4>2 DEF Under, IInv, TypeOK
        <5> QED
          BY <1>1, <4>2, <5>1 DEF Follows
      <4> QED
        BY <3>1, <3>2, <4>1, <4>2
    <3>3. ASSUME NEW p \in 1..Limit, p <= b.count
          PROVE  \E x \in Under(k)' : x.start = b.start /\ x.place = p
      <4>1. CASE p = b.count
        BY <1>3, <3>1, <4>1
      <4>2. CASE p < b.count
        BY <3>1, <4>2 DEF Follows
      <4> QED
        BY <1>1, <3>3, <4>1, <4>2
    <3> QED
      BY <1>1, <1>2, <2>1, <3>2, <3>3 DEF BucketGood, Follows
  <2>2. CASE j # k
    <3>1. Under(j)' = Under(j)
      BY <1>3, <2>2 DEF Under
    <3> QED
      BY <1>2, <2>2, <3>1 DEF IInv, BucketGood
  <2> QED
    BY <2>1, <2>2
<1> QED
  BY <1>4, <1>6, <1>7 DEF IInv

LEMMA CountKeeps ==
  ASSUME IInv, NEW s \in Slot, Count(s)
  PROVE  IInv'
<1> DEFINE q == req[s]
           k == Key(q)
           b == Counted(bucket[k], q.at)
           e == [key |-> k, start |-> b.start, place |-> b.count, when |-> clock]
           refused == Answered(q, "refused")
           passed == [q EXCEPT !.pc = "admitted", !.at = 0]
<1>1. /\ q.pc = "timed" /\ bucket' = [bucket EXCEPT ![k] = b]
      /\ UNCHANGED <<clock, store, view>>
      /\ \/ Exceeded(b) /\ req' = [req EXCEPT ![s] = refused] /\ admitted' = admitted
         \/ /\ ~Exceeded(b) /\ req' = [req EXCEPT ![s] = passed]
            /\ admitted' = admitted \cup {e}
  BY DEF Count, Set
<1>2. q \in Call /\ k \in Keys /\ b \in Buckets /\ Follows(k, b) /\ SlotGood(q)
  BY <1>1, CountFacts DEF IInv, SlotsGood
<1>3. /\ b.count \in Nat /\ Limit \in Nat
  BY <1>2, LimitAssumption DEF Buckets
<1>4. refused \in Call /\ SlotGood(refused)
  BY <1>1, <1>2, AnsweredCall DEF SlotGood
<1>5. passed \in Call /\ SlotGood(passed)
  <2>1. /\ passed \in Call /\ passed.pc = "admitted" /\ passed.kind = q.kind
        /\ passed.token = q.token /\ passed.user = q.user
    BY <1>2 DEF Call
  <2> QED
    BY <1>1, <1>2, <2>1 DEF SlotGood
<1> HIDE DEF q, k, b, e, refused, passed
<1>6. CASE Exceeded(b) /\ req' = [req EXCEPT ![s] = refused] /\ admitted' = admitted
  <2>1. b.count > Limit
    BY <1>6 DEF Exceeded
  <2> QED
    BY <1>1, <1>2, <1>4, <1>6, <2>1, RefusedKeeps
<1>7. CASE /\ ~Exceeded(b) /\ req' = [req EXCEPT ![s] = passed]
           /\ admitted' = admitted \cup {e}
  <2>1. b.count <= Limit
    BY <1>3, <1>7 DEF Exceeded
  <2>2. e = [key |-> k, start |-> b.start, place |-> b.count, when |-> clock]
    BY DEF e
  <2> QED
    BY <1>1, <1>2, <1>5, <1>7, <2>1, <2>2, AdmittedKeeps
<1> QED
  BY <1>1, <1>6, <1>7

LEMMA TickKeeps ==
  ASSUME IInv, Tick
  PROVE  IInv'
<1>1. /\ clock \in Nat /\ clock' = clock + 1 /\ Stall \in Nat /\ Window \in Nat
      /\ UNCHANGED <<store, view, req, bucket, admitted>>
      /\ \A s \in Slot : req[s].pc = "timed" => clock - req[s].at < Stall
  BY LimitAssumption DEF Tick, IInv, TypeOK
<1>2. TypeOK'
  BY <1>1 DEF IInv, TypeOK
<1>3. ASSUME NEW s \in Slot PROVE SlotGood(req[s])'
  <2>1. SlotGood(req[s])
    BY DEF IInv, SlotsGood
  <2>2. req[s].pc = "timed" => req[s].at \in Nat
    BY CallOrIdle DEF IInv, Call
  <2>3. ASSUME req[s].pc = "timed" PROVE req[s].at <= clock' /\ clock' <= req[s].at + Stall
    BY <1>1, <2>1, <2>2, <2>3 DEF SlotGood
  <2>4. ASSUME NEW t, t \in Token \cup {None}, ~Live(t)
        PROVE  ~(t # None /\ clock' < t.issued + Expiry)
    <3>1. t \in Token => t.issued \in Nat
      BY DEF Token
    <3> QED
      BY <1>1, <2>4, <3>1, LimitAssumption DEF Live
  <2>5. req[s].pc = "answered" => req[s].token \in Token \cup {None}
    BY CallOrIdle DEF IInv, Call
  <2> QED
    BY <1>1, <2>1, <2>3, <2>4, <2>5 DEF SlotGood, Live
<1>4. LogGood'
  <2>1. \A x \in admitted : x.when \in Nat
    BY DEF IInv, TypeOK
  <2> QED
    BY <1>1, <2>1 DEF IInv, LogGood, Dated, Apart
<1>5. ASSUME NEW k \in Keys PROVE BucketGood(k)'
  <2>1. Under(k)' = Under(k)
    BY <1>1 DEF Under
  <2>2. bucket[k] # NoBucket => bucket[k].start \in Nat
    BY DEF IInv, TypeOK
  <2> QED
    BY <1>1, <2>1, <2>2 DEF IInv, BucketGood
<1> QED
  BY <1>2, <1>3, <1>4, <1>5 DEF IInv, SlotsGood

\* Without requests, buckets and a log there is little to show.
LEMMA Fresh ==
  ASSUME clock \in Nat, store \in Token \cup {None}, view \subseteq Tab,
         req = [s \in Slot |-> Idle],
         bucket = [k \in Keys |-> NoBucket], admitted = {}
  PROVE  IInv
BY FS_EmptySet, IdleGood
   DEF IInv, TypeOK, SlotsGood, LogGood, BucketGood, Under

LEMMA RestartKeeps ==
  ASSUME IInv, Restart
  PROVE  IInv'
<1>1. /\ clock' \in Nat /\ store' \in Token \cup {None} /\ view' \subseteq Tab
      /\ req' = [s \in Slot |-> Idle] /\ bucket' = [k \in Keys |-> NoBucket]
      /\ admitted' = {}
  BY DEF Restart, IInv, TypeOK
<1> QED
  BY <1>1, FS_EmptySet, IdleGood
     DEF IInv, TypeOK, SlotsGood, SlotGood, LogGood, BucketGood, Under, Idle

LEMMA Start == Init => IInv
<1> SUFFICES ASSUME Init PROVE IInv
  OBVIOUS
<1>1. /\ clock \in Nat /\ store \in Token \cup {None} /\ view \subseteq Tab
      /\ req = [s \in Slot |-> Idle] /\ bucket = [k \in Keys |-> NoBucket] /\ admitted = {}
  BY DEF Init
<1> QED
  BY <1>1, Fresh

LEMMA Inductive == IInv /\ [Next]_vars => IInv'
<1> SUFFICES ASSUME IInv, [Next]_vars PROVE IInv'
  OBVIOUS
<1>1. CASE \E t \in Tab : Page(t)
  BY <1>1, PageKeeps
<1>2. CASE \E s \in Slot : Handle(s)
  BY <1>2, AuthenticateKeeps, ReadClockKeeps, CountKeeps, ServeKeeps, ReceiveKeeps, LostKeeps
     DEF Handle
<1>3. CASE Tick
  BY <1>3, TickKeeps
<1>4. CASE Restart
  BY <1>4, RestartKeeps
<1>5. CASE UNCHANGED vars
  BY <1>5, QuietStep DEF vars, Limiter, IInv, TypeOK
<1> QED
  BY <1>1, <1>2, <1>3, <1>4, <1>5 DEF Next

LEMMA Invariance == Spec => []IInv
BY Start, Inductive, PTL DEF Spec

\* Every variable holds what the code's types allow, whatever the load.
THEOREM SessionsTyped == Spec => []TypeOK
BY Invariance, PTL DEF IInv

\* Any key, any limit: less than twice the limit passes in a window less the
\* stall (auth.go, lines 107-129).
THEOREM LimitsHold == Spec => []UnderTwiceTheLimit
<1>1. IInv => UnderTwiceTheLimit
  BY RecentIsFew DEF UnderTwiceTheLimit
<1> QED
  BY <1>1, Invariance, PTL

-----------------------------------------------------------------------------
Refuses(s) ==
  req[s].pc = "timed" /\ req'[s].pc = "answered"
  => Cardinality(Recent(Key(req[s]), Window + Stall)) >= Limit

\* Only counting answers a request that has read the clock.
LEMMA OnlyCountingRefuses ==
  ASSUME IInv, [Next]_vars, NEW s \in Slot
  PROVE  Refuses(s)
<1> SUFFICES ASSUME req[s].pc = "timed", req'[s].pc = "answered"
             PROVE  Count(s) /\ Exceeded(Counted(bucket[Key(req[s])], req[s].at))
  BY RefusalHasCause DEF Refuses
<1>1. req \in [Slot -> Call \cup {Idle}] /\ req[s] \in Call
  BY CallOrIdle DEF IInv, TypeOK
<1>2. req'[s] # req[s] /\ req'[s] # Idle
  BY DEF Idle
<1>3. ASSUME NEW t \in Tab PROVE ~Page(t)
  <2>1. ASSUME NEW o \in Slot, NEW kind, NEW u, NEW token PROVE ~Send(o, t, kind, u, token)
    BY <1>1, <1>2, CallOrIdle DEF Send, Busy, IInv, Call, Idle
  <2>2. ~Logout(t) /\ ~Reload(t)
    BY <1>2 DEF Logout, Reload
  <2> QED
    BY <2>1, <2>2 DEF Page, SendLogin, SendCall
<1>4. ~Tick /\ ~Restart /\ ~UNCHANGED vars
  BY <1>2 DEF Tick, Restart, vars
<1>5. PICK o \in Slot : Handle(o)
  BY <1>3, <1>4 DEF Next
<1>6. \E q : req' = [req EXCEPT ![o] = q]
  BY <1>5 DEF Handle, Authenticate, ReadClock, Count, Serve, Receive, Lost, Set
<1>7. o = s
  BY <1>1, <1>2, <1>6
<1>8. ~Authenticate(s) /\ ~ReadClock(s) /\ ~Serve(s) /\ ~Receive(s)
  BY DEF Authenticate, ReadClock, Serve, Receive
<1>9. ~Lost(s)
  BY <1>1, <1>2 DEF Lost
<1>10. Count(s)
  BY <1>5, <1>7, <1>8, <1>9 DEF Handle
<1>11. ASSUME ~Exceeded(Counted(bucket[Key(req[s])], req[s].at)) PROVE FALSE
  <2>1. req' = [req EXCEPT ![s] = [req[s] EXCEPT !.pc = "admitted", !.at = 0]]
    BY <1>10, <1>11 DEF Count, Set
  <2>2. [req[s] EXCEPT !.pc = "admitted", !.at = 0].pc = "admitted"
    BY <1>1 DEF Call
  <2> QED
    BY <1>1, <2>1, <2>2
<1> QED
  BY <1>10, <1>11

\* A refusal for too many requests means the limit was passed under the same
\* key within a window and a stall (auth.go, lines 113-126).
THEOREM RefusalsHaveCause == Spec => RefusedForCause
<1>1. IInv /\ [Next]_vars => [\A s \in Slot : Refuses(s)]_vars
  BY OnlyCountingRefuses
<1> QED
  BY <1>1, Invariance, PTL DEF Spec, RefusedForCause, Refuses

-----------------------------------------------------------------------------
Ends ==
  store # None /\ store' = None /\ req' # req
  => \E s \in Slot :
       /\ req[s].pc = "answered" /\ req[s].code = "unauthorized"
       /\ req[s].kind = "login" \/ req[s].token # store \/ ~Live(store)

\* Only an answer received, or a logout, empties the store.
LEMMA OnlyAnswersEnd ==
  ASSUME IInv, [Next]_vars
  PROVE  Ends
<1> SUFFICES ASSUME store # None, store' = None, req' # req
             PROVE  \E s \in Slot :
                      /\ req[s].pc = "answered" /\ req[s].code = "unauthorized"
                      /\ req[s].kind = "login" \/ req[s].token # store \/ ~Live(store)
  BY DEF Ends
<1>1. ~(\E t \in Tab : Page(t)) /\ ~Tick /\ ~Restart /\ ~UNCHANGED vars
  BY DEF Page, Logout, Reload, SendLogin, SendCall, Send, Tick, Restart, vars
<1>2. PICK s \in Slot : Handle(s)
  BY <1>1 DEF Next
<1>3. Receive(s)
  BY <1>2 DEF Handle, Authenticate, ReadClock, Count, Serve, Lost, Set
<1>4. req[s].pc = "answered" /\ req[s] \in Call /\ SlotGood(req[s])
  BY <1>3, CallOrIdle DEF Receive, IInv, SlotsGood
<1>5. EndsSession(req[s].code)
  <2>1. CASE req[s].kind = "login" /\ req[s].code = "ok" /\ SetSession(req[s].tab, req[s].token)
    <3>1. req[s].token \in Token /\ store' = req[s].token
      BY <1>4, <2>1 DEF SlotGood, SetSession
    <3> QED
      BY <3>1, NullAssumption
  <2> QED
    BY <1>3, <2>1 DEF Receive
<1>6. req[s].code = "unauthorized" /\ (req[s].kind = "call" => ~Live(req[s].token))
  BY <1>4, <1>5 DEF EndsSession, SlotGood
<1> QED
  BY <1>4, <1>6 DEF Call, Kinds

\* A live session outlasts every answer to its own calls (auth.go, lines 60-83
\* and client.ts, lines 45-48).
THEOREM SessionsEndForCause == Spec => EndedForCause
<1>1. IInv /\ [Next]_vars => [Ends]_vars
  BY OnlyAnswersEnd
<1> QED
  BY <1>1, Invariance, PTL DEF Spec, EndedForCause, Ends
=============================================================================
