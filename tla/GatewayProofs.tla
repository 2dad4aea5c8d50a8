---------------------------- MODULE GatewayProofs ----------------------------
(***************************************************************************)
(* What holds of Gateway for any number of handlers, users and prices: its *)
(* types, its reservations and meters, and the budget ledger's promise.    *)
(***************************************************************************)
EXTENDS Gateway, SumsProofs

\* The initial request and the idle record are of their types.
LEMMA IdleType == Request0 \in Requests /\ Idle \in Job
<1>1. Request0 \in Requests
  BY GatewayAssumption DEF Request0
<1> QED
  BY <1>1 DEF Idle, Job, Stage, Reply

\* A request has a user, a kind, a model and a size, and a price.
LEMMA RequestType ==
  ASSUME NEW q \in Requests
  PROVE  /\ q.user \in Users /\ q.kind \in Kinds /\ q.model \in Models
         /\ q.size \in Sizes /\ Estimate(q) \in Nat /\ Key(q) \in Keys
BY GatewayAssumption DEF Request, Estimate, Keys

\* The fields of a slot's record.
LEMMA JobType ==
  ASSUME NEW j \in Job
  PROVE  /\ j.pc \in Stage /\ j.req \in Requests /\ j.limit \in Nat
         /\ j.stale \in BOOLEAN /\ j.seen \in Nat /\ j.held \in BOOLEAN
         /\ j.todo \in Seq(Models) /\ j.cost \in Nat /\ j.reply \in Reply
         /\ j.req.user \in Users
BY RequestType DEF Job

\* A step of one slot keeps the other slots' records.
LEMMA BecomeEffect ==
  ASSUME job \in [Slots -> Job], NEW r \in Slots, NEW j \in Job, Become(r, j)
  PROVE  /\ job' \in [Slots -> Job]
         /\ job'[r] = j
         /\ \A i \in Slots : i # r => job'[i] = job[i]
BY DEF Become

\* The prices a step writes down are amounts.
LEMMA CostType ==
  ASSUME job \in [Slots -> Job], NEW r \in Slots, job[r].todo # <<>>
  PROVE  \A t \in Usage(job[r].req) : Cost[Head(job[r].todo)][t] \in Nat
<1>1. Head(job[r].todo) \in Models
  BY JobType
<1>2. Usage(job[r].req) \subseteq Sizes
  BY JobType, RequestType, GatewayAssumption DEF Usage, Sizes
<1> QED
  BY <1>1, <1>2, GatewayAssumption

\* What holds of a slot's record by itself.  A reservation is out only in the
\* stages that will settle it: a handler that is about to end without its
\* release holds nothing.  What a handler has to store is a response.  Before
\* a provider has answered there is no cost.
SlotInv(j) ==
  /\ j.held => \/ j.pc \in {"dispatch", "attempt", "relay", "release"}
               \/ /\ j.pc \in {"log", "fill"}
                  /\ j.req.kind # "stream" /\ j.reply # "hit"
  /\ j.pc = "fill" => j.reply \in {"whole", "part"}
  /\ \/ j.pc \in {"idle", "lookup", "synthesize", "check", "query", "decide",
                  "dispatch", "attempt", "relay"}
     \/ j.reply \in {"hit", "failed"}
     => j.cost = 0
  /\ j.pc \in {"synthesize", "relay"} => j.req.kind = "stream"
  /\ j.pc = "relay" => j.todo # <<>>

\* What slot r's next record j may do to the enforcer's account: leave it
\* alone, enter a reservation, or take one out.
SameHold(r, j) ==
  /\ inFlight' = inFlight
  /\ \/ j.held = job[r].held /\ j.req = job[r].req
     \/ ~j.held /\ ~job[r].held
NewHold(r, j) ==
  /\ ~job[r].held /\ j.held /\ j.req = job[r].req
  /\ inFlight' = [inFlight EXCEPT ![User(r)] = @ + Estimate(job[r].req)]
EndHold(r, j) ==
  /\ job[r].held /\ ~j.held
  /\ inFlight' = Released(User(r), Estimate(job[r].req))

Accounted(r, j) ==
  /\ Become(r, j)
  /\ SlotInv(j)
  /\ SameHold(r, j) \/ NewHold(r, j) \/ EndHold(r, j)

LEMMA IdleInv == SlotInv(Idle) /\ ~Idle.held
BY DEF SlotInv, Idle

\* The handler's own steps keep the record invariant, and move the account
\* and the reservation together.
LEMMA HandlerSteps ==
  ASSUME TypeOK, NEW r \in Slots, SlotInv(job[r]), Handle(r)
  PROVE  \E j \in Job : Accounted(r, j)
<1> DEFINE at(stage) == [job[r] EXCEPT !.pc = stage]
           free == [job[r] EXCEPT !.pc = "dispatch", !.limit = 0, !.stale = FALSE]
<1>0. /\ job[r] \in Job /\ job \in [Slots -> Job]
      /\ Idle \in Job /\ SlotInv(Idle) /\ ~Idle.held
  BY IdleType, IdleInv DEF TypeOK
<1>1. CASE LookUp(r)
  <2> DEFINE hit == [job[r] EXCEPT !.pc = "log", !.reply = "hit"]
  <2>1. /\ Become(r, hit) \/ Become(r, at("check"))
        /\ job[r].pc = "lookup" /\ inFlight' = inFlight
    BY <1>1 DEF LookUp, Goto, At
  <2>2. hit \in Job /\ SlotInv(hit) /\ SameHold(r, hit)
    BY <1>0, <2>1 DEF Job, Stage, Reply, SlotInv, SameHold
  <2>3. at("check") \in Job /\ SlotInv(at("check")) /\ SameHold(r, at("check"))
    BY <1>0, <2>1 DEF Job, Stage, SlotInv, SameHold
  <2> QED
    BY <2>1, <2>2, <2>3 DEF Accounted
<1>2. CASE Synthesize(r)
  <2> DEFINE missed == [job[r] EXCEPT !.pc = "check", !.reply = "none"]
  <2>1. /\ Become(r, Idle) \/ Become(r, missed)
        /\ job[r].pc = "synthesize" /\ inFlight' = inFlight
    BY <1>2 DEF Synthesize, Answer, At
  <2>2. ~job[r].held /\ job[r].cost = 0
    BY <2>1 DEF SlotInv
  <2>3. missed \in Job /\ SameHold(r, missed)
    BY <1>0, <2>1 DEF Job, Stage, Reply, SameHold
  <2>4. SlotInv(missed)
    BY <1>0, <2>2 DEF Job, SlotInv
  <2> HIDE DEF missed
  <2> QED
    BY <1>0, <2>1, <2>2, <2>3, <2>4 DEF Accounted, SameHold
<1>3. CASE CheckConfigured(r)
  <2> DEFINE limit == settings.budget[User(r)]
             next  == [job[r] EXCEPT !.pc = "query", !.limit = limit]
  <2>1. /\ \/ Become(r, Idle) \/ Become(r, free)
           \/ User(r) \in DOMAIN settings.budget /\ Become(r, next)
        /\ job[r].pc = "check" /\ inFlight' = inFlight
    BY <1>3 DEF CheckConfigured, LetThrough, Answer, At
  <2>2. \A u \in DOMAIN settings.budget : settings.budget[u] \in Nat
    BY GatewayAssumption DEF BudgetMap, TypeOK
  <2>3. free \in Job /\ SlotInv(free) /\ SameHold(r, free) /\ ~job[r].held
    BY <1>0, <2>1 DEF Job, Stage, SlotInv, SameHold
  <2>4. limit \in Nat => next \in Job /\ SlotInv(next) /\ SameHold(r, next)
    BY <1>0, <2>1 DEF Job, Stage, SlotInv, SameHold
  <2> QED
    BY <1>0, <2>1, <2>2, <2>3, <2>4 DEF Accounted, SameHold
<1>4. CASE Query(r)
  <2> DEFINE next == [job[r] EXCEPT !.pc = "decide", !.stale = FALSE,
                                    !.seen = SpendSince(r)]
  <2>1. Become(r, next) /\ job[r].pc = "query" /\ inFlight' = inFlight
    BY <1>4 DEF Query, At
  <2>2. SpendSince(r) \in Nat
    BY <1>0, JobType DEF SpendSince, TypeOK, User
  <2>3. next \in Job /\ SlotInv(next) /\ SameHold(r, next)
    BY <1>0, <2>1, <2>2 DEF Job, Stage, SlotInv, SameHold
  <2> QED
    BY <2>1, <2>3 DEF Accounted
<1>5. CASE QueryFails(r)
  <2>1. /\ Become(r, Idle) \/ Become(r, free)
        /\ job[r].pc = "query" /\ inFlight' = inFlight
    BY <1>5 DEF QueryFails, LetThrough, Answer, At
  <2>2. free \in Job /\ SlotInv(free) /\ SameHold(r, free) /\ ~job[r].held
    BY <1>0, <2>1 DEF Job, Stage, SlotInv, SameHold
  <2> QED
    BY <1>0, <2>1, <2>2 DEF Accounted, SameHold
<1>6. CASE Admit(r)
  <2> DEFINE next == [job[r] EXCEPT !.pc = "dispatch", !.held = TRUE,
                                    !.limit = 0, !.seen = 0]
  <2>1. /\ Become(r, next) /\ job[r].pc = "decide"
        /\ inFlight' = [inFlight EXCEPT ![User(r)] = @ + Estimate(job[r].req)]
    BY <1>6 DEF Admit, At
  <2>2. next \in Job /\ SlotInv(next) /\ NewHold(r, next)
    BY <1>0, <2>1 DEF Job, Stage, SlotInv, NewHold
  <2> QED
    BY <2>1, <2>2 DEF Accounted
<1>7. CASE Deny(r)
  <2>1. Become(r, Idle) /\ job[r].pc = "decide" /\ inFlight' = inFlight
    BY <1>7 DEF Deny, Answer, At
  <2> QED
    BY <1>0, <2>1 DEF Accounted, SameHold, SlotInv
<1>8. CASE Dispatch(r)
  <2> DEFINE models == Candidates(r)
             next   == [job[r] EXCEPT !.pc = "attempt", !.todo = models]
  <2>1. Become(r, next) /\ job[r].pc = "dispatch" /\ inFlight' = inFlight
    BY <1>8 DEF Dispatch, At
  <2>2. models \in Seq(Models)
    BY <1>0, JobType, RequestType, GatewayAssumption DEF Candidates, TypeOK
  <2> HIDE DEF models
  <2>3. next \in Job /\ SlotInv(next) /\ SameHold(r, next)
    BY <1>0, <2>1, <2>2 DEF Job, Stage, SlotInv, SameHold
  <2> QED
    BY <2>1, <2>3 DEF Accounted
<1>9. CASE TryNext(r)
  <2> DEFINE rest == Tail(job[r].todo)
             next == [job[r] EXCEPT !.todo = rest]
  <2>1. /\ Become(r, next) /\ job[r].pc = "attempt" /\ inFlight' = inFlight
        /\ job[r].todo # <<>>
    BY <1>9 DEF TryNext, At
  <2>2. rest \in Seq(Models)
    BY <1>0, <2>1, JobType
  <2> HIDE DEF rest
  <2>3. next \in Job
    BY <1>0, <2>1, <2>2 DEF Job, Stage
  <2>4. SlotInv(next) /\ SameHold(r, next)
    BY <1>0, <2>1, <2>2 DEF Job, SlotInv, SameHold
  <2> QED
    BY <2>1, <2>3, <2>4 DEF Accounted
<1>10. CASE AllFailed(r)
  <2> DEFINE next == [job[r] EXCEPT !.pc = Settle(r), !.reply = "failed"]
  <2>1. Become(r, next) /\ job[r].pc = "attempt" /\ inFlight' = inFlight
    BY <1>10 DEF AllFailed, At
  <2>2. next \in Job
    BY <1>0, <2>1 DEF Job, Stage, Reply, Settle, Kind
  <2>3. SlotInv(next) /\ SameHold(r, next)
    BY <1>0, <2>1 DEF Job, Stage, SlotInv, SameHold, Settle, Kind
  <2> QED
    BY <2>1, <2>2, <2>3 DEF Accounted
<1>11. CASE Answered(r)
  <2> DEFINE next(c) == [job[r] EXCEPT !.pc = "log", !.reply = "whole", !.cost = c]
  <2>1. PICK c \in Nat : Become(r, next(c))
    BY <1>0, <1>11, CostType DEF Answered
  <2>2. job[r].pc = "attempt" /\ inFlight' = inFlight /\ job[r].req.kind # "stream"
    BY <1>11 DEF Answered, At, Kind
  <2>3. next(c) \in Job
    BY <1>0 DEF Job, Stage, Reply
  <2>4. SlotInv(next(c)) /\ SameHold(r, next(c))
    BY <1>0, <2>2 DEF Job, SlotInv, SameHold
  <2> QED
    BY <2>1, <2>3, <2>4 DEF Accounted
<1>12. CASE StreamOpens(r)
  <2>1. /\ Become(r, at("relay"))
        /\ job[r].pc = "attempt" /\ inFlight' = inFlight
        /\ job[r].req.kind = "stream" /\ job[r].todo # <<>>
    BY <1>12 DEF StreamOpens, Goto, At, Kind
  <2>2. at("relay") \in Job /\ SlotInv(at("relay")) /\ SameHold(r, at("relay"))
    BY <1>0, <2>1 DEF Job, Stage, SlotInv, SameHold
  <2> QED
    BY <2>1, <2>2 DEF Accounted
<1>13. CASE Relay(r)
  <2> DEFINE next(how, c) ==
               [job[r] EXCEPT !.pc = "release", !.reply = how, !.cost = c]
  <2>1. job[r].pc = "relay" /\ inFlight' = inFlight /\ job[r].todo # <<>>
    BY <1>13 DEF Relay, At, SlotInv
  <2>2. PICK c \in Nat, how \in {"whole", "part"} : Become(r, next(how, c))
    BY <1>0, <1>13, <2>1, CostType DEF Relay
  <2>3. next(how, c) \in Job /\ SlotInv(next(how, c)) /\ SameHold(r, next(how, c))
    BY <1>0, <2>1 DEF Job, Stage, Reply, SlotInv, SameHold
  <2> QED
    BY <2>2, <2>3 DEF Accounted
<1>14. CASE UploadUnreadable(r)
  <2> DEFINE next == [job[r] EXCEPT !.pc = "release", !.reply = "failed"]
  <2>1. Become(r, next) /\ job[r].pc = "attempt" /\ inFlight' = inFlight
    BY <1>14 DEF UploadUnreadable, At
  <2>2. next \in Job /\ SlotInv(next) /\ SameHold(r, next)
    BY <1>0, <2>1 DEF Job, Stage, Reply, SlotInv, SameHold
  <2> QED
    BY <2>1, <2>2 DEF Accounted
<1>15. CASE Log(r)
  <2>1. /\ \/ Become(r, at("synthesize")) /\ job[r].reply = "hit" /\ Kind(r) = "stream"
           \/ Become(r, Idle) /\ (job[r].reply = "hit" \/ Kind(r) = "stream")
           \/ Become(r, at("fill")) /\ job[r].reply \in {"whole", "part"}
           \/ Become(r, at("release"))
        /\ job[r].pc = "log" /\ inFlight' = inFlight
    BY <1>15 DEF Log, AfterLog, Storable, Goto, Answer, At
  <2>2. /\ job[r].reply = "hit" \/ Kind(r) = "stream" => ~job[r].held
        /\ job[r].reply = "hit" => job[r].cost = 0
    BY <2>1 DEF SlotInv, Kind
  <2>3. /\ at("synthesize") \in Job /\ SameHold(r, at("synthesize"))
        /\ job[r].reply = "hit" /\ Kind(r) = "stream" => SlotInv(at("synthesize"))
    BY <1>0, <2>1, <2>2 DEF Job, Stage, SlotInv, SameHold, Kind
  <2>4. /\ at("fill") \in Job /\ SameHold(r, at("fill"))
        /\ job[r].reply \in {"whole", "part"} => SlotInv(at("fill"))
    BY <1>0, <2>1, <2>2 DEF Job, Stage, SlotInv, SameHold, Kind
  <2>5. /\ at("release") \in Job /\ SameHold(r, at("release"))
        /\ SlotInv(at("release"))
    BY <1>0, <2>1, <2>2 DEF Job, Stage, SlotInv, SameHold, Kind
  <2> HIDE DEF at
  <2> QED
    BY <1>0, <2>1, <2>2, <2>3, <2>4, <2>5 DEF Accounted, SameHold
<1>16. CASE Fill(r)
  <2>1. /\ \/ Become(r, Idle) /\ Kind(r) = "stream"
           \/ Become(r, at("release"))
        /\ job[r].pc = "fill" /\ inFlight' = inFlight
    BY <1>16 DEF Fill, Goto, Answer, At
  <2>2. Kind(r) = "stream" => ~job[r].held
    BY <2>1 DEF SlotInv, Kind
  <2>3. /\ at("release") \in Job /\ SameHold(r, at("release"))
        /\ SlotInv(at("release"))
    BY <1>0, <2>1, <2>2 DEF Job, Stage, SlotInv, SameHold, Kind
  <2> HIDE DEF at
  <2> QED
    BY <1>0, <2>1, <2>2, <2>3 DEF Accounted, SameHold
<1>17. CASE Release(r)
  <2> DEFINE settled == [job[r] EXCEPT !.pc = "log", !.held = FALSE]
  <2>1. /\ Become(r, Idle) \/ Become(r, settled)
        /\ job[r].pc = "release"
        /\ IF job[r].held THEN inFlight' = Released(User(r), Estimate(job[r].req))
                          ELSE inFlight' = inFlight
    BY <1>17 DEF Release, Answer, At
  <2>2. settled \in Job /\ ~settled.held /\ SlotInv(settled)
    BY <1>0, <2>1 DEF Job, Stage, SlotInv
  <2> HIDE DEF settled
  <2> QED
    BY <1>0, <2>1, <2>2 DEF Accounted, SameHold, EndHold
<1> HIDE DEF at, free
<1> QED
  BY <1>1, <1>2, <1>3, <1>4, <1>5, <1>6, <1>7, <1>8, <1>9, <1>10, <1>11,
     <1>12, <1>13, <1>14, <1>15, <1>16, <1>17 DEF Handle, Proceed, Locking
-----------------------------------------------------------------------------
\* What record j holds of user u's budget.
HoldOf(j, u) == IF j.held /\ j.req.user = u THEN Estimate(j.req) ELSE 0

LEMMA HoldOfType ==
  ASSUME NEW j \in Job, NEW u
  PROVE  HoldOf(j, u) \in Nat
BY JobType, RequestType DEF HoldOf

LEMMA HoldsType ==
  ASSUME job \in [Slots -> Job], NEW u
  PROVE  /\ Holds(u) \in [1..N -> Nat]
         /\ \A i \in 1..N : Holds(u)[i] = HoldOf(job[i], u)
         /\ Total(N, Holds(u)) \in Nat
<1>1. \A i \in 1..N : HoldOf(job[i], u) \in Nat
  BY HoldOfType DEF Slots
<1>2. Holds(u) = [i \in 1..N |-> HoldOf(job[i], u)]
  BY DEF Holds, HoldOf, User, Slots
<1>3. N \in Nat
  BY GatewayAssumption
<1>4. Holds(u) \in [1..N -> Nat]
  BY <1>1, <1>2
<1> QED
  BY <1>2, <1>3, <1>4, TotalType

\* One slot's step moves the sum of the reservations by that slot's part.
LEMMA HoldsMove ==
  ASSUME job \in [Slots -> Job], NEW r \in Slots, NEW j \in Job, Become(r, j),
         NEW u \in Users
  PROVE  /\ Total(N, Holds(u)') + HoldOf(job[r], u) = Total(N, Holds(u)) + HoldOf(j, u)
         /\ Total(N, Holds(u)') \in Nat
<1>1. /\ job' \in [Slots -> Job] /\ job'[r] = j
      /\ \A i \in Slots : i # r => job'[i] = job[i]
  BY BecomeEffect
<1>2. /\ Holds(u) \in [1..N -> Nat]
      /\ \A i \in 1..N : Holds(u)[i] = HoldOf(job[i], u)
  BY HoldsType
<1>3. \A i \in 1..N : HoldOf(job'[i], u) \in Nat
  BY <1>1, HoldOfType DEF Slots
<1>4. Holds(u)' = [i \in 1..N |-> HoldOf(job'[i], u)]
  BY DEF Holds, HoldOf, User, Slots
<1>5. PICK f, g : f = Holds(u) /\ g = Holds(u)'
  OBVIOUS
<1>6. /\ OneTermChanges(N, f, g, r)
      /\ f[r] = HoldOf(job[r], u) /\ g[r] = HoldOf(j, u)
  BY <1>1, <1>2, <1>3, <1>4, <1>5 DEF Slots, OneTermChanges
<1>7. g \in [1..N -> Nat] /\ N \in Nat
  BY <1>3, <1>4, <1>5, GatewayAssumption
<1>8. Total(N, g) + f[r] = Total(N, f) + g[r] /\ Total(N, g) \in Nat
  BY <1>6, <1>7, TotalUpdate, TotalType
<1> QED
  BY <1>5, <1>6, <1>8

\* The enforcer's account follows the reservations.
LEMMA AccountFollows ==
  ASSUME TypeOK, InFlightIsSumOfHolds, NEW r \in Slots, NEW j \in Job, Accounted(r, j)
  PROVE  /\ inFlight' \in [Users -> Nat]
         /\ \A u \in Users : inFlight'[u] = Total(N, Holds(u)')
<1>1. /\ job \in [Slots -> Job] /\ inFlight \in [Users -> Nat] /\ job[r] \in Job
      /\ Become(r, j) /\ User(r) = job[r].req.user /\ User(r) \in Users
  BY JobType DEF TypeOK, Accounted, User
<1>2. /\ HoldOf(job[r], User(r)) = IF job[r].held THEN Estimate(job[r].req) ELSE 0
      /\ \A u \in Users : u # User(r) => HoldOf(job[r], u) = 0
      /\ Estimate(job[r].req) \in Nat
  BY <1>1, JobType, RequestType DEF HoldOf
<1>3. \A u \in Users : /\ inFlight[u] = Total(N, Holds(u))
                       /\ HoldOf(job[r], u) <= inFlight[u]
  <2> SUFFICES ASSUME NEW u \in Users
               PROVE  inFlight[u] = Total(N, Holds(u)) /\ HoldOf(job[r], u) <= inFlight[u]
    OBVIOUS
  <2>1. PICK f : f = Holds(u)
    OBVIOUS
  <2>2. f \in [1..N -> Nat] /\ f[r] = HoldOf(job[r], u)
    BY <1>1, <2>1, HoldsType DEF Slots
  <2>3. f[r] <= Total(N, f)
    BY <2>2, TotalBound, GatewayAssumption DEF Slots
  <2> QED
    BY <2>1, <2>2, <2>3 DEF InFlightIsSumOfHolds
<1>4. \A u \in Users :
         /\ Total(N, Holds(u)') + HoldOf(job[r], u) = inFlight[u] + HoldOf(j, u)
         /\ Total(N, Holds(u)') \in Nat
  BY <1>1, <1>3, HoldsMove
<1>5. CASE SameHold(r, j)
  <2>1. \A u \in Users : HoldOf(j, u) = HoldOf(job[r], u)
    BY <1>5 DEF SameHold, HoldOf
  <2>2. inFlight' = inFlight
    BY <1>5 DEF SameHold
  <2> QED
    BY <1>1, <1>2, <1>4, <2>1, <2>2, HoldOfType
<1>6. CASE NewHold(r, j)
  <2>1. \A u \in Users :
           /\ HoldOf(job[r], u) = 0
           /\ HoldOf(j, u) = IF u = User(r) THEN Estimate(job[r].req) ELSE 0
    BY <1>1, <1>6 DEF NewHold, HoldOf
  <2>2. inFlight' = [inFlight EXCEPT ![User(r)] = @ + Estimate(job[r].req)]
    BY <1>6 DEF NewHold
  <2> QED
    BY <1>1, <1>2, <1>4, <2>1, <2>2
<1>7. CASE EndHold(r, j)
  <2>1. job[r].held /\ \A u \in Users : HoldOf(j, u) = 0
    BY <1>7 DEF EndHold, HoldOf
  <2>2. \A u \in Users :
           inFlight'[u] = IF u = User(r)
                          THEN IF inFlight[u] < Estimate(job[r].req) THEN 0
                               ELSE inFlight[u] - Estimate(job[r].req)
                          ELSE inFlight[u]
    BY <1>1, <1>7 DEF EndHold, Released
  <2>3. inFlight' = Released(User(r), Estimate(job[r].req))
    BY <1>7 DEF EndHold
  <2>4. inFlight' \in [Users -> Nat]
    BY <1>1, <1>2, <2>3 DEF Released
  <2> QED
    BY <1>1, <1>2, <1>3, <1>4, <2>1, <2>2, <2>4
<1> QED
  BY <1>5, <1>6, <1>7 DEF Accounted
-----------------------------------------------------------------------------
\* The inductive invariant.
Inv ==
  /\ TypeOK
  /\ \A r \in Slots : SlotInv(job[r])
  /\ InFlightIsSumOfHolds

\* A step that accounts for one slot keeps what the invariant says of the
\* slots and of the account.
LEMMA AccountedKeeps ==
  ASSUME Inv, NEW r \in Slots, NEW j \in Job, Accounted(r, j)
  PROVE  /\ job' \in [Slots -> Job]
         /\ inFlight' \in [Users -> Nat]
         /\ \A i \in Slots : SlotInv(job'[i])
         /\ InFlightIsSumOfHolds'
<1>1. /\ job' \in [Slots -> Job] /\ job'[r] = j
      /\ \A i \in Slots : i # r => job'[i] = job[i]
  BY BecomeEffect DEF Inv, TypeOK, Accounted
<1>2. \A i \in Slots : SlotInv(job'[i])
  BY <1>1 DEF Inv, Accounted
<1>3. /\ inFlight' \in [Users -> Nat]
      /\ \A u \in Users : inFlight'[u] = Total(N, Holds(u)')
  BY AccountFollows DEF Inv
<1> QED
  BY <1>1, <1>2, <1>3 DEF InFlightIsSumOfHolds

\* What no reservation covers is an amount, and at most the whole charge.
LEMMA UncoveredType ==
  ASSUME NEW r \in Slots, job[r] \in Job
  PROVE  /\ Uncovered(r) \in Nat /\ Uncovered(r) <= job[r].cost
         /\ ~job[r].held => Uncovered(r) = job[r].cost
         /\ job[r].held => job[r].cost <= Estimate(job[r].req) + Uncovered(r)
<1>1. job[r].cost \in Nat /\ Estimate(job[r].req) \in Nat /\ job[r].held \in BOOLEAN
  BY JobType, RequestType
<1>2. PICK cost, estimate : cost = job[r].cost /\ estimate = Estimate(job[r].req)
  OBVIOUS
<1>3. CASE job[r].held
  <2>1. Uncovered(r) = IF cost > estimate THEN cost - estimate ELSE 0
    BY <1>2, <1>3 DEF Uncovered
  <2> QED
    BY <1>1, <1>2, <1>3, <2>1
<1>4. CASE ~job[r].held
  <2>1. Uncovered(r) = IF cost > 0 THEN cost - 0 ELSE 0
    BY <1>2, <1>4 DEF Uncovered
  <2> QED
    BY <1>1, <1>2, <1>4, <2>1
<1> QED
  BY <1>1, <1>3, <1>4

\* The handlers' steps keep the types of everything that is not a slot's.
LEMMA HandlerTypes ==
  ASSUME Inv, NEW r \in Slots, Handle(r)
  PROVE  /\ settings' = settings /\ keyed' = keyed
         /\ ceiling' = ceiling /\ earlier' = earlier
         /\ beyond' \in [Users -> Nat] /\ fresh' \in [Users -> Nat]
         /\ spent' \in [Users -> Nat]
         /\ mu' \in Slots \cup {NoSlot}
         /\ cache' \in [Keys -> CacheEntry]
<1>0. /\ settings \in SettingsChoices /\ beyond \in [Users -> Nat] /\ fresh \in [Users -> Nat]
      /\ spent \in [Users -> Nat] /\ mu \in Slots \cup {NoSlot}
      /\ cache \in [Keys -> CacheEntry] /\ job[r] \in Job
  BY DEF Inv, TypeOK
<1>1. /\ settings' = settings /\ keyed' = keyed
      /\ ceiling' = ceiling /\ earlier' = earlier
  BY DEF Handle, Proceed, Locking, LookUp, Synthesize, CheckConfigured, Query, QueryFails,
     Admit, Deny, Dispatch, TryNext, AllFailed, Answered, StreamOpens, Relay,
     UploadUnreadable, Log, Fill, Release
<1>2. beyond' \in [Users -> Nat] /\ fresh' \in [Users -> Nat]
  <2>1. \/ beyond' = beyond \/ beyond' = [beyond EXCEPT ![User(r)] = @ + Uncovered(r)]
        \/ beyond' = [beyond EXCEPT ![User(r)] = fresh[User(r)]]
    BY DEF Handle, Proceed, Locking, LookUp, Synthesize, CheckConfigured, Query, QueryFails,
       Admit, Deny, Dispatch, TryNext, AllFailed, Answered, StreamOpens, Relay,
       UploadUnreadable, Log, Fill, Release
  <2>2. \/ fresh' = fresh \/ fresh' = [fresh EXCEPT ![User(r)] = @ + Uncovered(r)]
        \/ fresh' = [fresh EXCEPT ![User(r)] = 0]
    BY DEF Handle, Proceed, Locking, LookUp, Synthesize, CheckConfigured, Query, QueryFails,
       Admit, Deny, Dispatch, TryNext, AllFailed, Answered, StreamOpens, Relay,
       UploadUnreadable, Log, Fill, Release
  <2>3. Uncovered(r) \in Nat /\ User(r) \in Users
    BY <1>0, UncoveredType, JobType DEF User
  <2>4. beyond' \in [Users -> Nat]
    BY <1>0, <2>1, <2>3
  <2>5. fresh' \in [Users -> Nat]
    BY <1>0, <2>2, <2>3
  <2> QED
    BY <2>4, <2>5
<1>3. spent' \in [Users -> Nat]
  <2>1. spent' = spent \/ spent' = [spent EXCEPT ![User(r)] = @ + job[r].cost]
    BY DEF Handle, Proceed, Locking, LookUp, Synthesize, CheckConfigured, Query, QueryFails,
       Admit, Deny, Dispatch, TryNext, AllFailed, Answered, StreamOpens, Relay,
       UploadUnreadable, Log, Fill, Release
  <2>2. job[r].cost \in Nat
    BY <1>0, JobType
  <2> QED
    BY <1>0, <2>1, <2>2
<1>4. mu' \in Slots \cup {NoSlot}
  BY <1>0 DEF Handle, Proceed, Locking, LookUp, Synthesize, CheckConfigured, Query, QueryFails,
     Admit, Deny, Dispatch, TryNext, AllFailed, Answered, StreamOpens, Relay,
     UploadUnreadable, Log, Fill, Release
<1>5. cache' \in [Keys -> CacheEntry]
  <2>1. \/ cache' = cache
        \/ /\ cache' = [cache EXCEPT ![Key(job[r].req)] = job[r].reply]
           /\ job[r].pc = "fill"
    BY DEF Handle, Proceed, Locking, LookUp, Synthesize, CheckConfigured, Query, QueryFails,
       Admit, Deny, Dispatch, TryNext, AllFailed, Answered, StreamOpens, Relay,
       UploadUnreadable, Log, Fill, Release, At
  <2>2. job[r].pc = "fill" => job[r].reply \in CacheEntry
    BY DEF Inv, SlotInv, CacheEntry
  <2> QED
    BY <1>0, <2>1, <2>2
<1> QED
  BY <1>1, <1>2, <1>3, <1>4, <1>5

\* The programme starts with the invariant.
LEMMA InitInv == Init => Inv
<1> SUFFICES ASSUME Init PROVE Inv
  OBVIOUS
<1>1. job = [r \in Slots |-> Idle] /\ Idle \in Job /\ ~Idle.held /\ SlotInv(Idle)
  BY IdleType, IdleInv DEF Init
<1>2. TypeOK
  <2>1. settings \in SettingsChoices /\ BudgetMap(settings.budget)
    BY GatewayAssumption DEF Init
  <2>2. ceiling \in [Users -> Nat]
    BY <2>1 DEF Init, BudgetMap
  <2> QED
    BY <1>1, <2>1, <2>2 DEF Init, TypeOK, CacheEntry, NoSlot
<1>3. InFlightIsSumOfHolds
  <2> SUFFICES ASSUME NEW u \in Users PROVE inFlight[u] = Total(N, Holds(u))
    BY DEF InFlightIsSumOfHolds
  <2>1. Holds(u) \in [1..N -> Nat] /\ \A i \in 1..N : Holds(u)[i] = 0
    BY <1>1, <1>2, HoldsType DEF TypeOK, HoldOf, Slots
  <2> QED
    BY <2>1, TotalZero, GatewayAssumption DEF Init
<1> QED
  BY <1>1, <1>2, <1>3 DEF Inv

LEMMA NextInv == Inv /\ [Next]_vars => Inv'
<1> SUFFICES ASSUME Inv, [Next]_vars PROVE Inv'
  OBVIOUS
<1>0. /\ TypeOK /\ InFlightIsSumOfHolds /\ \A r \in Slots : SlotInv(job[r])
      /\ Idle \in Job /\ ~Idle.held /\ SlotInv(Idle)
  BY IdleType, IdleInv DEF Inv
<1>1. ASSUME NEW r \in Slots, NEW q \in Requests, Arrive(r, q)
      PROVE  Inv'
  <2> DEFINE j == [Idle EXCEPT !.pc = IF Cacheable(q.kind) THEN "lookup" ELSE "check",
                               !.req = q]
  <2>1. Become(r, j) /\ job[r].pc = "idle" /\ inFlight' = inFlight
    BY <1>1 DEF Arrive, At
  <2>2. j \in Job /\ SlotInv(j) /\ ~j.held
    BY IdleType DEF Idle, Job, Stage, SlotInv
  <2>3. ~job[r].held
    BY <1>0, <2>1 DEF SlotInv
  <2> HIDE DEF j
  <2>4. Accounted(r, j)
    BY <2>1, <2>2, <2>3 DEF Accounted, SameHold
  <2> QED
    BY <1>0, <1>1, <2>2, <2>4, AccountedKeeps DEF Arrive, Inv, TypeOK
<1>2. ASSUME NEW r \in Slots, Handle(r)
      PROVE  Inv'
  <2>1. PICK j \in Job : Accounted(r, j)
    BY <1>0, <1>2, HandlerSteps
  <2> QED
    BY <1>0, <1>2, <2>1, AccountedKeeps, HandlerTypes DEF Inv, TypeOK
<1>3. ASSUME NEW s \in SettingsChoices, ApplySettings(s)
      PROVE  Inv'
  <2>1. ceiling' \in [Users -> Nat]
    BY <1>0, <1>3, GatewayAssumption DEF ApplySettings, Raised, TypeOK, BudgetMap
  <2>2. InFlightIsSumOfHolds'
    BY <1>0, <1>3 DEF ApplySettings, InFlightIsSumOfHolds, Holds, User
  <2>3. keyed' \in SUBSET Users
    BY <1>0, <1>3, GatewayAssumption DEF ApplySettings, TypeOK, BudgetMap
  <2> QED
    BY <1>0, <1>3, <2>1, <2>2, <2>3 DEF ApplySettings, Inv, TypeOK
<1>4. ASSUME NEW k \in Keys, Expire(k)
      PROVE  Inv'
  <2>1. InFlightIsSumOfHolds'
    BY <1>0, <1>4 DEF Expire, InFlightIsSumOfHolds, Holds, User
  <2> QED
    BY <1>0, <1>4, <2>1 DEF Expire, Inv, TypeOK, CacheEntry
<1>5. ASSUME Midnight
      PROVE  Inv'
  <2>1. \A r \in Slots : /\ job'[r] = [job[r] EXCEPT !.stale = (job[r].pc = "query")]
                         /\ job[r] \in Job
    BY <1>0, <1>5 DEF Midnight, TypeOK
  <2>2. \A r \in Slots : /\ job'[r] \in Job /\ SlotInv(job'[r])
                         /\ job'[r].held = job[r].held /\ job'[r].req = job[r].req
    <3> SUFFICES ASSUME NEW r \in Slots
                 PROVE  /\ job'[r] \in Job /\ SlotInv(job'[r])
                        /\ job'[r].held = job[r].held /\ job'[r].req = job[r].req
      OBVIOUS
    <3>1. PICK b \in BOOLEAN : job'[r] = [job[r] EXCEPT !.stale = b]
      BY <2>1
    <3>2. PICK j, k : j = job[r] /\ k = job'[r]
      OBVIOUS
    <3>3. j \in Job /\ k = [j EXCEPT !.stale = b] /\ SlotInv(j)
      BY <1>0, <2>1, <3>1, <3>2
    <3>4. k \in Job /\ SlotInv(k) /\ k.held = j.held /\ k.req = j.req
      BY ONLY <3>3, b \in BOOLEAN DEF Job, SlotInv
    <3> QED
      BY <3>2, <3>4
  <2>3. \A u : Holds(u)' = Holds(u)
    BY <2>2 DEF Holds, User
  <2>4. InFlightIsSumOfHolds'
    BY <1>0, <1>5, <2>3 DEF Midnight, InFlightIsSumOfHolds
  <2>5. job' \in [Slots -> Job]
    BY <1>5, <2>2 DEF Midnight
  <2> QED
    BY <1>0, <1>5, <2>2, <2>4, <2>5 DEF Midnight, Inv, TypeOK
<1>6. ASSUME Crash
      PROVE  Inv'
  <2>1. job' = [r \in Slots |-> Idle]
    BY <1>6 DEF Crash
  <2>2. \A u : Holds(u)' = [r \in 1..N |-> 0]
    BY <1>0, <2>1 DEF Holds, User, Slots
  <2>3. Total(N, [r \in 1..N |-> 0]) = 0
    BY TotalZero, GatewayAssumption
  <2>4. InFlightIsSumOfHolds'
    BY <1>6, <2>2, <2>3 DEF Crash, InFlightIsSumOfHolds
  <2> QED
    BY <1>0, <1>6, <2>1, <2>4 DEF Crash, Inv, TypeOK, CacheEntry, NoSlot
<1>7. CASE UNCHANGED vars
  BY <1>0, <1>7 DEF vars, Inv, TypeOK, InFlightIsSumOfHolds, Holds, User
<1> QED
  BY <1>1, <1>2, <1>3, <1>4, <1>5, <1>6, <1>7 DEF Next, Environment

\* The invariant holds throughout.
THEOREM Invariance == Spec => []Inv
BY InitInv, NextInv, PTL DEF Spec

\* Every variable keeps its type in every reachable state.
THEOREM TypeCorrect == Spec => []TypeOK
<1>1. Inv => TypeOK
  BY DEF Inv
<1> QED
  BY <1>1, Invariance, PTL

\* MemoryEnforcer.inFlight is the sum of the reservations that the handlers
\* hold, whatever the handlers, users, prices and settings: Reserve and the
\* release it returns are paired on every path through every handler.
THEOREM ReservationsExact == Spec => []InFlightIsSumOfHolds
<1>1. Inv => InFlightIsSumOfHolds
  BY DEF Inv
<1> QED
  BY <1>1, Invariance, PTL
-----------------------------------------------------------------------------
\* From Reserve to the end of the provider's answer a request has its
\* reservation out.
Reserved(j) == j.pc \in {"dispatch", "attempt", "relay"} => j.held

MeteredInv == Inv /\ \A r \in Slots : Reserved(job[r])

\* Under FailsClosed no step of a handler brings its request to a provider
\* except Admit, which makes the reservation.
LEMMA HandlerReserves ==
  ASSUME FailsClosed, MeteredInv, NEW r \in Slots, Handle(r)
  PROVE  Reserved(job'[r])
<1>0. /\ job \in [Slots -> Job] /\ job[r] \in Job /\ Reserved(job[r])
      /\ settings \in SettingsChoices
  BY DEF MeteredInv, Inv, TypeOK
<1>1. Answer(r) => Reserved(job'[r])
  BY <1>0 DEF Answer, Become, Reserved, Idle
<1>2. CASE CheckConfigured(r)
  <2>1. \A u \in DOMAIN settings.budget : settings.budget[u] > 0
    BY <1>0 DEF FailsClosed
  <2>2. \A u \in DOMAIN settings.budget : settings.budget[u] # 0
    BY <2>1
  <2>3. \/ Answer(r)
        \/ \E l : Become(r, [job[r] EXCEPT !.pc = "query", !.limit = l])
    BY <1>2, <2>2 DEF CheckConfigured, FailsClosed
  <2> QED
    BY <1>0, <1>1, <2>3 DEF Become, Reserved, Job
<1>3. CASE QueryFails(r)
  BY <1>1, <1>3 DEF QueryFails, FailsClosed
<1>4. CASE Query(r)
  BY <1>0, <1>4 DEF Query, Become, Reserved, Job
<1>5. CASE LookUp(r)
  <2>1. \/ Become(r, [job[r] EXCEPT !.pc = "log", !.reply = "hit"])
        \/ Become(r, [job[r] EXCEPT !.pc = "check"])
    BY <1>5 DEF LookUp, Goto
  <2>2. CASE Become(r, [job[r] EXCEPT !.pc = "log", !.reply = "hit"])
    BY <1>0, <2>2 DEF Become, Reserved, Job
  <2>3. CASE Become(r, [job[r] EXCEPT !.pc = "check"])
    BY <1>0, <2>3 DEF Become, Reserved, Job
  <2> QED
    BY <2>1, <2>2, <2>3
<1>6. CASE Synthesize(r)
  <2>1. \/ Answer(r)
        \/ Become(r, [job[r] EXCEPT !.pc = "check", !.reply = "none"])
    BY <1>6 DEF Synthesize
  <2>2. CASE Become(r, [job[r] EXCEPT !.pc = "check", !.reply = "none"])
    BY <1>0, <2>2 DEF Become, Reserved, Job
  <2> QED
    BY <1>1, <2>1, <2>2
<1>7. CASE Admit(r) \/ Deny(r)
  BY <1>0, <1>1, <1>7 DEF Admit, Deny, Become, Reserved, Job
<1>8. CASE Dispatch(r) \/ TryNext(r) \/ StreamOpens(r)
  BY <1>0, <1>8 DEF Dispatch, TryNext, StreamOpens, Goto, Become, At, Reserved, Job
<1>9. CASE AllFailed(r)
  BY <1>0, <1>9 DEF AllFailed, Settle, Become, Reserved, Job
<1>10. CASE Answered(r)
  <2>1. PICK c : Become(r, [job[r] EXCEPT !.pc = "log", !.reply = "whole", !.cost = c])
    BY <1>10 DEF Answered
  <2> QED
    BY <1>0, <2>1 DEF Become, Reserved, Job
<1>11. CASE Relay(r)
  <2>1. PICK c, how :
           Become(r, [job[r] EXCEPT !.pc = "release", !.reply = how, !.cost = c])
    BY <1>11 DEF Relay
  <2> QED
    BY <1>0, <2>1 DEF Become, Reserved, Job
<1>12. CASE UploadUnreadable(r)
  BY <1>0, <1>12 DEF UploadUnreadable, Become, Reserved, Job
<1>13. \A stage \in {"synthesize", "fill", "release"} : Goto(r, stage) => Reserved(job'[r])
  BY <1>0 DEF Goto, Become, Reserved, Job
<1>14. CASE Log(r)
  BY <1>1, <1>13, <1>14 DEF Log, AfterLog
<1>15. CASE Fill(r)
  BY <1>1, <1>13, <1>15 DEF Fill
<1>16. CASE Release(r)
  <2>1. \/ Become(r, [job[r] EXCEPT !.pc = "log", !.held = FALSE])
        \/ Answer(r)
    BY <1>16 DEF Release
  <2>2. CASE Become(r, [job[r] EXCEPT !.pc = "log", !.held = FALSE])
    BY <1>0, <2>2 DEF Become, Reserved, Job
  <2> QED
    BY <1>1, <2>1, <2>2
<1> QED
  BY <1>2, <1>3, <1>4, <1>5, <1>6, <1>7, <1>8, <1>9, <1>10, <1>11, <1>12,
     <1>14, <1>15, <1>16
  DEF Handle, Proceed, Locking

\* So no step of anyone does.
LEMMA NextReserves ==
  ASSUME FailsClosed
  PROVE  MeteredInv /\ [Next]_vars => MeteredInv'
<1> SUFFICES ASSUME MeteredInv, [Next]_vars PROVE MeteredInv'
  OBVIOUS
<1>0. /\ Inv /\ job \in [Slots -> Job] /\ Reserved(Idle)
      /\ \A r \in Slots : Reserved(job[r])
  BY DEF MeteredInv, Inv, TypeOK, Reserved, Idle
<1>1. Inv'
  BY NextInv DEF MeteredInv
<1>2. ASSUME NEW r \in Slots, NEW j, Become(r, j), Reserved(job'[r])
      PROVE  \A i \in Slots : Reserved(job'[i])
  <2>1. \A i \in Slots : i # r => job'[i] = job[i]
    BY <1>0, <1>2 DEF Become
  <2> QED
    BY <1>0, <1>2, <2>1
<1>3. ASSUME NEW r \in Slots, NEW q \in Requests, Arrive(r, q)
      PROVE  \A i \in Slots : Reserved(job'[i])
  <2> DEFINE j == [Idle EXCEPT !.pc = IF Cacheable(q.kind) THEN "lookup" ELSE "check",
                               !.req = q]
  <2>1. Become(r, j) /\ Reserved(j)
    BY <1>3 DEF Arrive, Reserved, Idle
  <2>2. Reserved(job'[r])
    BY <1>0, <2>1 DEF Become
  <2> HIDE DEF j
  <2> QED
    BY <1>2, <2>1, <2>2
<1>4. ASSUME NEW r \in Slots, Handle(r)
      PROVE  \A i \in Slots : Reserved(job'[i])
  <2>1. \E j : Become(r, j)
    BY <1>0, <1>4, HandlerSteps DEF Inv, Accounted
  <2> QED
    BY <1>2, <1>4, <2>1, HandlerReserves
<1>5. ASSUME Midnight
      PROVE  \A i \in Slots : Reserved(job'[i])
  BY <1>0, <1>5 DEF Midnight, Reserved, Job
<1>6. ASSUME Crash
      PROVE  \A i \in Slots : Reserved(job'[i])
  BY <1>0, <1>6 DEF Crash
<1>7. job' = job => \A i \in Slots : Reserved(job'[i])
  BY <1>0
<1>8. \A s : ApplySettings(s) => job' = job
  BY DEF ApplySettings
<1>9. \A k : Expire(k) => job' = job
  BY DEF Expire
<1>10. UNCHANGED vars => job' = job
  BY DEF vars
<1>11. \A i \in Slots : Reserved(job'[i])
  BY <1>3, <1>4, <1>5, <1>6, <1>7, <1>8, <1>9, <1>10 DEF Next, Environment
<1> QED
  BY <1>1, <1>11 DEF MeteredInv

\* With fail_closed, and no limits of 0 saved, whatever else the operator
\* saves and whenever the request log cannot be read, no request reaches a
\* provider without a reservation.
THEOREM FailClosedHolds == Spec => []FailClosedMeters
<1>1. CASE FailsClosed
  <2>1. Init => MeteredInv
    BY InitInv DEF Init, MeteredInv, Reserved, Idle
  <2>2. MeteredInv /\ [Next]_vars => MeteredInv'
    BY <1>1, NextReserves
  <2>3. MeteredInv => FailClosedMeters
    BY DEF MeteredInv, Reserved, FailClosedMeters, At
  <2> QED
    BY <2>1, <2>2, <2>3, PTL DEF Spec
<1>2. CASE ~FailsClosed
  <2>1. FailClosedMeters
    BY <1>2 DEF FailClosedMeters
  <2> QED
    BY <2>1, PTL
<1> QED
  BY <1>1, <1>2
-----------------------------------------------------------------------------
(* The budget ledger.                                                      *)

\* The stages in which a charge may still come in for a held reservation.
Owing == {"dispatch", "attempt", "relay", "log"}

\* What record j may still add to user u's recorded spend.
OweOf(j, u) ==
  IF j.held /\ j.pc \in Owing /\ j.req.user = u THEN Estimate(j.req) ELSE 0

LEMMA OweOfType ==
  ASSUME NEW j \in Job, NEW u
  PROVE  OweOf(j, u) \in Nat /\ OweOf(j, u) <= HoldOf(j, u)
BY JobType, RequestType DEF OweOf, HoldOf

LEMMA OwedType ==
  ASSUME job \in [Slots -> Job], NEW u
  PROVE  /\ Owed(u) \in [1..N -> Nat]
         /\ \A i \in 1..N : Owed(u)[i] = OweOf(job[i], u)
         /\ Total(N, Owed(u)) \in Nat
<1>1. \A i \in 1..N : OweOf(job[i], u) \in Nat
  BY OweOfType DEF Slots
<1>2. Owed(u) = [i \in 1..N |-> OweOf(job[i], u)]
  BY DEF Owed, Owes, OweOf, Owing, User, Slots
<1>3. N \in Nat
  BY GatewayAssumption
<1>4. Owed(u) \in [1..N -> Nat]
  BY <1>1, <1>2
<1> QED
  BY <1>2, <1>3, <1>4, TotalType

\* One slot's step moves a commitment by that slot's part.
LEMMA OwedMove ==
  ASSUME job \in [Slots -> Job], NEW r \in Slots, NEW j \in Job, Become(r, j),
         NEW u \in Users
  PROVE  /\ Total(N, Owed(u)') + OweOf(job[r], u) = Total(N, Owed(u)) + OweOf(j, u)
         /\ Total(N, Owed(u)') \in Nat
<1>1. /\ job' \in [Slots -> Job] /\ job'[r] = j
      /\ \A i \in Slots : i # r => job'[i] = job[i]
  BY BecomeEffect
<1>2. /\ Owed(u) \in [1..N -> Nat]
      /\ \A i \in 1..N : Owed(u)[i] = OweOf(job[i], u)
  BY OwedType
<1>3. \A i \in 1..N : OweOf(job'[i], u) \in Nat
  BY <1>1, OweOfType DEF Slots
<1>4. Owed(u)' = [i \in 1..N |-> OweOf(job'[i], u)]
  BY DEF Owed, Owes, OweOf, Owing, User, Slots
<1>5. PICK f, g : f = Owed(u) /\ g = Owed(u)'
  OBVIOUS
<1>6. /\ OneTermChanges(N, f, g, r)
      /\ f[r] = OweOf(job[r], u) /\ g[r] = OweOf(j, u)
  BY <1>1, <1>2, <1>3, <1>4, <1>5 DEF Slots, OneTermChanges
<1>7. g \in [1..N -> Nat] /\ N \in Nat
  BY <1>3, <1>4, <1>5, GatewayAssumption
<1>8. Total(N, g) + f[r] = Total(N, f) + g[r] /\ Total(N, g) \in Nat
  BY <1>6, <1>7, TotalUpdate, TotalType
<1> QED
  BY <1>5, <1>6, <1>8

\* A commitment never passes what the enforcer would count: the recorded
\* spend and the reservations.
LEMMA CommitmentCounted ==
  ASSUME Inv, NEW u \in Users
  PROVE  /\ Commitment(u) \in Nat /\ Commitment(u) <= spent[u] + inFlight[u]
         /\ Commitment(u) = spent[u] + Total(N, Owed(u))
         /\ Total(N, Owed(u)) \in Nat
<1>1. job \in [Slots -> Job] /\ spent[u] \in Nat /\ inFlight[u] = Total(N, Holds(u))
  BY DEF Inv, TypeOK, InFlightIsSumOfHolds
<1>2. PICK f, g : f = Owed(u) /\ g = Holds(u)
  OBVIOUS
<1>3. /\ f \in [1..N -> Nat] /\ g \in [1..N -> Nat]
      /\ \A i \in 1..N : f[i] = OweOf(job[i], u) /\ g[i] = HoldOf(job[i], u)
  BY <1>1, <1>2, OwedType, HoldsType
<1>4. \A i \in 1..N : f[i] <= g[i]
  BY <1>1, <1>3, OweOfType DEF Slots
<1>5. Total(N, f) <= Total(N, g) /\ Total(N, f) \in Nat /\ Total(N, g) \in Nat
  BY <1>3, <1>4, TotalMonotone, TotalType, GatewayAssumption
<1> QED
  BY <1>1, <1>2, <1>5 DEF Commitment
-----------------------------------------------------------------------------
\* The limit that a request compares with is covered by a ceiling.
Meter(j, ceilings) ==
  j.pc \in {"query", "decide"} => j.limit <= ceilings[j.req.user]

\* Between the query and the decision the mutex keeps the account as it is.
\* Charges that are logged meanwhile move amounts that were in flight, or are
\* fresh.
Locked(r) ==
  At(r, "decide") =>
    /\ mu = r
    /\ \A u \in Users : u = User(r) =>
          Commitment(u) <= job[r].seen + inFlight[u] + fresh[u]

\* The two histories: both are of today's recorded charges, and what is fresh
\* has not been counted by any check.
Counted(u) == fresh[u] <= beyond[u] /\ beyond[u] <= spent[u]

MeterInv ==
  /\ Inv
  /\ \A r \in Slots : Meter(job[r], ceiling) /\ Locked(r)
  /\ \A u \in Users : Counted(u)
  /\ \A u \in DOMAIN settings.budget : settings.budget[u] <= ceiling[u]

\* The ways in which slot r's step to record j may move its user's account: by
\* charges, of which the reservation or the histories cover everything, or by
\* admitting a request.  Only the query, which takes the mutex, starts the
\* fresh history anew.
Settles(r, j) ==
  LET u == User(r)
  IN  /\ beyond[u] <= beyond'[u]
      /\ spent'[u] + OweOf(j, u) + beyond[u] <= spent[u] + OweOf(job[r], u) + beyond'[u]
      /\ \/ spent'[u] + OweOf(j, u) + fresh[u] <= spent[u] + OweOf(job[r], u) + fresh'[u]
         \/ mu = NoSlot /\ j.pc = "decide"
Admits(r, j) ==
  LET u == User(r)
  IN  /\ spent'[u] = spent[u] /\ fresh'[u] = fresh[u] /\ beyond'[u] = fresh[u]
      /\ At(r, "decide") /\ Fits(r)
      /\ OweOf(job[r], u) = 0 /\ OweOf(j, u) = Estimate(job[r].req)

\* The mutex is respected by slot r's step to record j.
Orderly(r, j) ==
  /\ mu' = mu \/ mu \in {NoSlot, r}
  /\ inFlight' = inFlight \/ mu \in {NoSlot, r}
  /\ j.pc = "decide" => /\ mu' = r /\ j.req = job[r].req
                        /\ spent' = spent /\ spent[User(r)] <= j.seen
                        /\ inFlight' = inFlight

Metered(r, j) ==
  /\ Become(r, j)
  /\ Meter(j, ceiling)
  /\ \A u \in Users : u # User(r) =>
        /\ spent'[u] = spent[u] /\ beyond'[u] = beyond[u] /\ fresh'[u] = fresh[u]
        /\ OweOf(j, u) = OweOf(job[r], u)
  /\ Settles(r, j) \/ Admits(r, j)
  /\ \A u \in Users : u = User(r) => Counted(u)'
  /\ Orderly(r, j)

\* A step that moves no money.
Still(r, j) ==
  /\ Become(r, j) /\ Meter(j, ceiling) /\ Orderly(r, j)
  /\ spent' = spent /\ beyond' = beyond /\ fresh' = fresh
  /\ \A u \in Users : OweOf(j, u) <= OweOf(job[r], u)

LEMMA StillMetered ==
  ASSUME MeterInv, NEW r \in Slots, NEW j \in Job, Still(r, j)
  PROVE  Metered(r, j)
<1>1. /\ job[r] \in Job /\ User(r) \in Users /\ User(r) = job[r].req.user
      /\ \A u \in Users : spent[u] \in Nat /\ beyond[u] \in Nat /\ fresh[u] \in Nat
  BY JobType DEF MeterInv, Inv, TypeOK, User
<1>2. \A u \in Users : u # User(r) => OweOf(job[r], u) = 0
  BY <1>1 DEF OweOf
<1>3. \A u \in Users : OweOf(j, u) \in Nat /\ OweOf(job[r], u) \in Nat
  BY <1>1, OweOfType
<1>4. Settles(r, j)
  BY <1>1, <1>3 DEF Still, Settles
<1>5. \A u \in Users : Counted(u)'
  BY DEF Still, MeterInv, Counted
<1> QED
  BY <1>1, <1>2, <1>3, <1>4, <1>5 DEF Still, Metered
-----------------------------------------------------------------------------
\* Every step of a handler is metered.
LEMMA HandlerMeters ==
  ASSUME MeterInv, NEW r \in Slots, Handle(r)
  PROVE  \E j \in Job : Metered(r, j)
<1> DEFINE at(stage) == [job[r] EXCEPT !.pc = stage]
           free == [job[r] EXCEPT !.pc = "dispatch", !.limit = 0, !.stale = FALSE]
           u    == User(r)
           Quiet == /\ spent' = spent /\ beyond' = beyond /\ fresh' = fresh
                    /\ mu' = mu \/ mu \in {NoSlot, r}
                    /\ inFlight' = inFlight \/ mu \in {NoSlot, r}
<1>0. /\ job[r] \in Job /\ Idle \in Job /\ ~Idle.held /\ Idle.pc = "idle" /\ Inv
      /\ SlotInv(job[r]) /\ Meter(job[r], ceiling) /\ Locked(r)
      /\ u = job[r].req.user /\ u \in Users
      /\ \A v \in Users : spent[v] \in Nat /\ beyond[v] \in Nat /\ fresh[v] \in Nat
      /\ \A v \in Users : OweOf(job[r], v) \in Nat
  BY IdleType, JobType, OweOfType DEF MeterInv, Inv, TypeOK, User, Idle
<1>1. ASSUME NEW k \in Job, Become(r, k), Quiet, k.pc \notin {"query", "decide"},
             \/ ~k.held \/ k.pc \notin Owing
             \/ /\ job[r].held /\ job[r].pc \in Owing /\ k.req = job[r].req
      PROVE  \E j \in Job : Metered(r, j)
  <2>1. \A v \in Users : OweOf(k, v) <= OweOf(job[r], v)
    <3>1. CASE ~k.held \/ k.pc \notin Owing
      <4>1. \A v : OweOf(k, v) = 0
        BY <3>1 DEF OweOf
      <4> QED
        BY <1>0, <4>1
    <3>2. CASE job[r].held /\ job[r].pc \in Owing /\ k.req = job[r].req
      <4>1. \A v : OweOf(k, v) \in {0, OweOf(job[r], v)}
        BY <3>2 DEF OweOf
      <4> QED
        BY <1>0, <4>1
    <3> QED
      BY <1>1, <3>1, <3>2
  <2>2. Still(r, k)
    BY <1>1, <2>1 DEF Still, Orderly, Meter
  <2> QED
    BY <2>2, StillMetered
<1>2. Become(r, Idle) /\ Quiet => \E j \in Job : Metered(r, j)
  BY <1>0, <1>1
<1>3. ASSUME Become(r, free), Quiet, job[r].pc \in {"check", "query"}
      PROVE  \E j \in Job : Metered(r, j)
  <2>1. free \in Job /\ free.pc = "dispatch" /\ ~free.held
    BY <1>0, <1>3 DEF Job, Stage, SlotInv
  <2> HIDE DEF free
  <2> QED
    BY <1>1, <1>3, <2>1
<1>4. CASE LookUp(r)
  <2> DEFINE hit == [job[r] EXCEPT !.pc = "log", !.reply = "hit"]
  <2>1. /\ Become(r, hit) \/ Become(r, at("check"))
        /\ job[r].pc = "lookup" /\ Quiet
    BY <1>4 DEF LookUp, Goto, At
  <2>2. hit \in Job /\ ~hit.held /\ hit.pc = "log"
    BY <1>0, <2>1 DEF Job, Stage, Reply, SlotInv
  <2>3. at("check") \in Job /\ ~at("check").held /\ at("check").pc = "check"
    BY <1>0, <2>1 DEF Job, Stage, SlotInv
  <2> HIDE DEF hit, at, Quiet
  <2> QED
    BY <1>1, <2>1, <2>2, <2>3
<1>5. CASE Synthesize(r)
  <2> DEFINE missed == [job[r] EXCEPT !.pc = "check", !.reply = "none"]
  <2>1. /\ Become(r, Idle) \/ Become(r, missed)
        /\ job[r].pc = "synthesize" /\ Quiet
    BY <1>5 DEF Synthesize, Answer, At
  <2>2. missed \in Job /\ ~missed.held /\ missed.pc = "check"
    BY <1>0, <2>1 DEF Job, Stage, Reply, SlotInv
  <2> HIDE DEF missed, Quiet
  <2> QED
    BY <1>1, <1>2, <2>1, <2>2
<1>6. CASE CheckConfigured(r)
  <2> DEFINE limit == settings.budget[u]
             next  == [job[r] EXCEPT !.pc = "query", !.limit = limit]
  <2>1. /\ \/ Become(r, Idle) \/ Become(r, free)
           \/ u \in DOMAIN settings.budget /\ Become(r, next)
        /\ job[r].pc = "check" /\ Quiet /\ mu' = mu /\ inFlight' = inFlight
    BY <1>6 DEF CheckConfigured, LetThrough, Answer, At
  <2>2. ASSUME u \in DOMAIN settings.budget, Become(r, next)
        PROVE  \E j \in Job : Metered(r, j)
    <3>1. limit \in Nat /\ limit <= ceiling[u]
      BY <2>2, GatewayAssumption DEF MeterInv, Inv, TypeOK, BudgetMap
    <3> HIDE DEF limit
    <3>2. next \in Job /\ Meter(next, ceiling) /\ next.pc = "query" /\ ~next.held
      BY <1>0, <2>1, <3>1 DEF Job, Stage, Meter, SlotInv
    <3> HIDE DEF next
    <3>3. \A v \in Users : OweOf(next, v) = 0
      BY <3>2 DEF OweOf
    <3>4. Still(r, next)
      BY <1>0, <2>1, <2>2, <3>2, <3>3 DEF Still, Orderly
    <3> QED
      BY <3>2, <3>4, StillMetered
  <2> HIDE DEF free, next, Quiet
  <2> QED
    BY <1>2, <1>3, <2>1, <2>2
<1>7. CASE Query(r)
  <2> DEFINE seen == SpendSince(r)
             next == [job[r] EXCEPT !.pc = "decide", !.stale = FALSE, !.seen = seen]
  <2>1. /\ Become(r, next) /\ job[r].pc = "query" /\ inFlight' = inFlight
        /\ mu = NoSlot /\ mu' = r /\ spent' = spent /\ beyond' = beyond
        /\ fresh' = [fresh EXCEPT ![u] = 0]
    BY <1>7 DEF Query, At
  <2>2. seen \in Nat /\ spent[u] <= seen
    BY <1>0, JobType DEF SpendSince, TypeOK, Inv, User
  <2> HIDE DEF seen
  <2>3. /\ next \in Job /\ next.pc = "decide" /\ next.seen = seen
        /\ next.req = job[r].req /\ next.limit = job[r].limit
    BY <1>0, <2>2 DEF Job, Stage
  <2>4. \A v \in Users : OweOf(next, v) = 0 /\ OweOf(job[r], v) = 0
    BY <1>0, <2>1, <2>3 DEF OweOf, Owing
  <2> HIDE DEF next
  <2>5. Meter(next, ceiling)
    BY <1>0, <2>1, <2>3 DEF Meter
  <2>6. /\ fresh'[u] = 0 /\ \A v \in Users : v # u => fresh'[v] = fresh[v]
    BY <1>0, <2>1 DEF Inv, TypeOK
  <2>7. Settles(r, next)
    BY <1>0, <2>1, <2>3, <2>4 DEF Settles
  <2>8. Counted(u) /\ \A v \in Users : v = u => Counted(v)'
    BY <1>0, <2>1, <2>6 DEF Counted, MeterInv
  <2>9. Orderly(r, next)
    BY <2>1, <2>2, <2>3 DEF Orderly
  <2> QED
    BY <2>1, <2>3, <2>4, <2>5, <2>6, <2>7, <2>8, <2>9 DEF Metered
<1>8. CASE QueryFails(r)
  <2>1. /\ Become(r, Idle) \/ Become(r, free)
        /\ job[r].pc = "query" /\ Quiet
    BY <1>8 DEF QueryFails, LetThrough, Answer, At
  <2> HIDE DEF free, Quiet
  <2> QED
    BY <1>2, <1>3, <2>1
<1>9. CASE Admit(r)
  <2> DEFINE next == [job[r] EXCEPT !.pc = "dispatch", !.held = TRUE,
                                    !.limit = 0, !.seen = 0]
  <2>1. /\ Become(r, next) /\ job[r].pc = "decide" /\ At(r, "decide") /\ Fits(r)
        /\ spent' = spent /\ fresh' = fresh /\ mu = r
        /\ beyond' = [beyond EXCEPT ![u] = fresh[u]] /\ mu' = NoSlot
    BY <1>0, <1>9 DEF Admit, At, Locked
  <2>2. /\ next \in Job /\ next.pc = "dispatch" /\ next.held /\ next.req = job[r].req
    BY <1>0 DEF Job, Stage
  <2> HIDE DEF next
  <2>3. /\ \A v \in Users : OweOf(job[r], v) = 0
        /\ \A v \in Users : v # u => OweOf(next, v) = 0
        /\ OweOf(next, u) = Estimate(job[r].req)
    BY <1>0, <2>1, <2>2 DEF OweOf, Owing
  <2>4. Meter(next, ceiling)
    BY <2>2 DEF Meter
  <2>5. beyond'[u] = fresh[u] /\ \A v \in Users : v # u => beyond'[v] = beyond[v]
    BY <1>0, <2>1 DEF Inv, TypeOK
  <2>6. Orderly(r, next) /\ Admits(r, next)
    BY <1>0, <2>1, <2>2, <2>3, <2>5 DEF Orderly, Admits
  <2>7. \A v \in Users : v = u => Counted(v)'
    BY <1>0, <2>1, <2>5 DEF Counted, MeterInv
  <2> QED
    BY <2>1, <2>2, <2>3, <2>4, <2>5, <2>6, <2>7 DEF Metered
<1>10. CASE Deny(r)
  <2>1. Become(r, Idle) /\ Quiet
    BY <1>0, <1>10 DEF Deny, Answer, At, Locked
  <2> HIDE DEF Quiet
  <2> QED
    BY <1>2, <2>1
<1>11. CASE Dispatch(r) \/ TryNext(r) \/ StreamOpens(r)
  <2>1. /\ Quiet /\ job[r].pc \in Owing
        /\ \E stage \in {"attempt", "relay"}, models \in Seq(Models) :
              Become(r, [job[r] EXCEPT !.pc = stage, !.todo = models])
    <3>1. CASE Dispatch(r)
      <4>1. Candidates(r) \in Seq(Models)
        <5>1. /\ job[r].req.model \in Models
              /\ settings.fallback \in Seq(Models)
          BY <1>0, JobType, RequestType, GatewayAssumption DEF Inv, TypeOK
        <5>2. <<job[r].req.model>> \in Seq(Models) /\ << >> \in Seq(Models)
          BY <5>1
        <5> QED
          BY <5>1, <5>2 DEF Candidates
      <4> QED
        BY <3>1, <4>1 DEF Dispatch, At, Owing
    <3>2. CASE TryNext(r)
      <4>1. Tail(job[r].todo) \in Seq(Models)
        BY <1>0, <3>2, JobType DEF TryNext
      <4>2. [job[r] EXCEPT !.todo = Tail(@)]
              = [job[r] EXCEPT !.pc = "attempt", !.todo = Tail(job[r].todo)]
        BY <1>0, <3>2 DEF TryNext, At, Job
      <4> QED
        BY <3>2, <4>1, <4>2 DEF TryNext, At, Owing
    <3>3. CASE StreamOpens(r)
      <4>1. job[r].todo \in Seq(Models)
        BY <1>0, JobType
      <4>2. [job[r] EXCEPT !.pc = "relay"]
              = [job[r] EXCEPT !.pc = "relay", !.todo = job[r].todo]
        BY <1>0 DEF Job
      <4> QED
        BY <3>3, <4>1, <4>2 DEF StreamOpens, Goto, At, Owing
    <3> QED
      BY <1>11, <3>1, <3>2, <3>3
  <2>2. PICK stage \in {"attempt", "relay"}, models \in Seq(Models) :
           Become(r, [job[r] EXCEPT !.pc = stage, !.todo = models])
    BY <2>1
  <2>3. PICK k : k = [job[r] EXCEPT !.pc = stage, !.todo = models]
    OBVIOUS
  <2>4. k \in Job /\ k.pc = stage /\ k.held = job[r].held /\ k.req = job[r].req
    BY <1>0, <2>2, <2>3 DEF Job, Stage
  <2> HIDE DEF Quiet
  <2> QED
    BY <1>1, <2>1, <2>2, <2>3, <2>4
<1>12. CASE AllFailed(r)
  <2> DEFINE next == [job[r] EXCEPT !.pc = Settle(r), !.reply = "failed"]
  <2>1. Become(r, next) /\ job[r].pc = "attempt" /\ Quiet
    BY <1>12 DEF AllFailed, At
  <2>2. /\ next \in Job /\ next.pc \in {"release", "log"}
        /\ next.held = job[r].held /\ next.req = job[r].req
    BY <1>0 DEF Job, Stage, Reply, Settle
  <2> HIDE DEF next, Quiet
  <2> QED
    BY <1>1, <2>1, <2>2 DEF Owing
<1>13. CASE Answered(r) \/ Relay(r)
  <2>1. /\ job[r].todo # <<>> /\ job[r].pc \in Owing /\ Quiet
        /\ \E t \in Usage(job[r].req), stage \in {"log", "release"}, how \in Reply :
              Become(r, [job[r] EXCEPT !.pc = stage, !.reply = how,
                                       !.cost = Cost[Head(job[r].todo)][t]])
    <3>1. CASE Answered(r)
      BY <3>1 DEF Answered, At, Owing, Reply
    <3>2. CASE Relay(r)
      BY <1>0, <3>2 DEF Relay, At, Owing, Reply, SlotInv
    <3> QED
      BY <1>13, <3>1, <3>2
  <2>2. PICK t \in Usage(job[r].req), stage \in {"log", "release"}, how \in Reply :
              Become(r, [job[r] EXCEPT !.pc = stage, !.reply = how,
                                       !.cost = Cost[Head(job[r].todo)][t]])
    BY <2>1
  <2>3. PICK c : c = Cost[Head(job[r].todo)][t]
    OBVIOUS
  <2>4. c \in Nat
    <3>1. job \in [Slots -> Job]
      BY <1>0 DEF Inv, TypeOK
    <3> QED
      BY <2>1, <2>3, <3>1, CostType
  <2>5. PICK k : k = [job[r] EXCEPT !.pc = stage, !.reply = how, !.cost = c]
    OBVIOUS
  <2>6. k \in Job /\ k.pc = stage /\ k.held = job[r].held /\ k.req = job[r].req
    BY <1>0, <2>2, <2>4, <2>5 DEF Job, Stage
  <2>7. Become(r, k)
    BY <2>2, <2>3, <2>5
  <2> HIDE DEF Quiet
  <2> QED
    BY <1>1, <2>1, <2>2, <2>6, <2>7 DEF Owing
<1>14. CASE UploadUnreadable(r)
  <2> DEFINE next == [job[r] EXCEPT !.pc = "release", !.reply = "failed"]
  <2>1. Become(r, next) /\ job[r].pc = "attempt" /\ Quiet
    BY <1>14 DEF UploadUnreadable, At
  <2>2. next \in Job /\ next.pc = "release"
    BY <1>0 DEF Job, Stage, Reply
  <2> HIDE DEF next, Quiet
  <2> QED
    BY <1>1, <2>1, <2>2 DEF Owing
<1>15. CASE Fill(r)
  <2>1. /\ Become(r, Idle) \/ Become(r, at("release"))
        /\ Quiet
    BY <1>15 DEF Fill, Answer, Goto
  <2>2. at("release") \in Job /\ at("release").pc = "release"
    BY <1>0 DEF Job, Stage
  <2> HIDE DEF at, Quiet
  <2> QED
    BY <1>1, <1>2, <2>1, <2>2 DEF Owing
<1>16. CASE Release(r)
  <2> DEFINE settled == [job[r] EXCEPT !.pc = "log", !.held = FALSE]
  <2>1. /\ Become(r, Idle) \/ Become(r, settled)
        /\ Quiet
    BY <1>16 DEF Release, Answer
  <2>2. settled \in Job /\ ~settled.held /\ settled.pc = "log"
    BY <1>0 DEF Job, Stage
  <2> HIDE DEF settled, Quiet
  <2> QED
    BY <1>1, <1>2, <2>1, <2>2
<1>17. CASE Log(r)
  <2> DEFINE c == job[r].cost
             x == Uncovered(r)
  <2>1. /\ job[r].pc = "log" /\ mu' = mu /\ inFlight' = inFlight
        /\ \/ /\ spent' = [spent EXCEPT ![u] = @ + c]
              /\ beyond' = [beyond EXCEPT ![u] = @ + x]
              /\ fresh' = [fresh EXCEPT ![u] = @ + x]
           \/ spent' = spent /\ beyond' = beyond /\ fresh' = fresh
        /\ \/ Become(r, Idle)
           \/ Become(r, at("fill"))
           \/ Become(r, at("release"))
           \/ Become(r, at("synthesize"))
    BY <1>17 DEF Log, AfterLog, At, Answer, Goto
  <2>2. \A stage \in {"fill", "release", "synthesize"} :
           at(stage) \in Job /\ at(stage).pc = stage
    BY <1>0 DEF Job, Stage
  <2> HIDE DEF at
  <2>3. PICK j \in Job : Become(r, j) /\ j.pc \in {"idle", "fill", "release", "synthesize"}
    BY <1>0, <2>1, <2>2
  <2>4. \A v \in Users : OweOf(j, v) = 0
    BY <2>3 DEF OweOf, Owing
  <2>5. Meter(j, ceiling) /\ Orderly(r, j)
    BY <2>1, <2>3 DEF Meter, Orderly
  <2>6. CASE spent' = spent /\ beyond' = beyond /\ fresh' = fresh
    BY <1>0, <2>3, <2>4, <2>5, <2>6, StillMetered DEF Still
  <2>7. CASE /\ spent' = [spent EXCEPT ![u] = @ + c]
             /\ beyond' = [beyond EXCEPT ![u] = @ + x]
             /\ fresh' = [fresh EXCEPT ![u] = @ + x]
    <3>1. /\ x \in Nat /\ c \in Nat /\ x <= c
          /\ ~job[r].held => x = c
          /\ job[r].held => c <= Estimate(job[r].req) + x
      BY <1>0, UncoveredType, JobType
    <3> HIDE DEF c, x
    <3>2. /\ spent'[u] = spent[u] + c /\ beyond'[u] = beyond[u] + x
          /\ fresh'[u] = fresh[u] + x
          /\ \A v \in Users : v # u => /\ spent'[v] = spent[v] /\ beyond'[v] = beyond[v]
                                      /\ fresh'[v] = fresh[v]
      BY <1>0, <2>7 DEF Inv, TypeOK
    <3>3. \A v \in Users : v # u => OweOf(job[r], v) = 0
      BY <1>0 DEF OweOf
    <3>4. c <= OweOf(job[r], u) + x
      <4>1. CASE job[r].held
        <5>1. OweOf(job[r], u) = Estimate(job[r].req)
          BY <1>0, <2>1, <4>1 DEF OweOf, Owing
        <5> QED
          BY <3>1, <4>1, <5>1
      <4>2. CASE ~job[r].held
        BY <1>0, <3>1, <4>2
      <4> QED
        BY <4>1, <4>2
    <3>5. Settles(r, j)
      <4>1. OweOf(j, u) = 0 /\ OweOf(job[r], u) \in Nat
        BY <1>0, <2>4
      <4> QED
        BY <1>0, <3>1, <3>2, <3>4, <4>1 DEF Settles
    <3>6. \A v \in Users : v = u => Counted(v)'
      BY <1>0, <3>1, <3>2 DEF Counted, MeterInv
    <3> QED
      BY <2>3, <2>4, <2>5, <3>2, <3>3, <3>5, <3>6 DEF Metered
  <2> QED
    BY <2>1, <2>6, <2>7
<1> HIDE DEF at, free, u, Quiet
<1> QED
  BY <1>4, <1>5, <1>6, <1>7, <1>8, <1>9, <1>10, <1>11, <1>12, <1>13,
     <1>14, <1>15, <1>16, <1>17 DEF Handle, Proceed, Locking
-----------------------------------------------------------------------------
\* One slot's step moves a user's commitment by that slot's part.
LEMMA CommitmentMove ==
  ASSUME Inv, Inv', NEW r \in Slots, NEW j \in Job, Become(r, j), NEW u \in Users
  PROVE  /\ Commitment(u)' + (spent[u] + OweOf(job[r], u))
              = Commitment(u) + (spent'[u] + OweOf(j, u))
         /\ Commitment(u) \in Nat /\ Commitment(u)' \in Nat
         /\ spent[u] \in Nat /\ spent'[u] \in Nat
         /\ OweOf(job[r], u) \in Nat /\ OweOf(j, u) \in Nat
<1>1. /\ job \in [Slots -> Job] /\ job[r] \in Job
      /\ spent[u] \in Nat /\ spent'[u] \in Nat
  BY DEF Inv, TypeOK
<1>2. /\ Total(N, Owed(u)') + OweOf(job[r], u) = Total(N, Owed(u)) + OweOf(j, u)
      /\ Total(N, Owed(u)') \in Nat /\ Total(N, Owed(u)) \in Nat
  BY <1>1, OwedMove, OwedType
<1>3. Commitment(u)' = spent'[u] + Total(N, Owed(u)')
  BY DEF Commitment
<1>4. Commitment(u) = spent[u] + Total(N, Owed(u))
  BY DEF Commitment
<1>5. OweOf(job[r], u) \in Nat /\ OweOf(j, u) \in Nat
  BY <1>1, OweOfType
<1> QED
  BY <1>1, <1>2, <1>3, <1>4, <1>5

\* The amounts of a user, before and after a step.
LEMMA Amounts ==
  ASSUME Inv, Inv', NEW u \in Users
  PROVE  /\ spent[u] \in Nat /\ beyond[u] \in Nat /\ fresh[u] \in Nat
         /\ inFlight[u] \in Nat /\ ceiling[u] \in Nat
         /\ spent'[u] \in Nat /\ beyond'[u] \in Nat /\ fresh'[u] \in Nat
         /\ inFlight'[u] \in Nat /\ ceiling'[u] \in Nat
BY DEF Inv, TypeOK

\* What a metered step does to the commitments.
LEMMA MeteredCommitments ==
  ASSUME MeterInv, Inv', NEW r \in Slots, NEW j \in Job, Metered(r, j),
         NEW u \in Users
  PROVE  /\ Commitment(u) \in Nat /\ Commitment(u)' \in Nat
         /\ u # User(r) =>
              /\ Commitment(u)' = Commitment(u)
              /\ beyond'[u] = beyond[u] /\ fresh'[u] = fresh[u]
         /\ u = User(r) =>
              /\ Settles(r, j) =>
                   /\ beyond[u] <= beyond'[u]
                   /\ Commitment(u)' + beyond[u] <= Commitment(u) + beyond'[u]
                   /\ \/ Commitment(u)' + fresh[u] <= Commitment(u) + fresh'[u]
                      \/ mu = NoSlot /\ j.pc = "decide"
              /\ Admits(r, j)  =>
                   /\ mu = r
                   /\ Commitment(u)' = Commitment(u) + Estimate(job[r].req)
                   /\ beyond'[u] <= beyond[u]
                   /\ Commitment(u)' <= ceiling[u] + beyond'[u]
<1>0. /\ Inv /\ job[r] \in Job /\ User(r) = job[r].req.user
      /\ Become(r, j)
      /\ Estimate(job[r].req) \in Nat /\ job[r].seen \in Nat /\ job[r].limit \in Nat
      /\ ceiling[u] \in Nat /\ inFlight[u] \in Nat
      /\ beyond[u] \in Nat /\ beyond'[u] \in Nat /\ fresh[u] \in Nat /\ fresh'[u] \in Nat
  BY JobType, RequestType, Amounts DEF MeterInv, Inv, TypeOK, User, Metered
<1>1. /\ Commitment(u)' + (spent[u] + OweOf(job[r], u))
           = Commitment(u) + (spent'[u] + OweOf(j, u))
      /\ Commitment(u) \in Nat /\ Commitment(u)' \in Nat
      /\ spent[u] \in Nat /\ spent'[u] \in Nat
      /\ OweOf(job[r], u) \in Nat /\ OweOf(j, u) \in Nat
  BY <1>0, CommitmentMove
<1>2. ASSUME u # User(r)
      PROVE  /\ Commitment(u)' = Commitment(u)
             /\ beyond'[u] = beyond[u] /\ fresh'[u] = fresh[u]
  <2>1. /\ spent'[u] = spent[u] /\ OweOf(j, u) = OweOf(job[r], u)
        /\ beyond'[u] = beyond[u] /\ fresh'[u] = fresh[u]
    BY <1>2 DEF Metered
  <2> QED
    BY <1>1, <2>1
<1>3. ASSUME u = User(r), Settles(r, j)
      PROVE  /\ beyond[u] <= beyond'[u]
             /\ Commitment(u)' + beyond[u] <= Commitment(u) + beyond'[u]
             /\ \/ Commitment(u)' + fresh[u] <= Commitment(u) + fresh'[u]
                \/ mu = NoSlot /\ j.pc = "decide"
  <2>1. /\ beyond[u] <= beyond'[u]
        /\ spent'[u] + OweOf(j, u) + beyond[u] <= spent[u] + OweOf(job[r], u) + beyond'[u]
        /\ \/ spent'[u] + OweOf(j, u) + fresh[u] <= spent[u] + OweOf(job[r], u) + fresh'[u]
           \/ mu = NoSlot /\ j.pc = "decide"
    BY <1>3 DEF Settles
  <2> QED
    BY <1>0, <1>1, <2>1
<1>4. ASSUME u = User(r), Admits(r, j)
      PROVE  /\ mu = r
             /\ Commitment(u)' = Commitment(u) + Estimate(job[r].req)
             /\ beyond'[u] <= beyond[u]
             /\ Commitment(u)' <= ceiling[u] + beyond'[u]
  <2>1. /\ spent'[u] = spent[u] /\ OweOf(job[r], u) = 0 /\ beyond'[u] = fresh[u]
        /\ OweOf(j, u) = Estimate(job[r].req)
    BY <1>4 DEF Admits
  <2>2. Commitment(u)' = Commitment(u) + Estimate(job[r].req)
    BY <1>1, <2>1
  <2>3. mu = r /\ Commitment(u) <= job[r].seen + inFlight[u] + fresh[u]
    BY <1>4 DEF MeterInv, Locked, Admits
  <2>4. job[r].limit <= ceiling[u]
    BY <1>0, <1>4 DEF MeterInv, Meter, Admits, At
  <2>5. job[r].seen + inFlight[u] + Estimate(job[r].req) <= job[r].limit
    BY <1>4 DEF Admits, Fits
  <2>6. fresh[u] <= beyond[u]
    BY DEF MeterInv, Counted
  <2> QED
    BY <1>0, <1>1, <2>1, <2>2, <2>3, <2>4, <2>5, <2>6
<1> QED
  BY <1>1, <1>2, <1>3, <1>4

\* A metered step keeps the invariant.
LEMMA MeteredKeeps ==
  ASSUME MeterInv, Inv', NEW r \in Slots, NEW j \in Job, Metered(r, j),
         settings' = settings, ceiling' = ceiling
  PROVE  MeterInv'
<1>0. /\ Inv /\ job \in [Slots -> Job]
      /\ \A i \in Slots : /\ job[i] \in Job /\ User(i) = job[i].req.user
                         /\ User(i) \in Users /\ i # NoSlot
  <2>1. Inv /\ job \in [Slots -> Job]
    BY DEF MeterInv, Inv, TypeOK
  <2>2. \A i \in Slots : i # NoSlot
    BY GatewayAssumption DEF Slots, NoSlot
  <2>3. \A i \in Slots : job[i] \in Job /\ job[i].req.user \in Users
    BY <2>1, JobType
  <2> QED
    BY <2>1, <2>2, <2>3 DEF User
<1>1. /\ job'[r] = j /\ \A i \in Slots : i # r => job'[i] = job[i]
  BY <1>0, BecomeEffect DEF Metered
<1>2. \A i \in Slots : Meter(job'[i], ceiling')
  BY <1>1 DEF Metered, MeterInv
<1>3. ASSUME NEW u \in Users
      PROVE  Counted(u)'
  <2>1. CASE u = User(r)
    BY <2>1 DEF Metered
  <2>2. CASE u # User(r)
    <3>1. spent'[u] = spent[u] /\ beyond'[u] = beyond[u] /\ fresh'[u] = fresh[u]
      BY <2>2 DEF Metered
    <3> QED
      BY <3>1 DEF MeterInv, Counted
  <2> QED
    BY <2>1, <2>2
<1>4. ASSUME NEW i \in Slots, i # r
      PROVE  Locked(i)'
  <2> SUFFICES ASSUME At(i, "decide")'
               PROVE  /\ mu' = i
                      /\ \A u \in Users : u = User(i)' =>
                            Commitment(u)' <= job'[i].seen + inFlight'[u] + fresh'[u]
    BY DEF Locked
  <2>1. At(i, "decide") /\ User(i)' = User(i) /\ job'[i] = job[i]
    BY <1>1, <1>4 DEF At, User
  <2>2. mu = i
    BY <2>1 DEF MeterInv, Locked
  <2>3. mu' = i /\ inFlight' = inFlight
    BY <1>0, <1>4, <2>2 DEF Metered, Orderly
  <2>4. ASSUME NEW u \in Users, u = User(i)
        PROVE  Commitment(u)' <= job[i].seen + inFlight[u] + fresh'[u]
    <3>1. Commitment(u) <= job[i].seen + inFlight[u] + fresh[u]
      BY <2>1, <2>4 DEF MeterInv, Locked
    <3>2. /\ Commitment(u) \in Nat /\ Commitment(u)' \in Nat
          /\ job[i].seen \in Nat /\ inFlight[u] \in Nat
          /\ fresh[u] \in Nat /\ fresh'[u] \in Nat
      BY <1>0, MeteredCommitments, JobType, Amounts
    <3>3. Commitment(u)' + fresh[u] <= Commitment(u) + fresh'[u]
      <4>1. CASE u # User(r)
        BY <3>2, <4>1, MeteredCommitments
      <4>2. CASE u = User(r)
        <5>1. ~Admits(r, j) /\ mu # NoSlot
          BY <1>0, <1>4, <2>2, <4>2, MeteredCommitments
        <5> QED
          BY <4>2, <5>1, MeteredCommitments DEF Metered
      <4> QED
        BY <4>1, <4>2
    <3> QED
      BY <3>1, <3>2, <3>3
  <2> QED
    BY <2>1, <2>3, <2>4
<1>5. Locked(r)'
  <2> SUFFICES ASSUME At(r, "decide")'
               PROVE  /\ mu' = r
                      /\ \A u \in Users : u = User(r)' =>
                            Commitment(u)' <= job'[r].seen + inFlight'[u] + fresh'[u]
    BY DEF Locked
  <2>1. j.pc = "decide"
    BY <1>1 DEF At
  <2>2. /\ mu' = r /\ User(r)' = User(r) /\ spent[User(r)] <= j.seen
        /\ inFlight' = inFlight /\ spent' = spent
    BY <1>1, <2>1 DEF Metered, Orderly, User
  <2>3. ASSUME NEW u \in Users, u = User(r)
        PROVE  Commitment(u)' <= j.seen + inFlight[u] + fresh'[u]
    <3>1. Commitment(u) <= spent[u] + inFlight[u] /\ spent[u] <= j.seen
      BY <1>0, <2>2, <2>3, CommitmentCounted
    <3>2. OweOf(j, u) = 0
      BY <2>1 DEF OweOf, Owing
    <3>3. /\ spent[u] \in Nat /\ inFlight[u] \in Nat /\ j.seen \in Nat
          /\ fresh'[u] \in Nat
      BY <1>0, Amounts, JobType
    <3>4. /\ Commitment(u)' + (spent[u] + OweOf(job[r], u))
               = Commitment(u) + (spent'[u] + OweOf(j, u))
          /\ Commitment(u) \in Nat /\ Commitment(u)' \in Nat
          /\ OweOf(job[r], u) \in Nat
      BY <1>0, CommitmentMove DEF Metered
    <3>5. Commitment(u)' <= Commitment(u)
      BY <2>2, <3>2, <3>3, <3>4
    <3> QED
      BY <3>1, <3>3, <3>4, <3>5
  <2> QED
    BY <1>1, <2>2, <2>3
<1> QED
  BY <1>2, <1>3, <1>4, <1>5 DEF MeterInv
-----------------------------------------------------------------------------
\* An arriving request owes nothing yet.
LEMMA ArriveMeters ==
  ASSUME MeterInv, NEW r \in Slots, NEW q \in Requests, Arrive(r, q)
  PROVE  \E j \in Job : Metered(r, j)
<1> DEFINE j == [Idle EXCEPT !.pc = IF Cacheable(q.kind) THEN "lookup" ELSE "check",
                             !.req = q]
<1>1. /\ Become(r, j) /\ inFlight' = inFlight /\ mu' = mu
      /\ spent' = spent /\ beyond' = beyond /\ fresh' = fresh
  BY DEF Arrive
<1>2. j \in Job /\ j.pc \in {"lookup", "check"} /\ ~j.held
  BY IdleType DEF Idle, Job, Stage
<1> HIDE DEF j
<1>3. \A v \in Users : OweOf(job[r], v) \in Nat
  BY OweOfType DEF MeterInv, Inv, TypeOK
<1>4. \A v \in Users : OweOf(j, v) = 0
  BY <1>2 DEF OweOf
<1>5. Meter(j, ceiling)
  BY <1>2 DEF Meter
<1>6. Still(r, j)
  BY <1>1, <1>2, <1>3, <1>4, <1>5 DEF Still, Orderly
<1> QED
  BY <1>2, <1>6, StillMetered

\* Steps of the slots keep settings and ceilings.
LEMMA SlotSteps ==
  ASSUME MeterInv, Next, ~Environment
  PROVE  \E r \in Slots, j \in Job :
            Metered(r, j) /\ settings' = settings /\ ceiling' = ceiling
<1>1. CASE \E r \in Slots, q \in Requests : Arrive(r, q)
  <2>1. PICK r \in Slots, q \in Requests : Arrive(r, q)
    BY <1>1
  <2>2. settings' = settings /\ ceiling' = ceiling
    BY <2>1 DEF Arrive
  <2> QED
    BY <2>1, <2>2, ArriveMeters
<1>2. CASE \E r \in Slots : Handle(r)
  <2>1. PICK r \in Slots : Handle(r)
    BY <1>2
  <2>2. settings' = settings /\ ceiling' = ceiling
    BY <2>1, HandlerTypes DEF MeterInv
  <2> QED
    BY <2>1, <2>2, HandlerMeters
<1> QED
  BY <1>1, <1>2 DEF Next

\* The ceilings only rise, and cover the budgets in force.
LEMMA RaisedCovers ==
  ASSUME Inv, NEW b, BudgetMap(b), NEW u \in Users
  PROVE  /\ Raised(b)[u] \in Nat /\ Raised(b)[u] >= ceiling[u]
         /\ u \in DOMAIN b => b[u] <= Raised(b)[u]
<1>1. ceiling[u] \in Nat /\ (u \in DOMAIN b => b[u] \in Nat)
  BY DEF Inv, TypeOK, BudgetMap
<1>2. Raised(b)[u] = IF u \in DOMAIN b /\ b[u] > ceiling[u] THEN b[u] ELSE ceiling[u]
  BY DEF Raised
<1> QED
  BY <1>1, <1>2

\* What midnight does to the slots.
LEMMA MidnightShape ==
  ASSUME Inv, Midnight
  PROVE  \A r \in Slots :
            /\ job'[r].pc = job[r].pc /\ job'[r].req = job[r].req
            /\ job'[r].held = job[r].held /\ job'[r].limit = job[r].limit
            /\ job'[r].seen = job[r].seen
<1> SUFFICES ASSUME NEW r \in Slots
             PROVE  /\ job'[r].pc = job[r].pc /\ job'[r].req = job[r].req
                    /\ job'[r].held = job[r].held /\ job'[r].limit = job[r].limit
                    /\ job'[r].seen = job[r].seen
  OBVIOUS
<1>1. PICK b : job'[r] = [job[r] EXCEPT !.stale = b]
  BY DEF Midnight
<1>2. job[r] \in Job
  BY DEF Inv, TypeOK
<1> QED
  BY <1>1, <1>2 DEF Job

\* Commitments are amounts.  (An action-level twin of CommitmentCounted.)
LEMMA CommitmentTyped == Inv' => \A u \in Users : Commitment(u)' \in Nat
<1> SUFFICES ASSUME Inv', NEW u \in Users PROVE Commitment(u)' \in Nat
  OBVIOUS
<1>1. spent'[u] \in Nat /\ job' \in [Slots -> Job]
  BY DEF Inv, TypeOK
<1>2. [i \in 1..N |-> OweOf(job'[i], u)] \in [1..N -> Nat]
  BY <1>1, OweOfType DEF Slots
<1>3. Owed(u)' = [i \in 1..N |-> OweOf(job'[i], u)]
  BY DEF Owed, Owes, OweOf, Owing, User, Slots
<1>4. Total(N, Owed(u)') \in Nat
  BY <1>2, <1>3, TotalType, GatewayAssumption
<1> QED
  BY <1>1, <1>4 DEF Commitment

\* What the surroundings do to the account of user u.
Lowers(u) ==
  /\ beyond'[u] <= beyond[u]
  /\ Commitment(u)' + beyond[u] <= Commitment(u) + beyond'[u]

\* The surroundings only lower a commitment, and keep the invariant.
LEMMA SurroundingsKeep ==
  ASSUME MeterInv, Inv', Environment \/ UNCHANGED vars
  PROVE  MeterInv' /\ \A u \in Users : Lowers(u)
<1>0. /\ Inv /\ NoSlot \notin Slots
      /\ \A r \in Slots : /\ job[r] \in Job /\ User(r) \in Users
                          /\ User(r) = job[r].req.user
                          /\ Meter(job[r], ceiling) /\ Locked(r)
      /\ \A u \in DOMAIN settings.budget : settings.budget[u] <= ceiling[u]
      /\ \A u \in Users : Commitment(u) \in Nat /\ Commitment(u)' \in Nat
      /\ \A u \in Users : spent[u] \in Nat /\ beyond[u] \in Nat /\ fresh[u] \in Nat
      /\ \A u \in Users : Counted(u)
  <2>1. Inv /\ job \in [Slots -> Job]
    BY DEF MeterInv, Inv, TypeOK
  <2>2. NoSlot \notin Slots
    BY GatewayAssumption DEF Slots, NoSlot
  <2>3. \A r \in Slots : job[r] \in Job /\ job[r].req.user \in Users
    BY <2>1, JobType
  <2>4. \A u \in Users : Commitment(u) \in Nat
    BY <2>1, CommitmentCounted
  <2>5. \A u \in Users : Commitment(u)' \in Nat
    BY CommitmentTyped
  <2>6. \A u \in Users : spent[u] \in Nat /\ beyond[u] \in Nat /\ fresh[u] \in Nat
    BY <2>1 DEF Inv, TypeOK
  <2> QED
    BY <2>1, <2>2, <2>3, <2>4, <2>5, <2>6 DEF MeterInv, User
<1>1. ASSUME NEW s \in SettingsChoices, ApplySettings(s)
      PROVE  MeterInv' /\ \A u \in Users : Lowers(u)
  <2>1. /\ settings' = s /\ ceiling' = Raised(s.budget) /\ BudgetMap(s.budget)
        /\ UNCHANGED <<beyond, fresh, spent, inFlight, mu, job>>
    BY <1>1, GatewayAssumption DEF ApplySettings
  <2>2. \A u \in Users : Commitment(u)' = Commitment(u)
    BY <2>1 DEF Commitment, Owed, Owes, User
  <2>3. \A u \in Users : ceiling'[u] >= ceiling[u] /\ ceiling'[u] \in Nat
                         /\ ceiling[u] \in Nat
    BY <1>0, <2>1, RaisedCovers DEF Inv, TypeOK
  <2>4. \A u \in DOMAIN s.budget : s.budget[u] <= ceiling'[u]
    BY <1>0, <2>1, RaisedCovers DEF BudgetMap
  <2>5. ASSUME NEW r \in Slots
        PROVE  Meter(job'[r], ceiling')
    <3>1. job[r].limit \in Nat /\ job[r].req.user \in Users
      BY <1>0, JobType
    <3>2. Meter(job[r], ceiling)
      BY <1>0
    <3> QED
      BY <2>1, <2>3, <3>1, <3>2 DEF Meter
  <2>6. \A r \in Slots : Locked(r)'
    BY <1>0, <2>1, <2>2 DEF Locked, At, User
  <2>7. \A u \in Users : Counted(u)' /\ Lowers(u)
    BY <1>0, <2>1, <2>2 DEF Counted, Lowers
  <2> QED
    BY <2>1, <2>2, <2>4, <2>5, <2>6, <2>7 DEF MeterInv
<1>2. ASSUME UNCHANGED <<settings, ceiling, beyond, fresh, spent, inFlight, mu, job>>
      PROVE  MeterInv' /\ \A u \in Users : Lowers(u)
  <2>1. \A u \in Users : Commitment(u)' = Commitment(u)
    BY <1>2 DEF Commitment, Owed, Owes, User
  <2>2. \A r \in Slots : Locked(r)'
    BY <1>0, <1>2, <2>1 DEF Locked, At, User
  <2>3. \A u \in Users : Counted(u)' /\ Lowers(u)
    BY <1>0, <1>2, <2>1 DEF Counted, Lowers
  <2> QED
    BY <1>0, <1>2, <2>1, <2>2, <2>3 DEF MeterInv
<1>3. ASSUME Midnight
      PROVE  MeterInv' /\ \A u \in Users : Lowers(u)
  <2>1. /\ UNCHANGED <<settings, ceiling, inFlight, mu>>
        /\ spent' = [u \in Users |-> 0] /\ beyond' = [u \in Users |-> 0]
        /\ fresh' = [u \in Users |-> 0]
    BY <1>3 DEF Midnight
  <2>2. \A r \in Slots :
            /\ job'[r].pc = job[r].pc /\ job'[r].req = job[r].req
            /\ job'[r].held = job[r].held /\ job'[r].limit = job[r].limit
            /\ job'[r].seen = job[r].seen
    BY <1>0, <1>3, MidnightShape
  <2>3. \A u \in Users : Owed(u)' = Owed(u)
    BY <2>2 DEF Owed, Owes, User
  <2>4. ASSUME NEW u \in Users
        PROVE  /\ Commitment(u)' = Total(N, Owed(u)) /\ Commitment(u)' <= inFlight[u]
               /\ Lowers(u) /\ Counted(u)'
    <3>1. /\ Commitment(u) <= spent[u] + inFlight[u]
          /\ Commitment(u) = spent[u] + Total(N, Owed(u)) /\ Total(N, Owed(u)) \in Nat
      BY <1>0, CommitmentCounted
    <3>2. Commitment(u)' = 0 + Total(N, Owed(u))
      BY <2>1, <2>3 DEF Commitment
    <3>3. /\ beyond[u] <= spent[u] /\ inFlight[u] \in Nat
          /\ spent'[u] = 0 /\ beyond'[u] = 0 /\ fresh'[u] = 0
      BY <1>0, <2>1 DEF Counted, Inv, TypeOK
    <3>4. Commitment(u)' = Total(N, Owed(u)) /\ Commitment(u)' <= inFlight[u]
      BY <1>0, <3>1, <3>2, <3>3
    <3>5. Lowers(u)
      BY <1>0, <3>1, <3>3, <3>4 DEF Lowers
    <3>6. Counted(u)'
      BY <3>3 DEF Counted
    <3> QED
      BY <3>4, <3>5, <3>6
  <2>5. \A r \in Slots : Meter(job'[r], ceiling')
    BY <1>0, <2>1, <2>2 DEF Meter
  <2>6. ASSUME NEW r \in Slots
        PROVE  Locked(r)'
    <3> SUFFICES ASSUME At(r, "decide")'
                 PROVE  /\ mu' = r
                        /\ \A u \in Users : u = User(r)' =>
                              Commitment(u)' <= job'[r].seen + inFlight'[u] + fresh'[u]
      BY DEF Locked
    <3>1. At(r, "decide") /\ mu = r
      BY <1>0, <2>2 DEF At, Locked
    <3>2. \A u \in Users : job'[r].seen \in Nat /\ inFlight[u] \in Nat /\ fresh'[u] = 0
      BY <1>0, <2>1, <2>2, JobType DEF Inv, TypeOK
    <3> QED
      BY <1>0, <2>1, <2>4, <3>1, <3>2
  <2> QED
    BY <1>0, <2>1, <2>4, <2>5, <2>6 DEF MeterInv
<1>4. ASSUME Crash
      PROVE  MeterInv' /\ \A u \in Users : Lowers(u)
  <2>1. /\ UNCHANGED <<settings, ceiling, beyond, fresh, spent>>
        /\ job' = [r \in Slots |-> Idle]
    BY <1>4 DEF Crash
  <2>2. \A u \in Users : Owed(u)' = [r \in 1..N |-> 0]
    BY <2>1, IdleInv DEF Owed, Owes, Slots
  <2>3. Total(N, [r \in 1..N |-> 0]) = 0
    BY TotalZero, GatewayAssumption
  <2>4. ASSUME NEW u \in Users
        PROVE  Lowers(u) /\ Counted(u)'
    <3>1. Commitment(u)' = spent[u] + 0
      BY <2>1, <2>2, <2>3 DEF Commitment
    <3>2. Commitment(u) = spent[u] + Total(N, Owed(u)) /\ Total(N, Owed(u)) \in Nat
      BY <1>0, CommitmentCounted
    <3> QED
      BY <1>0, <2>1, <3>1, <3>2 DEF Lowers, Counted
  <2>5. \A r \in Slots : Meter(job'[r], ceiling') /\ Locked(r)'
    BY <2>1 DEF Locked, At, Meter, Idle
  <2> QED
    BY <1>0, <2>1, <2>4, <2>5 DEF MeterInv
<1>5. \A k \in Keys : Expire(k) =>
         UNCHANGED <<settings, ceiling, beyond, fresh, spent, inFlight, mu, job>>
  BY DEF Expire
<1>6. UNCHANGED vars =>
         UNCHANGED <<settings, ceiling, beyond, fresh, spent, inFlight, mu, job>>
  BY DEF vars
<1> QED
  BY <1>1, <1>2, <1>3, <1>4, <1>5, <1>6 DEF Environment
-----------------------------------------------------------------------------
LEMMA InitMeter == Init => MeterInv
<1> SUFFICES ASSUME Init PROVE MeterInv
  OBVIOUS
<1>1. Inv
  BY InitInv
<1>2. \A r \in Slots : job[r] = Idle
  BY DEF Init
<1>3. \A r \in Slots : Meter(job[r], ceiling) /\ Locked(r)
  BY <1>2 DEF Locked, At, Meter, Idle
<1>4. \A u \in DOMAIN settings.budget : settings.budget[u] <= ceiling[u]
  BY GatewayAssumption DEF Init, BudgetMap
<1>5. \A u \in Users : Counted(u)
  BY DEF Init, Counted
<1> QED
  BY <1>1, <1>3, <1>4, <1>5 DEF MeterInv

LEMMA NextMeter ==
  ASSUME MeterInv, [Next]_vars
  PROVE  MeterInv'
<1>1. Inv'
  BY NextInv DEF MeterInv
<1>2. CASE Environment \/ UNCHANGED vars
  BY <1>1, <1>2, SurroundingsKeep
<1>3. CASE Next /\ ~Environment
  <2>1. PICK r \in Slots, j \in Job :
           Metered(r, j) /\ settings' = settings /\ ceiling' = ceiling
    BY <1>3, SlotSteps
  <2> QED
    BY <1>1, <2>1, MeteredKeeps
<1> QED
  BY <1>2, <1>3

\* The gateway starts as a ledger with nothing committed.
LEMMA InitLedger == Init => Ledger!Init
<1> SUFFICES ASSUME Init PROVE Ledger!Init
  OBVIOUS
<1>1. Inv /\ job \in [Slots -> Job] /\ \A r \in Slots : job[r] = Idle
  BY InitInv DEF Init, Inv, TypeOK
<1>2. \A u \in Users : Commitment(u) = 0
  <2> SUFFICES ASSUME NEW u \in Users PROVE Commitment(u) = 0
    OBVIOUS
  <2>1. Owed(u) = [r \in 1..N |-> 0]
    BY <1>1, IdleInv DEF Owed, Owes, Slots
  <2>2. Total(N, [r \in 1..N |-> 0]) = 0
    BY TotalZero, GatewayAssumption
  <2>3. spent[u] = 0
    BY DEF Init
  <2> QED
    BY <2>1, <2>2, <2>3 DEF Commitment
<1>3. ceiling \in [Users -> Nat] /\ beyond = [u \in Users |-> 0]
  BY <1>1 DEF Init, Inv, TypeOK
<1> QED
  BY <1>2, <1>3 DEF Ledger!Init

\* Every step of the gateway is a step of the ledger, or none.
LEMMA LedgerStep ==
  ASSUME MeterInv, [Next]_vars
  PROVE  [Ledger!Next]_(Ledger!vars)
<1>1. Inv /\ Inv' /\ MeterInv'
  BY NextInv, NextMeter DEF MeterInv
<1>2. /\ \A u \in Users : Commitment(u) \in Nat /\ Commitment(u)' \in Nat
      /\ ceiling \in [Users -> Nat] /\ ceiling' \in [Users -> Nat]
      /\ beyond \in [Users -> Nat] /\ beyond' \in [Users -> Nat]
  <2>1. \A u \in Users : Commitment(u) \in Nat
    BY <1>1, CommitmentCounted
  <2>2. \A u \in Users : Commitment(u)' \in Nat
    <3>1. Inv' => \A u \in Users : Commitment(u)' \in Nat
      BY CommitmentTyped
    <3> QED
      BY <1>1, <3>1
  <2> QED
    BY <1>1, <2>1, <2>2 DEF Inv, TypeOK
<1>3. [u \in Users |-> Commitment(u)]' \in [Users -> Nat]
  BY <1>2
<1>4. CASE Environment \/ UNCHANGED vars
  <2>1. \A u \in Users : Lowers(u)
    BY <1>1, <1>4, SurroundingsKeep
  <2>2. CASE ceiling' = ceiling
    BY <1>2, <1>3, <2>1, <2>2 DEF Ledger!Next, Ledger!Relax, Lowers
  <2>3. ASSUME NEW s \in SettingsChoices, ApplySettings(s)
        PROVE  Ledger!Next
    <3>1. /\ UNCHANGED <<beyond, spent, job>>
          /\ ceiling' = Raised(s.budget) /\ BudgetMap(s.budget)
      BY <2>3, GatewayAssumption DEF ApplySettings
    <3>2. \A u \in Users : Commitment(u)' = Commitment(u)
      BY <3>1 DEF Commitment, Owed, Owes, User
    <3>3. \A u \in Users : ceiling'[u] >= ceiling[u]
      BY <1>1, <3>1, RaisedCovers
    <3> QED
      BY <1>2, <1>3, <3>1, <3>2, <3>3 DEF Ledger!Next, Ledger!Raise
  <2>4. ceiling' = ceiling \/ \E s \in SettingsChoices : ApplySettings(s)
    BY <1>4 DEF Environment, Expire, Midnight, Crash, vars
  <2> QED
    BY <2>2, <2>3, <2>4
<1>5. CASE Next /\ ~Environment
  <2>1. PICK r \in Slots, j \in Job :
           Metered(r, j) /\ settings' = settings /\ ceiling' = ceiling
    BY <1>5, SlotSteps
  <2>2. PICK w \in Users : w = User(r)
    BY <1>1, JobType DEF Inv, TypeOK, User
  <2>3. Ledger!OnlyFor(w)
    <3>1. \A v \in Users \ {w} : Commitment(v)' = Commitment(v) /\ beyond'[v] = beyond[v]
      BY <1>1, <2>1, <2>2, MeteredCommitments
    <3> QED
      BY <1>2, <2>1, <3>1 DEF Ledger!OnlyFor
  <2>4. CASE Settles(r, j)
    <3>1. /\ beyond[w] <= beyond'[w]
          /\ Commitment(w)' + beyond[w] <= Commitment(w) + beyond'[w]
      BY <1>1, <2>1, <2>2, <2>4, MeteredCommitments
    <3> QED
      BY <1>2, <1>3, <2>3, <3>1 DEF Ledger!Next, Ledger!Spill
  <2>5. CASE Admits(r, j)
    <3>1. beyond'[w] <= beyond[w] /\ Commitment(w)' <= ceiling[w] + beyond'[w]
      BY <1>1, <2>1, <2>2, <2>5, MeteredCommitments
    <3> QED
      BY <1>2, <1>3, <2>3, <3>1 DEF Ledger!Next, Ledger!Admit
  <2> QED
    BY <2>1, <2>4, <2>5 DEF Metered
<1> QED
  BY <1>4, <1>5

\* The gateway implements the budget ledger, whatever the handlers, users,
\* prices, requests, fallback lists and changes of settings.
THEOREM GatewayImplementsLedger == Spec => ImplementsLedger
<1>1. MeterInv /\ [Next]_vars => MeterInv'
  BY NextMeter
<1>2. MeterInv /\ [Next]_vars => [Ledger!Next]_(Ledger!vars)
  BY LedgerStep
<1> QED
  BY <1>1, <1>2, InitMeter, InitLedger, PTL DEF Spec, ImplementsLedger, Ledger!Spec

\* A step of the ledger keeps its promise.
LEMMA PromiseStep ==
  ASSUME Inv, Inv', CommitmentWithinCeiling, [Ledger!Next]_(Ledger!vars)
  PROVE  CommitmentWithinCeiling'
<1> DEFINE C == [u \in Users |-> Commitment(u)]
<1>0. /\ \A u \in Users : C[u] = Commitment(u) /\ C'[u] = Commitment(u)'
      /\ \A u \in Users : C[u] \in Nat /\ C'[u] \in Nat
      /\ ceiling \in [Users -> Nat] /\ ceiling' \in [Users -> Nat]
      /\ beyond \in [Users -> Nat] /\ beyond' \in [Users -> Nat]
      /\ \A u \in Users : C[u] <= ceiling[u] + beyond[u]
  BY CommitmentCounted, CommitmentTyped DEF Inv, TypeOK, CommitmentWithinCeiling
<1> SUFFICES ASSUME NEW u \in Users
             PROVE  C'[u] <= ceiling'[u] + beyond'[u]
  BY <1>0 DEF CommitmentWithinCeiling
<1>1. ASSUME NEW v \in Users, Ledger!Admit(v)
      PROVE  C'[u] <= ceiling'[u] + beyond'[u]
  <2>1. /\ \A w \in Users \ {v} : C'[w] = C[w] /\ beyond'[w] = beyond[w]
        /\ C'[v] <= ceiling[v] + beyond'[v] /\ ceiling' = ceiling
    BY <1>1 DEF Ledger!Admit, Ledger!OnlyFor
  <2> HIDE DEF C
  <2> QED
    BY <1>0, <2>1
<1>2. ASSUME NEW v \in Users, Ledger!Spill(v)
      PROVE  C'[u] <= ceiling'[u] + beyond'[u]
  <2>1. /\ \A w \in Users \ {v} : C'[w] = C[w] /\ beyond'[w] = beyond[w]
        /\ C'[v] + beyond[v] <= C[v] + beyond'[v] /\ ceiling' = ceiling
    BY <1>2 DEF Ledger!Spill, Ledger!OnlyFor
  <2> HIDE DEF C
  <2> QED
    BY <1>0, <2>1
<1>3. CASE Ledger!Relax
  <2>1. C'[u] + beyond[u] <= C[u] + beyond'[u] /\ ceiling' = ceiling
    BY <1>3 DEF Ledger!Relax
  <2> HIDE DEF C
  <2> QED
    BY <1>0, <2>1
<1>4. CASE Ledger!Raise
  <2>1. C' = C /\ ceiling'[u] >= ceiling[u] /\ beyond' = beyond
    BY <1>4 DEF Ledger!Raise
  <2> HIDE DEF C
  <2> QED
    BY <1>0, <2>1
<1>5. CASE UNCHANGED Ledger!vars
  <2>1. C' = C /\ ceiling' = ceiling /\ beyond' = beyond
    BY <1>5 DEF Ledger!vars
  <2> HIDE DEF C
  <2> QED
    BY <1>0, <2>1
<1> QED
  BY <1>1, <1>2, <1>3, <1>4, <1>5 DEF Ledger!Next

\* Concurrent requests cannot jointly overspend a budget: a user's recorded
\* spend and everything the user's requests in flight may still be charged
\* pass the highest limit in force at most by what no reservation covered of
\* the charges recorded since a request was last admitted.
THEOREM NoJointOverspend == Spec => []CommitmentWithinCeiling
<1>1. Init => MeterInv /\ CommitmentWithinCeiling
  <2> SUFFICES ASSUME Init PROVE MeterInv /\ CommitmentWithinCeiling
    OBVIOUS
  <2>1. MeterInv /\ Inv /\ Ledger!Init
    BY InitMeter, InitInv, InitLedger
  <2>2. \A u \in Users : Commitment(u) = 0 /\ ceiling[u] \in Nat /\ beyond[u] \in Nat
    <3>1. [u \in Users |-> Commitment(u)] = [u \in Users |-> 0]
      BY <2>1 DEF Ledger!Init
    <3>2. \A u \in Users : [v \in Users |-> Commitment(v)][u] = 0
      BY <3>1
    <3> QED
      BY <2>1, <3>2 DEF Inv, TypeOK
  <2> QED
    BY <2>1, <2>2 DEF CommitmentWithinCeiling
<1>2. MeterInv /\ CommitmentWithinCeiling /\ [Next]_vars
        => MeterInv' /\ CommitmentWithinCeiling'
  <2> SUFFICES ASSUME MeterInv, CommitmentWithinCeiling, [Next]_vars
               PROVE  MeterInv' /\ CommitmentWithinCeiling'
    OBVIOUS
  <2>1. Inv /\ Inv' /\ MeterInv' /\ [Ledger!Next]_(Ledger!vars)
    BY NextInv, NextMeter, LedgerStep DEF MeterInv
  <2> QED
    BY <2>1, PromiseStep
<1> QED
  BY <1>1, <1>2, PTL DEF Spec
=============================================================================
