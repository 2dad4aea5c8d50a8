------------------------------- MODULE Gateway -------------------------------
(***************************************************************************)
(* One FitGuard process: the request handlers of internal/proxy, the       *)
(* in-process budget enforcer (MemoryEnforcer), the request log it reads   *)
(* its spend from, the response cache and the live settings.               *)
(*                                                                         *)
(* Each slot is one handler goroutine; a finished slot takes the next      *)
(* request.  The steps of the slots interleave freely; the enforcer's      *)
(* mutex is explicit, because Reserve runs its database query under it.    *)
(* Amounts of money are natural numbers (units of the smallest charge).    *)
(***************************************************************************)
EXTENDS Integers, Sequences, Sums

CONSTANTS
  N,                \* handler goroutines at most at one time (bound)
  Users,            \* user ids
  Default,          \* the user every caller is when no virtual keys exist
  Models,           \* model names a request or the fallback list may carry
  Routed,           \* the models whose provider is configured
  MaxSize,          \* the largest request, in units of usage
  Requests,         \* the requests that clients send
  Cost,             \* Cost[m][t]: the price of t units of usage of model m
  SettingsChoices,  \* the settings an operator may save from the dashboard
  FailClosed,       \* budget_backend.fail_closed
  HasCache,         \* a cache was built at startup
  StoreMayFail,     \* the request log's queries and inserts may fail
  Overruns,         \* providers may bill more usage than was estimated
  MaxSpend          \* bound: no new request of a user past this spend

Kinds    == {"chat", "stream", "embeddings", "image", "speech", "transcription"}
Sizes    == 0 .. MaxSize
Slots    == 1 .. N
NoSlot   == 0

\* The request kinds that look in the cache, and those that fall back.
Cacheable(kind) == kind \in {"chat", "stream", "embeddings"}
FallsBack(kind) == kind \in {"chat", "stream"}

Request == [user : Users, kind : Kinds, model : Models, size : Sizes]

\* users: in the config file is a map, so a user may have no entry at all.
BudgetMap(b) == DOMAIN b \subseteq Users /\ \A u \in DOMAIN b : b[u] \in Nat

\* A cache key hashes the model and the body without "user" and "stream":
\* a streamed and a plain chat request for one prompt share their entry.
Family(kind) == IF kind = "embeddings" THEN "embeddings" ELSE "chat"
Key(q)       == <<Family(q.kind), q.model, q.size>>
Keys         == {Key(q) : q \in Requests}
CacheEntry   == {"none", "whole", "part"}

ASSUME GatewayAssumption ==
  /\ N \in Nat \ {0}
  /\ Default \in Users
  /\ Requests \subseteq Request
  /\ Requests # {}
  /\ Routed \subseteq Models
  /\ MaxSize \in Nat
  /\ Cost \in [Models -> [Sizes -> Nat]]
  /\ \A s \in SettingsChoices :
        /\ BudgetMap(s.budget)
        /\ s.cacheOn \in BOOLEAN
        /\ s.fallback \in Seq(Models)
  /\ FailClosed \in BOOLEAN /\ HasCache \in BOOLEAN
  /\ StoreMayFail \in BOOLEAN /\ Overruns \in BOOLEAN
  /\ MaxSpend \in Nat

Request0 == CHOOSE q \in Requests : TRUE

VARIABLES
  settings,  \* the live settings: budgets, cache switch, fallback list
  keyed,     \* the users to whom some virtual key maps
  ceiling,   \* history: the highest limit each user has been given
  beyond,    \* history: what no reservation covered of the charges recorded
             \* today, since the last check that admitted
  fresh,     \* history: the same, since the log was last read under the mutex
  spent,     \* the request log: each user's recorded cost since midnight UTC
  earlier,   \* the request log: each user's recorded cost of the day before
  inFlight,  \* MemoryEnforcer.inFlight
  mu,        \* the slot that holds MemoryEnforcer.mu, or NoSlot
  cache,     \* the response cache: whole or truncated response per key
  job        \* each slot's request, where its handler stands, its locals

vars == <<settings, keyed, ceiling, beyond, fresh, spent, earlier, inFlight, mu, cache, job>>

Stage == {"idle", "lookup", "synthesize", "check", "query", "decide",
          "dispatch", "attempt", "relay", "log", "fill", "release"}
Reply == {"none", "hit", "whole", "part", "failed"}

\* req: the request.  limit, stale: the limit and the day Reserve read before
\* taking the lock.  seen: the spend it read under the lock.  held: whether a
\* reservation is out.  todo: the models still to try, the one in use first.
\* cost: requestCost.  reply: what came of the request.
Job == [pc : Stage, req : Requests, limit : Nat, stale : BOOLEAN, seen : Nat,
        held : BOOLEAN, todo : Seq(Models), cost : Nat, reply : Reply]

Idle == [pc |-> "idle", req |-> Request0, limit |-> 0, stale |-> FALSE,
         seen |-> 0, held |-> FALSE, todo |-> <<>>, cost |-> 0,
         reply |-> "none"]

User(r) == job[r].req.user
Kind(r) == job[r].req.kind
At(r, stage) == job[r].pc = stage

\* How slot r's record stands after a step; the other slots keep theirs.
Become(r, j) == job' = [job EXCEPT ![r] = j]
Goto(r, stage) == Become(r, [job[r] EXCEPT !.pc = stage])
Answer(r) == Become(r, Idle)

\* EstimateWorstCaseCost and its siblings: priced for the model asked for.
Estimate(q) == Cost[q.model][q.size]

\* The usage a provider may report (a dropped stream reports none).
Usage(q) == IF Overruns THEN Sizes ELSE 0 .. q.size

\* The highest limits once budgets b are in force.
Raised(b) == [u \in Users |->
                IF u \in DOMAIN b /\ b[u] > ceiling[u] THEN b[u] ELSE ceiling[u]]
-----------------------------------------------------------------------------
Init ==
  /\ settings \in SettingsChoices
  /\ keyed \in SUBSET Users
  /\ ceiling = [u \in Users |->
                  IF u \in DOMAIN settings.budget THEN settings.budget[u] ELSE 0]
  /\ beyond = [u \in Users |-> 0]
  /\ fresh = [u \in Users |-> 0]
  /\ spent = [u \in Users |-> 0]
  /\ earlier = [u \in Users |-> 0]
  /\ inFlight = [u \in Users |-> 0]
  /\ mu = NoSlot
  /\ cache = [k \in Keys |-> "none"]
  /\ job = [r \in Slots |-> Idle]
-----------------------------------------------------------------------------
(* A request arrives.  Requests refused for their key or their body change *)
(* no state; the rest look in the cache or go straight to the budget check. *)

\* authenticate: without virtual keys every caller is the one tenant.
Callers == IF keyed = {} THEN {Default} ELSE keyed

Arrive(r, q) ==
  /\ At(r, "idle")
  /\ q.user \in Callers
  /\ spent[q.user] + earlier[q.user] <= MaxSpend
  /\ Become(r, [Idle EXCEPT !.pc = IF Cacheable(q.kind) THEN "lookup" ELSE "check",
                            !.req = q])
  /\ UNCHANGED <<settings, keyed, ceiling, beyond, fresh, spent, earlier, inFlight, mu, cache>>

\* A hit goes to the log at no cost, a miss to the budget check.
LookUp(r) ==
  /\ At(r, "lookup")
  /\ IF settings.cacheOn /\ HasCache /\ cache[Key(job[r].req)] # "none"
     THEN Become(r, [job[r] EXCEPT !.pc = "log", !.reply = "hit"])
     ELSE Goto(r, "check")
  /\ UNCHANGED <<settings, keyed, ceiling, beyond, fresh, spent, earlier, inFlight, mu, cache>>

\* A streamed request replays the cached response as a stream; when the
\* cached body does not parse, the request goes on as if it had missed.
Synthesize(r) ==
  /\ At(r, "synthesize")
  /\ \/ Answer(r)
     \/ Become(r, [job[r] EXCEPT !.pc = "check", !.reply = "none"])
  /\ UNCHANGED <<settings, keyed, ceiling, beyond, fresh, spent, earlier, inFlight, mu, cache>>
-----------------------------------------------------------------------------
(* MemoryEnforcer.Reserve.                                                 *)

\* The request goes on without a reservation.  (Here and below, what Reserve
\* read is dropped when Reserve returns.)
LetThrough(r) ==
  Become(r, [job[r] EXCEPT !.pc = "dispatch", !.limit = 0, !.stale = FALSE])

\* checkConfigured, and the start of the day the spend is counted from.
CheckConfigured(r) ==
  /\ At(r, "check")
  /\ LET budget == settings.budget
         known  == User(r) \in DOMAIN budget
     IN  \/ /\ ~known /\ FailClosed
            /\ Answer(r)
         \/ /\ IF known THEN budget[User(r)] = 0 ELSE ~FailClosed
            /\ LetThrough(r)
         \/ /\ known /\ budget[User(r)] > 0
            /\ Become(r, [job[r] EXCEPT !.pc = "query", !.limit = budget[User(r)]])
  /\ UNCHANGED <<settings, keyed, ceiling, beyond, fresh, spent, earlier, inFlight, mu, cache>>

\* The recorded spend since the day the request read, which may by now be
\* yesterday.
SpendSince(r) ==
  spent[User(r)] + (IF job[r].stale THEN earlier[User(r)] ELSE 0)

\* Defect: the spend is read before the mutex is taken.
QueryUnlocked(r) ==
  /\ At(r, "query") /\ mu = NoSlot
  /\ fresh' = [fresh EXCEPT ![User(r)] = 0]
  /\ Become(r, [job[r] EXCEPT !.pc = "decide", !.stale = FALSE,
                              !.seen = SpendSince(r)])
  /\ UNCHANGED <<settings, keyed, ceiling, beyond, spent, earlier, inFlight, mu, cache>>

\* Take the mutex and query the log; the mutex stays held.
Query(r) ==
  /\ At(r, "query") /\ mu = NoSlot
  /\ mu' = r
  /\ fresh' = [fresh EXCEPT ![User(r)] = 0]
  /\ Become(r, [job[r] EXCEPT !.pc = "decide", !.stale = FALSE,
                              !.seen = SpendSince(r)])
  /\ UNCHANGED <<settings, keyed, ceiling, beyond, spent, earlier, inFlight, cache>>

\* Defect: a failed query lets the request through whatever fail_closed says.
QueryFailsOpen(r) ==
  /\ StoreMayFail
  /\ At(r, "query") /\ mu = NoSlot
  /\ LetThrough(r)
  /\ UNCHANGED <<settings, keyed, ceiling, beyond, fresh, spent, earlier, inFlight, mu, cache>>

\* The query fails: fail_closed refuses, otherwise the handler logs a
\* warning and lets the request through without a reservation.
QueryFails(r) ==
  /\ StoreMayFail
  /\ At(r, "query") /\ mu = NoSlot
  /\ IF FailClosed THEN Answer(r) ELSE LetThrough(r)
  /\ UNCHANGED <<settings, keyed, ceiling, beyond, fresh, spent, earlier, inFlight, mu, cache>>

\* Defect: only settled spend is compared with the limit.
FitsSettledOnly(r) == job[r].seen + Estimate(job[r].req) <= job[r].limit

Fits(r) ==
  job[r].seen + inFlight[User(r)] + Estimate(job[r].req) <= job[r].limit

Admit(r) ==
  /\ At(r, "decide")
  /\ Fits(r)
  /\ inFlight' = [inFlight EXCEPT ![User(r)] = @ + Estimate(job[r].req)]
  /\ mu' = NoSlot
  /\ Become(r, [job[r] EXCEPT !.pc = "dispatch", !.held = TRUE,
                              !.limit = 0, !.seen = 0])
  /\ beyond' = [beyond EXCEPT ![User(r)] = fresh[User(r)]]
  /\ UNCHANGED <<settings, keyed, ceiling, fresh, spent, earlier, cache>>

\* Defect: an early return forgets the mutex.
DenyKeepsLock(r) ==
  /\ At(r, "decide")
  /\ ~Fits(r)
  /\ Answer(r)
  /\ UNCHANGED <<settings, keyed, ceiling, beyond, fresh, spent, earlier, inFlight, mu, cache>>

Deny(r) ==
  /\ At(r, "decide")
  /\ ~Fits(r)
  /\ mu' = NoSlot
  /\ Answer(r)
  /\ UNCHANGED <<settings, keyed, ceiling, beyond, fresh, spent, earlier, inFlight, cache>>
-----------------------------------------------------------------------------
(* Providers.                                                              *)

\* The models to try: the one asked for, then the fallback list as it is now.
Candidates(r) == <<job[r].req.model>> \o
                   (IF FallsBack(Kind(r)) THEN settings.fallback ELSE <<>>)

Dispatch(r) ==
  /\ At(r, "dispatch")
  /\ Become(r, [job[r] EXCEPT !.pc = "attempt", !.todo = Candidates(r)])
  /\ UNCHANGED <<settings, keyed, ceiling, beyond, fresh, spent, earlier, inFlight, mu, cache>>

\* Defect: a stream that no provider opens returns without its release(0).
SettleUnreleased(r) == "log"

\* Where a handler goes once the providers are done with: a stream settles
\* its reservation and then logs, every other handler logs and leaves the
\* settling to its deferred release.
Settle(r) == IF Kind(r) = "stream" THEN "release" ELSE "log"

\* The next model has no configured provider, or the provider fails (an
\* error, a 5xx or a 429); a plain request that runs out of models fails.
TryNext(r) ==
  /\ At(r, "attempt") /\ job[r].todo # <<>>
  /\ Become(r, [job[r] EXCEPT !.todo = Tail(@)])
  /\ UNCHANGED <<settings, keyed, ceiling, beyond, fresh, spent, earlier, inFlight, mu, cache>>

AllFailed(r) ==
  /\ At(r, "attempt") /\ job[r].todo = <<>>
  /\ Become(r, [job[r] EXCEPT !.pc = Settle(r), !.reply = "failed"])
  /\ UNCHANGED <<settings, keyed, ceiling, beyond, fresh, spent, earlier, inFlight, mu, cache>>

\* The provider answers with its usage, priced for the model that answered.
Answered(r) ==
  /\ At(r, "attempt") /\ job[r].todo # <<>>
  /\ Kind(r) # "stream"
  /\ Head(job[r].todo) \in Routed
  /\ \E t \in Usage(job[r].req) :
        Become(r, [job[r] EXCEPT !.pc = "log", !.reply = "whole",
                                 !.cost = Cost[Head(job[r].todo)][t]])
  /\ UNCHANGED <<settings, keyed, ceiling, beyond, fresh, spent, earlier, inFlight, mu, cache>>

\* The provider opens the stream; from here there is no falling back.
StreamOpens(r) ==
  /\ At(r, "attempt") /\ job[r].todo # <<>>
  /\ Kind(r) = "stream"
  /\ Head(job[r].todo) \in Routed
  /\ Goto(r, "relay")
  /\ UNCHANGED <<settings, keyed, ceiling, beyond, fresh, spent, earlier, inFlight, mu, cache>>

\* The stream ends, complete or cut short by either side, with some usage.
Relay(r) ==
  /\ At(r, "relay")
  /\ \E t \in Usage(job[r].req), how \in {"whole", "part"} :
        Become(r, [job[r] EXCEPT !.pc = "release", !.reply = how,
                                 !.cost = Cost[Head(job[r].todo)][t]])
  /\ UNCHANGED <<settings, keyed, ceiling, beyond, fresh, spent, earlier, inFlight, mu, cache>>

\* A transcription's upload cannot be opened: a 400 that is not logged.
UploadUnreadable(r) ==
  /\ At(r, "attempt") /\ job[r].todo # <<>>
  /\ Kind(r) = "transcription"
  /\ Head(job[r].todo) \in Routed
  /\ Become(r, [job[r] EXCEPT !.pc = "release", !.reply = "failed"])
  /\ UNCHANGED <<settings, keyed, ceiling, beyond, fresh, spent, earlier, inFlight, mu, cache>>
-----------------------------------------------------------------------------
(* Afterwards: the request log, the cache, the reservation.                *)

\* Defect: failed responses are cached too.
StorableAlways(r) == Cacheable(Kind(r)) /\ job[r].reply # "none"

\* Whether the response is offered to the cache.
Storable(r) == Cacheable(Kind(r)) /\ job[r].reply \in {"whole", "part"}

\* Defect: a request that is not stored in the cache ends at the log.
AfterLogDone(r) == IF Storable(r) THEN Goto(r, "fill") ELSE Answer(r)

AfterLog(r) ==
  IF job[r].reply = "hit"
  THEN IF Kind(r) = "stream" THEN Goto(r, "synthesize") ELSE Answer(r)
  ELSE IF Storable(r) THEN Goto(r, "fill")
  ELSE IF Kind(r) = "stream" THEN Answer(r) ELSE Goto(r, "release")

\* What no reservation covers of slot r's charge: all of it once the
\* reservation is returned or when there was none, else what passes the
\* estimate.  (Only the properties read it.)
Uncovered(r) ==
  LET covered == IF job[r].held THEN Estimate(job[r].req) ELSE 0
  IN  IF job[r].cost > covered THEN job[r].cost - covered ELSE 0

\* logRequest; an insert that fails is only warned about.
Log(r) ==
  /\ At(r, "log")
  /\ \/ /\ spent' = [spent EXCEPT ![User(r)] = @ + job[r].cost]
        /\ beyond' = [beyond EXCEPT ![User(r)] = @ + Uncovered(r)]
        /\ fresh' = [fresh EXCEPT ![User(r)] = @ + Uncovered(r)]
     \/ StoreMayFail /\ UNCHANGED <<spent, beyond, fresh>>
  /\ AfterLog(r)
  /\ UNCHANGED <<settings, keyed, ceiling, earlier, inFlight, mu, cache>>

Fill(r) ==
  /\ At(r, "fill")
  /\ cache' = IF settings.cacheOn /\ HasCache
              THEN [cache EXCEPT ![Key(job[r].req)] = job[r].reply]
              ELSE cache
  /\ IF Kind(r) = "stream" THEN Answer(r) ELSE Goto(r, "release")
  /\ UNCHANGED <<settings, keyed, ceiling, beyond, fresh, spent, earlier, inFlight, mu>>

\* Release: the reservation's estimate comes off, never below zero.  A
\* request that made no reservation has nothing to release.
Released(u, amount) ==
  [inFlight EXCEPT ![u] = IF @ < amount THEN 0 ELSE @ - amount]

Release(r) ==
  /\ At(r, "release")
  /\ IF job[r].held
     THEN /\ mu = NoSlot
          /\ inFlight' = Released(User(r), Estimate(job[r].req))
     ELSE UNCHANGED inFlight
  /\ IF Kind(r) = "stream"
     THEN Become(r, [job[r] EXCEPT !.pc = "log", !.held = FALSE])
     ELSE Answer(r)
  /\ UNCHANGED <<settings, keyed, ceiling, beyond, fresh, spent, earlier, mu, cache>>
-----------------------------------------------------------------------------
(* The surroundings.                                                       *)

\* An operator saves other settings; they apply at once.  A user with a key
\* must keep an entry, and a user with an entry is issued a key, which ends
\* single-tenant operation.
ApplySettings(s) ==
  /\ keyed \subseteq DOMAIN s.budget
  /\ settings' = s
  /\ keyed' = keyed \cup DOMAIN s.budget
  /\ ceiling' = Raised(s.budget)
  /\ UNCHANGED <<beyond, fresh, spent, earlier, inFlight, mu, cache, job>>

\* A cache entry outlives its TTL.
Expire(k) ==
  /\ cache[k] # "none"
  /\ cache' = [cache EXCEPT ![k] = "none"]
  /\ UNCHANGED <<settings, keyed, ceiling, beyond, fresh, spent, earlier, inFlight, mu, job>>

\* Midnight UTC.  Bound: no Reserve waits for the mutex over two midnights.
Midnight ==
  /\ \A r \in Slots : ~job[r].stale
  /\ earlier' = spent
  /\ spent' = [u \in Users |-> 0]
  /\ beyond' = [u \in Users |-> 0]
  /\ fresh' = [u \in Users |-> 0]
  /\ job' = [r \in Slots |-> [job[r] EXCEPT !.stale = (job[r].pc = "query")]]
  /\ UNCHANGED <<settings, keyed, ceiling, inFlight, mu, cache>>

\* The process dies and restarts: the log and the saved settings survive.
Crash ==
  /\ job' = [r \in Slots |-> Idle]
  /\ inFlight' = [u \in Users |-> 0]
  /\ mu' = NoSlot
  /\ cache' = [k \in Keys |-> "none"]
  /\ UNCHANGED <<settings, keyed, ceiling, beyond, fresh, spent, earlier>>
-----------------------------------------------------------------------------
\* The steps a handler takes by itself, and those that wait for the mutex.
\* Relay is neither: it also waits for the client, and the server sets no
\* write timeout.
Proceed(r) ==
  \/ LookUp(r) \/ Synthesize(r) \/ CheckConfigured(r)
  \/ Admit(r) \/ Deny(r) \/ Dispatch(r)
  \/ TryNext(r) \/ AllFailed(r) \/ Answered(r) \/ StreamOpens(r)
  \/ UploadUnreadable(r)
  \/ Log(r) \/ Fill(r)

Locking(r) == Query(r) \/ QueryFails(r) \/ Release(r)

Handle(r) == Proceed(r) \/ Locking(r) \/ Relay(r)

Environment ==
  \/ \E s \in SettingsChoices : ApplySettings(s)
  \/ \E k \in Keys : Expire(k)
  \/ Midnight
  \/ Crash

Next ==
  \/ \E r \in Slots, q \in Requests : Arrive(r, q)
  \/ \E r \in Slots : Handle(r)
  \/ Environment

Spec == Init /\ [][Next]_vars

\* Go's mutex hands the lock to a waiter that has waited too long, and every
\* provider call ends by the HTTP client's timeout.  Nothing is assumed of
\* Relay: a client that stops reading its stream stops its handler.
Fairness == \A r \in Slots : WF_vars(Proceed(r)) /\ SF_vars(Locking(r))

FairSpec == Spec /\ Fairness
-----------------------------------------------------------------------------
\* Every variable keeps its type.
TypeOK ==
  /\ settings \in SettingsChoices
  /\ keyed \in SUBSET Users
  /\ ceiling \in [Users -> Nat]
  /\ beyond \in [Users -> Nat]
  /\ fresh \in [Users -> Nat]
  /\ spent \in [Users -> Nat]
  /\ earlier \in [Users -> Nat]
  /\ inFlight \in [Users -> Nat]
  /\ mu \in Slots \cup {NoSlot}
  /\ cache \in [Keys -> CacheEntry]
  /\ job \in [Slots -> Job]

\* What each slot holds of user u's budget.
Holds(u) == [r \in Slots |->
               IF job[r].held /\ User(r) = u THEN Estimate(job[r].req) ELSE 0]

\* What each slot may still add to user u's recorded spend: its estimate,
\* until its charge is in the log or it is known that there will be none.
Owes(r) == job[r].held /\ job[r].pc \in {"dispatch", "attempt", "relay", "log"}
Owed(u) == [r \in Slots |->
              IF Owes(r) /\ User(r) = u THEN Estimate(job[r].req) ELSE 0]

Commitment(u) == spent[u] + Total(N, Owed(u))

\* MemoryEnforcer.inFlight is exactly the sum of the reservations that live
\* handlers hold: no path through a handler leaks one or returns it twice, and
\* the clamp at zero in Release never hides a difference.
InFlightIsSumOfHolds == \A u \in Users : inFlight[u] = Total(N, Holds(u))

\* Concurrent requests cannot jointly overspend: a user's recorded spend
\* together with everything the user's requests in flight may still be
\* charged passes the highest limit the user has been given at most by the
\* charges that no reservation covered (a stream's, an unmetered request's, or
\* what passed its estimate), and of those only by the ones recorded since
\* the last request was admitted: no admission adds to an overspend.
CommitmentWithinCeiling ==
  \A u \in Users : Commitment(u) <= ceiling[u] + beyond[u]

\* What an operator hopes to see, and streams break: the day's recorded spend
\* of a user never passes the user's limit.
SpendWithinCeiling == \A u \in Users : spent[u] <= ceiling[u]

\* Step by step: the in-process enforcer keeps the ledger's promise.
Ledger == INSTANCE BudgetLedger
            WITH committed <- [u \in Users |-> Commitment(u)]
ImplementsLedger == Ledger!Spec

\* fail_closed is on and no settings give anyone an unmetered limit of 0.
FailsClosed ==
  /\ FailClosed
  /\ \A s \in SettingsChoices : \A u \in DOMAIN s.budget : s.budget[u] > 0

\* Then no request of anyone reaches a provider without a reservation: not when
\* the spend cannot be read, not when the user's entry disappears from the
\* settings while requests are coming in.
FailClosedMeters ==
  FailsClosed => \A r \in Slots : At(r, "attempt") => job[r].held

\* Every request taken in is answered whose own client goes on reading,
\* whatever the other clients do: a stalled stream keeps neither the mutex nor
\* another request, and the fallback list is run through once.
RequestsAnswered ==
  \A r \in Slots : WF_vars(Relay(r)) => (~At(r, "idle") ~> At(r, "idle"))
=============================================================================
