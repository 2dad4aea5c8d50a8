---------------------------- MODULE RedisEnforcer ----------------------------
(***************************************************************************)
(* Several FitGuard instances that keep one user's budget in one Redis:    *)
(* RedisEnforcer (internal/budget/redis_enforcer.go) and the handlers'     *)
(* calls of it.                                                            *)
(*                                                                         *)
(* Each slot is one handler goroutine of its instance.  A script runs in   *)
(* Redis in one step; sending it, running it and hearing its reply are     *)
(* separate steps, between which connections break, instances die and      *)
(* midnight passes.  The handler between Reserve and release is Gateway's; *)
(* here it is only what it charges.                                        *)
(***************************************************************************)
EXTENDS Integers, FiniteSets, Sums

CONSTANTS
  N,                \* handler goroutines at most at one time (bound)
  Instances,        \* the FitGuard processes behind the load balancer
  Home,             \* the instance that each slot belongs to
  Users,            \* user ids
  MaxDay,           \* bound: the last day
  Requests,         \* the requests that clients send
  SettingsChoices,  \* the budgets an operator may save on an instance
  FailClosed,       \* budget_backend.fail_closed
  Unreliable,       \* connections to Redis may break
  Resends,          \* the scripts that the client library sends again when it
                    \* hears no reply (once: bound)
  Overruns,         \* a charge may pass its estimate, by MaxOverrun (bound)
  MaxOverrun,
  MaxLate,          \* bound: so many commands given up on and still on the way
  MaxSpend          \* bound: no new request of a user when more than this is
                    \* spent, or missing, on the day

Slots   == 1 .. N
Days    == 0 .. MaxDay
Pairs   == Users \X Days
Request == [user : Users, estimate : Nat]

BudgetMap(b) == DOMAIN b \subseteq Users /\ \A u \in DOMAIN b : b[u] \in Nat

ASSUME RedisAssumption ==
  /\ N \in Nat \ {0}
  /\ Home \in [Slots -> Instances]
  /\ MaxDay \in Nat /\ MaxOverrun \in Nat
  /\ MaxLate \in Nat /\ MaxSpend \in Nat
  /\ Requests \subseteq Request /\ Requests # {}
  /\ \A b \in SettingsChoices : BudgetMap(b)
  /\ {FailClosed, Unreliable, Overruns} \subseteq BOOLEAN
  /\ Resends \subseteq {"reserve", "reconcile"}

VARIABLES
  today,     \* the current UTC date
  settings,  \* each instance's live budgets
  ceiling,   \* history: the highest limit any instance has given each user
  ledger,    \* Redis: the counter under each user's key of each day
  spent,     \* history: what each user's requests of each day were charged
  missing,   \* history: what the counter lacks of the charges (below 0: has
             \* too much), because they passed unreserved or above the estimate
             \* and are not reconciled, or a give-back was sent twice
  beyond,    \* history: at most so much is charged or promised beyond a limit:
             \* what was missing at the last reservation or has been since
  faults,    \* history: whether a connection broke or an instance died
  late,      \* a command of the slot that its sender has given up on
  job        \* each slot's request, where its handler stands, its locals

vars == <<today, settings, ceiling, ledger, spent, missing, beyond, faults, late, job>>

\* reserve, settle: a script is sent, and has not run.  granted, denied,
\* settled: it has run, and its reply is on the way.
Stage == {"idle", "reserve", "granted", "denied", "serve", "settle", "settled"}

\* day, limit: what Reserve read when it was called.  held: release is not a
\* no-op.  cost: the actual cost, once known.  again: the command was re-sent.
Job == [pc : Stage, req : Requests, day : Days, limit : Nat, held : BOOLEAN,
        cost : Nat, again : BOOLEAN]

Idle == [pc |-> "idle", req |-> CHOOSE q \in Requests : TRUE, day |-> 0,
         limit |-> 0, held |-> FALSE, cost |-> 0, again |-> FALSE]

\* KEYS[1] and the arguments of the two scripts.
Command == [script : {"reserve"}, key : Pairs, amount : Nat, limit : Nat]
             \cup [script : {"reconcile"}, key : Pairs, amount : Int \ {0}]
NoCommand == [script |-> "none"]

At(r, stage) == job[r].pc = stage
Become(r, j) == job' = [job EXCEPT ![r] = j]
Goto(r, stage) == Become(r, [job[r] EXCEPT !.pc = stage])
Answer(r) == Become(r, Idle)

\* key, pinned when Reserve is called.
KeyOf(j) == <<j.req.user, j.day>>
Estimate(r) == job[r].req.estimate

\* The delta that release applies.
Delta(j) == j.cost - j.req.estimate

\* What the slot has sent.
Sent(r) ==
  IF At(r, "reserve")
  THEN [script |-> "reserve", key |-> KeyOf(job[r]),
        amount |-> Estimate(r), limit |-> job[r].limit]
  ELSE [script |-> "reconcile", key |-> KeyOf(job[r]), amount |-> Delta(job[r])]

AtLeastNone(x) == IF x < 0 THEN 0 ELSE x

\* The histories, when the counter of p comes to lack x more, and when a
\* charge of x is made up for.
Lacks(p, x) ==
  /\ missing' = [missing EXCEPT ![p] = @ + x]
  /\ beyond'  = [beyond EXCEPT ![p] = @ + x]
MadeUp(p, x) == missing' = [missing EXCEPT ![p] = @ - AtLeastNone(x)]

Charges(q) == 0 .. (q.estimate + IF Overruns THEN MaxOverrun ELSE 0)

Raised(b) == [u \in Users |->
                IF u \in DOMAIN b /\ b[u] > ceiling[u] THEN b[u] ELSE ceiling[u]]
-----------------------------------------------------------------------------
Init ==
  /\ today = 0
  /\ \E b \in SettingsChoices :
        /\ settings = [i \in Instances |-> b]
        /\ ceiling = [u \in Users |-> IF u \in DOMAIN b THEN b[u] ELSE 0]
  /\ ledger = [p \in Pairs |-> 0]
  /\ spent = [p \in Pairs |-> 0]
  /\ missing = [p \in Pairs |-> 0]
  /\ beyond = [p \in Pairs |-> 0]
  /\ faults = FALSE
  /\ late = [r \in Slots |-> NoCommand]
  /\ job = [r \in Slots |-> Idle]
-----------------------------------------------------------------------------
(* Reserve.                                                                *)

\* checkConfigured passes the request on unmetered, or the reserve script is
\* sent under today's key.  (A request refused here changes nothing.)
CheckConfigured(r, q) ==
  LET budget == settings[Home[r]]
      known  == q.user \in DOMAIN budget
      p      == <<q.user, today>>
      start  == [Idle EXCEPT !.req = q, !.day = today]
  IN  /\ At(r, "idle")
      /\ spent[p] <= MaxSpend /\ missing[p] <= MaxSpend
      /\ \/ /\ IF known THEN budget[q.user] = 0 ELSE ~FailClosed
            /\ Become(r, [start EXCEPT !.pc = "serve"])
         \/ /\ known /\ budget[q.user] > 0
            /\ Become(r, [start EXCEPT !.pc = "reserve", !.limit = budget[q.user]])
      /\ UNCHANGED <<today, settings, ceiling, ledger, spent, missing, beyond, faults, late>>

\* Defect: the script compares without the estimate.
FitsWithoutEstimate(p, estimate, limit) == ledger[p] <= limit

Fits(p, estimate, limit) == ledger[p] + estimate <= limit

\* Defect: the script compares but does not add.
ReserveScriptUncommitted(p, estimate, limit) == ledger

\* reserveScript.
ReserveScript(p, estimate, limit) ==
  IF Fits(p, estimate, limit) THEN [ledger EXCEPT ![p] = @ + estimate] ELSE ledger

\* reconcileScript.
ReconcileScript(p, delta) == [ledger EXCEPT ![p] = @ + delta]

ReserveRuns(r) ==
  LET p    == KeyOf(job[r])
      fits == Fits(p, Estimate(r), job[r].limit)
  IN  /\ At(r, "reserve")
      /\ ledger' = ReserveScript(p, Estimate(r), job[r].limit)
      /\ Goto(r, IF fits THEN "granted" ELSE "denied")
      /\ beyond' = IF fits THEN [beyond EXCEPT ![p] = AtLeastNone(missing[p])] ELSE beyond
      /\ UNCHANGED <<today, settings, ceiling, spent, missing, faults, late>>

\* The reply of the reserve script is heard.
Granted(r) ==
  /\ At(r, "granted")
  /\ Become(r, [job[r] EXCEPT !.pc = "serve", !.held = TRUE, !.limit = 0,
                              !.again = FALSE])
  /\ UNCHANGED <<today, settings, ceiling, ledger, spent, missing, beyond, faults, late>>

Denied(r) ==
  /\ At(r, "denied")
  /\ Answer(r)
  /\ UNCHANGED <<today, settings, ceiling, ledger, spent, missing, beyond, faults, late>>

\* A command that has not run when its sender gives up on it may run later.
\* (Bound: one such command of a slot, MaxLate of all.)
LeftBehind(r) ==
  \/ UNCHANGED late
  \/ /\ job[r].pc \in {"reserve", "settle"} /\ late[r] = NoCommand
     /\ Cardinality({s \in Slots : late[s] # NoCommand}) < MaxLate
     /\ late' = [late EXCEPT ![r] = Sent(r)]

\* No reply, or an unusable one: Reserve returns an error, whatever
\* fail_closed says, and the handlers let the request through.
ReserveFails(r) ==
  /\ Unreliable
  /\ job[r].pc \in {"reserve", "granted", "denied"}
  /\ LeftBehind(r)
  /\ Become(r, [job[r] EXCEPT !.pc = "serve", !.limit = 0, !.again = FALSE])
  /\ faults' = TRUE
  /\ UNCHANGED <<today, settings, ceiling, ledger, spent, missing, beyond>>

\* The script that a slot waits for.
Awaited(r) ==
  IF job[r].pc \in {"reserve", "granted", "denied"} THEN "reserve" ELSE "reconcile"

\* The client library has no reply and sends the command once more.
Resend(r) ==
  /\ Unreliable
  /\ job[r].pc \notin {"idle", "serve"} /\ ~job[r].again
  /\ Awaited(r) \in Resends
  /\ Become(r, [job[r] EXCEPT
                  !.pc = IF Awaited(r) = "reserve" THEN "reserve" ELSE "settle",
                  !.again = TRUE])
  /\ LeftBehind(r)
  /\ LET twice == At(r, "settled") \/ (At(r, "settle") /\ late' # late)
     IN  Lacks(KeyOf(job[r]), IF twice THEN AtLeastNone(-Delta(job[r])) ELSE 0)
  /\ faults' = TRUE
  /\ UNCHANGED <<today, settings, ceiling, ledger, spent>>
-----------------------------------------------------------------------------
(* The request is served, and release reconciles.                          *)

\* Defect: a delta of 0 is sent as well.
UnsettledAlways(r, c) == job[r].held

\* Whether release has anything to send.
Unsettled(r, c) == job[r].held /\ c # Estimate(r)

\* What the counter does not have of a charge: what passes the reservation.
\* (Only the properties read it.)
Uncovered(r, c) == AtLeastNone(c - (IF job[r].held THEN Estimate(r) ELSE 0))

\* The actual cost is known; nothing is sent when the estimate was exact.
Finish(r, c) ==
  /\ At(r, "serve")
  /\ spent' = [spent EXCEPT ![KeyOf(job[r])] = @ + c]
  /\ Lacks(KeyOf(job[r]), Uncovered(r, c))
  /\ IF Unsettled(r, c)
     THEN Become(r, [job[r] EXCEPT !.pc = "settle", !.cost = c, !.held = FALSE])
     ELSE Answer(r)
  /\ UNCHANGED <<today, settings, ceiling, ledger, faults, late>>

\* Defect: the key is formed again when the reservation is released.
KeyOfToday(r) == <<job[r].req.user, today>>

\* The key that release reconciles: the one that Reserve pinned.
KeyAtRelease(r) == KeyOf(job[r])

ReconcileRuns(r) ==
  /\ At(r, "settle")
  /\ ledger' = ReconcileScript(KeyAtRelease(r), Delta(job[r]))
  /\ MadeUp(KeyOf(job[r]), Delta(job[r]))
  /\ Goto(r, "settled")
  /\ UNCHANGED <<today, settings, ceiling, spent, beyond, faults, late>>

Released(r) ==
  /\ At(r, "settled")
  /\ Answer(r)
  /\ UNCHANGED <<today, settings, ceiling, ledger, spent, missing, beyond, faults, late>>

\* reconcileTimeout passes, or the connection breaks: best effort.
ReconcileFails(r) ==
  /\ Unreliable
  /\ job[r].pc \in {"settle", "settled"}
  /\ LeftBehind(r)
  /\ Answer(r)
  /\ faults' = TRUE
  /\ UNCHANGED <<today, settings, ceiling, ledger, spent, missing, beyond>>
-----------------------------------------------------------------------------
(* The surroundings.                                                       *)

\* A command that nobody waits for any more reaches Redis.
LateRuns(r) ==
  /\ late[r] # NoCommand
  /\ ledger' = IF late[r].script = "reserve"
               THEN ReserveScript(late[r].key, late[r].amount, late[r].limit)
               ELSE ReconcileScript(late[r].key, late[r].amount)
  /\ IF late[r].script = "reserve" THEN UNCHANGED missing
                                   ELSE MadeUp(late[r].key, late[r].amount)
  /\ late' = [late EXCEPT ![r] = NoCommand]
  /\ UNCHANGED <<today, settings, ceiling, spent, beyond, faults, job>>

\* An operator saves other budgets on one instance; the others keep theirs.
ApplySettings(i, b) ==
  /\ settings' = [settings EXCEPT ![i] = b]
  /\ ceiling' = Raised(b)
  /\ UNCHANGED <<today, ledger, spent, missing, beyond, faults, late, job>>

Midnight ==
  /\ today < MaxDay
  /\ today' = today + 1
  /\ UNCHANGED <<settings, ceiling, ledger, spent, missing, beyond, faults, late, job>>

\* An instance dies and restarts; what its handlers had reserved stays so.
Crash(i) ==
  /\ job' = [r \in Slots |-> IF Home[r] = i THEN Idle ELSE job[r]]
  /\ faults' = TRUE
  /\ UNCHANGED <<today, settings, ceiling, ledger, spent, missing, beyond, late>>
-----------------------------------------------------------------------------
Handler(r) ==
  \/ \E q \in Requests : CheckConfigured(r, q)
  \/ ReserveRuns(r) \/ Granted(r) \/ Denied(r) \/ ReserveFails(r) \/ Resend(r)
  \/ \E c \in Charges(job[r].req) : Finish(r, c)
  \/ ReconcileRuns(r) \/ Released(r) \/ ReconcileFails(r)

Environment ==
  \/ \E r \in Slots : LateRuns(r)
  \/ \E i \in Instances, b \in SettingsChoices : ApplySettings(i, b)
  \/ Midnight
  \/ \E i \in Instances : Crash(i)

Next == (\E r \in Slots : Handler(r)) \/ Environment

Spec == Init /\ [][Next]_vars
-----------------------------------------------------------------------------
\* Every variable keeps its type; no command for a delta of 0 is left behind.
TypeOK ==
  /\ today \in Days
  /\ settings \in [Instances -> SettingsChoices]
  /\ ceiling \in [Users -> Nat]
  /\ ledger \in [Pairs -> Int]
  /\ spent \in [Pairs -> Nat]
  /\ missing \in [Pairs -> Int]
  /\ beyond \in [Pairs -> Nat]
  /\ faults \in BOOLEAN
  /\ late \in [Slots -> Command \cup {NoCommand}]
  /\ job \in [Slots -> Job]

\* What the counter of p holds on account of slot r, above what is spent: its
\* whole estimate while it is reserved, what was not used of it until that is
\* given back, be it by a command whose sender has given up on it.
Pending(j) ==
  IF j.pc = "granted" \/ j.held THEN j.req.estimate
  ELSE IF j.pc = "settle" THEN AtLeastNone(-Delta(j)) ELSE 0
PendingLate(c) == IF c.script = "reconcile" THEN AtLeastNone(-c.amount) ELSE 0

Outstanding(p) ==
  [r \in Slots |->
     (IF KeyOf(job[r]) = p THEN Pending(job[r]) ELSE 0)
       + (IF late[r] # NoCommand /\ late[r].key = p THEN PendingLate(late[r]) ELSE 0)]

\* The ledger never loses a charge: the counter of each user and day, and what
\* is known to be missing from it, cover what the user's requests of that day
\* were charged and what they hold or have still to give back, across
\* instances, broken connections, deaths, midnights and commands that run late
\* or twice; and it is exactly that as long as nothing has failed.
LedgerAccounts ==
  \A p \in Pairs :
     LET account == spent[p] + Total(N, Outstanding(p))
     IN  IF faults THEN ledger[p] + missing[p] >= account
                   ELSE ledger[p] + missing[p] = account

Owed(p) == [r \in Slots |-> IF job[r].held /\ KeyOf(job[r]) = p THEN Estimate(r) ELSE 0]
Commitment(p) == spent[p] + Total(N, Owed(p))

\* The instances together keep each user's budget of each day: what its
\* requests were charged and may still be charged passes the highest limit that
\* any instance has given the user at most by what was missing from the
\* counter when a request was last admitted, or has come to be since.
CommitmentWithinCeiling ==
  \A p \in Pairs : Commitment(p) <= ceiling[p[1]] + beyond[p]

\* Step by step: the shared ledger keeps the promise of BudgetLedger, each
\* day's budget of a user apart.
Ledger == INSTANCE BudgetLedger
            WITH Users <- Pairs,
                 committed <- [p \in Pairs |-> Commitment(p)],
                 ceiling <- [p \in Pairs |-> ceiling[p[1]]]
\* The specification that this one implements.
ImplementsLedger == Ledger!Spec

\* fail_closed is on and no settings give anyone an unmetered limit of 0.
FailsClosed ==
  /\ FailClosed
  /\ \A b \in SettingsChoices : \A u \in DOMAIN b : b[u] > 0

\* Then no request is served without a reservation.
FailClosedMeters ==
  FailsClosed => \A r \in Slots : At(r, "serve") => job[r].held
=============================================================================
