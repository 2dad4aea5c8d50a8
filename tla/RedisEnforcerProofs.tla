------------------------- MODULE RedisEnforcerProofs -------------------------
(***************************************************************************)
(* Theorems of RedisEnforcer, for any instances, users, requests and       *)
(* budgets, with charges above their estimates and scripts that run twice: *)
(* its types; that the ledger accounts for every charge; that the          *)
(* instances together keep the budgets; and that they implement the        *)
(* abstract BudgetLedger.                                                  *)
(***************************************************************************)
EXTENDS RedisEnforcer, SumsProofs

LEMMA Constants ==
  /\ N \in Nat \ {0} /\ MaxDay \in Nat /\ Home \in [Slots -> Instances]
  /\ \A q \in Requests : q.user \in Users /\ q.estimate \in Nat
  /\ \A b \in SettingsChoices : \A u \in DOMAIN b : u \in Users /\ b[u] \in Nat
BY RedisAssumption DEF Request, BudgetMap

LEMMA IdleTyped ==
  /\ Idle \in Job /\ Idle.pc = "idle" /\ Idle.held = FALSE
<1>1. (CHOOSE q \in Requests : TRUE) \in Requests
  BY RedisAssumption
<1>2. 0 \in Days
  BY RedisAssumption DEF Days
<1> QED
  BY <1>1, <1>2 DEF Idle, Job, Stage

\* The fields of a job.
LEMMA JobTyped ==
  ASSUME NEW j \in Job
  PROVE  /\ j.pc \in Stage /\ j.req \in Requests /\ j.day \in Days
         /\ j.limit \in Nat /\ j.held \in BOOLEAN /\ j.cost \in Nat /\ j.again \in BOOLEAN
         /\ j.req.user \in Users /\ j.req.estimate \in Nat
         /\ KeyOf(j) \in Pairs /\ KeyOf(j)[1] = j.req.user
         /\ Delta(j) \in Int
<1>1. /\ j.pc \in Stage /\ j.req \in Requests /\ j.day \in Days
      /\ j.limit \in Nat /\ j.held \in BOOLEAN /\ j.cost \in Nat /\ j.again \in BOOLEAN
  BY DEF Job
<1>2. j.req.user \in Users /\ j.req.estimate \in Nat
  BY <1>1, Constants
<1> QED
  BY <1>1, <1>2 DEF KeyOf, Pairs, Delta

\* What a step of one slot does to the jobs.
LEMMA BecomeEffect ==
  ASSUME job \in [Slots -> Job], NEW r \in Slots, NEW j \in Job, Become(r, j)
  PROVE  /\ job' \in [Slots -> Job] /\ job'[r] = j
         /\ \A i \in Slots : i # r => job'[i] = job[i]
BY DEF Become

\* NoCommand is none of the commands.
LEMMA CommandTyped ==
  /\ NoCommand \notin Command
  /\ \A c \in Command :
       /\ c.script \in {"reserve", "reconcile"} /\ c.key \in Pairs /\ c.amount \in Int
       /\ c.script = "reserve" => c.amount \in Nat /\ c.limit \in Nat
       /\ c.script = "reconcile" => c.amount # 0
BY DEF Command, NoCommand

\* Only an actual difference is sent.
DeltaInv ==
  \A r \in Slots : job[r].pc \in {"settle", "settled"} => Delta(job[r]) # 0

TypeInv == TypeOK /\ DeltaInv

LEMMA SentTyped ==
  ASSUME TypeInv, NEW r \in Slots, job[r].pc \in {"reserve", "settle"}
  PROVE  Sent(r) \in Command
<1>1. job[r] \in Job
  BY DEF TypeInv, TypeOK
<1>2. /\ KeyOf(job[r]) \in Pairs /\ job[r].req.estimate \in Nat /\ job[r].limit \in Nat
      /\ Delta(job[r]) \in Int
  BY <1>1, JobTyped
<1>3. CASE At(r, "reserve")
  BY <1>2, <1>3 DEF Sent, Command, Estimate
<1>4. CASE ~At(r, "reserve")
  <2>1. Delta(job[r]) # 0
    BY <1>4 DEF TypeInv, DeltaInv, At
  <2> QED
    BY <1>2, <1>4, <2>1 DEF Sent, Command
<1> QED
  BY <1>3, <1>4

LEMMA LeftBehindTyped ==
  ASSUME TypeInv, NEW r \in Slots, LeftBehind(r)
  PROVE  /\ late' \in [Slots -> Command \cup {NoCommand}]
         /\ \A i \in Slots : i # r => late'[i] = late[i]
         /\ late'[r] = late[r] \/ /\ late[r] = NoCommand /\ late'[r] = Sent(r)
                                  /\ job[r].pc \in {"reserve", "settle"}
<1>1. late \in [Slots -> Command \cup {NoCommand}]
  BY DEF TypeInv, TypeOK
<1>2. CASE UNCHANGED late
  BY <1>1, <1>2
<1>3. CASE /\ job[r].pc \in {"reserve", "settle"} /\ late[r] = NoCommand
           /\ late' = [late EXCEPT ![r] = Sent(r)]
  BY <1>1, <1>3, SentTyped
<1> QED
  BY <1>2, <1>3 DEF LeftBehind

LEMMA ScriptsTyped ==
  ASSUME ledger \in [Pairs -> Int], NEW p \in Pairs, NEW n \in Int, NEW limit
  PROVE  /\ ReserveScript(p, n, limit) \in [Pairs -> Int]
         /\ ReconcileScript(p, n) \in [Pairs -> Int]
BY DEF ReserveScript, ReconcileScript

LEMMA AtLeastNoneIs ==
  ASSUME NEW x \in Int
  PROVE  /\ AtLeastNone(x) \in Nat /\ AtLeastNone(x) >= x
         /\ x >= 0 => AtLeastNone(x) = x
         /\ x <= 0 => AtLeastNone(x) = 0
BY DEF AtLeastNone

\* What the two operators on the histories do.
LEMMA LacksEffect ==
  ASSUME missing \in [Pairs -> Int], beyond \in [Pairs -> Nat],
         NEW q \in Pairs, NEW x \in Nat, Lacks(q, x)
  PROVE  /\ missing' \in [Pairs -> Int] /\ beyond' \in [Pairs -> Nat]
         /\ missing'[q] = missing[q] + x /\ beyond'[q] = beyond[q] + x
         /\ \A p \in Pairs : p # q => missing'[p] = missing[p] /\ beyond'[p] = beyond[p]
BY DEF Lacks

LEMMA MadeUpEffect ==
  ASSUME missing \in [Pairs -> Int], NEW q \in Pairs, NEW x \in Int, MadeUp(q, x)
  PROVE  /\ missing' \in [Pairs -> Int]
         /\ missing'[q] = missing[q] - AtLeastNone(x)
         /\ \A p \in Pairs : p # q => missing'[p] = missing[p]
<1>1. AtLeastNone(x) \in Nat
  BY AtLeastNoneIs
<1>2. missing' = [missing EXCEPT ![q] = @ - AtLeastNone(x)]
  BY DEF MadeUp
<1> QED
  BY <1>1, <1>2

\* What a charge of c leaves uncovered.
LEMMA UncoveredIs ==
  ASSUME NEW r, job[r] \in Job, NEW c \in Nat
  PROVE  /\ Uncovered(r, c) \in Nat
         /\ job[r].held => Uncovered(r, c) = AtLeastNone(c - job[r].req.estimate)
         /\ ~job[r].held => Uncovered(r, c) = c
<1>1. job[r].req.estimate \in Nat
  BY JobTyped
<1> QED
  BY <1>1 DEF Uncovered, Estimate, AtLeastNone

\* What sending once more adds to what is missing: a give-back that has run, or
\* that is left behind and may.
Repeated(r) ==
  IF At(r, "settled") \/ (At(r, "settle") /\ late' # late)
  THEN AtLeastNone(-Delta(job[r])) ELSE 0

LEMMA ResendLacks ==
  ASSUME NEW r, job[r] \in Job, Resend(r)
  PROVE  Repeated(r) \in Nat /\ Lacks(KeyOf(job[r]), Repeated(r))
<1>1. -Delta(job[r]) \in Int
  BY JobTyped
<1>2. AtLeastNone(-Delta(job[r])) \in Nat
  BY <1>1, AtLeastNoneIs
<1> QED
  BY <1>2 DEF Resend, Repeated

\* A step of a slot that moves the job only as here keeps the types.
LEMMA SlotTyped ==
  ASSUME TypeInv, NEW r \in Slots, NEW j \in Job, Become(r, j),
         j.pc \in {"settle", "settled"} => Delta(j) # 0,
         ledger' \in [Pairs -> Int], spent' \in [Pairs -> Nat], missing' \in [Pairs -> Int],
         beyond' \in [Pairs -> Nat],
         faults' \in BOOLEAN, late' \in [Slots -> Command \cup {NoCommand}],
         UNCHANGED <<today, settings, ceiling>>
  PROVE  TypeInv'
<1>1. /\ job' \in [Slots -> Job] /\ job'[r] = j
      /\ \A i \in Slots : i # r => job'[i] = job[i]
  BY BecomeEffect DEF TypeInv, TypeOK
<1>2. TypeOK'
  BY <1>1 DEF TypeInv, TypeOK
<1>3. DeltaInv'
  BY <1>1 DEF TypeInv, DeltaInv, Delta
<1> QED
  BY <1>2, <1>3 DEF TypeInv

LEMMA HandlerTyped ==
  ASSUME TypeInv, NEW r \in Slots, Handler(r)
  PROVE  TypeInv'
<1>1. /\ job[r] \in Job /\ ledger \in [Pairs -> Int] /\ spent \in [Pairs -> Nat]
      /\ missing \in [Pairs -> Int] /\ beyond \in [Pairs -> Nat] /\ faults \in BOOLEAN
      /\ late \in [Slots -> Command \cup {NoCommand}]
      /\ today \in Days /\ settings \in [Instances -> SettingsChoices]
  BY DEF TypeInv, TypeOK
<1>2. /\ job[r].req \in Requests /\ job[r].day \in Days /\ job[r].limit \in Nat
      /\ job[r].req.estimate \in Nat /\ KeyOf(job[r]) \in Pairs /\ Delta(job[r]) \in Int
      /\ job[r].cost \in Nat
  BY <1>1, JobTyped
<1>3. ASSUME NEW q \in Requests, CheckConfigured(r, q)
      PROVE  TypeInv'
  <2> DEFINE start == [Idle EXCEPT !.req = q, !.day = today]
  <2>1. start \in Job
    BY <1>1, IdleTyped DEF Job
  <2>2. UNCHANGED <<today, settings, ceiling, ledger, spent, missing, beyond, faults, late>>
    BY <1>3 DEF CheckConfigured
  <2>4. CASE Become(r, [start EXCEPT !.pc = "serve"])
    <3>1. [start EXCEPT !.pc = "serve"] \in Job /\ [start EXCEPT !.pc = "serve"].pc = "serve"
      BY <2>1 DEF Job, Stage
    <3> HIDE DEF start
    <3> QED
      BY <1>1, <2>2, <2>4, <3>1, SlotTyped
  <2>5. CASE /\ q.user \in DOMAIN settings[Home[r]]
             /\ Become(r, [start EXCEPT !.pc = "reserve",
                                        !.limit = settings[Home[r]][q.user]])
    <3>1. settings[Home[r]][q.user] \in Nat
      BY <1>1, <2>5, Constants
    <3> DEFINE j == [start EXCEPT !.pc = "reserve", !.limit = settings[Home[r]][q.user]]
    <3>2. j \in Job /\ j.pc = "reserve"
      BY <2>1, <3>1 DEF Job, Stage
    <3> HIDE DEF start
    <3>3. Become(r, j)
      BY <2>5
    <3> HIDE DEF j
    <3> QED
      BY <1>1, <2>2, <2>5, <3>2, <3>3, SlotTyped
  <2> QED
    BY <1>3, <2>4, <2>5 DEF CheckConfigured
<1>4. CASE ReserveRuns(r)
  <2>1. PICK stage \in {"granted", "denied"} : Goto(r, stage)
    BY <1>4 DEF ReserveRuns
  <2>2. [job[r] EXCEPT !.pc = stage] \in Job /\ [job[r] EXCEPT !.pc = stage].pc = stage
    BY <1>1 DEF Job, Stage
  <2>3. ledger' \in [Pairs -> Int]
    BY <1>1, <1>2, <1>4, ScriptsTyped DEF ReserveRuns, Estimate
  <2>4. UNCHANGED <<today, settings, ceiling, spent, missing, faults, late>>
    BY <1>4 DEF ReserveRuns
  <2>5. beyond' \in [Pairs -> Nat]
    <3>1. missing[KeyOf(job[r])] \in Int
      BY <1>1, <1>2
    <3>2. AtLeastNone(missing[KeyOf(job[r])]) \in Nat
      BY <3>1, AtLeastNoneIs
    <3> QED
      BY <1>1, <1>2, <1>4, <3>2 DEF ReserveRuns
  <2> QED
    BY <1>1, <2>1, <2>2, <2>3, <2>4, <2>5, SlotTyped DEF Goto
<1>5. CASE Granted(r)
  <2> DEFINE j == [job[r] EXCEPT !.pc = "serve", !.held = TRUE, !.limit = 0, !.again = FALSE]
  <2>1. j \in Job /\ j.pc = "serve"
    BY <1>1 DEF Job, Stage
  <2>2. Become(r, j) /\ UNCHANGED <<today, settings, ceiling, ledger, spent, missing, beyond, faults, late>>
    BY <1>5 DEF Granted
  <2> HIDE DEF j
  <2> QED
    BY <1>1, <2>1, <2>2, SlotTyped
<1>6. CASE Denied(r) \/ Released(r)
  <2>1. Become(r, Idle) /\ UNCHANGED <<today, settings, ceiling, ledger, spent, missing, beyond, faults, late>>
    BY <1>6 DEF Denied, Released, Answer
  <2> QED
    BY <1>1, <2>1, IdleTyped, SlotTyped
<1>7. CASE ReserveFails(r)
  <2> DEFINE j == [job[r] EXCEPT !.pc = "serve", !.limit = 0, !.again = FALSE]
  <2>1. j \in Job /\ j.pc = "serve"
    BY <1>1 DEF Job, Stage
  <2>2. /\ Become(r, j) /\ UNCHANGED <<today, settings, ceiling, ledger, spent, missing, beyond>>
        /\ faults' = TRUE
    BY <1>7 DEF ReserveFails
  <2>3. late' \in [Slots -> Command \cup {NoCommand}]
    BY <1>7, LeftBehindTyped DEF ReserveFails
  <2> HIDE DEF j
  <2> QED
    BY <1>1, <2>1, <2>2, <2>3, SlotTyped
<1>8. CASE Resend(r)
  <2>1. PICK stage \in {"reserve", "settle"} :
          /\ Become(r, [job[r] EXCEPT !.pc = stage, !.again = TRUE])
          /\ stage = "settle" => job[r].pc \in {"settle", "settled"}
    BY <1>1, <1>8, JobTyped DEF Resend, Awaited, Stage
  <2> DEFINE j == [job[r] EXCEPT !.pc = stage, !.again = TRUE]
  <2>2. j \in Job /\ j.pc = stage /\ j.req = job[r].req /\ j.cost = job[r].cost
    BY <1>1 DEF Job, Stage
  <2>3. j.pc \in {"settle", "settled"} => Delta(j) # 0
    BY <2>1, <2>2 DEF TypeInv, DeltaInv, Delta
  <2>4. UNCHANGED <<today, settings, ceiling, ledger, spent>> /\ faults' = TRUE
    BY <1>8 DEF Resend
  <2>7. missing' \in [Pairs -> Int] /\ beyond' \in [Pairs -> Nat]
    BY <1>1, <1>2, <1>8, ResendLacks, LacksEffect
  <2>5. late' \in [Slots -> Command \cup {NoCommand}]
    BY <1>8, LeftBehindTyped DEF Resend
  <2>6. Become(r, j)
    BY <2>1
  <2> HIDE DEF j
  <2> QED
    BY <1>1, <2>2, <2>3, <2>4, <2>5, <2>6, <2>7, SlotTyped
<1>9. ASSUME NEW c \in Charges(job[r].req), Finish(r, c)
      PROVE  TypeInv'
  <2>1. c \in Nat
    BY <1>2, RedisAssumption DEF Charges
  <2>2. /\ spent' = [spent EXCEPT ![KeyOf(job[r])] = @ + c]
        /\ UNCHANGED <<today, settings, ceiling, ledger, faults, late>>
    BY <1>9 DEF Finish
  <2>3. spent' \in [Pairs -> Nat]
    BY <1>1, <1>2, <2>1, <2>2
  <2>6. missing' \in [Pairs -> Int] /\ beyond' \in [Pairs -> Nat]
    BY <1>1, <1>2, <1>9, <2>1, UncoveredIs, LacksEffect DEF Finish
  <2>4. CASE Unsettled(r, c) /\ Become(r, [job[r] EXCEPT !.pc = "settle", !.cost = c, !.held = FALSE])
    <3> DEFINE j == [job[r] EXCEPT !.pc = "settle", !.cost = c, !.held = FALSE]
    <3>1. j \in Job /\ j.cost = c /\ j.req = job[r].req
      BY <1>1, <2>1 DEF Job, Stage
    <3>2. Delta(j) # 0
      BY <1>2, <2>1, <2>4, <3>1 DEF Unsettled, Delta, Estimate
    <3>3. Become(r, j)
      BY <2>4
    <3> HIDE DEF j
    <3> QED
      BY <1>1, <2>2, <2>3, <2>6, <3>1, <3>2, <3>3, SlotTyped
  <2>5. CASE Answer(r)
    BY <1>1, <2>2, <2>3, <2>5, <2>6, IdleTyped, SlotTyped DEF Answer
  <2> QED
    BY <1>9, <2>4, <2>5 DEF Finish
<1>10. CASE ReconcileRuns(r)
  <2> DEFINE j == [job[r] EXCEPT !.pc = "settled"]
  <2>1. j \in Job /\ j.cost = job[r].cost /\ j.req = job[r].req
    BY <1>1 DEF Job, Stage
  <2>2. Delta(j) # 0
    BY <1>10, <2>1 DEF ReconcileRuns, At, TypeInv, DeltaInv, Delta
  <2>3. /\ Become(r, j) /\ UNCHANGED <<today, settings, ceiling, spent, beyond, faults, late>>
        /\ ledger' = ReconcileScript(KeyOf(job[r]), Delta(job[r]))
    BY <1>10 DEF ReconcileRuns, Goto, KeyAtRelease
  <2>4. ledger' \in [Pairs -> Int]
    BY <1>1, <1>2, <2>3, ScriptsTyped
  <2>5. missing' \in [Pairs -> Int]
    BY <1>1, <1>2, <1>10, MadeUpEffect DEF ReconcileRuns
  <2> HIDE DEF j
  <2> QED
    BY <1>1, <2>1, <2>2, <2>3, <2>4, <2>5, SlotTyped
<1>11. CASE ReconcileFails(r)
  <2>1. /\ Become(r, Idle) /\ UNCHANGED <<today, settings, ceiling, ledger, spent, missing, beyond>>
        /\ faults' = TRUE
    BY <1>11 DEF ReconcileFails, Answer
  <2>2. late' \in [Slots -> Command \cup {NoCommand}]
    BY <1>11, LeftBehindTyped DEF ReconcileFails
  <2> QED
    BY <1>1, <2>1, <2>2, IdleTyped, SlotTyped
<1> QED
  BY <1>3, <1>4, <1>5, <1>6, <1>7, <1>8, <1>9, <1>10, <1>11 DEF Handler

LEMMA EnvironmentTyped ==
  ASSUME TypeInv, Environment
  PROVE  TypeInv'
<1>1. ASSUME NEW r \in Slots, LateRuns(r)
      PROVE  TypeInv'
  <2>1. late[r] \in Command
    BY <1>1 DEF LateRuns, TypeInv, TypeOK
  <2>2. late[r].key \in Pairs /\ late[r].amount \in Int
    BY <2>1, CommandTyped
  <2>3. ledger' \in [Pairs -> Int]
    BY <1>1, <2>2, ScriptsTyped DEF LateRuns, TypeInv, TypeOK
  <2>4. late' \in [Slots -> Command \cup {NoCommand}]
    BY <1>1 DEF LateRuns, TypeInv, TypeOK
  <2>5. missing' \in [Pairs -> Int]
    BY <1>1, <2>2, MadeUpEffect DEF LateRuns, TypeInv, TypeOK
  <2>6. UNCHANGED <<today, settings, ceiling, spent, beyond, faults, job>>
    BY <1>1 DEF LateRuns
  <2> QED
    BY <2>3, <2>4, <2>5, <2>6 DEF TypeInv, TypeOK, DeltaInv
<1>2. ASSUME NEW i \in Instances, NEW b \in SettingsChoices, ApplySettings(i, b)
      PROVE  TypeInv'
  <2>1. settings' \in [Instances -> SettingsChoices]
    BY <1>2 DEF ApplySettings, TypeInv, TypeOK
  <2>2. ceiling' \in [Users -> Nat]
    BY <1>2, Constants DEF ApplySettings, Raised, TypeInv, TypeOK
  <2> QED
    BY <1>2, <2>1, <2>2 DEF ApplySettings, TypeInv, TypeOK, DeltaInv
<1>3. CASE Midnight
  <2>1. today' \in Days
    BY <1>3, Constants DEF Midnight, Days, TypeInv, TypeOK
  <2> QED
    BY <1>3, <2>1 DEF Midnight, TypeInv, TypeOK, DeltaInv
<1>4. ASSUME NEW i \in Instances, Crash(i)
      PROVE  TypeInv'
  <2>1. \A r \in Slots : job'[r] = Idle \/ job'[r] = job[r]
    BY <1>4 DEF Crash
  <2>2. job' \in [Slots -> Job]
    BY <1>4, IdleTyped DEF Crash, TypeInv, TypeOK
  <2>3. DeltaInv'
    BY <2>1, IdleTyped DEF TypeInv, DeltaInv, Delta
  <2> QED
    BY <1>4, <2>2, <2>3 DEF Crash, TypeInv, TypeOK
<1> QED
  BY <1>1, <1>2, <1>3, <1>4 DEF Environment

LEMMA InitTyped ==
  ASSUME Init
  PROVE  TypeInv
<1>1. PICK b \in SettingsChoices :
        /\ settings = [i \in Instances |-> b]
        /\ ceiling = [u \in Users |-> IF u \in DOMAIN b THEN b[u] ELSE 0]
  BY DEF Init
<1>2. ceiling \in [Users -> Nat]
  BY <1>1, Constants
<1>3. job \in [Slots -> Job] /\ \A r \in Slots : job[r].pc = "idle"
  BY IdleTyped DEF Init
<1>4. today \in Days
  BY Constants DEF Init, Days
<1>5. settings \in [Instances -> SettingsChoices]
  BY <1>1
<1>6. /\ ledger \in [Pairs -> Int] /\ spent \in [Pairs -> Nat]
      /\ missing \in [Pairs -> Int] /\ beyond \in [Pairs -> Nat]
      /\ faults \in BOOLEAN /\ late \in [Slots -> Command \cup {NoCommand}]
  <2>1. /\ ledger = [p \in Pairs |-> 0] /\ spent = [p \in Pairs |-> 0]
        /\ missing = [p \in Pairs |-> 0] /\ beyond = [p \in Pairs |-> 0] /\ faults = FALSE
        /\ late = [r \in Slots |-> NoCommand]
    BY DEF Init
  <2>2. ledger \in [Pairs -> Int] /\ spent \in [Pairs -> Nat]
    BY <2>1
  <2>3. missing \in [Pairs -> Int] /\ beyond \in [Pairs -> Nat]
    BY <2>1
  <2>4. faults \in BOOLEAN
    BY <2>1
  <2> QED
    BY <2>1, <2>2, <2>3, <2>4
<1>7. TypeOK
  BY <1>2, <1>3, <1>4, <1>5, <1>6 DEF TypeOK
<1> QED
  BY <1>3, <1>7 DEF TypeInv, DeltaInv

LEMMA AlwaysTyped == Spec => []TypeInv
<1>1. Init => TypeInv
  BY InitTyped
<1>2. TypeInv /\ [Next]_vars => TypeInv'
  <2>1. TypeInv /\ Next => TypeInv'
    BY HandlerTyped, EnvironmentTyped DEF Next
  <2>2. TypeInv /\ UNCHANGED vars => TypeInv'
    BY DEF vars, TypeInv, TypeOK, DeltaInv
  <2> QED
    BY <2>1, <2>2
<1> QED
  BY <1>1, <1>2, PTL DEF Spec

\* Whatever breaks, dies or comes late, every variable keeps its type; in
\* particular no script is ever sent for a difference of nothing.
THEOREM TypeCorrect == Spec => []TypeOK
<1>1. TypeInv => TypeOK
  BY DEF TypeInv
<1> QED
  BY <1>1, AlwaysTyped, PTL

-----------------------------------------------------------------------------
(* What each slot owes the ledger.                                         *)

\* A held reservation is being served.
JobShape(j) == j.held => j.pc = "serve"

\* The limit that the script compares with is one that the user has been given.
JobInv(j) ==
  /\ JobShape(j)
  /\ j.pc \in {"reserve", "granted", "denied"} => j.limit <= ceiling[j.req.user]

\* Commands are left behind by faults only.
LateInv(c) == c \in Command => faults

SettingsInv == \A i \in Instances : \A u \in DOMAIN settings[i] : settings[i][u] <= ceiling[u]

MeterInv ==
  /\ \A r \in Slots : JobInv(job[r]) /\ LateInv(late[r])
  /\ SettingsInv

\* What slot r has pending on p, by itself and by a command left behind; what
\* the counter was raised by for a request that is still to be charged; and
\* that of it which the slot knows of.
JobTerm(j, p)  == IF KeyOf(j) = p THEN Pending(j) ELSE 0
LateTerm(c, p) == IF c # NoCommand /\ c.key = p THEN PendingLate(c) ELSE 0
HeldTerm(j, p) == IF KeyOf(j) = p /\ (j.pc = "granted" \/ j.held) THEN j.req.estimate ELSE 0
OwedTerm(j, p) == IF j.held /\ KeyOf(j) = p THEN j.req.estimate ELSE 0

Holds(p) == [r \in Slots |-> HeldTerm(job[r], p)]

\* What the script admits by: the counter's reservations pass the ceiling only
\* by what was missing.
CoveredInv ==
  \A p \in Pairs : /\ missing[p] <= beyond[p]
                   /\ spent[p] + Total(N, Holds(p)) <= ceiling[p[1]] + beyond[p]

Books == TypeInv /\ MeterInv /\ LedgerAccounts /\ CoveredInv

LEMMA JobTermIs ==
  ASSUME NEW j \in Job, JobShape(j), NEW p
  PROVE  /\ JobTerm(j, p) \in Nat
         /\ KeyOf(j) # p => JobTerm(j, p) = 0
         /\ KeyOf(j) = p =>
              /\ j.pc = "granted" \/ j.held => JobTerm(j, p) = j.req.estimate
              /\ j.pc = "settle" => JobTerm(j, p) = AtLeastNone(-Delta(j))
         /\ j.pc \in {"idle", "reserve", "denied", "settled"} \/ (j.pc = "serve" /\ ~j.held)
              => JobTerm(j, p) = 0
<1>1. j.req.estimate \in Nat /\ -Delta(j) \in Int
  BY JobTyped
<1>2. j.held => j.pc = "serve"
  BY DEF JobShape
<1>3. AtLeastNone(-Delta(j)) \in Nat
  BY <1>1, AtLeastNoneIs
<1>4. CASE j.pc = "granted" \/ j.held
  BY <1>1, <1>2, <1>4 DEF JobTerm, Pending
<1>5. CASE j.pc = "settle" /\ ~j.held
  BY <1>3, <1>5 DEF JobTerm, Pending
<1>6. CASE j.pc # "granted" /\ ~j.held /\ j.pc # "settle"
  BY <1>6 DEF JobTerm, Pending
<1> QED
  BY <1>2, <1>4, <1>5, <1>6

LEMMA LateTermIs ==
  ASSUME NEW c \in Command \cup {NoCommand}, NEW p
  PROVE  /\ LateTerm(c, p) \in Nat
         /\ c = NoCommand => LateTerm(c, p) = 0
         /\ c \in Command /\ c.script = "reserve" => LateTerm(c, p) = 0
         /\ c \in Command /\ c.key # p => LateTerm(c, p) = 0
         /\ c \in Command /\ c.script = "reconcile" /\ c.key = p
              => LateTerm(c, p) = AtLeastNone(-c.amount)
<1>1. CASE c = NoCommand
  BY <1>1, CommandTyped DEF LateTerm
<1>2. CASE c \in Command /\ c.script = "reserve"
  BY <1>2, CommandTyped DEF LateTerm, PendingLate
<1>3. CASE c \in Command /\ c.script = "reconcile"
  <2>1. -c.amount \in Int /\ c # NoCommand
    BY <1>3, CommandTyped
  <2>2. AtLeastNone(-c.amount) \in Nat
    BY <2>1, AtLeastNoneIs
  <2> QED
    BY <1>3, <2>1, <2>2, CommandTyped DEF LateTerm, PendingLate
<1> QED
  BY <1>1, <1>2, <1>3, CommandTyped

LEMMA HeldTermIs ==
  ASSUME NEW j \in Job, JobShape(j), NEW p
  PROVE  /\ HeldTerm(j, p) \in Nat /\ OwedTerm(j, p) \in Nat
         /\ OwedTerm(j, p) <= HeldTerm(j, p) /\ HeldTerm(j, p) <= JobTerm(j, p)
         /\ KeyOf(j) # p => HeldTerm(j, p) = 0 /\ OwedTerm(j, p) = 0
         /\ ~j.held => OwedTerm(j, p) = 0
         /\ ~j.held /\ j.pc # "granted" => HeldTerm(j, p) = 0
         /\ KeyOf(j) = p /\ (j.held \/ j.pc = "granted") => HeldTerm(j, p) = j.req.estimate
         /\ KeyOf(j) = p /\ j.held => OwedTerm(j, p) = j.req.estimate
<1>1. j.req.estimate \in Nat /\ JobTerm(j, p) \in Nat
  BY JobTyped, JobTermIs
<1>2. KeyOf(j) = p /\ (j.pc = "granted" \/ j.held) => JobTerm(j, p) = j.req.estimate
  BY JobTermIs
<1> QED
  BY <1>1, <1>2 DEF HeldTerm, OwedTerm

\* A step of slot r changes what p's counter has and lacks by as much as p's
\* charges and what is pending on p; or by more, once something has failed.
Accounted(r, p) ==
  LET before == spent[p] + JobTerm(job[r], p) + LateTerm(late[r], p)
      after  == spent'[p] + JobTerm(job'[r], p) + LateTerm(late'[r], p)
      change == (ledger'[p] + missing'[p]) - (ledger[p] + missing[p])
  IN  /\ change >= after - before
      /\ ~faults' => change = after - before

\* It is charged and reserved more only as it is beyond more, or the script has
\* found that it fits.
Covered(r, p) ==
  LET before == spent[p] + HeldTerm(job[r], p)
      after  == spent'[p] + HeldTerm(job'[r], p)
  IN  /\ missing'[p] <= beyond'[p]
      /\ \/ after - before <= beyond'[p] - beyond[p]
         \/ /\ spent'[p] = spent[p] /\ HeldTerm(job[r], p) = 0
            /\ ledger[p] + HeldTerm(job'[r], p) <= ceiling[p[1]]
            /\ beyond'[p] >= missing[p]

\* It moves only q's commitment, and that up only as it is beyond more, or
\* nothing more is beyond.
MovesOnly(r, q) ==
  LET before == spent[q] + OwedTerm(job[r], q)
      after  == spent'[q] + OwedTerm(job'[r], q)
  IN  /\ \A p \in Pairs : p # q => /\ spent'[p] = spent[p] /\ beyond'[p] = beyond[p]
                                   /\ OwedTerm(job'[r], p) = OwedTerm(job[r], p)
      /\ \/ beyond'[q] <= beyond[q]
         \/ after - before <= beyond'[q] - beyond[q]

\* What a slot's step may do.
SlotStep(r) ==
  /\ UNCHANGED <<settings, ceiling>>
  /\ \A i \in Slots : i # r => job'[i] = job[i] /\ late'[i] = late[i]
  /\ faults => faults'
  /\ JobInv(job[r])' /\ LateInv(late[r])'
  /\ \A p \in Pairs : Accounted(r, p) /\ Covered(r, p)
  /\ \E q \in Pairs : MovesOnly(r, q)

LEMMA SlotFacts ==
  ASSUME TypeInv, MeterInv, NEW r \in Slots
  PROVE  /\ job \in [Slots -> Job] /\ job[r] \in Job /\ JobInv(job[r])
         /\ late[r] \in Command \cup {NoCommand} /\ LateInv(late[r])
         /\ JobShape(job[r]) /\ KeyOf(job[r]) \in Pairs
         /\ ledger \in [Pairs -> Int] /\ spent \in [Pairs -> Nat]
         /\ missing \in [Pairs -> Int] /\ beyond \in [Pairs -> Nat]
         /\ ceiling \in [Users -> Nat]
BY JobTyped DEF TypeInv, TypeOK, MeterInv, JobInv

\* The numbers that a slot's step is about.
LEMMA TermsTyped ==
  ASSUME TypeInv, MeterInv, TypeInv', NEW r \in Slots, JobInv(job[r])', NEW p \in Pairs
  PROVE  /\ JobTerm(job[r], p) \in Nat /\ JobTerm(job'[r], p) \in Nat
         /\ LateTerm(late[r], p) \in Nat /\ LateTerm(late'[r], p) \in Nat
         /\ HeldTerm(job[r], p) \in Nat /\ HeldTerm(job'[r], p) \in Nat
         /\ OwedTerm(job[r], p) \in Nat /\ OwedTerm(job'[r], p) \in Nat
         /\ spent[p] \in Nat /\ ledger[p] \in Int /\ missing[p] \in Int /\ beyond[p] \in Nat
         /\ spent'[p] \in Nat /\ ledger'[p] \in Int /\ missing'[p] \in Int
         /\ beyond'[p] \in Nat /\ ceiling[p[1]] \in Nat
<1>1. /\ job[r] \in Job /\ JobShape(job[r]) /\ late[r] \in Command \cup {NoCommand}
  BY SlotFacts
<1>2. /\ job'[r] \in Job /\ JobShape(job'[r]) /\ late'[r] \in Command \cup {NoCommand}
  BY DEF TypeInv, TypeOK, JobInv
<1>3. /\ JobTerm(job[r], p) \in Nat /\ JobTerm(job'[r], p) \in Nat
      /\ LateTerm(late[r], p) \in Nat /\ LateTerm(late'[r], p) \in Nat
  BY <1>1, <1>2, JobTermIs, LateTermIs
<1>4. /\ HeldTerm(job[r], p) \in Nat /\ HeldTerm(job'[r], p) \in Nat
      /\ OwedTerm(job[r], p) \in Nat /\ OwedTerm(job'[r], p) \in Nat
  BY <1>1, <1>2, HeldTermIs
<1>5. /\ spent[p] \in Nat /\ ledger[p] \in Int /\ missing[p] \in Int /\ beyond[p] \in Nat
      /\ spent'[p] \in Nat /\ ledger'[p] \in Int /\ missing'[p] \in Int
      /\ beyond'[p] \in Nat
  BY DEF TypeInv, TypeOK
<1>6. ceiling[p[1]] \in Nat
  BY DEF TypeInv, TypeOK, Pairs
<1> QED
  BY <1>3, <1>4, <1>5, <1>6

\* A step that touches neither the counters nor what was charged, and leaves as
\* much pending, or less and something has failed.
LEMMA QuietStep ==
  ASSUME Books, NEW r \in Slots, TypeInv',
         UNCHANGED <<settings, ceiling, ledger, spent, missing, beyond>>,
         \A i \in Slots : i # r => job'[i] = job[i] /\ late'[i] = late[i],
         faults => faults',
         JobInv(job[r])', LateInv(late[r])',
         \A p \in Pairs :
           LET before == JobTerm(job[r], p) + LateTerm(late[r], p)
               after  == JobTerm(job'[r], p) + LateTerm(late'[r], p)
           IN  before = after \/ (faults' /\ after <= before),
         \A p \in Pairs : HeldTerm(job'[r], p) <= HeldTerm(job[r], p),
         NEW q \in Pairs,
         \A p \in Pairs : p # q => OwedTerm(job'[r], p) = OwedTerm(job[r], p)
  PROVE  SlotStep(r)
<1>1. TypeInv /\ MeterInv /\ CoveredInv
  BY DEF Books
<1>2. ASSUME NEW p \in Pairs
      PROVE  Accounted(r, p)
  <2>1. /\ JobTerm(job[r], p) \in Nat /\ JobTerm(job'[r], p) \in Nat
        /\ LateTerm(late[r], p) \in Nat /\ LateTerm(late'[r], p) \in Nat
        /\ spent[p] \in Nat /\ ledger[p] \in Int /\ missing[p] \in Int
    BY <1>1, TermsTyped
  <2> QED
    BY <2>1 DEF Accounted
<1>3. ASSUME NEW p \in Pairs
      PROVE  Covered(r, p)
  <2>1. /\ HeldTerm(job[r], p) \in Nat /\ HeldTerm(job'[r], p) \in Nat
        /\ spent[p] \in Nat /\ missing[p] \in Int /\ beyond[p] \in Nat
    BY <1>1, TermsTyped
  <2>2. missing[p] <= beyond[p] /\ HeldTerm(job'[r], p) <= HeldTerm(job[r], p)
    BY <1>1 DEF CoveredInv
  <2> QED
    BY <2>1, <2>2 DEF Covered
<1>4. MovesOnly(r, q)
  <2>1. beyond[q] \in Nat
    BY <1>1, TermsTyped
  <2> QED
    BY <2>1 DEF MovesOnly
<1> QED
  BY <1>2, <1>3, <1>4 DEF SlotStep

\* A step after which the slot's job is j.
LEMMA JobAfter ==
  ASSUME TypeInv, NEW r \in Slots, NEW j, Become(r, j)
  PROVE  job'[r] = j /\ \A i \in Slots : i # r => job'[i] = job[i]
BY DEF Become, TypeInv, TypeOK

LEMMA StartStep ==
  ASSUME Books, TypeInv', NEW r \in Slots, NEW q \in Requests, CheckConfigured(r, q)
  PROVE  SlotStep(r)
<1>1. /\ TypeInv /\ MeterInv /\ job[r] \in Job /\ JobShape(job[r]) /\ LateInv(late[r])
      /\ KeyOf(job[r]) \in Pairs
  BY SlotFacts DEF Books
<1>2. /\ UNCHANGED <<settings, ceiling, ledger, spent, missing, beyond, faults, late>>
      /\ job[r].pc = "idle"
  BY DEF CheckConfigured, At
<1>3. LateInv(late[r])'
  BY <1>1, <1>2 DEF LateInv
<1>4. /\ \A i \in Slots : i # r => job'[i] = job[i]
      /\ JobInv(job[r])' /\ ~job'[r].held /\ job'[r].pc \in {"serve", "reserve"}
  <2> DEFINE start == [Idle EXCEPT !.req = q, !.day = today]
  <2>1. /\ start.req = q /\ start.day = today /\ start.held = FALSE /\ start \in Job
    BY <1>1, IdleTyped DEF Job, TypeInv, TypeOK
  <2>2. CASE Become(r, [start EXCEPT !.pc = "serve"])
    <3> DEFINE j == [start EXCEPT !.pc = "serve"]
    <3>1. job'[r] = j /\ \A i \in Slots : i # r => job'[i] = job[i]
      BY <1>1, <2>2, JobAfter
    <3>2. j.pc = "serve" /\ j.held = FALSE
      BY <2>1 DEF Job
    <3> HIDE DEF start
    <3>3. job'[r].pc = "serve" /\ job'[r].held = FALSE
      BY <3>1, <3>2
    <3> HIDE DEF j
    <3> QED
      BY <3>1, <3>3 DEF JobInv, JobShape
  <2>3. CASE /\ q.user \in DOMAIN settings[Home[r]]
             /\ Become(r, [start EXCEPT !.pc = "reserve",
                                        !.limit = settings[Home[r]][q.user]])
    <3> DEFINE limit == settings[Home[r]][q.user]
               j == [start EXCEPT !.pc = "reserve", !.limit = limit]
    <3>1. job'[r] = j /\ \A i \in Slots : i # r => job'[i] = job[i]
      BY <1>1, <2>3, JobAfter
    <3>2. limit <= ceiling[q.user]
      BY <1>1, <2>3, Constants DEF MeterInv, SettingsInv
    <3> HIDE DEF limit
    <3>3. j.pc = "reserve" /\ j.held = FALSE /\ j.limit = limit /\ j.req = q
      BY <2>1 DEF Job
    <3>4. /\ job'[r].pc = "reserve" /\ job'[r].held = FALSE /\ job'[r].limit = limit
          /\ job'[r].req = q
      BY <3>1, <3>3
    <3> HIDE DEF start, j
    <3> QED
      BY <1>2, <3>1, <3>2, <3>4 DEF JobInv, JobShape
  <2> QED
    BY <2>2, <2>3 DEF CheckConfigured
<1>5. job'[r] \in Job /\ JobShape(job'[r])
  BY <1>4 DEF TypeInv, TypeOK, JobInv
<1>6. \A p \in Pairs : JobTerm(job[r], p) = 0 /\ JobTerm(job'[r], p) = 0
  BY <1>1, <1>2, <1>4, <1>5, JobTermIs
<1>7. ~job[r].held
  BY <1>1, <1>2 DEF JobShape
<1>8. \A p \in Pairs : /\ HeldTerm(job[r], p) = 0 /\ HeldTerm(job'[r], p) = 0
                       /\ OwedTerm(job[r], p) = 0 /\ OwedTerm(job'[r], p) = 0
  BY <1>1, <1>2, <1>4, <1>5, <1>7, HeldTermIs
<1>9. \A p \in Pairs : LateTerm(late'[r], p) = LateTerm(late[r], p)
  BY <1>2
<1>10. \A p \in Pairs : HeldTerm(job'[r], p) <= HeldTerm(job[r], p)
  BY <1>8
<1> QED
  BY <1>1, <1>2, <1>3, <1>4, <1>6, <1>8, <1>9, <1>10, QuietStep

LEMMA GrantedStep ==
  ASSUME Books, TypeInv', NEW r \in Slots, Granted(r)
  PROVE  SlotStep(r)
<1>1. /\ TypeInv /\ MeterInv /\ job[r] \in Job /\ JobShape(job[r]) /\ LateInv(late[r])
      /\ KeyOf(job[r]) \in Pairs
  BY SlotFacts DEF Books
<1>2. /\ UNCHANGED <<settings, ceiling, ledger, spent, missing, beyond, faults, late>>
      /\ job[r].pc = "granted"
  BY DEF Granted, At
<1> DEFINE j == [job[r] EXCEPT !.pc = "serve", !.held = TRUE, !.limit = 0, !.again = FALSE]
<1>3. job'[r] = j /\ \A i \in Slots : i # r => job'[i] = job[i]
  BY <1>1, JobAfter DEF Granted
<1>4. j.pc = "serve" /\ j.held /\ j.req = job[r].req /\ j.day = job[r].day
  BY <1>1 DEF Job
<1>5. /\ job'[r].pc = "serve" /\ job'[r].held /\ job'[r].req = job[r].req
      /\ KeyOf(job'[r]) = KeyOf(job[r]) /\ job'[r] \in Job
  BY <1>3, <1>4 DEF KeyOf, TypeInv, TypeOK
<1> HIDE DEF j
<1>6. JobShape(job'[r]) /\ JobInv(job[r])' /\ LateInv(late[r])'
  BY <1>1, <1>2, <1>5 DEF JobInv, JobShape, LateInv
<1>7. \A p \in Pairs : JobTerm(job[r], p) = JobTerm(job'[r], p)
  BY <1>1, <1>2, <1>5, <1>6, JobTermIs
<1>8. \A p \in Pairs : LateTerm(late'[r], p) = LateTerm(late[r], p)
  BY <1>2
<1>9. \A p \in Pairs : HeldTerm(job'[r], p) <= HeldTerm(job[r], p)
  <2> TAKE p \in Pairs
  <2>1. HeldTerm(job'[r], p) = HeldTerm(job[r], p) /\ HeldTerm(job[r], p) \in Nat
    BY <1>1, <1>2, <1>5, <1>6, HeldTermIs
  <2> QED
    BY <2>1
<1>10. \A p \in Pairs : p # KeyOf(job[r]) => OwedTerm(job'[r], p) = OwedTerm(job[r], p)
  BY <1>1, <1>5, <1>6, HeldTermIs
<1> QED
  BY <1>1, <1>2, <1>3, <1>6, <1>7, <1>8, <1>9, <1>10, QuietStep

\* The handler is done, and nothing was pending.
LEMMA AnsweredStep ==
  ASSUME Books, TypeInv', NEW r \in Slots, Denied(r) \/ Released(r)
  PROVE  SlotStep(r)
<1>1. /\ TypeInv /\ MeterInv /\ job[r] \in Job /\ JobShape(job[r]) /\ LateInv(late[r])
      /\ KeyOf(job[r]) \in Pairs
  BY SlotFacts DEF Books
<1>2. /\ UNCHANGED <<settings, ceiling, ledger, spent, missing, beyond, faults, late>>
      /\ job[r].pc \in {"denied", "settled"}
  BY DEF Denied, Released, At
<1>3. job'[r] = Idle /\ \A i \in Slots : i # r => job'[i] = job[i]
  BY <1>1, JobAfter DEF Denied, Released, Answer
<1>4. job'[r].pc = "idle" /\ job'[r].held = FALSE /\ job'[r] \in Job
  BY <1>3, IdleTyped
<1>5. JobShape(job'[r]) /\ JobInv(job[r])' /\ LateInv(late[r])'
  BY <1>1, <1>2, <1>4 DEF JobInv, JobShape, LateInv
<1>6. \A p \in Pairs : JobTerm(job[r], p) = JobTerm(job'[r], p)
  BY <1>1, <1>2, <1>4, <1>5, JobTermIs
<1>7. \A p \in Pairs : LateTerm(late'[r], p) = LateTerm(late[r], p)
  BY <1>2
<1>8. ~job[r].held
  BY <1>1, <1>2 DEF JobShape
<1>9. \A p \in Pairs : /\ HeldTerm(job[r], p) = 0 /\ HeldTerm(job'[r], p) = 0
                       /\ OwedTerm(job[r], p) = 0 /\ OwedTerm(job'[r], p) = 0
  BY <1>1, <1>2, <1>4, <1>5, <1>8, HeldTermIs
<1>10. \A p \in Pairs : HeldTerm(job'[r], p) <= HeldTerm(job[r], p)
  BY <1>9
<1> QED
  BY <1>1, <1>2, <1>3, <1>5, <1>6, <1>7, <1>9, <1>10, QuietStep

\* What giving up on a command leaves pending, if it leaves it behind.
LEMMA LeftBehindTerm ==
  ASSUME TypeInv, MeterInv, NEW r \in Slots, LeftBehind(r), faults'
  PROVE  /\ \A i \in Slots : i # r => late'[i] = late[i]
         /\ LateInv(late[r])'
         /\ late'[r] \in Command \cup {NoCommand}
         /\ late' = late \/ /\ late[r] = NoCommand /\ late'[r] \in Command
                            /\ late' # late
                            /\ late'[r].key = KeyOf(job[r])
                            /\ \/ /\ job[r].pc = "reserve"
                                  /\ late'[r].script = "reserve"
                               \/ /\ job[r].pc = "settle"
                                  /\ late'[r].script = "reconcile"
                                  /\ late'[r].amount = Delta(job[r])
<1>1. /\ late \in [Slots -> Command \cup {NoCommand}]
      /\ late' \in [Slots -> Command \cup {NoCommand}]
      /\ \A i \in Slots : i # r => late'[i] = late[i]
      /\ late'[r] = late[r] \/ /\ late[r] = NoCommand /\ late'[r] = Sent(r)
                               /\ job[r].pc \in {"reserve", "settle"}
  BY LeftBehindTyped DEF TypeInv, TypeOK
<1>2. LateInv(late[r])'
  BY DEF LateInv
<1>3. CASE late'[r] = late[r]
  <2>1. \A i \in Slots : late'[i] = late[i]
    BY <1>1, <1>3
  <2>2. late' = late
    BY <1>1, <2>1
  <2> QED
    BY <1>1, <1>2, <2>2
<1>4. CASE late[r] = NoCommand /\ late'[r] = Sent(r) /\ job[r].pc = "reserve"
  <2>1. Sent(r) = [script |-> "reserve", key |-> KeyOf(job[r]),
                   amount |-> Estimate(r), limit |-> job[r].limit]
    BY <1>4 DEF Sent, At
  <2>2. /\ late'[r].script = "reserve" /\ late'[r].key = KeyOf(job[r])
        /\ late'[r] \in Command /\ late'[r] # late[r]
    BY <1>4, <2>1, SentTyped, CommandTyped
  <2> QED
    BY <1>1, <1>2, <1>4, <2>2
<1>5. CASE late[r] = NoCommand /\ late'[r] = Sent(r) /\ job[r].pc = "settle"
  <2>1. Sent(r) = [script |-> "reconcile", key |-> KeyOf(job[r]), amount |-> Delta(job[r])]
    BY <1>5 DEF Sent, At
  <2>2. /\ late'[r].script = "reconcile" /\ late'[r].key = KeyOf(job[r])
        /\ late'[r].amount = Delta(job[r]) /\ late'[r] \in Command /\ late'[r] # late[r]
    BY <1>5, <2>1, SentTyped, CommandTyped
  <2> QED
    BY <1>1, <1>2, <1>5, <2>2
<1> QED
  BY <1>1, <1>3, <1>4, <1>5

LEMMA ReserveFailsStep ==
  ASSUME Books, TypeInv', NEW r \in Slots, ReserveFails(r)
  PROVE  SlotStep(r)
<1>1. /\ TypeInv /\ MeterInv /\ job[r] \in Job /\ JobShape(job[r])
      /\ late[r] \in Command \cup {NoCommand} /\ KeyOf(job[r]) \in Pairs
  BY SlotFacts DEF Books
<1>2. /\ UNCHANGED <<settings, ceiling, ledger, spent, missing, beyond>> /\ faults'
      /\ LeftBehind(r) /\ job[r].pc \in {"reserve", "granted", "denied"}
  BY DEF ReserveFails
<1> DEFINE j == [job[r] EXCEPT !.pc = "serve", !.limit = 0, !.again = FALSE]
<1>3. job'[r] = j /\ \A i \in Slots : i # r => job'[i] = job[i]
  BY <1>1, JobAfter DEF ReserveFails
<1>4. j.pc = "serve" /\ j.held = job[r].held
  BY <1>1 DEF Job
<1>5. job'[r].pc = "serve" /\ job'[r].held = job[r].held /\ job'[r] \in Job
  BY <1>3, <1>4 DEF TypeInv, TypeOK
<1> HIDE DEF j
<1>6. ~job'[r].held /\ ~job[r].held
  BY <1>1, <1>2, <1>5 DEF JobShape
<1>7. JobShape(job'[r]) /\ JobInv(job[r])'
  BY <1>5, <1>6 DEF JobInv, JobShape
<1>8. /\ \A i \in Slots : i # r => late'[i] = late[i]
      /\ LateInv(late[r])' /\ late'[r] \in Command \cup {NoCommand}
      /\ late' = late \/ /\ late[r] = NoCommand /\ late'[r] \in Command
                         /\ late'[r].script = "reserve"
  BY <1>1, <1>2, LeftBehindTerm
<1>9. \A p \in Pairs : /\ LateTerm(late'[r], p) = LateTerm(late[r], p)
                       /\ LateTerm(late[r], p) \in Nat
  BY <1>1, <1>8, LateTermIs
<1>10. \A p \in Pairs : JobTerm(job'[r], p) = 0 /\ JobTerm(job[r], p) \in Nat
  BY <1>1, <1>5, <1>6, <1>7, JobTermIs
<1>11. \A p \in Pairs : /\ HeldTerm(job[r], p) \in Nat /\ HeldTerm(job'[r], p) = 0
                        /\ OwedTerm(job[r], p) = 0 /\ OwedTerm(job'[r], p) = 0
  BY <1>1, <1>5, <1>6, <1>7, HeldTermIs
<1>12. \A p \in Pairs : JobTerm(job'[r], p) + LateTerm(late'[r], p)
                          <= JobTerm(job[r], p) + LateTerm(late[r], p)
  BY <1>9, <1>10
<1>13. \A p \in Pairs : HeldTerm(job'[r], p) <= HeldTerm(job[r], p)
  BY <1>11
<1> QED
  BY <1>1, <1>2, <1>3, <1>7, <1>8, <1>11, <1>12, <1>13, QuietStep

LEMMA ReconcileFailsStep ==
  ASSUME Books, TypeInv', NEW r \in Slots, ReconcileFails(r)
  PROVE  SlotStep(r)
<1>1. /\ TypeInv /\ MeterInv /\ job[r] \in Job /\ JobShape(job[r])
      /\ late[r] \in Command \cup {NoCommand} /\ KeyOf(job[r]) \in Pairs
  BY SlotFacts DEF Books
<1>2. /\ UNCHANGED <<settings, ceiling, ledger, spent, missing, beyond>> /\ faults'
      /\ LeftBehind(r) /\ job[r].pc \in {"settle", "settled"}
  BY DEF ReconcileFails
<1>3. job'[r] = Idle /\ \A i \in Slots : i # r => job'[i] = job[i]
  BY <1>1, JobAfter DEF ReconcileFails, Answer
<1>4. job'[r].pc = "idle" /\ job'[r].held = FALSE /\ job'[r] \in Job /\ ~job[r].held
  BY <1>1, <1>2, <1>3, IdleTyped DEF JobShape
<1>5. JobShape(job'[r]) /\ JobInv(job[r])'
  BY <1>4 DEF JobInv, JobShape
<1>6. /\ \A i \in Slots : i # r => late'[i] = late[i]
      /\ LateInv(late[r])' /\ late'[r] \in Command \cup {NoCommand}
      /\ late' = late \/ /\ late[r] = NoCommand /\ late'[r] \in Command
                         /\ late'[r].key = KeyOf(job[r]) /\ job[r].pc = "settle"
                         /\ late'[r].script = "reconcile"
                         /\ late'[r].amount = Delta(job[r])
  BY <1>1, <1>2, LeftBehindTerm
<1>7. ASSUME NEW p \in Pairs
      PROVE  JobTerm(job'[r], p) + LateTerm(late'[r], p)
               <= JobTerm(job[r], p) + LateTerm(late[r], p)
  <2>1. JobTerm(job[r], p) \in Nat /\ JobTerm(job'[r], p) = 0 /\ LateTerm(late[r], p) \in Nat
    BY <1>1, <1>4, <1>5, JobTermIs, LateTermIs
  <2>2. CASE late' = late
    BY <2>1, <2>2
  <2>3. CASE late' # late
    <3>1. LateTerm(late[r], p) = 0
      BY <1>1, <1>6, <2>3, LateTermIs
    <3>2. LateTerm(late'[r], p) = JobTerm(job[r], p)
      <4>1. CASE KeyOf(job[r]) = p
        BY <1>1, <1>6, <2>3, <4>1, JobTermIs, LateTermIs
      <4>2. CASE KeyOf(job[r]) # p
        BY <1>1, <1>6, <2>3, <4>2, JobTermIs, LateTermIs
      <4> QED
        BY <4>1, <4>2
    <3> QED
      BY <2>1, <3>1, <3>2
  <2> QED
    BY <2>2, <2>3
<1>8. \A p \in Pairs : /\ HeldTerm(job[r], p) \in Nat /\ HeldTerm(job'[r], p) = 0
                       /\ OwedTerm(job[r], p) = 0 /\ OwedTerm(job'[r], p) = 0
  BY <1>1, <1>4, <1>5, HeldTermIs
<1>9. \A p \in Pairs : HeldTerm(job'[r], p) <= HeldTerm(job[r], p)
  BY <1>8
<1> QED
  BY <1>1, <1>2, <1>3, <1>5, <1>6, <1>7, <1>8, <1>9, QuietStep

LEMMA ResendStep ==
  ASSUME Books, TypeInv', NEW r \in Slots, Resend(r)
  PROVE  SlotStep(r)
<1>1. /\ TypeInv /\ MeterInv /\ CoveredInv /\ job[r] \in Job /\ JobInv(job[r])
      /\ JobShape(job[r]) /\ late[r] \in Command \cup {NoCommand} /\ KeyOf(job[r]) \in Pairs
      /\ missing \in [Pairs -> Int] /\ beyond \in [Pairs -> Nat]
  BY SlotFacts DEF Books
<1>2. /\ UNCHANGED <<settings, ceiling, ledger, spent>> /\ faults' /\ LeftBehind(r)
      /\ job[r].pc \notin {"idle", "serve"}
  BY DEF Resend
<1>3. PICK stage \in {"reserve", "settle"} :
        /\ Become(r, [job[r] EXCEPT !.pc = stage, !.again = TRUE])
        /\ stage = "reserve" => job[r].pc \in {"reserve", "granted", "denied"}
        /\ stage = "settle" => job[r].pc \in {"settle", "settled"}
  BY <1>1, <1>2, JobTyped DEF Resend, Awaited, Stage
<1> DEFINE j == [job[r] EXCEPT !.pc = stage, !.again = TRUE]
           q == KeyOf(job[r])
           x == Repeated(r)
<1>4. job'[r] = j /\ \A i \in Slots : i # r => job'[i] = job[i]
  BY <1>1, <1>3, JobAfter
<1>5. /\ j.pc = stage /\ j.held = job[r].held /\ j.req = job[r].req /\ j.limit = job[r].limit
      /\ j.day = job[r].day /\ j.cost = job[r].cost
  BY <1>1 DEF Job
<1> HIDE DEF j
<1>6. /\ job'[r].pc = stage /\ ~job'[r].held /\ ~job[r].held /\ job'[r].req = job[r].req
      /\ job'[r].limit = job[r].limit /\ job'[r] \in Job
      /\ KeyOf(job'[r]) = q /\ Delta(job'[r]) = Delta(job[r])
  BY <1>1, <1>2, <1>4, <1>5 DEF KeyOf, Delta, JobShape, TypeInv, TypeOK
<1>7. JobShape(job'[r]) /\ JobInv(job[r])'
  BY <1>1, <1>2, <1>3, <1>6 DEF JobInv, JobShape
<1>8. /\ \A i \in Slots : i # r => late'[i] = late[i]
      /\ LateInv(late[r])' /\ late'[r] \in Command \cup {NoCommand}
      /\ late' = late \/ /\ late[r] = NoCommand /\ late'[r] \in Command
                         /\ late'[r].key = KeyOf(job[r])
                         /\ \/ /\ job[r].pc = "reserve"
                               /\ late'[r].script = "reserve"
                            \/ /\ job[r].pc = "settle"
                               /\ late'[r].script = "reconcile"
                               /\ late'[r].amount = Delta(job[r])
  BY <1>1, <1>2, LeftBehindTerm
<1>9. x \in Nat /\ Lacks(q, x)
  BY <1>1, ResendLacks
<1>10. q \in Pairs
  BY <1>1
<1>11. /\ missing'[q] = missing[q] + x /\ beyond'[q] = beyond[q] + x
       /\ \A p \in Pairs : p # q => missing'[p] = missing[p] /\ beyond'[p] = beyond[p]
  <2> HIDE DEF q, x
  <2> QED
    BY <1>1, <1>9, <1>10, LacksEffect
<1>12. ASSUME NEW p \in Pairs
       PROVE  /\ HeldTerm(job[r], p) \in Nat /\ HeldTerm(job'[r], p) = 0
              /\ OwedTerm(job[r], p) = 0 /\ OwedTerm(job'[r], p) = 0
  BY <1>1, <1>3, <1>6, <1>7, HeldTermIs
\* The commands: as much more is pending as is missing more.
<1>13. ASSUME NEW p \in Pairs
       PROVE  JobTerm(job'[r], p) + LateTerm(late'[r], p)
                <= JobTerm(job[r], p) + LateTerm(late[r], p) + (IF p = q THEN x ELSE 0)
  <2>1. /\ JobTerm(job[r], p) \in Nat /\ JobTerm(job'[r], p) \in Nat
        /\ LateTerm(late[r], p) \in Nat /\ LateTerm(late'[r], p) \in Nat
    BY <1>1, <1>7, TermsTyped
  <2>2. CASE stage = "reserve"
    <3>1. JobTerm(job'[r], p) = 0
      BY <1>6, <1>7, <2>2, JobTermIs
    <3>2. LateTerm(late'[r], p) = LateTerm(late[r], p)
      BY <1>1, <1>3, <1>8, <2>2, LateTermIs
    <3> HIDE DEF q, x
    <3> QED
      BY <1>9, <2>1, <3>1, <3>2
  <2>3. CASE stage = "settle" /\ p # q
    <3>1. JobTerm(job'[r], p) = 0 /\ JobTerm(job[r], p) = 0
      BY <1>1, <1>6, <1>7, <2>3, JobTermIs
    <3>2. LateTerm(late'[r], p) = LateTerm(late[r], p)
      BY <1>1, <1>8, <2>3, LateTermIs
    <3> HIDE DEF q, x
    <3> QED
      BY <2>1, <2>3, <3>1, <3>2
  <2>4. CASE stage = "settle" /\ p = q
    <3> DEFINE back == AtLeastNone(-Delta(job[r]))
    <3>1. back \in Nat
      BY <1>1, JobTyped, AtLeastNoneIs
    <3>2. JobTerm(job'[r], p) = back
      BY <1>6, <1>7, <2>4, JobTermIs
    <3>3. CASE job[r].pc = "settled"
      <4>1. late' = late
        BY <1>8, <3>3
      <4>2. x = back
        BY <3>3 DEF Repeated, At
      <4> HIDE DEF back, x, q
      <4> QED
        BY <2>1, <2>4, <3>1, <3>2, <4>1, <4>2
    <3>4. CASE job[r].pc = "settle"
      <4>1. JobTerm(job[r], p) = back
        BY <1>1, <2>4, <3>4, JobTermIs
      <4>2. CASE late' = late
        <5> HIDE DEF back, x, q
        <5> QED
          BY <1>9, <2>1, <2>4, <3>1, <3>2, <4>1, <4>2
      <4>3. CASE late' # late
        <5>1. x = back
          BY <3>4, <4>3 DEF Repeated, At
        <5>2. LateTerm(late'[r], p) = back
          BY <1>8, <2>4, <3>4, <4>3, LateTermIs
        <5> HIDE DEF back, x, q
        <5> QED
          BY <2>1, <2>4, <3>1, <3>2, <4>1, <5>1, <5>2
      <4> QED
        BY <4>2, <4>3
    <3> QED
      BY <1>3, <2>4, <3>3, <3>4
  <2> QED
    BY <2>2, <2>3, <2>4
<1>14. ASSUME NEW p \in Pairs
       PROVE  Accounted(r, p) /\ Covered(r, p)
  <2>1. /\ JobTerm(job[r], p) \in Nat /\ JobTerm(job'[r], p) \in Nat
        /\ LateTerm(late[r], p) \in Nat /\ LateTerm(late'[r], p) \in Nat
        /\ spent[p] \in Nat /\ ledger[p] \in Int /\ missing[p] \in Int /\ beyond[p] \in Nat
    BY <1>1, <1>7, TermsTyped
  <2>2. /\ missing'[p] = missing[p] + (IF p = q THEN x ELSE 0)
        /\ beyond'[p] = beyond[p] + (IF p = q THEN x ELSE 0)
    BY <1>11, <2>1
  <2>3. spent'[p] = spent[p] /\ ledger'[p] = ledger[p] /\ missing[p] <= beyond[p]
    BY <1>1, <1>2 DEF CoveredInv
  <2> HIDE DEF x, q
  <2>4. Accounted(r, p)
    BY <1>2, <1>9, <1>13, <2>1, <2>2, <2>3 DEF Accounted
  <2>5. Covered(r, p)
    BY <1>9, <1>12, <2>1, <2>2, <2>3 DEF Covered
  <2> QED
    BY <2>4, <2>5
<1>15. MovesOnly(r, q)
  <2>1. spent[q] \in Nat /\ beyond[q] \in Nat
    BY <1>1, <1>7, TermsTyped
  <2>2. OwedTerm(job[r], q) = 0 /\ OwedTerm(job'[r], q) = 0
    BY <1>1, <1>12
  <2> HIDE DEF x, q
  <2> QED
    BY <1>2, <1>9, <1>11, <1>12, <2>1, <2>2 DEF MovesOnly
<1> HIDE DEF q
<1> QED
  BY <1>2, <1>4, <1>7, <1>8, <1>14, <1>15, <1>10 DEF SlotStep

\* The reserve script adds what fits, and takes nothing away.
LEMMA ReserveScriptIs ==
  ASSUME ledger \in [Pairs -> Int], NEW q \in Pairs, NEW n \in Nat, NEW limit,
         ledger' = ReserveScript(q, n, limit)
  PROVE  /\ \A p \in Pairs : p # q => ledger'[p] = ledger[p]
         /\ ledger'[q] = IF Fits(q, n, limit) THEN ledger[q] + n ELSE ledger[q]
BY DEF ReserveScript

LEMMA ReconcileScriptIs ==
  ASSUME ledger \in [Pairs -> Int], NEW q \in Pairs, NEW d \in Int,
         ledger' = ReconcileScript(q, d)
  PROVE  /\ \A p \in Pairs : p # q => ledger'[p] = ledger[p]
         /\ ledger'[q] = ledger[q] + d
BY DEF ReconcileScript

LEMMA ReserveRunsStep ==
  ASSUME Books, TypeInv', NEW r \in Slots, ReserveRuns(r)
  PROVE  SlotStep(r)
<1>1. /\ TypeInv /\ MeterInv /\ CoveredInv
      /\ job[r] \in Job /\ JobInv(job[r]) /\ JobShape(job[r]) /\ LateInv(late[r])
      /\ ledger \in [Pairs -> Int] /\ missing \in [Pairs -> Int] /\ beyond \in [Pairs -> Nat]
      /\ ceiling \in [Users -> Nat]
  BY SlotFacts DEF Books
<1> DEFINE q == KeyOf(job[r])
           n == job[r].req.estimate
           limit == job[r].limit
           fits == Fits(q, n, limit)
<1>2. q \in Pairs /\ q[1] = job[r].req.user /\ n \in Nat /\ limit \in Nat
  BY <1>1, JobTyped
<1>3. /\ UNCHANGED <<settings, ceiling, spent, missing, faults, late>> /\ job[r].pc = "reserve"
      /\ ledger' = ReserveScript(q, n, limit)
      /\ beyond' = IF fits THEN [beyond EXCEPT ![q] = AtLeastNone(missing[q])] ELSE beyond
  BY DEF ReserveRuns, At, Estimate
<1>4. limit <= ceiling[q[1]] /\ ceiling[q[1]] \in Nat
  BY <1>1, <1>2, <1>3 DEF JobInv, Pairs
<1>5. /\ \A p \in Pairs : p # q => ledger'[p] = ledger[p]
      /\ ledger'[q] = IF fits THEN ledger[q] + n ELSE ledger[q]
  <2> HIDE DEF q, n, limit
  <2> QED
    BY <1>1, <1>2, <1>3, ReserveScriptIs
<1>6. fits => ledger[q] + n <= ceiling[q[1]]
  <2>1. fits => ledger[q] + n <= limit
    BY DEF Fits
  <2>2. ledger[q] \in Int
    BY <1>1, <1>2
  <2> HIDE DEF q, n, limit, fits
  <2> QED
    BY <1>2, <1>4, <2>1, <2>2
<1>7. /\ AtLeastNone(missing[q]) \in Nat /\ AtLeastNone(missing[q]) >= missing[q]
      /\ AtLeastNone(missing[q]) <= beyond[q]
  <2>1. missing[q] \in Int /\ beyond[q] \in Nat /\ missing[q] <= beyond[q]
    BY <1>1, <1>2 DEF CoveredInv
  <2> HIDE DEF q
  <2> QED
    BY <2>1 DEF AtLeastNone
<1>8. /\ \A p \in Pairs : p # q => beyond'[p] = beyond[p]
      /\ beyond'[q] = IF fits THEN AtLeastNone(missing[q]) ELSE beyond[q]
  <2> HIDE DEF q, fits
  <2> QED
    BY <1>1, <1>2, <1>3
<1> DEFINE stage == IF fits THEN "granted" ELSE "denied"
           j == [job[r] EXCEPT !.pc = stage]
<1>9. job'[r] = j /\ \A i \in Slots : i # r => job'[i] = job[i]
  BY <1>1, JobAfter DEF ReserveRuns, Goto, Estimate
<1>10. /\ j.pc = stage /\ j.held = job[r].held /\ j.req = job[r].req /\ j.day = job[r].day
       /\ j.limit = job[r].limit
  BY <1>1 DEF Job
<1> HIDE DEF j, stage
<1>11. ~job[r].held /\ stage \in {"granted", "denied"} /\ (fits <=> stage = "granted")
  BY <1>1, <1>3 DEF JobShape, stage
<1>12. /\ job'[r].pc = stage /\ ~job'[r].held /\ job'[r].req = job[r].req
       /\ KeyOf(job'[r]) = q /\ job'[r].limit = job[r].limit /\ job'[r] \in Job
  BY <1>9, <1>10, <1>11 DEF KeyOf, TypeInv, TypeOK
<1>13. JobShape(job'[r]) /\ JobInv(job[r])' /\ LateInv(late[r])'
  BY <1>1, <1>3, <1>11, <1>12 DEF JobInv, JobShape, LateInv
<1>14. ASSUME NEW p \in Pairs
       PROVE  /\ JobTerm(job[r], p) = 0 /\ HeldTerm(job[r], p) = 0
              /\ OwedTerm(job[r], p) = 0 /\ OwedTerm(job'[r], p) = 0
              /\ JobTerm(job'[r], p) = IF q = p /\ fits THEN n ELSE 0
              /\ HeldTerm(job'[r], p) = IF q = p /\ fits THEN n ELSE 0
  <2>1. /\ JobTerm(job[r], p) = 0 /\ HeldTerm(job[r], p) = 0
        /\ OwedTerm(job[r], p) = 0 /\ OwedTerm(job'[r], p) = 0
    BY <1>1, <1>3, <1>11, <1>12, <1>13, JobTermIs, HeldTermIs
  <2>2. CASE q = p /\ fits
    BY <1>11, <1>12, <1>13, <2>1, <2>2, JobTermIs, HeldTermIs
  <2>3. CASE ~(q = p /\ fits)
    BY <1>11, <1>12, <1>13, <2>1, <2>3, JobTermIs, HeldTermIs
  <2> QED
    BY <2>1, <2>2, <2>3
<1> HIDE DEF n, limit, fits
<1>15. ASSUME NEW p \in Pairs
       PROVE  Accounted(r, p) /\ Covered(r, p)
  <2>1. /\ LateTerm(late[r], p) \in Nat
        /\ spent[p] \in Nat /\ ledger[p] \in Int /\ missing[p] \in Int /\ beyond[p] \in Nat
    BY <1>1, <1>13, TermsTyped
  <2>2. /\ ledger'[p] = ledger[p] + (IF q = p /\ fits THEN n ELSE 0)
        /\ beyond'[p] = IF q = p /\ fits THEN AtLeastNone(missing[q]) ELSE beyond[p]
    BY <1>5, <1>8, <2>1
  <2>3. /\ spent'[p] = spent[p] /\ missing'[p] = missing[p] /\ late'[r] = late[r]
        /\ missing[p] <= beyond[p]
    BY <1>1, <1>3 DEF CoveredInv
  <2> HIDE DEF q
  <2>4. Accounted(r, p)
    BY <1>2, <1>14, <2>1, <2>2, <2>3 DEF Accounted
  <2>5. CASE q = p /\ fits
    BY <1>2, <1>4, <1>6, <1>7, <1>14, <2>1, <2>2, <2>3, <2>4, <2>5 DEF Covered
  <2>6. CASE ~(q = p /\ fits)
    BY <1>14, <2>1, <2>2, <2>3, <2>4, <2>6 DEF Covered
  <2> QED
    BY <2>5, <2>6
<1>16. MovesOnly(r, q)
  <2>1. beyond[q] \in Nat
    BY <1>1, <1>2
  <2> HIDE DEF q
  <2> QED
    BY <1>3, <1>7, <1>8, <1>14, <2>1 DEF MovesOnly
<1> HIDE DEF q
<1> QED
  BY <1>2, <1>3, <1>9, <1>13, <1>15, <1>16 DEF SlotStep

\* A difference is what is given back or what is made up for.
LEMMA BothSides ==
  ASSUME NEW d \in Int
  PROVE  /\ AtLeastNone(d) \in Nat /\ AtLeastNone(-d) \in Nat
         /\ d = AtLeastNone(d) - AtLeastNone(-d)
BY DEF AtLeastNone

LEMMA ReconcileRunsStep ==
  ASSUME Books, TypeInv', NEW r \in Slots, ReconcileRuns(r)
  PROVE  SlotStep(r)
<1>1. /\ TypeInv /\ MeterInv /\ CoveredInv
      /\ job[r] \in Job /\ JobInv(job[r]) /\ JobShape(job[r]) /\ LateInv(late[r])
      /\ ledger \in [Pairs -> Int] /\ missing \in [Pairs -> Int]
  BY SlotFacts DEF Books
<1> DEFINE q == KeyOf(job[r])
           d == Delta(job[r])
<1>2. q \in Pairs /\ d \in Int
  BY <1>1, JobTyped
<1>3. /\ UNCHANGED <<settings, ceiling, spent, beyond, faults, late>> /\ job[r].pc = "settle"
      /\ ledger' = ReconcileScript(q, d) /\ MadeUp(q, d)
  BY DEF ReconcileRuns, At, KeyAtRelease
<1>4. /\ \A p \in Pairs : p # q => ledger'[p] = ledger[p] /\ missing'[p] = missing[p]
      /\ ledger'[q] = ledger[q] + d /\ missing'[q] = missing[q] - AtLeastNone(d)
  <2> HIDE DEF q, d
  <2> QED
    BY <1>1, <1>2, <1>3, ReconcileScriptIs, MadeUpEffect
<1> DEFINE j == [job[r] EXCEPT !.pc = "settled"]
<1>5. job'[r] = j /\ \A i \in Slots : i # r => job'[i] = job[i]
  BY <1>1, JobAfter DEF ReconcileRuns, Goto
<1>6. j.pc = "settled" /\ j.held = job[r].held
  BY <1>1 DEF Job
<1> HIDE DEF j
<1>7. job'[r].pc = "settled" /\ ~job'[r].held /\ ~job[r].held /\ job'[r] \in Job
  BY <1>1, <1>3, <1>5, <1>6 DEF JobShape, TypeInv, TypeOK
<1>8. JobShape(job'[r]) /\ JobInv(job[r])' /\ LateInv(late[r])'
  BY <1>1, <1>3, <1>7 DEF JobInv, JobShape, LateInv
<1>9. ASSUME NEW p \in Pairs
      PROVE  /\ JobTerm(job'[r], p) = 0
             /\ JobTerm(job[r], p) = IF q = p THEN AtLeastNone(-d) ELSE 0
             /\ HeldTerm(job[r], p) = 0 /\ HeldTerm(job'[r], p) = 0
             /\ OwedTerm(job[r], p) = 0 /\ OwedTerm(job'[r], p) = 0
  BY <1>1, <1>3, <1>7, <1>8, JobTermIs, HeldTermIs
<1> HIDE DEF d
<1>10. ASSUME NEW p \in Pairs
       PROVE  Accounted(r, p) /\ Covered(r, p)
  <2>1. /\ LateTerm(late[r], p) \in Nat
        /\ spent[p] \in Nat /\ ledger[p] \in Int /\ missing[p] \in Int /\ beyond[p] \in Nat
    BY <1>1, <1>8, TermsTyped
  <2>2. /\ ledger'[p] = ledger[p] + (IF q = p THEN d ELSE 0)
        /\ missing'[p] = missing[p] - (IF q = p THEN AtLeastNone(d) ELSE 0)
    BY <1>4, <2>1
  <2>3. /\ spent'[p] = spent[p] /\ beyond'[p] = beyond[p] /\ late'[r] = late[r]
        /\ missing[p] <= beyond[p]
    BY <1>1, <1>3 DEF CoveredInv
  <2>4. /\ AtLeastNone(d) \in Nat /\ AtLeastNone(-d) \in Nat
        /\ d = AtLeastNone(d) - AtLeastNone(-d)
    BY <1>2, BothSides
  <2> HIDE DEF q
  <2>5. Accounted(r, p)
    BY <1>2, <1>9, <2>1, <2>2, <2>3, <2>4 DEF Accounted
  <2>6. Covered(r, p)
    BY <1>9, <2>1, <2>2, <2>3, <2>4 DEF Covered
  <2> QED
    BY <2>5, <2>6
<1>11. MovesOnly(r, q)
  <2>1. beyond[q] \in Nat
    BY <1>1, <1>2, <1>8, TermsTyped
  <2> HIDE DEF q
  <2> QED
    BY <1>3, <1>9, <2>1 DEF MovesOnly
<1> HIDE DEF q
<1> QED
  BY <1>2, <1>3, <1>5, <1>8, <1>10, <1>11 DEF SlotStep

LEMMA FinishStep ==
  ASSUME Books, TypeInv', NEW r \in Slots, NEW c \in Charges(job[r].req), Finish(r, c)
  PROVE  SlotStep(r)
<1>1. /\ TypeInv /\ MeterInv /\ CoveredInv
      /\ job[r] \in Job /\ JobInv(job[r]) /\ JobShape(job[r]) /\ LateInv(late[r])
      /\ spent \in [Pairs -> Nat] /\ missing \in [Pairs -> Int] /\ beyond \in [Pairs -> Nat]
  BY SlotFacts DEF Books
<1> DEFINE q == KeyOf(job[r])
           n == job[r].req.estimate
           x == Uncovered(r, c)
<1>2. q \in Pairs /\ n \in Nat
  BY <1>1, JobTyped
<1>3. c \in Nat
  BY <1>2, RedisAssumption DEF Charges
<1>4. /\ UNCHANGED <<settings, ceiling, ledger, faults, late>> /\ job[r].pc = "serve"
      /\ spent' = [spent EXCEPT ![q] = @ + c] /\ Lacks(q, x)
  BY DEF Finish, At
<1>5. /\ x \in Nat
      /\ job[r].held => x = AtLeastNone(c - n)
      /\ ~job[r].held => x = c
  BY <1>1, <1>3, UncoveredIs
<1>6. /\ \A p \in Pairs : p # q => /\ spent'[p] = spent[p] /\ missing'[p] = missing[p]
                                   /\ beyond'[p] = beyond[p]
      /\ spent'[q] = spent[q] + c
      /\ missing'[q] = missing[q] + x /\ beyond'[q] = beyond[q] + x
  <2> HIDE DEF q, x
  <2> QED
    BY <1>1, <1>2, <1>3, <1>4, <1>5, LacksEffect
<1>7. LateInv(late[r])'
  BY <1>1, <1>4 DEF LateInv
\* What is left pending, which is nothing if nothing was reserved.
<1>8. /\ \A i \in Slots : i # r => job'[i] = job[i]
      /\ JobInv(job[r])' /\ ~job'[r].held /\ job'[r].pc \in {"idle", "settle"}
      /\ \A p \in Pairs :
           JobTerm(job'[r], p) = IF job[r].held /\ p = q THEN AtLeastNone(n - c) ELSE 0
  <2>1. CASE Unsettled(r, c) /\ Become(r, [job[r] EXCEPT !.pc = "settle", !.cost = c, !.held = FALSE])
    <3> DEFINE j == [job[r] EXCEPT !.pc = "settle", !.cost = c, !.held = FALSE]
    <3>1. job'[r] = j /\ \A i \in Slots : i # r => job'[i] = job[i]
      BY <1>1, <2>1, JobAfter
    <3>2. /\ j.pc = "settle" /\ j.held = FALSE /\ j.cost = c /\ j.req = job[r].req
          /\ j.day = job[r].day
      BY <1>1 DEF Job
    <3> HIDE DEF j
    <3>3. /\ job'[r].pc = "settle" /\ ~job'[r].held /\ KeyOf(job'[r]) = q
          /\ Delta(job'[r]) = c - n /\ job'[r] \in Job
      BY <1>1, <3>1, <3>2 DEF KeyOf, Delta, TypeInv, TypeOK
    <3>4. job[r].held
      BY <2>1 DEF Unsettled
    <3> HIDE DEF n, q
    <3>5. -Delta(job'[r]) = n - c
      BY <1>2, <1>3, <3>3
    <3>6. JobShape(job'[r]) /\ JobInv(job[r])'
      BY <3>3 DEF JobInv, JobShape
    <3>7. \A p \in Pairs : JobTerm(job'[r], p) = IF p = q THEN AtLeastNone(n - c) ELSE 0
      BY <3>3, <3>5, <3>6, JobTermIs
    <3> QED
      BY <3>1, <3>3, <3>4, <3>6, <3>7
  <2>2. CASE ~Unsettled(r, c) /\ Answer(r)
    <3>1. job'[r] = Idle /\ \A i \in Slots : i # r => job'[i] = job[i]
      BY <1>1, <2>2, JobAfter DEF Answer
    <3>2. job'[r].pc = "idle" /\ job'[r].held = FALSE /\ job'[r] \in Job
      BY <3>1, IdleTyped
    <3>3. JobShape(job'[r]) /\ JobInv(job[r])'
      BY <3>2 DEF JobInv, JobShape
    <3>4. \A p \in Pairs : JobTerm(job'[r], p) = 0
      BY <3>2, <3>3, JobTermIs
    <3>5. job[r].held => c = n
      BY <2>2 DEF Unsettled, Estimate
    <3> HIDE DEF n, q
    <3>6. job[r].held => AtLeastNone(n - c) = 0
      BY <1>2, <1>3, <3>5 DEF AtLeastNone
    <3> QED
      BY <3>1, <3>2, <3>3, <3>4, <3>6
  <2> QED
    BY <2>1, <2>2 DEF Finish
<1>9. job'[r] \in Job /\ JobShape(job'[r])
  BY <1>8 DEF TypeInv, TypeOK, JobInv
<1>10. ASSUME NEW p \in Pairs
       PROVE  /\ HeldTerm(job'[r], p) = 0 /\ OwedTerm(job'[r], p) = 0
              /\ JobTerm(job[r], p) = IF job[r].held /\ p = q THEN n ELSE 0
              /\ HeldTerm(job[r], p) = IF job[r].held /\ p = q THEN n ELSE 0
              /\ OwedTerm(job[r], p) = IF job[r].held /\ p = q THEN n ELSE 0
  <2>1. HeldTerm(job'[r], p) = 0 /\ OwedTerm(job'[r], p) = 0
    BY <1>8, <1>9, HeldTermIs
  <2>2. CASE job[r].held /\ p = q
    BY <1>1, <2>1, <2>2, JobTermIs, HeldTermIs
  <2>3. CASE ~(job[r].held /\ p = q)
    BY <1>1, <1>4, <2>1, <2>3, JobTermIs, HeldTermIs
  <2> QED
    BY <2>1, <2>2, <2>3
<1>11. job[r].held => /\ AtLeastNone(n - c) - n = x - c
                      /\ c - n <= x
  <2> HIDE DEF n, x
  <2> QED
    BY <1>2, <1>3, <1>5 DEF AtLeastNone
<1>12. AtLeastNone(n - c) \in Nat
  <2> HIDE DEF n
  <2> QED
    BY <1>2, <1>3 DEF AtLeastNone
<1> HIDE DEF n, x
<1>13. ASSUME NEW p \in Pairs
       PROVE  Accounted(r, p) /\ Covered(r, p)
  <2>1. /\ LateTerm(late[r], p) \in Nat
        /\ spent[p] \in Nat /\ ledger[p] \in Int /\ missing[p] \in Int /\ beyond[p] \in Nat
    BY <1>1, <1>8, TermsTyped
  <2>2. ledger'[p] = ledger[p] /\ late'[r] = late[r] /\ missing[p] <= beyond[p]
    BY <1>1, <1>4 DEF CoveredInv
  <2> DEFINE pending == AtLeastNone(n - c)
  <2>3. CASE p = q
    <3>1. /\ spent'[p] = spent[p] + c /\ missing'[p] = missing[p] + x
          /\ beyond'[p] = beyond[p] + x
      BY <1>6, <2>3
    <3>2. /\ JobTerm(job'[r], p) = IF job[r].held THEN pending ELSE 0
          /\ JobTerm(job[r], p) = IF job[r].held THEN n ELSE 0
          /\ HeldTerm(job[r], p) = IF job[r].held THEN n ELSE 0
          /\ HeldTerm(job'[r], p) = 0
      BY <1>8, <1>10, <2>3
    <3>3. /\ pending \in Nat /\ (job[r].held => pending - n = x - c /\ c - n <= x)
      BY <1>11, <1>12
    <3> HIDE DEF pending, q
    <3>4. Accounted(r, p)
      BY <1>2, <1>3, <1>5, <2>1, <2>2, <3>1, <3>2, <3>3 DEF Accounted
    <3>5. Covered(r, p)
      BY <1>2, <1>3, <1>5, <2>1, <2>2, <3>1, <3>2, <3>3 DEF Covered
    <3> QED
      BY <3>4, <3>5
  <2>4. CASE p # q
    <3>1. /\ spent'[p] = spent[p] /\ missing'[p] = missing[p] /\ beyond'[p] = beyond[p]
      BY <1>6, <2>4
    <3>2. /\ JobTerm(job'[r], p) = 0 /\ JobTerm(job[r], p) = 0
          /\ HeldTerm(job[r], p) = 0 /\ HeldTerm(job'[r], p) = 0
      BY <1>8, <1>10, <2>4
    <3> QED
      BY <2>1, <2>2, <3>1, <3>2 DEF Accounted, Covered
  <2> QED
    BY <2>3, <2>4
<1>14. MovesOnly(r, q)
  <2>1. spent[q] \in Nat /\ beyond[q] \in Nat
    BY <1>1, <1>2
  <2>2. \A p \in Pairs : p # q => OwedTerm(job'[r], p) = OwedTerm(job[r], p)
    BY <1>10
  <2>3. OwedTerm(job'[r], q) = 0 /\ OwedTerm(job[r], q) = IF job[r].held THEN n ELSE 0
    BY <1>2, <1>10
  <2> HIDE DEF q
  <2> QED
    BY <1>2, <1>3, <1>5, <1>6, <1>11, <2>1, <2>2, <2>3 DEF MovesOnly
<1> HIDE DEF q
<1> QED
  BY <1>2, <1>4, <1>7, <1>8, <1>13, <1>14 DEF SlotStep

LEMMA LateRunsStep ==
  ASSUME Books, TypeInv', NEW r \in Slots, LateRuns(r)
  PROVE  SlotStep(r)
<1> DEFINE c == late[r]
           q == c.key
<1>1. /\ TypeInv /\ MeterInv /\ CoveredInv
      /\ JobInv(job[r]) /\ job[r] \in Job /\ JobShape(job[r])
      /\ late[r] \in Command \cup {NoCommand} /\ LateInv(late[r])
      /\ ledger \in [Pairs -> Int] /\ missing \in [Pairs -> Int] /\ beyond \in [Pairs -> Nat]
  BY SlotFacts DEF Books
<1>2. /\ c \in Command /\ UNCHANGED <<settings, ceiling, spent, beyond, faults, job>>
      /\ late' = [late EXCEPT ![r] = NoCommand]
  BY <1>1 DEF LateRuns
<1>3. /\ c.script \in {"reserve", "reconcile"} /\ q \in Pairs /\ c.amount \in Int
      /\ c.script = "reserve" => c.amount \in Nat
  BY <1>2, CommandTyped
<1>4. faults /\ faults'
  BY <1>1, <1>2 DEF LateInv
<1>5. late'[r] = NoCommand /\ \A i \in Slots : i # r => late'[i] = late[i]
  BY <1>1, <1>2 DEF TypeInv, TypeOK
<1>6. LateInv(late[r])' /\ JobInv(job[r])'
  BY <1>1, <1>2, <1>4 DEF LateInv, JobInv
<1>7. /\ \A p \in Pairs : p # q => ledger'[p] = ledger[p] /\ missing'[p] = missing[p]
      /\ c.script = "reserve" => ledger'[q] >= ledger[q] /\ missing'[q] = missing[q]
      /\ c.script = "reconcile" => /\ ledger'[q] = ledger[q] + c.amount
                                   /\ missing'[q] = missing[q] - AtLeastNone(c.amount)
  <2>1. CASE c.script = "reserve"
    <3>1. ledger' = ReserveScript(q, c.amount, c.limit) /\ missing' = missing
      BY <2>1 DEF LateRuns
    <3>2. c.amount \in Nat /\ ledger[q] \in Int
      BY <1>1, <1>3, <2>1
    <3> HIDE DEF c, q
    <3>3. /\ \A p \in Pairs : p # q => ledger'[p] = ledger[p]
          /\ ledger'[q] = ledger[q] + c.amount \/ ledger'[q] = ledger[q]
      BY <1>1, <1>3, <3>1, <3>2, ReserveScriptIs
    <3> QED
      BY <2>1, <3>1, <3>2, <3>3
  <2>2. CASE c.script = "reconcile"
    <3>1. ledger' = ReconcileScript(q, c.amount) /\ MadeUp(q, c.amount)
      BY <2>2 DEF LateRuns
    <3> HIDE DEF c, q
    <3> QED
      BY <1>1, <1>3, <2>2, <3>1, ReconcileScriptIs, MadeUpEffect
  <2> QED
    BY <1>3, <2>1, <2>2
<1>8. ASSUME NEW p \in Pairs
      PROVE  /\ LateTerm(late'[r], p) = 0
             /\ c.script = "reserve" => LateTerm(late[r], p) = 0
             /\ c.script = "reconcile" =>
                  LateTerm(late[r], p) = IF q = p THEN AtLeastNone(-c.amount) ELSE 0
  <2>1. LateTerm(late'[r], p) = 0
    BY <1>5 DEF LateTerm
  <2> QED
    BY <1>2, <2>1, LateTermIs
<1>9. ASSUME NEW p \in Pairs
      PROVE  Accounted(r, p) /\ Covered(r, p)
  <2>1. /\ JobTerm(job[r], p) \in Nat /\ HeldTerm(job[r], p) \in Nat
        /\ spent[p] \in Nat /\ ledger[p] \in Int /\ missing[p] \in Int /\ beyond[p] \in Nat
        /\ ledger'[p] \in Int
    BY <1>1, <1>6, TermsTyped
  <2>2. /\ spent'[p] = spent[p] /\ beyond'[p] = beyond[p] /\ job'[r] = job[r]
        /\ missing[p] <= beyond[p]
    BY <1>1, <1>2 DEF CoveredInv
  <2>3. /\ AtLeastNone(c.amount) \in Nat /\ AtLeastNone(-c.amount) \in Nat
        /\ c.amount = AtLeastNone(c.amount) - AtLeastNone(-c.amount)
    BY <1>3, BothSides
  <2>4. p = q => /\ c.script = "reserve" => ledger'[p] >= ledger[p] /\ missing'[p] = missing[p]
                 /\ c.script = "reconcile" => /\ ledger'[p] = ledger[p] + c.amount
                                              /\ missing'[p] = missing[p] - AtLeastNone(c.amount)
    BY <1>7
  <2>5. p # q => ledger'[p] = ledger[p] /\ missing'[p] = missing[p]
    BY <1>7
  <2>6. /\ LateTerm(late'[r], p) = 0
        /\ c.script = "reserve" => LateTerm(late[r], p) = 0
        /\ c.script = "reconcile" =>
             LateTerm(late[r], p) = IF q = p THEN AtLeastNone(-c.amount) ELSE 0
    BY <1>8
  <2> DEFINE up == AtLeastNone(c.amount)
             down == AtLeastNone(-c.amount)
  <2>7. CASE p # q
    BY <1>3, <1>4, <2>1, <2>2, <2>5, <2>6, <2>7 DEF Accounted, Covered
  <2>8. CASE p = q /\ c.script = "reserve"
    BY <1>4, <2>1, <2>2, <2>4, <2>6, <2>8 DEF Accounted, Covered
  <2>9. CASE p = q /\ c.script = "reconcile"
    <3>1. /\ ledger'[p] = ledger[p] + c.amount /\ missing'[p] = missing[p] - up
          /\ LateTerm(late[r], p) = down
          /\ up \in Nat /\ down \in Nat /\ c.amount = up - down
      BY <2>3, <2>4, <2>6, <2>9
    <3> HIDE DEF up, down, c, q
    <3> QED
      BY <1>3, <1>4, <2>1, <2>2, <2>6, <3>1 DEF Accounted, Covered
  <2> QED
    BY <1>3, <2>7, <2>8, <2>9
<1>10. MovesOnly(r, q)
  <2>1. beyond[q] \in Nat
    BY <1>1, <1>3
  <2> HIDE DEF c, q
  <2> QED
    BY <1>2, <2>1 DEF MovesOnly
<1> HIDE DEF c, q
<1> QED
  BY <1>2, <1>3, <1>5, <1>6, <1>9, <1>10 DEF SlotStep

\* Every step of a handler, and every late command, is such a step.
LEMMA SlotSteps ==
  ASSUME Books, TypeInv', NEW r \in Slots, Handler(r) \/ LateRuns(r)
  PROVE  SlotStep(r)
BY StartStep, GrantedStep, AnsweredStep, ReserveFailsStep, ResendStep, ReconcileFailsStep,
   ReserveRunsStep, ReconcileRunsStep, FinishStep, LateRunsStep DEF Handler

-----------------------------------------------------------------------------
(* The sums.                                                               *)

\* The sums of the terms, for any jobs and commands that have their shapes.
Shaped(jobs, lates) ==
  \A r \in Slots : /\ jobs[r] \in Job /\ JobShape(jobs[r])
                   /\ lates[r] \in Command \cup {NoCommand}

Pends(jobs, lates, p) == [r \in 1 .. N |-> JobTerm(jobs[r], p) + LateTerm(lates[r], p)]
Heldby(jobs, p) == [r \in 1 .. N |-> HeldTerm(jobs[r], p)]
Owedby(jobs, p) == [r \in 1 .. N |-> OwedTerm(jobs[r], p)]

LEMMA SumsTyped ==
  ASSUME NEW jobs, NEW lates, Shaped(jobs, lates), NEW p
  PROVE  /\ N \in Nat
         /\ Pends(jobs, lates, p) \in [1 .. N -> Nat]
         /\ Heldby(jobs, p) \in [1 .. N -> Nat]
         /\ Owedby(jobs, p) \in [1 .. N -> Nat]
         /\ \A r \in 1 .. N :
              /\ Pends(jobs, lates, p)[r] = JobTerm(jobs[r], p) + LateTerm(lates[r], p)
              /\ Heldby(jobs, p)[r] = HeldTerm(jobs[r], p)
              /\ Owedby(jobs, p)[r] = OwedTerm(jobs[r], p)
         /\ Total(N, Pends(jobs, lates, p)) \in Nat
         /\ Total(N, Heldby(jobs, p)) \in Nat
         /\ Total(N, Owedby(jobs, p)) \in Nat
         /\ Total(N, Owedby(jobs, p)) <= Total(N, Heldby(jobs, p))
         /\ Total(N, Heldby(jobs, p)) <= Total(N, Pends(jobs, lates, p))
<1>0. N \in Nat
  BY Constants
<1>1. \A r \in 1 .. N : /\ JobTerm(jobs[r], p) \in Nat /\ LateTerm(lates[r], p) \in Nat
                        /\ HeldTerm(jobs[r], p) \in Nat /\ OwedTerm(jobs[r], p) \in Nat
                        /\ OwedTerm(jobs[r], p) <= HeldTerm(jobs[r], p)
                        /\ HeldTerm(jobs[r], p) <= JobTerm(jobs[r], p)
  BY JobTermIs, LateTermIs, HeldTermIs DEF Shaped, Slots
<1>2. \A r \in 1 .. N : /\ JobTerm(jobs[r], p) + LateTerm(lates[r], p) \in Nat
                        /\ HeldTerm(jobs[r], p)
                             <= JobTerm(jobs[r], p) + LateTerm(lates[r], p)
  BY <1>1
<1> DEFINE f == Pends(jobs, lates, p)
           g == Heldby(jobs, p)
           h == Owedby(jobs, p)
<1>3. /\ f \in [1 .. N -> Nat] /\ g \in [1 .. N -> Nat] /\ h \in [1 .. N -> Nat]
      /\ \A r \in 1 .. N : /\ f[r] = JobTerm(jobs[r], p) + LateTerm(lates[r], p)
                           /\ g[r] = HeldTerm(jobs[r], p) /\ h[r] = OwedTerm(jobs[r], p)
  BY <1>1, <1>2 DEF Pends, Heldby, Owedby
<1> HIDE DEF f, g, h
<1>4. \A r \in 1 .. N : h[r] <= g[r] /\ g[r] <= f[r]
  BY <1>1, <1>2, <1>3
<1>5. Total(N, h) <= Total(N, g) /\ Total(N, g) <= Total(N, f)
  BY <1>0, <1>3, <1>4, TotalMonotone
<1>6. Total(N, f) \in Nat /\ Total(N, g) \in Nat /\ Total(N, h) \in Nat
  BY <1>0, <1>3, TotalType
<1> QED
  BY <1>0, <1>3, <1>5, <1>6 DEF f, g, h

LEMMA MeterShaped ==
  ASSUME TypeInv, MeterInv
  PROVE  Shaped(job, late)
BY SlotFacts DEF Shaped

\* The sums that the invariants are about.
LEMMA SumsAre ==
  ASSUME NEW p
  PROVE  /\ Outstanding(p) = Pends(job, late, p) /\ Holds(p) = Heldby(job, p)
         /\ Owed(p) = Owedby(job, p)
BY DEF Outstanding, Pends, JobTerm, LateTerm, Holds, Heldby, Owed, Owedby, OwedTerm, Estimate, Slots

\* The same after a step.
LEMMA SumsAreNext ==
  ASSUME NEW p
  PROVE  /\ Outstanding(p)' = Pends(job', late', p) /\ Holds(p)' = Heldby(job', p)
         /\ Owed(p)' = Owedby(job', p)
BY DEF Outstanding, Pends, JobTerm, LateTerm, Holds, Heldby, Owed, Owedby, OwedTerm, Estimate, Slots

\* A step of slot r changes the sums as it changes the slot's terms.
LEMMA SumsMove ==
  ASSUME NEW jobs, NEW lates, NEW jobs2, NEW lates2, NEW p, NEW r \in Slots,
         Shaped(jobs, lates), Shaped(jobs2, lates2),
         \A i \in Slots : i # r => jobs2[i] = jobs[i] /\ lates2[i] = lates[i]
  PROVE  /\ Total(N, Pends(jobs2, lates2, p))
              + (JobTerm(jobs[r], p) + LateTerm(lates[r], p))
              = Total(N, Pends(jobs, lates, p))
                  + (JobTerm(jobs2[r], p) + LateTerm(lates2[r], p))
         /\ Total(N, Heldby(jobs2, p)) + HeldTerm(jobs[r], p)
              = Total(N, Heldby(jobs, p)) + HeldTerm(jobs2[r], p)
         /\ Total(N, Owedby(jobs2, p)) + OwedTerm(jobs[r], p)
              = Total(N, Owedby(jobs, p)) + OwedTerm(jobs2[r], p)
<1>0. N \in Nat /\ r \in 1 .. N
  BY Constants DEF Slots
<1> DEFINE f == Pends(jobs, lates, p)   f2 == Pends(jobs2, lates2, p)
           g == Heldby(jobs, p)         g2 == Heldby(jobs2, p)
           h == Owedby(jobs, p)         h2 == Owedby(jobs2, p)
<1>1. /\ f \in [1 .. N -> Nat] /\ g \in [1 .. N -> Nat] /\ h \in [1 .. N -> Nat]
      /\ \A i \in 1 .. N : /\ f[i] = JobTerm(jobs[i], p) + LateTerm(lates[i], p)
                           /\ g[i] = HeldTerm(jobs[i], p) /\ h[i] = OwedTerm(jobs[i], p)
  BY SumsTyped
<1>2. /\ f2 \in [1 .. N -> Nat] /\ g2 \in [1 .. N -> Nat] /\ h2 \in [1 .. N -> Nat]
      /\ \A i \in 1 .. N : /\ f2[i] = JobTerm(jobs2[i], p) + LateTerm(lates2[i], p)
                           /\ g2[i] = HeldTerm(jobs2[i], p) /\ h2[i] = OwedTerm(jobs2[i], p)
  BY SumsTyped
<1> HIDE DEF f, g, h, f2, g2, h2
<1>3. \A i \in 1 .. N : i # r => f2[i] = f[i] /\ g2[i] = g[i] /\ h2[i] = h[i]
  BY <1>1, <1>2 DEF Slots
<1>4. /\ OneTermChanges(N, f, f2, r) /\ OneTermChanges(N, g, g2, r)
      /\ OneTermChanges(N, h, h2, r)
  BY <1>0, <1>1, <1>2, <1>3 DEF OneTermChanges
<1>5. /\ Total(N, f2) + f[r] = Total(N, f) + f2[r]
      /\ Total(N, g2) + g[r] = Total(N, g) + g2[r]
      /\ Total(N, h2) + h[r] = Total(N, h) + h2[r]
  BY <1>0, <1>4, TotalUpdate
<1> QED
  BY <1>0, <1>1, <1>2, <1>5 DEF f, g, h, f2, g2, h2

\* What the invariants say of p, with its sums named.
LEMMA BooksOf ==
  ASSUME Books, NEW p \in Pairs
  PROVE  /\ IF faults THEN ledger[p] + missing[p] >= spent[p] + Total(N, Pends(job, late, p))
                      ELSE ledger[p] + missing[p] = spent[p] + Total(N, Pends(job, late, p))
         /\ missing[p] <= beyond[p]
         /\ spent[p] + Total(N, Heldby(job, p)) <= ceiling[p[1]] + beyond[p]
         /\ spent[p] \in Nat /\ ledger[p] \in Int /\ missing[p] \in Int /\ beyond[p] \in Nat
         /\ ceiling[p[1]] \in Nat /\ faults \in BOOLEAN
<1>1. /\ Outstanding(p) = Pends(job, late, p) /\ Holds(p) = Heldby(job, p)
  BY SumsAre
<1>2. /\ spent[p] \in Nat /\ ledger[p] \in Int /\ missing[p] \in Int /\ beyond[p] \in Nat
      /\ ceiling[p[1]] \in Nat /\ faults \in BOOLEAN
  BY DEF Books, TypeInv, TypeOK, Pairs
<1> QED
  BY <1>1, <1>2 DEF Books, LedgerAccounts, CoveredInv

LEMMA SlotStepKeeps ==
  ASSUME Books, TypeInv', NEW r \in Slots, SlotStep(r)
  PROVE  Books'
<1>1. TypeInv /\ MeterInv
  BY DEF Books
<1>2. MeterInv'
  <2>1. ASSUME NEW i \in Slots
        PROVE  (JobInv(job[i]) /\ LateInv(late[i]))'
    <3>1. CASE i = r
      BY <3>1 DEF SlotStep
    <3>2. CASE i # r
      <4>1. /\ job'[i] = job[i] /\ late'[i] = late[i] /\ ceiling' = ceiling
            /\ faults => faults'
        BY <3>2 DEF SlotStep
      <4>2. JobInv(job[i]) /\ LateInv(late[i])
        BY <1>1, SlotFacts
      <4> QED
        BY <4>1, <4>2 DEF JobInv, LateInv
    <3> QED
      BY <3>1, <3>2
  <2>2. SettingsInv'
    BY <1>1 DEF SlotStep, MeterInv, SettingsInv
  <2> QED
    BY <2>1, <2>2 DEF MeterInv
<1>3. Shaped(job, late) /\ Shaped(job', late')
  BY <1>1, <1>2, MeterShaped DEF Shaped, MeterInv, TypeInv, TypeOK, JobInv
<1>4. ASSUME NEW p \in Pairs
      PROVE  /\ IF faults'
                THEN ledger'[p] + missing'[p] >= spent'[p] + Total(N, Pends(job', late', p))
                ELSE ledger'[p] + missing'[p] = spent'[p] + Total(N, Pends(job', late', p))
             /\ missing'[p] <= beyond'[p]
             /\ spent'[p] + Total(N, Heldby(job', p)) <= ceiling'[p[1]] + beyond'[p]
  <2> DEFINE f == Total(N, Pends(job, late, p))    f2 == Total(N, Pends(job', late', p))
             g == Total(N, Heldby(job, p))         g2 == Total(N, Heldby(job', p))
  <2>1. /\ f \in Nat /\ g \in Nat /\ g <= f /\ f2 \in Nat /\ g2 \in Nat
    BY <1>3, SumsTyped
  <2>2. /\ f2 + (JobTerm(job[r], p) + LateTerm(late[r], p))
             = f + (JobTerm(job'[r], p) + LateTerm(late'[r], p))
        /\ g2 + HeldTerm(job[r], p) = g + HeldTerm(job'[r], p)
    BY <1>3, SumsMove DEF SlotStep
  <2>3. /\ IF faults THEN ledger[p] + missing[p] >= spent[p] + f
                     ELSE ledger[p] + missing[p] = spent[p] + f
        /\ spent[p] + g <= ceiling[p[1]] + beyond[p]
    BY BooksOf
  <2>4. /\ Accounted(r, p) /\ Covered(r, p) /\ ceiling' = ceiling
        /\ faults => faults'
    BY DEF SlotStep
  <2>5. /\ JobTerm(job[r], p) \in Nat /\ JobTerm(job'[r], p) \in Nat
        /\ LateTerm(late[r], p) \in Nat /\ LateTerm(late'[r], p) \in Nat
        /\ HeldTerm(job[r], p) \in Nat /\ HeldTerm(job'[r], p) \in Nat
        /\ spent[p] \in Nat /\ ledger[p] \in Int /\ missing[p] \in Int /\ beyond[p] \in Nat
        /\ spent'[p] \in Nat /\ ledger'[p] \in Int /\ missing'[p] \in Int
        /\ beyond'[p] \in Nat /\ ceiling[p[1]] \in Nat
    BY <1>1, TermsTyped DEF SlotStep
  <2>6. faults \in BOOLEAN /\ faults' \in BOOLEAN
    BY DEF Books, TypeInv, TypeOK
  <2> HIDE DEF f, f2, g, g2
  <2>7. IF faults' THEN ledger'[p] + missing'[p] >= spent'[p] + f2
                   ELSE ledger'[p] + missing'[p] = spent'[p] + f2
    <3>1. ledger[p] + missing[p] >= spent[p] + f
      BY <2>1, <2>3, <2>5, <2>6
    <3>2. ledger'[p] + missing'[p] >= spent'[p] + f2
      BY <2>1, <2>2, <2>4, <2>5, <3>1 DEF Accounted
    <3>3. ~faults' => ledger'[p] + missing'[p] = spent'[p] + f2
      BY <2>1, <2>2, <2>3, <2>4, <2>5, <2>6 DEF Accounted
    <3> QED
      BY <2>6, <3>2, <3>3
  <2>8. missing'[p] <= beyond'[p]
    BY <2>4 DEF Covered
  <2>9. spent'[p] + g2 <= ceiling[p[1]] + beyond'[p]
    <3>1. ledger[p] + missing[p] >= spent[p] + f
      BY <2>1, <2>3, <2>5, <2>6
    <3>2. CASE (spent'[p] + HeldTerm(job'[r], p)) - (spent[p] + HeldTerm(job[r], p))
                 <= beyond'[p] - beyond[p]
      BY <2>1, <2>2, <2>3, <2>5, <3>2
    <3>3. CASE /\ spent'[p] = spent[p] /\ HeldTerm(job[r], p) = 0
               /\ ledger[p] + HeldTerm(job'[r], p) <= ceiling[p[1]]
               /\ beyond'[p] >= missing[p]
      BY <2>1, <2>2, <2>5, <3>1, <3>3
    <3> QED
      BY <2>4, <3>2, <3>3 DEF Covered
  <2> QED
    BY <2>4, <2>7, <2>8, <2>9 DEF f2, g2
<1>5. LedgerAccounts'
  BY <1>4, SumsAreNext DEF LedgerAccounts
<1>6. CoveredInv'
  BY <1>4, SumsAreNext DEF CoveredInv
<1> QED
  BY <1>2, <1>5, <1>6 DEF Books

\* Settings are given, and nobody's limit is above the ceiling that this makes.
LEMMA ApplyKeeps ==
  ASSUME Books, TypeInv', NEW i \in Instances, NEW b \in SettingsChoices, ApplySettings(i, b)
  PROVE  /\ Books'
         /\ \A u \in Users : ceiling[u] <= ceiling'[u]
<1>0. TypeInv /\ MeterInv /\ CoveredInv /\ LedgerAccounts
  BY DEF Books
<1>1. /\ UNCHANGED <<today, ledger, spent, missing, beyond, faults, late, job>>
      /\ settings' = [settings EXCEPT ![i] = b] /\ ceiling' = Raised(b)
  BY DEF ApplySettings
<1>2. /\ ceiling \in [Users -> Nat] /\ ceiling' \in [Users -> Nat]
      /\ settings \in [Instances -> SettingsChoices]
  BY <1>0 DEF TypeInv, TypeOK
<1>3. \A u \in Users : ceiling[u] <= ceiling'[u]
  BY <1>1, <1>2, Constants DEF Raised
<1>4. \A u \in DOMAIN b : b[u] <= ceiling'[u]
  BY <1>1, <1>2, Constants DEF Raised
<1>5. SettingsInv'
  <2> SUFFICES ASSUME NEW k \in Instances, NEW u \in DOMAIN settings'[k]
               PROVE  settings'[k][u] <= ceiling'[u]
    BY DEF SettingsInv
  <2>1. CASE k = i
    BY <1>1, <1>2, <1>4, <2>1
  <2>2. CASE k # i
    <3>1. settings'[k] = settings[k] /\ settings[k] \in SettingsChoices
      BY <1>1, <1>2, <2>2
    <3>2. u \in Users /\ settings[k][u] \in Nat /\ settings[k][u] <= ceiling[u]
      BY <1>0, <3>1, Constants DEF MeterInv, SettingsInv
    <3> QED
      BY <1>2, <1>3, <3>1, <3>2
  <2> QED
    BY <2>1, <2>2
<1>6. CoveredInv'
  <2> SUFFICES ASSUME NEW p \in Pairs
               PROVE  /\ missing[p] <= beyond[p]
                      /\ spent[p] + Total(N, Heldby(job, p)) <= ceiling'[p[1]] + beyond[p]
    BY <1>1, SumsAreNext DEF CoveredInv
  <2>1. p[1] \in Users
    BY DEF Pairs
  <2>2. ceiling[p[1]] <= ceiling'[p[1]] /\ ceiling'[p[1]] \in Nat
    BY <1>2, <1>3, <2>1
  <2>3. Total(N, Heldby(job, p)) \in Nat
    BY <1>0, MeterShaped, SumsTyped
  <2> QED
    BY <2>2, <2>3, BooksOf
<1>7. ASSUME NEW r \in Slots
      PROVE  (JobInv(job[r]) /\ LateInv(late[r]))'
  <2>1. /\ job[r] \in Job /\ JobInv(job[r]) /\ LateInv(late[r])
    BY <1>0, SlotFacts
  <2>2. job[r].req.user \in Users /\ job[r].limit \in Nat
    BY <2>1, JobTyped
  <2>3. JobInv(job[r])'
    BY <1>1, <1>2, <1>3, <2>1, <2>2 DEF JobInv
  <2>4. LateInv(late[r])'
    BY <1>1, <2>1 DEF LateInv
  <2> QED
    BY <2>3, <2>4
<1>8. LedgerAccounts'
  BY <1>0, <1>1 DEF LedgerAccounts, Outstanding
<1> QED
  BY <1>3, <1>5, <1>6, <1>7, <1>8 DEF MeterInv, Books

\* An instance dies, and less is pending than the ledger holds for it.
LEMMA CrashTotals ==
  ASSUME Books, TypeInv', NEW i \in Instances, Crash(i), NEW p
  PROVE  /\ Shaped(job, late) /\ Shaped(job', late')
         /\ Total(N, Pends(job', late', p)) <= Total(N, Pends(job, late, p))
         /\ Total(N, Heldby(job', p)) <= Total(N, Heldby(job, p))
         /\ Total(N, Owedby(job', p)) <= Total(N, Owedby(job, p))
<1>1. /\ late' = late /\ \A r \in Slots : job'[r] = Idle \/ job'[r] = job[r]
  BY DEF Crash
<1>2. Shaped(job, late)
  BY MeterShaped DEF Books
<1>3. Shaped(job', late')
  BY <1>1, <1>2, IdleTyped DEF Shaped, JobShape
<1>4. ASSUME NEW r \in 1 .. N
      PROVE  /\ JobTerm(job'[r], p) + LateTerm(late'[r], p)
                  <= JobTerm(job[r], p) + LateTerm(late[r], p)
             /\ HeldTerm(job'[r], p) <= HeldTerm(job[r], p)
             /\ OwedTerm(job'[r], p) <= OwedTerm(job[r], p)
  <2>1. /\ JobTerm(job[r], p) \in Nat /\ LateTerm(late[r], p) \in Nat
        /\ HeldTerm(job[r], p) \in Nat /\ OwedTerm(job[r], p) \in Nat
    BY <1>2, JobTermIs, LateTermIs, HeldTermIs DEF Shaped, Slots
  <2>2. /\ JobTerm(Idle, p) = 0 /\ HeldTerm(Idle, p) = 0 /\ OwedTerm(Idle, p) = 0
    BY IdleTyped, JobTermIs, HeldTermIs DEF JobShape
  <2>3. CASE job'[r] = job[r]
    BY <1>1, <2>1, <2>3
  <2>4. CASE job'[r] = Idle
    BY <1>1, <2>1, <2>2, <2>4
  <2> QED
    BY <1>1, <2>3, <2>4 DEF Slots
<1> DEFINE f == Pends(job, late, p)   f2 == Pends(job', late', p)
           g == Heldby(job, p)        g2 == Heldby(job', p)
           h == Owedby(job, p)        h2 == Owedby(job', p)
<1>5. /\ N \in Nat
      /\ f \in [1 .. N -> Nat] /\ g \in [1 .. N -> Nat] /\ h \in [1 .. N -> Nat]
      /\ \A r \in 1 .. N : /\ f[r] = JobTerm(job[r], p) + LateTerm(late[r], p)
                           /\ g[r] = HeldTerm(job[r], p) /\ h[r] = OwedTerm(job[r], p)
  BY <1>2, SumsTyped
<1>6. /\ f2 \in [1 .. N -> Nat] /\ g2 \in [1 .. N -> Nat] /\ h2 \in [1 .. N -> Nat]
      /\ \A r \in 1 .. N : /\ f2[r] = JobTerm(job'[r], p) + LateTerm(late'[r], p)
                           /\ g2[r] = HeldTerm(job'[r], p) /\ h2[r] = OwedTerm(job'[r], p)
  BY <1>3, SumsTyped
<1> HIDE DEF f, g, h, f2, g2, h2
<1>7. \A r \in 1 .. N : f2[r] <= f[r] /\ g2[r] <= g[r] /\ h2[r] <= h[r]
  BY <1>4, <1>5, <1>6
<1>8. Total(N, f2) <= Total(N, f) /\ Total(N, g2) <= Total(N, g) /\ Total(N, h2) <= Total(N, h)
  BY <1>5, <1>6, <1>7, TotalMonotone
<1> QED
  BY <1>2, <1>3, <1>8 DEF f, g, h, f2, g2, h2

LEMMA CrashKeeps ==
  ASSUME Books, TypeInv', NEW i \in Instances, Crash(i)
  PROVE  Books'
<1>0. TypeInv /\ MeterInv
  BY DEF Books
<1>1. /\ UNCHANGED <<today, settings, ceiling, ledger, spent, missing, beyond, late>> /\ faults'
      /\ \A r \in Slots : job'[r] = Idle \/ job'[r] = job[r]
  BY DEF Crash
<1>2. MeterInv'
  <2>1. ASSUME NEW r \in Slots
        PROVE  (JobInv(job[r]) /\ LateInv(late[r]))'
    <3>1. JobInv(job[r]) /\ LateInv(late[r])
      BY <1>0, SlotFacts
    <3>2. LateInv(late[r])'
      BY <1>1 DEF LateInv
    <3>3. CASE job'[r] = Idle
      BY <3>2, <3>3, IdleTyped DEF JobInv, JobShape
    <3>4. CASE job'[r] = job[r]
      BY <1>1, <3>1, <3>2, <3>4 DEF JobInv
    <3> QED
      BY <1>1, <3>3, <3>4
  <2>2. SettingsInv'
    BY <1>0, <1>1 DEF MeterInv, SettingsInv
  <2> QED
    BY <2>1, <2>2 DEF MeterInv
<1>3. ASSUME NEW p \in Pairs
      PROVE  /\ ledger'[p] + missing'[p] >= spent'[p] + Total(N, Pends(job', late', p))
             /\ missing'[p] <= beyond'[p]
             /\ spent'[p] + Total(N, Heldby(job', p)) <= ceiling'[p[1]] + beyond'[p]
  <2> DEFINE f == Total(N, Pends(job, late, p))    f2 == Total(N, Pends(job', late', p))
             g == Total(N, Heldby(job, p))         g2 == Total(N, Heldby(job', p))
  <2>1. f2 <= f /\ g2 <= g /\ Shaped(job, late) /\ Shaped(job', late')
    BY CrashTotals
  <2>2. f \in Nat /\ g \in Nat /\ f2 \in Nat /\ g2 \in Nat
    BY <2>1, SumsTyped
  <2>3. /\ IF faults THEN ledger[p] + missing[p] >= spent[p] + f
                     ELSE ledger[p] + missing[p] = spent[p] + f
        /\ missing[p] <= beyond[p] /\ spent[p] + g <= ceiling[p[1]] + beyond[p]
        /\ spent[p] \in Nat /\ ledger[p] \in Int /\ missing[p] \in Int /\ beyond[p] \in Nat
        /\ ceiling[p[1]] \in Nat /\ faults \in BOOLEAN
    BY BooksOf
  <2> HIDE DEF f, f2, g, g2
  <2>4. ledger[p] + missing[p] >= spent[p] + f2 /\ spent[p] + g2 <= ceiling[p[1]] + beyond[p]
    BY <2>1, <2>2, <2>3
  <2> QED
    BY <1>1, <2>3, <2>4 DEF f2, g2
<1>4. LedgerAccounts'
  BY <1>1, <1>3, SumsAreNext DEF LedgerAccounts
<1>5. CoveredInv'
  BY <1>3, SumsAreNext DEF CoveredInv
<1> QED
  BY <1>2, <1>4, <1>5 DEF Books

LEMMA InitBooks ==
  ASSUME Init
  PROVE  Books
<1>1. TypeInv
  BY InitTyped
<1>2. PICK b \in SettingsChoices :
        /\ settings = [i \in Instances |-> b]
        /\ ceiling = [u \in Users |-> IF u \in DOMAIN b THEN b[u] ELSE 0]
  BY DEF Init
<1>3. /\ ledger = [p \in Pairs |-> 0] /\ spent = [p \in Pairs |-> 0] /\ faults = FALSE
      /\ missing = [p \in Pairs |-> 0] /\ beyond = [p \in Pairs |-> 0]
      /\ late = [r \in Slots |-> NoCommand] /\ job = [r \in Slots |-> Idle]
  BY DEF Init
<1>4. SettingsInv
  BY <1>2, Constants DEF SettingsInv
<1>5. \A r \in Slots : JobInv(job[r]) /\ LateInv(late[r])
  BY <1>3, IdleTyped, CommandTyped DEF JobInv, JobShape, LateInv
<1>6. MeterInv
  BY <1>4, <1>5 DEF MeterInv
<1>7. ASSUME NEW p \in Pairs
      PROVE  Total(N, Outstanding(p)) = 0 /\ Total(N, Holds(p)) = 0
  <2>1. PICK f, g : f = Pends(job, late, p) /\ g = Heldby(job, p)
    OBVIOUS
  <2>2. /\ f \in [1 .. N -> Nat] /\ g \in [1 .. N -> Nat] /\ N \in Nat
        /\ \A r \in 1 .. N : /\ f[r] = JobTerm(job[r], p) + LateTerm(late[r], p)
                             /\ g[r] = HeldTerm(job[r], p)
    BY <1>1, <1>6, <2>1, MeterShaped, SumsTyped
  <2>3. /\ JobTerm(Idle, p) = 0 /\ HeldTerm(Idle, p) = 0
    BY IdleTyped, JobTermIs, HeldTermIs DEF JobShape
  <2>4. \A r \in 1 .. N : job[r] = Idle /\ LateTerm(late[r], p) = 0
    BY <1>3 DEF LateTerm, Slots
  <2>5. ASSUME NEW r \in 1 .. N
        PROVE  f[r] = 0 /\ g[r] = 0
    <3>1. JobTerm(job[r], p) = 0 /\ HeldTerm(job[r], p) = 0 /\ LateTerm(late[r], p) = 0
      BY <2>3, <2>4
    <3> QED
      BY <2>2, <3>1
  <2>6. Total(N, f) = 0 /\ Total(N, g) = 0
    BY <2>2, <2>5, TotalZero
  <2> QED
    BY <2>1, <2>6, SumsAre
<1>8. \A p \in Pairs : ceiling[p[1]] \in Nat
  BY <1>1 DEF TypeInv, TypeOK, Pairs
<1>9. LedgerAccounts
  BY <1>3, <1>7 DEF LedgerAccounts
<1>10. CoveredInv
  BY <1>3, <1>7, <1>8 DEF CoveredInv
<1> QED
  BY <1>1, <1>6, <1>9, <1>10 DEF Books

LEMMA NextBooks ==
  ASSUME Books, [Next]_vars
  PROVE  Books'
<1>1. TypeInv /\ MeterInv /\ LedgerAccounts /\ CoveredInv
  BY DEF Books
<1>2. ASSUME NEW r \in Slots, Handler(r) \/ LateRuns(r)
      PROVE  Books'
  <2>1. TypeInv'
    BY <1>1, <1>2, HandlerTyped, EnvironmentTyped DEF Environment
  <2>2. SlotStep(r)
    BY <1>2, <2>1, SlotSteps
  <2> QED
    BY <2>1, <2>2, SlotStepKeeps
<1>3. ASSUME NEW i \in Instances, NEW b \in SettingsChoices, ApplySettings(i, b)
      PROVE  Books'
  <2>1. TypeInv'
    BY <1>1, <1>3, EnvironmentTyped DEF Environment
  <2> QED
    BY <1>3, <2>1, ApplyKeeps
<1>4. ASSUME NEW i \in Instances, Crash(i)
      PROVE  Books'
  <2>1. TypeInv'
    BY <1>1, <1>4, EnvironmentTyped DEF Environment
  <2> QED
    BY <1>4, <2>1, CrashKeeps
<1>5. CASE Midnight \/ UNCHANGED vars
  <2>1. TypeInv'
    BY <1>1, <1>5, EnvironmentTyped DEF Environment, vars, TypeInv, TypeOK, DeltaInv
  <2>2. UNCHANGED <<settings, ceiling, ledger, spent, missing, beyond, faults, late, job>>
    BY <1>5 DEF Midnight, vars
  <2>3. MeterInv'
    BY <1>1, <2>2 DEF MeterInv, JobInv, LateInv, SettingsInv
  <2>4. LedgerAccounts'
    BY <1>1, <2>2 DEF LedgerAccounts, Outstanding
  <2>5. CoveredInv'
    BY <1>1, <2>2 DEF CoveredInv, Holds
  <2> QED
    BY <2>1, <2>3, <2>4, <2>5 DEF Books
<1> QED
  BY <1>2, <1>3, <1>4, <1>5 DEF Next, Environment

LEMMA AlwaysBooks == Spec => []Books
<1>1. Init => Books
  BY InitBooks
<1>2. Books /\ [Next]_vars => Books'
  BY NextBooks
<1> QED
  BY <1>1, <1>2, PTL DEF Spec

\* The shared counters never lose a charge: across any instances, charges above
\* their estimates, broken connections, deaths, midnights and commands that run
\* late or twice, they and what is known to be missing from them cover what was
\* charged and is pending, and are exactly that until something fails.
THEOREM LedgerNeverLoses == Spec => []LedgerAccounts
<1>1. Books => LedgerAccounts
  BY DEF Books
<1> QED
  BY <1>1, AlwaysBooks, PTL

-----------------------------------------------------------------------------
(* The promise.                                                            *)

LEMMA CommitmentCovered ==
  ASSUME Books
  PROVE  CommitmentWithinCeiling
<1> SUFFICES ASSUME NEW p \in Pairs
             PROVE  Commitment(p) <= ceiling[p[1]] + beyond[p]
  BY DEF CommitmentWithinCeiling
<1> DEFINE g == Total(N, Heldby(job, p))
           h == Total(N, Owedby(job, p))
<1>1. g \in Nat /\ h \in Nat /\ h <= g
  BY MeterShaped, SumsTyped DEF Books
<1>2. /\ spent[p] + g <= ceiling[p[1]] + beyond[p]
      /\ spent[p] \in Nat /\ beyond[p] \in Nat /\ ceiling[p[1]] \in Nat
  BY BooksOf
<1>3. Commitment(p) = spent[p] + h
  BY SumsAre DEF Commitment
<1> HIDE DEF g, h
<1> QED
  BY <1>1, <1>2, <1>3

\* The instances together keep every user's budget of every day: what its
\* requests were and may be charged passes the highest limit that any instance
\* has given the user at most by what was missing from the counter at the last
\* admission, or has come to be since.
THEOREM BudgetsKeptTogether == Spec => []CommitmentWithinCeiling
<1>1. Books => CommitmentWithinCeiling
  BY CommitmentCovered
<1> QED
  BY <1>1, AlwaysBooks, PTL

\* A commitment with its sum named.
LEMMA CommitmentIs ==
  ASSUME Books, Books', NEW p \in Pairs
  PROVE  /\ Commitment(p) = spent[p] + Total(N, Owedby(job, p))
         /\ Commitment(p)' = spent'[p] + Total(N, Owedby(job', p))
         /\ Total(N, Owedby(job, p)) \in Nat /\ Total(N, Owedby(job', p)) \in Nat
         /\ spent[p] \in Nat /\ spent'[p] \in Nat
         /\ Commitment(p) \in Nat /\ Commitment(p)' \in Nat
         /\ Commitment(p)' <= ceiling'[p[1]] + beyond'[p]
<1>1. Shaped(job, late) /\ Shaped(job', late')
  <2>1. Shaped(job, late)
    BY MeterShaped DEF Books
  <2>2. Shaped(job', late')
    BY DEF Books, Shaped, MeterInv, TypeInv, TypeOK, JobInv
  <2> QED
    BY <2>1, <2>2
<1>2. Total(N, Owedby(job, p)) \in Nat /\ Total(N, Owedby(job', p)) \in Nat
  BY <1>1, SumsTyped
<1>3. spent[p] \in Nat /\ spent'[p] \in Nat
  BY DEF Books, TypeInv, TypeOK
<1>4. Commitment(p) = spent[p] + Total(N, Owedby(job, p))
  BY SumsAre DEF Commitment
<1>5. Commitment(p)' = spent'[p] + Total(N, Owedby(job', p))
  BY SumsAreNext DEF Commitment
<1>6. Commitment(p)' <= ceiling'[p[1]] + beyond'[p]
  <2> DEFINE g == Total(N, Heldby(job', p))
             h == Total(N, Owedby(job', p))
  <2>1. g \in Nat /\ h \in Nat /\ h <= g
    BY <1>1, SumsTyped
  <2>2. spent'[p] + g <= ceiling'[p[1]] + beyond'[p]
    BY SumsAreNext DEF Books, CoveredInv
  <2>3. beyond'[p] \in Nat /\ ceiling'[p[1]] \in Nat
    BY DEF Books, TypeInv, TypeOK, Pairs
  <2>4. Commitment(p)' = spent'[p] + h
    BY <1>5
  <2> HIDE DEF g, h
  <2> QED
    BY <1>3, <2>1, <2>2, <2>3, <2>4
<1> QED
  BY <1>2, <1>3, <1>4, <1>5, <1>6

LEMMA InitLedger == Init => Ledger!Init
<1> SUFFICES ASSUME Init PROVE Ledger!Init
  OBVIOUS
<1>1. Books
  BY InitBooks
<1>2. ASSUME NEW p \in Pairs
      PROVE  Commitment(p) = 0
  <2>1. PICK h : h = Owedby(job, p)
    OBVIOUS
  <2>2. /\ h \in [1 .. N -> Nat] /\ N \in Nat
        /\ \A r \in 1 .. N : h[r] = OwedTerm(job[r], p)
    BY <1>1, <2>1, MeterShaped, SumsTyped DEF Books
  <2>3. \A r \in 1 .. N : h[r] = 0
    BY <2>2, IdleTyped DEF Init, OwedTerm, Slots
  <2>4. Total(N, h) = 0
    BY <2>2, <2>3, TotalZero
  <2>5. spent[p] = 0
    BY DEF Init
  <2> QED
    BY <2>1, <2>4, <2>5, SumsAre DEF Commitment
<1>3. [p \in Pairs |-> ceiling[p[1]]] \in [Pairs -> Nat]
  BY <1>1 DEF Books, TypeInv, TypeOK, Pairs
<1>4. beyond = [p \in Pairs |-> 0]
  BY DEF Init
<1> QED
  BY <1>2, <1>3, <1>4 DEF Ledger!Init

\* The ledger's variables in the next state.
LEMMA LedgerTyped ==
  ASSUME Books, Books'
  PROVE  /\ [p \in Pairs |-> Commitment(p)]' \in [Pairs -> Nat]
         /\ \A p \in Pairs : [x \in Pairs |-> Commitment(x)]'[p] = Commitment(p)'
         /\ beyond' \in [Pairs -> Nat]
<1>1. \A p \in Pairs : Commitment(p)' \in Nat
  BY CommitmentIs
<1>2. beyond' \in [Pairs -> Nat]
  BY DEF Books, TypeInv, TypeOK
<1> QED
  BY <1>1, <1>2

\* A slot's step admits, or what comes in beyond is spilled.
LEMMA SlotLedger ==
  ASSUME Books, Books', NEW r \in Slots, SlotStep(r)
  PROVE  Ledger!Next
<1>1. PICK q \in Pairs : MovesOnly(r, q)
  BY DEF SlotStep
<1>2. Shaped(job, late) /\ Shaped(job', late')
  <2>1. Shaped(job, late)
    BY MeterShaped DEF Books
  <2>2. Shaped(job', late')
    BY DEF Books, Shaped, MeterInv, TypeInv, TypeOK, JobInv
  <2> QED
    BY <2>1, <2>2
<1>3. ASSUME NEW p \in Pairs
      PROVE  /\ Commitment(p) \in Nat /\ Commitment(p)' \in Nat
             /\ Commitment(p)' - Commitment(p)
                  = (spent'[p] + OwedTerm(job'[r], p)) - (spent[p] + OwedTerm(job[r], p))
  <2> DEFINE h == Total(N, Owedby(job, p))
             h2 == Total(N, Owedby(job', p))
  <2>1. h2 + OwedTerm(job[r], p) = h + OwedTerm(job'[r], p)
    BY <1>2, SumsMove DEF SlotStep
  <2>2. /\ Commitment(p) = spent[p] + h /\ Commitment(p)' = spent'[p] + h2
        /\ h \in Nat /\ h2 \in Nat /\ spent[p] \in Nat /\ spent'[p] \in Nat
    BY CommitmentIs
  <2>3. OwedTerm(job[r], p) \in Nat /\ OwedTerm(job'[r], p) \in Nat
    BY <1>2, HeldTermIs DEF Shaped
  <2> HIDE DEF h, h2
  <2> QED
    BY <2>1, <2>2, <2>3
<1>4. ASSUME NEW p \in Pairs, p # q
      PROVE  Commitment(p)' = Commitment(p) /\ beyond'[p] = beyond[p]
  <2>1. /\ spent'[p] = spent[p] /\ beyond'[p] = beyond[p]
        /\ OwedTerm(job'[r], p) = OwedTerm(job[r], p)
    BY <1>1, <1>4 DEF MovesOnly
  <2>2. spent[p] \in Nat /\ OwedTerm(job[r], p) \in Nat
    BY <1>2, CommitmentIs, HeldTermIs DEF Shaped
  <2> QED
    BY <1>3, <2>1, <2>2
<1>5. /\ [p \in Pairs |-> Commitment(p)]' \in [Pairs -> Nat]
      /\ \A p \in Pairs : [x \in Pairs |-> Commitment(x)]'[p] = Commitment(p)'
      /\ beyond' \in [Pairs -> Nat]
  BY LedgerTyped
<1>6. [p \in Pairs |-> ceiling[p[1]]]' = [p \in Pairs |-> ceiling[p[1]]]
  BY DEF SlotStep
<1>7. Ledger!OnlyFor(q)
  BY <1>4, <1>5, <1>6 DEF Ledger!OnlyFor
<1>8. beyond[q] \in Nat /\ beyond'[q] \in Nat
  BY <1>5 DEF Books, TypeInv, TypeOK
<1>9. CASE beyond'[q] <= beyond[q]
  <2>1. Commitment(q)' <= ceiling[q[1]] + beyond'[q]
    BY CommitmentIs DEF SlotStep
  <2>2. Ledger!Admit(q)
    BY <1>5, <1>7, <1>9, <2>1 DEF Ledger!Admit
  <2> QED
    BY <1>5, <2>2 DEF Ledger!Next
<1>10. CASE ~(beyond'[q] <= beyond[q])
  <2>1. (spent'[q] + OwedTerm(job'[r], q)) - (spent[q] + OwedTerm(job[r], q))
          <= beyond'[q] - beyond[q]
    BY <1>1, <1>10 DEF MovesOnly
  <2>2. Commitment(q)' + beyond[q] <= Commitment(q) + beyond'[q]
    <3>1. /\ Commitment(q) \in Nat /\ Commitment(q)' \in Nat
          /\ Commitment(q)' - Commitment(q) <= beyond'[q] - beyond[q]
      BY <1>3, <2>1
    <3> QED
      BY <1>8, <3>1
  <2>3. beyond'[q] >= beyond[q]
    BY <1>8, <1>10
  <2>4. Ledger!Spill(q)
    BY <1>5, <1>7, <2>2, <2>3 DEF Ledger!Spill
  <2> QED
    BY <1>5, <2>4 DEF Ledger!Next
<1> QED
  BY <1>9, <1>10

\* Limits are raised; the commitments stay.
LEMMA ApplyLedger ==
  ASSUME Books, Books', NEW i \in Instances, NEW b \in SettingsChoices, ApplySettings(i, b)
  PROVE  Ledger!Next
<1>1. UNCHANGED <<spent, beyond, job>>
  BY DEF ApplySettings
<1>2. \A u \in Users : ceiling[u] <= ceiling'[u]
  BY ApplyKeeps DEF Books
<1>3. ceiling \in [Users -> Nat] /\ ceiling' \in [Users -> Nat]
  BY DEF Books, TypeInv, TypeOK
<1>4. \A p \in Pairs : Commitment(p)' = Commitment(p)
  BY <1>1 DEF Commitment, Owed, Estimate
<1>5. [p \in Pairs |-> Commitment(p)]' = [p \in Pairs |-> Commitment(p)]
  BY <1>4
<1>6. /\ [p \in Pairs |-> ceiling[p[1]]]' \in [Pairs -> Nat]
      /\ \A p \in Pairs : [x \in Pairs |-> ceiling[x[1]]]'[p] >= [x \in Pairs |-> ceiling[x[1]]][p]
  BY <1>2, <1>3 DEF Pairs
<1>7. Ledger!Raise
  BY <1>1, <1>5, <1>6 DEF Ledger!Raise
<1> QED
  BY <1>7, LedgerTyped DEF Ledger!Next

\* An instance dies: its slots owe nothing any more.
LEMMA CrashLedger ==
  ASSUME Books, Books', NEW i \in Instances, Crash(i)
  PROVE  Ledger!Next
<1>1. UNCHANGED <<ceiling, spent, beyond>>
  BY DEF Crash
<1>2. ASSUME NEW p \in Pairs
      PROVE  Commitment(p)' + beyond[p] <= Commitment(p) + beyond'[p]
  <2> DEFINE h == Total(N, Owedby(job, p))
             h2 == Total(N, Owedby(job', p))
  <2>1. h2 <= h
    BY CrashTotals DEF Books
  <2>2. /\ Commitment(p) = spent[p] + h /\ Commitment(p)' = spent'[p] + h2
        /\ h \in Nat /\ h2 \in Nat /\ spent[p] \in Nat
    BY CommitmentIs
  <2>3. beyond[p] \in Nat
    BY DEF Books, TypeInv, TypeOK
  <2> HIDE DEF h, h2
  <2> QED
    BY <1>1, <2>1, <2>2, <2>3
<1>3. beyond \in [Pairs -> Nat]
  BY DEF Books, TypeInv, TypeOK
<1>4. [p \in Pairs |-> ceiling[p[1]]]' = [p \in Pairs |-> ceiling[p[1]]]
  BY <1>1
<1>5. Ledger!Relax
  BY <1>1, <1>2, <1>3, <1>4, LedgerTyped DEF Ledger!Relax
<1> QED
  BY <1>5, LedgerTyped DEF Ledger!Next

LEMMA LedgerStep ==
  ASSUME Books, Books', [Next]_vars
  PROVE  [Ledger!Next]_(Ledger!vars)
<1>1. TypeInv'
  BY DEF Books
<1>2. ASSUME NEW r \in Slots, Handler(r) \/ LateRuns(r)
      PROVE  [Ledger!Next]_(Ledger!vars)
  BY <1>1, <1>2, SlotSteps, SlotLedger
<1>3. CASE Midnight \/ UNCHANGED vars
  <2>1. UNCHANGED <<ceiling, spent, beyond, job>>
    BY <1>3 DEF Midnight, vars
  <2>2. \A p \in Pairs : Commitment(p)' = Commitment(p)
    BY <2>1 DEF Commitment, Owed, Estimate
  <2> QED
    BY <2>1, <2>2 DEF Ledger!vars
<1>4. CASE \E i \in Instances, b \in SettingsChoices : ApplySettings(i, b)
  BY <1>4, ApplyLedger
<1>5. CASE \E i \in Instances : Crash(i)
  BY <1>5, CrashLedger
<1> QED
  BY <1>2, <1>3, <1>4, <1>5 DEF Next, Environment

\* The instances and their Redis implement the ledger that any budget backend
\* promises, for each day's budget of each user: a commitment passes the ceiling
\* only by what no reservation covered, and an admission never takes it further.
THEOREM EnforcerImplementsLedger == Spec => ImplementsLedger
<1>1. Init => Ledger!Init
  BY InitLedger
<1>2. Books /\ Books' /\ [Next]_vars => [Ledger!Next]_(Ledger!vars)
  BY LedgerStep
<1> QED
  BY <1>1, <1>2, AlwaysBooks, PTL DEF Spec, ImplementsLedger, Ledger!Spec
=============================================================================
