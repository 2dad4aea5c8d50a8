------------------------ MODULE RequestReportsProofs ------------------------
(***************************************************************************)
(* Theorems of RequestReports, for any users, models, requests and logs:   *)
(* its types, that answers made of several queries at a growing log are of *)
(* their time, fit together, and keep the options of the filters, and that *)
(* the list, read page by page, misses nothing.                            *)
(***************************************************************************)
EXTENDS RequestReports, FiniteSetTheorems, TLAPS

Handlers == {"data", "requests", "report"}

LEMMA SessionFields ==
  ASSUME TypeOK
  PROVE  /\ session.handler \in Handlers
         /\ session.from \in Nat /\ session.to \in Nat /\ session.limit \in Int
BY DEF TypeOK, Session, Handlers

LEMMA Numbers ==
  /\ Start \in Nat /\ MaxNow \in Nat
  /\ Hour \in Nat \ {0} /\ Day \in Nat \ {0} /\ Week \in Nat /\ Month \in Nat
  /\ Hour < Day /\ Day <= Week /\ Week < Month /\ Month <= Start
  /\ TopLimit \in Nat /\ ReportMax \in Nat
BY ReportsAssumption

LEMMA LogFacts ==
  ASSUME NEW l \in Seq(Row)
  PROVE  /\ Len(l) \in Nat /\ DOMAIN l = 1 .. Len(l)
         /\ \A i \in 1 .. Len(l) : l[i] \in Row
OBVIOUS

\* The parts of TypeOK that most steps need.
LEMMA Types ==
  ASSUME TypeOK
  PROVE  /\ now \in Nat /\ Start <= now /\ now <= MaxNow
         /\ log \in Seq(Row) /\ Len(log) \in Nat /\ DOMAIN log = 1 .. Len(log)
         /\ \A i \in 1 .. Len(log) : log[i] \in Row
         /\ writing \subseteq Row
         /\ began.at \in Nat /\ began.at <= now
         /\ began.rows \in 0 .. Len(log)
         /\ window.since \in Nat /\ window.until \in Nat
<1>1. now \in Start .. MaxNow
  BY DEF TypeOK
<1>2. log \in Seq(Row)
  BY DEF TypeOK
<1>3. began \in [at : Start .. now, rows : 0 .. Len(log)]
  BY DEF TypeOK
<1>4. window \in [since : Nat, until : Nat] /\ writing \subseteq Row
  BY DEF TypeOK
<1> QED
  BY <1>1, <1>2, <1>3, <1>4, Numbers, LogFacts

\* Each handler begins with the provider's models and asks nothing twice.
LEMMA PlanFacts ==
  ASSUME NEW h \in Handlers
  PROVE  /\ Len(Plan(h)) \in {3, 6, 7}
         /\ Plan(h)[1] = "models"
         /\ \A i, j \in 1 .. Len(Plan(h)) : Plan(h)[i] = Plan(h)[j] => i = j
<1>1. CASE h = "data"
  BY <1>1 DEF Plan
<1>2. CASE h = "requests"
  BY <1>2 DEF Plan
<1>3. CASE h = "report"
  BY <1>3 DEF Plan
<1> QED
  BY <1>1, <1>2, <1>3 DEF Handlers

\* What a query leaves of the answer, and adds to it.
LEMMA QueryAdds ==
  ASSUME TypeOK, NEW q, NEW result, Query(q, result)
  PROVE  /\ q \notin DOMAIN answer
         /\ DOMAIN answer' = DOMAIN answer \cup {q}
         /\ answer'[q] = result
         /\ \A x \in DOMAIN answer : answer'[x] = answer[x]
         /\ q # "models" => "models" \in DOMAIN answer
         /\ q = "models" => DOMAIN answer = {}
<1> DEFINE plan == Plan(session.handler)
<1>1. /\ Len(plan) \in {3, 6, 7} /\ plan[1] = "models"
      /\ \A i, j \in 1 .. Len(plan) : plan[i] = plan[j] => i = j
  BY SessionFields, PlanFacts
<1>2. /\ made \in 0 .. Len(plan) /\ made < Len(plan) /\ q = plan[made + 1]
      /\ DOMAIN answer = {plan[i] : i \in 1 .. made}
      /\ answer' = [x \in DOMAIN answer \cup {q} |-> IF x = q THEN result ELSE answer[x]]
  BY DEF TypeOK, Query, Turn
<1> HIDE DEF plan
<1>3. q \notin DOMAIN answer
  BY <1>1, <1>2
<1>4. q # "models" => "models" \in DOMAIN answer
  BY <1>1, <1>2
<1>5. q = "models" => DOMAIN answer = {}
  <2>1. made + 1 \in 1 .. Len(plan) /\ 1 \in 1 .. Len(plan)
    BY <1>1, <1>2
  <2>2. q = "models" => made + 1 = 1
    BY <1>1, <1>2, <2>1
  <2> QED
    BY <1>2, <2>2
<1> QED
  BY <1>2, <1>3, <1>4, <1>5

\* A query keeps the types.
LEMMA QueryTyped ==
  ASSUME TypeOK, NEW q, NEW result, Query(q, result)
  PROVE  TypeOK'
<1> DEFINE plan == Plan(session.handler)
<1>1. Len(plan) \in {3, 6, 7}
  BY SessionFields, PlanFacts
<1>2. /\ made \in 0 .. Len(plan) /\ made < Len(plan) /\ q = plan[made + 1]
      /\ DOMAIN answer = {plan[i] : i \in 1 .. made}
      /\ made' = made + 1 /\ session' = session
      /\ status = "running"
      /\ status' = IF made' = Len(plan) THEN "answered" ELSE status
      /\ plan' = plan
  BY DEF TypeOK, Query, Turn
<1>3. DOMAIN answer' = DOMAIN answer \cup {q}
  BY QueryAdds
<1> HIDE DEF plan
<1>4. DOMAIN answer' = {plan[i] : i \in 1 .. made'}
  BY <1>1, <1>2, <1>3
<1>5. /\ made' \in 0 .. Len(plan)
      /\ status' \in {"answered", "shown"} => made' = Len(plan)
      /\ status' = "running" => made' < Len(plan)
      /\ status' \in {"idle", "running", "answered", "failed", "shown"}
  BY <1>1, <1>2
<1> QED
  BY <1>2, <1>4, <1>5 DEF TypeOK, Query, list, plan

\* The order of the queries that others lean on.
LEMMA QueryOrder ==
  ASSUME TypeOK, NEW q, NEW result, Query(q, result)
  PROVE  /\ q \in {"summary", "top"} => "series" \notin DOMAIN answer
         /\ q = "series" => "fill" \notin DOMAIN answer
         /\ q = "fill" => "series" \in DOMAIN answer
         /\ q \in {"count", "page"} /\ session.handler = "requests"
              => "period" \notin DOMAIN answer
         /\ q = "period" => "rows" \notin DOMAIN answer
         /\ q = "rows" => "period" \in DOMAIN answer
<1>1. session.handler \in Handlers
  BY SessionFields
<1>2. /\ made \in 0 .. Len(Plan(session.handler)) /\ made < Len(Plan(session.handler))
      /\ q = Plan(session.handler)[made + 1]
      /\ DOMAIN answer = {Plan(session.handler)[i] : i \in 1 .. made}
  BY DEF TypeOK, Query, Turn
<1>3. CASE session.handler = "data"
  BY <1>2, <1>3 DEF Plan
<1>4. CASE session.handler = "requests"
  BY <1>2, <1>4 DEF Plan
<1>5. CASE session.handler = "report"
  BY <1>2, <1>5 DEF Plan
<1> QED
  BY <1>1, <1>3, <1>4, <1>5 DEF Handlers

-----------------------------------------------------------------------------
(* Types.                                                                  *)

\* The proxy's side: rows and time come, the dashboard's state stays.
LogSide ==
  \/ ClockTicks
  \/ \E r \in NewRows : Stamps(r)
  \/ \E row \in writing : Inserts(row) \/ InsertFails(row)

\* The log only grows, and so does the time.
LEMMA LogGrows ==
  ASSUME TypeOK, LogSide
  PROVE  /\ reader' = reader /\ list' = list
         /\ now' \in Start .. MaxNow /\ now <= now'
         /\ log' \in Seq(Row) /\ Len(log') >= Len(log)
         /\ \A i \in 1 .. Len(log) : log'[i] = log[i]
         /\ writing' \subseteq Row
<1>1. CASE ClockTicks
  <2>1. /\ reader' = reader /\ list' = list /\ log' = log /\ writing' = writing
        /\ now' = now + 1 /\ now < MaxNow
    BY <1>1 DEF ClockTicks
  <2> QED
    BY <2>1, Types, Numbers
<1>2. ASSUME NEW r \in NewRows, Stamps(r)
      PROVE  /\ reader' = reader /\ list' = list /\ now' = now /\ log' = log
             /\ writing' \subseteq Row
  <2>1. now \in 0 .. MaxNow /\ r \in [user : Users, model : Models]
    BY Types, Numbers, ReportsAssumption
  <2>2. [time |-> now, user |-> r.user, model |-> r.model] \in Row
    BY <2>1 DEF Row
  <2> QED
    BY <1>2, <2>2, Types DEF Stamps
<1>3. ASSUME NEW row \in writing, Inserts(row)
      PROVE  /\ reader' = reader /\ list' = list /\ now' = now
             /\ log' \in Seq(Row) /\ Len(log') = Len(log) + 1
             /\ \A i \in 1 .. Len(log) : log'[i] = log[i]
             /\ writing' \subseteq Row
  <2>1. row \in Row
    BY <1>3, Types
  <2> QED
    BY <1>3, <2>1, Types DEF Inserts
<1>4. ASSUME NEW row \in writing, InsertFails(row)
      PROVE  /\ reader' = reader /\ list' = list /\ now' = now /\ log' = log
             /\ writing' \subseteq Row
  BY <1>4, Types DEF InsertFails
<1> QED
  BY <1>1, <1>2, <1>3, <1>4, Types, Numbers DEF LogSide

LEMMA LogSideTyped ==
  ASSUME TypeOK, LogSide
  PROVE  TypeOK'
<1>1. /\ reader' = reader /\ list' = list
      /\ now' \in Start .. MaxNow /\ now <= now'
      /\ log' \in Seq(Row) /\ Len(log') >= Len(log)
      /\ writing' \subseteq Row
  BY LogGrows
<1>2. began \in [at : Start .. now, rows : 0 .. Len(log)]
  BY DEF TypeOK
<1>3. shown \subseteq DOMAIN log /\ first \in 0 .. Len(log)
  BY DEF TypeOK
<1>4. began' = began /\ shown' = shown /\ first' = first
  BY <1>1 DEF reader, list
<1>5. /\ Len(log) \in Nat /\ DOMAIN log = 1 .. Len(log)
      /\ Len(log') \in Nat /\ DOMAIN log' = 1 .. Len(log')
  BY <1>1, Types, LogFacts
<1>6. began' \in [at : Start .. now', rows : 0 .. Len(log')]
  BY <1>1, <1>2, <1>4, <1>5, Types, Numbers
<1>7. shown' \subseteq DOMAIN log' /\ first' \in 0 .. Len(log')
  BY <1>1, <1>3, <1>4, <1>5
<1> QED
  BY <1>1, <1>6, <1>7 DEF TypeOK, reader, list

LEMMA TruncTyped ==
  ASSUME NEW a \in Nat, NEW step \in Nat \ {0}
  PROVE  Trunc(a, step) \in Nat /\ Trunc(a, step) <= a
BY DEF Trunc

\* The window of a request begins at a natural number.
LEMMA WindowTyped ==
  ASSUME TypeOK
  PROVE  Window(session) \in [since : Nat, until : Nat]
<1>1. now \in Nat /\ now >= Month /\ now >= Week
  BY Types, Numbers
<1>2. Trunc(now, Day) \in Nat
  BY <1>1, TruncTyped, Numbers
<1>3. Dated(session) => Dates(session) \in [since : Nat, until : Nat]
  <2>1. \A a, b \in Nat : a * b \in Nat
    OBVIOUS
  <2>2. session.from * Day \in Nat /\ session.to * Day \in Nat
    BY <2>1, SessionFields, Numbers
  <2>3. session.to * Day + Day - 1 \in Nat
    BY <2>2, Numbers
  <2> QED
    BY <2>2, <2>3 DEF Dates
<1> QED
  BY <1>1, <1>2, <1>3, Numbers DEF Window

-----------------------------------------------------------------------------
(* The inductive invariant.                                                *)

\* No row is of a time to come.
ClockInv ==
  /\ \A i \in DOMAIN log : log[i].time <= now
  /\ \A row \in writing : row.time <= now

WindowInv ==
  status # "idle" =>
    IF Dated(session) THEN window = Dates(session) ELSE window.until = 0

\* The models of a provider are its own, and all of the last month's.
ModelsInv ==
  "models" \in DOMAIN answer =>
    /\ session.provider = "" => answer["models"] = {}
    /\ \A m \in answer["models"] : ProviderOf[m] = session.provider
    /\ session.provider # "" =>
         \A i \in 1 .. began.rows :
           log[i].time >= now - Month /\ ProviderOf[log[i].model] = session.provider
             => log[i].model \in answer["models"]

FoundIn(n) == {i \in 1 .. n : Where(log[i])}

\* A result is of the rows that are found now, and if it is of all rows then of
\* those that were found when the request came.
ResultsInv ==
  /\ \A q \in {"summary", "count", "period", "series", "fill"} \cap DOMAIN answer :
       FoundIn(began.rows) \subseteq answer[q] /\ answer[q] \subseteq Found
  /\ \A q \in {"top", "page", "rows"} \cap DOMAIN answer : answer[q] \subseteq Found

\* Later results cover earlier ones.
CoverInv ==
  /\ "series" \in DOMAIN answer =>
       Got("summary") \subseteq answer["series"] /\ Got("top") \subseteq answer["series"]
  /\ "fill" \in DOMAIN answer =>
       "series" \in DOMAIN answer /\ answer["fill"] = answer["series"]
  /\ session.handler = "requests" /\ "period" \in DOMAIN answer =>
       Got("count") \subseteq answer["period"] /\ Got("page") \subseteq answer["period"]
  /\ "rows" \in DOMAIN answer =>
       /\ "period" \in DOMAIN answer
       /\ answer["period"] \subseteq answer["rows"] \/ Cardinality(answer["rows"]) = ReportMax

OptionsInv ==
  /\ "users" \in DOMAIN answer =>
       \A i \in 1 .. began.rows :
         log[i].time >= now - Month => log[i].user \in answer["users"]
  /\ "providers" \in DOMAIN answer =>
       \A i \in 1 .. began.rows :
         log[i].time >= now - Month /\ ProviderOf[log[i].model] # ""
           => ProviderOf[log[i].model] \in answer["providers"]

Inv == TypeOK /\ ClockInv /\ WindowInv /\ ModelsInv /\ ResultsInv /\ CoverInv /\ OptionsInv

\* In an answer without results there is nothing to be wrong.
LEMMA NothingAnswered ==
  ASSUME DOMAIN answer = {}
  PROVE  ModelsInv /\ ResultsInv /\ CoverInv /\ OptionsInv
BY DEF ModelsInv, ResultsInv, CoverInv, OptionsInv

LEMMA InitInv ==
  ASSUME Init
  PROVE  Inv
<1>1. DOMAIN answer = {}
  BY DEF Init
<1>2. session \in Session
  BY ReportsAssumption DEF Init
<1>3. log \in Seq(Row) /\ \A i \in DOMAIN log : log[i].time <= Start
  BY ReportsAssumption DEF Init
<1>4. TypeOK
  <2>1. session.handler \in Handlers
    BY <1>2 DEF Session, Handlers
  <2>2. Len(Plan(session.handler)) \in {3, 6, 7}
    BY <2>1, PlanFacts
  <2>3. now \in Start .. MaxNow
    BY ReportsAssumption DEF Init
  <2>4. began \in [at : Start .. now, rows : 0 .. Len(log)]
    BY <1>3, <2>3, LogFacts, Numbers DEF Init
  <2>5. window \in [since : Nat, until : Nat]
    BY DEF Init
  <2>6. DOMAIN answer = {Plan(session.handler)[i] : i \in 1 .. made}
    BY <1>1 DEF Init
  <2> QED
    BY <1>2, <1>3, <2>2, <2>3, <2>4, <2>5, <2>6, LogFacts DEF Init, TypeOK
<1>5. ClockInv /\ WindowInv
  BY <1>3 DEF Init, ClockInv, WindowInv
<1> QED
  BY <1>1, <1>4, <1>5, NothingAnswered DEF Inv

\* A request that comes: its answer is still to be made.
LEMMA AsksInv ==
  ASSUME Inv, Asks
  PROVE  Inv'
<1>1. TypeOK /\ ClockInv
  BY DEF Inv
<1>2. /\ status' = "running" /\ window' = Window(session) /\ made' = 0 /\ answer' = << >>
      /\ began' = [at |-> now, rows |-> Len(log)]
      /\ first' = IF status = "idle" THEN Len(log) ELSE first
      /\ now' = now /\ log' = log /\ writing' = writing /\ session' = session
      /\ offset' = offset /\ shown' = shown /\ more' = more
  BY DEF Asks
<1>3. DOMAIN answer' = {}
  BY <1>2
<1>4. TypeOK'
  <2>1. Len(Plan(session.handler)) \in {3, 6, 7}
    BY <1>1, SessionFields, PlanFacts
  <2>2. window' \in [since : Nat, until : Nat]
    BY <1>1, <1>2, WindowTyped
  <2>3. began' \in [at : Start .. now', rows : 0 .. Len(log')]
    BY <1>1, <1>2, Types, Numbers
  <2>4. first' \in 0 .. Len(log')
    BY <1>1, <1>2, Types DEF TypeOK
  <2>5. DOMAIN answer' = {Plan(session'.handler)[i] : i \in 1 .. made'}
    BY <1>2, <1>3
  <2>6. made' \in 0 .. Len(Plan(session'.handler)) /\ made' < Len(Plan(session'.handler))
    <3>1. Plan(session'.handler) = Plan(session.handler)
      BY <1>2
    <3>2. Len(Plan(session'.handler)) \in {3, 6, 7}
      BY <3>1, <2>1
    <3> DEFINE n == Len(Plan(session'.handler))
    <3>3. n \in {3, 6, 7} /\ made' = 0
      BY <1>2, <3>2
    <3> HIDE DEF n
    <3>4. made' \in 0 .. n /\ made' < n
      BY <3>3
    <3> QED
      BY <3>4 DEF n
  <2>7. log' \in Seq(Row) /\ shown' \subseteq DOMAIN log'
    BY <1>1, <1>2 DEF TypeOK
  <2> QED
    BY <1>1, <1>2, <2>2, <2>3, <2>4, <2>5, <2>6, <2>7 DEF TypeOK
<1>5. ClockInv'
  BY <1>1, <1>2 DEF ClockInv
<1>6. WindowInv'
  BY <1>2 DEF WindowInv, Window, Dated
<1>7. (ModelsInv /\ ResultsInv /\ CoverInv /\ OptionsInv)'
  BY <1>3 DEF ModelsInv, ResultsInv, CoverInv, OptionsInv
<1> QED
  BY <1>4, <1>5, <1>6, <1>7 DEF Inv

-----------------------------------------------------------------------------
(* Rows and time come.                                                     *)

LEMMA LogSideClock ==
  ASSUME TypeOK, ClockInv, LogSide
  PROVE  ClockInv'
<1>1. CASE ClockTicks
  <2>1. log' = log /\ writing' = writing /\ now' = now + 1
    BY <1>1 DEF ClockTicks
  <2>2. \A i \in DOMAIN log : log[i].time \in Nat
    BY Types, Numbers DEF Row
  <2>3. \A row \in writing : row.time \in Nat
    BY Types, Numbers DEF Row
  <2>4. /\ \A i \in DOMAIN log : log[i].time <= now + 1
        /\ \A row \in writing : row.time <= now + 1
    BY <2>2, <2>3, Types DEF ClockInv
  <2> QED
    BY <2>1, <2>4 DEF ClockInv
<1>2. ASSUME NEW r \in NewRows, Stamps(r)
      PROVE  ClockInv'
  BY <1>2, Types DEF Stamps, ClockInv
<1>3. ASSUME NEW row \in writing, Inserts(row)
      PROVE  ClockInv'
  <2>1. /\ row \in Row /\ log' = Append(log, row) /\ now' = now
        /\ writing' = writing \ {row}
    BY <1>3, Types DEF Inserts
  <2>2. row.time <= now /\ \A i \in 1 .. Len(log) : log[i].time <= now
    BY Types DEF ClockInv
  <2>3. \A i \in DOMAIN log' : i \in 1 .. Len(log) \/ log'[i] = row
    BY <2>1, Types
  <2>4. \A i \in 1 .. Len(log) : log'[i] = log[i]
    BY <2>1, Types
  <2> QED
    BY <2>1, <2>2, <2>3, <2>4 DEF ClockInv
<1>4. ASSUME NEW row \in writing, InsertFails(row)
      PROVE  ClockInv'
  BY <1>4 DEF InsertFails, ClockInv
<1> QED
  BY <1>1, <1>2, <1>3, <1>4 DEF LogSide

\* What was found is found still, and nothing more among the earlier rows.
LEMMA LogSideFound ==
  ASSUME TypeOK, LogSide
  PROVE  /\ Found \subseteq Found'
         /\ FoundIn(began.rows)' = FoundIn(began.rows)
<1>1. /\ log' \in Seq(Row) /\ Len(log') >= Len(log)
      /\ \A i \in 1 .. Len(log) : log'[i] = log[i]
      /\ window' = window /\ session' = session /\ answer' = answer /\ began' = began
  BY LogGrows DEF reader
<1>2. /\ DOMAIN log = 1 .. Len(log) /\ DOMAIN log' = 1 .. Len(log')
      /\ Len(log) \in Nat /\ Len(log') \in Nat
  BY <1>1, Types, LogFacts
<1>3. \A i \in 1 .. Len(log) : Where(log[i]) <=> Where(log[i])'
  BY <1>1 DEF Where, InModels
<1>4. \A i \in 1 .. Len(log) : i \in DOMAIN log'
  BY <1>1, <1>2
<1>5. began.rows \in 0 .. Len(log)
  BY Types
<1>6. \A i \in 1 .. began.rows : i \in 1 .. Len(log)
  BY <1>2, <1>5
<1> QED
  BY <1>1, <1>2, <1>3, <1>4, <1>6 DEF Found, FoundIn

LEMMA Recent ==
  ASSUME NEW a \in Nat, NEW b \in Nat, NEW m \in Nat, a <= b
  PROVE  \A t \in Nat : t >= b - m => t >= a - m
OBVIOUS

LEMMA LogSideInv ==
  ASSUME Inv, LogSide
  PROVE  Inv'
<1>1. TypeOK /\ ClockInv /\ TypeOK' /\ ClockInv'
  BY LogSideTyped, LogSideClock DEF Inv
<1>2. /\ session' = session /\ status' = status /\ window' = window
      /\ answer' = answer /\ began' = began /\ now <= now'
      /\ now \in Nat /\ now' \in Nat
      /\ \A i \in 1 .. Len(log) : log'[i] = log[i]
  BY <1>1, LogGrows, Types, Numbers DEF reader
<1>3. \A i \in 1 .. began.rows : log'[i] = log[i] /\ log[i].time \in Nat
  BY <1>1, <1>2, Types, Numbers DEF Row
<1>4. \A i \in 1 .. began.rows : log'[i].time >= now' - Month => log[i].time >= now - Month
  BY <1>2, <1>3, Recent, Numbers
<1>5. WindowInv'
  BY <1>2 DEF Inv, WindowInv, Dated, Dates
<1>6. ModelsInv'
  BY <1>2, <1>3, <1>4 DEF Inv, ModelsInv
<1>7. ResultsInv'
  BY <1>1, <1>2, LogSideFound DEF Inv, ResultsInv
<1>8. CoverInv'
  BY <1>2 DEF Inv, CoverInv, Got
<1>9. OptionsInv'
  BY <1>2, <1>3, <1>4 DEF Inv, OptionsInv
<1> QED
  BY <1>1, <1>5, <1>6, <1>7, <1>8, <1>9 DEF Inv

-----------------------------------------------------------------------------
(* The queries.                                                            *)

LEMMA FoundRows ==
  ASSUME TypeOK
  PROVE  FoundIn(began.rows) \subseteq Found /\ Found \subseteq DOMAIN log
BY Types DEF Found, FoundIn

\* What any query leaves as it is.
LEMMA QueryLeaves ==
  ASSUME Inv, NEW q, NEW result, Query(q, result)
  PROVE  TypeOK' /\ ClockInv' /\ WindowInv'
<1>1. TypeOK'
  BY QueryTyped DEF Inv
<1>2. ClockInv'
  BY DEF Inv, ClockInv, Query
<1>3. WindowInv'
  BY DEF Inv, WindowInv, Dated, Dates, Query, Turn
<1> QED
  BY <1>1, <1>2, <1>3

\* A query after the first finds the rows that it would have found before.
LEMMA QueryFound ==
  ASSUME TypeOK, NEW q, NEW result, Query(q, result), q # "models"
  PROVE  /\ answer'["models"] = answer["models"]
         /\ Found' = Found /\ FoundIn(began.rows)' = FoundIn(began.rows)
<1>1. answer'["models"] = answer["models"]
  BY QueryAdds
<1>2. /\ log' = log /\ window' = window /\ session' = session /\ began' = began
  BY DEF Query
<1>3. \A i : Where(log[i])' <=> Where(log[i])
  BY <1>1, <1>2 DEF Where, InModels
<1> QED
  BY <1>1, <1>2, <1>3 DEF Found, FoundIn

\* A query keeps the invariant if its result is what it should be.
LEMMA QueryInv ==
  ASSUME Inv, NEW q, NEW result, Query(q, result), q # "models",
         q \in {"summary", "count", "period", "series", "fill"} =>
           FoundIn(began.rows) \subseteq result /\ result \subseteq Found,
         q \in {"top", "page", "rows"} => result \subseteq Found,
         q \in {"series", "period"} => result = Found,
         q = "fill" => result = answer["series"],
         q = "rows" => Found \subseteq result \/ Cardinality(result) = ReportMax,
         q = "users" =>
           \A i \in 1 .. began.rows : log[i].time >= now - Month => log[i].user \in result,
         q = "providers" =>
           \A i \in 1 .. began.rows :
             log[i].time >= now - Month /\ ProviderOf[log[i].model] # ""
               => ProviderOf[log[i].model] \in result
  PROVE  Inv'
<1>1. TypeOK /\ TypeOK' /\ ClockInv' /\ WindowInv'
  BY QueryLeaves DEF Inv
<1>2. /\ q \notin DOMAIN answer /\ DOMAIN answer' = DOMAIN answer \cup {q}
      /\ answer'[q] = result /\ \A x \in DOMAIN answer : answer'[x] = answer[x]
  BY <1>1, QueryAdds
<1>3. /\ now' = now /\ log' = log /\ session' = session /\ began' = began
  BY DEF Query
<1>4. /\ answer'["models"] = answer["models"]
      /\ Found' = Found /\ FoundIn(began.rows)' = FoundIn(began.rows)
  BY <1>1, QueryFound
<1>5. ModelsInv'
  BY <1>2, <1>3, <1>4 DEF Inv, ModelsInv
<1>6. ResultsInv'
  BY <1>2, <1>4 DEF Inv, ResultsInv
<1>7. CoverInv'
  <2>1. /\ q \in {"summary", "top"} => "series" \notin DOMAIN answer
        /\ q = "series" => "fill" \notin DOMAIN answer
        /\ q = "fill" => "series" \in DOMAIN answer
        /\ q \in {"count", "page"} /\ session.handler = "requests"
             => "period" \notin DOMAIN answer
        /\ q = "period" => "rows" \notin DOMAIN answer
        /\ q = "rows" => "period" \in DOMAIN answer
    BY <1>1, QueryOrder
  <2>2. \A x \in {"summary", "count", "period", "top", "page"} :
          Got(x) \subseteq Found
    BY DEF Inv, ResultsInv, Got
  <2>3. \A x : x # q => Got(x)' = Got(x)
    BY <1>2 DEF Got
  <2>4. "series" \in DOMAIN answer' =>
          Got("summary")' \subseteq answer'["series"] /\ Got("top")' \subseteq answer'["series"]
    <3>1. CASE q = "series"
      <4>1. answer'["series"] = Found
        BY <1>2, <3>1
      <4> QED
        BY <2>2, <2>3, <3>1, <4>1
    <3>2. CASE q # "series"
      <4>1. "series" \in DOMAIN answer' =>
              /\ "series" \in DOMAIN answer /\ q # "summary" /\ q # "top"
              /\ answer'["series"] = answer["series"]
        BY <1>2, <2>1, <3>2
      <4> QED
        BY <2>3, <4>1 DEF Inv, CoverInv
    <3> QED
      BY <3>1, <3>2
  <2>5. "fill" \in DOMAIN answer' =>
          "series" \in DOMAIN answer' /\ answer'["fill"] = answer'["series"]
    <3>1. CASE q = "fill"
      BY <1>2, <2>1, <3>1
    <3>2. CASE q # "fill"
      BY <1>2, <3>2 DEF Inv, CoverInv
    <3> QED
      BY <3>1, <3>2
  <2>6. session'.handler = "requests" /\ "period" \in DOMAIN answer' =>
          Got("count")' \subseteq answer'["period"] /\ Got("page")' \subseteq answer'["period"]
    <3>1. CASE q = "period"
      <4>1. answer'["period"] = Found
        BY <1>2, <3>1
      <4> QED
        BY <2>2, <2>3, <3>1, <4>1
    <3>2. CASE q # "period"
      <4>1. session'.handler = "requests" /\ "period" \in DOMAIN answer' =>
              /\ session.handler = "requests"
              /\ "period" \in DOMAIN answer /\ q # "count" /\ q # "page"
              /\ answer'["period"] = answer["period"]
        BY <1>2, <1>3, <2>1, <3>2
      <4> QED
        BY <2>3, <4>1 DEF Inv, CoverInv
    <3> QED
      BY <3>1, <3>2
  <2>7. "rows" \in DOMAIN answer' =>
          /\ "period" \in DOMAIN answer'
          /\ \/ answer'["period"] \subseteq answer'["rows"]
             \/ Cardinality(answer'["rows"]) = ReportMax
    <3>1. CASE q = "rows"
      <4>1. "period" \in DOMAIN answer /\ answer["period"] \subseteq Found
        BY <2>1, <2>2, <3>1 DEF Got
      <4> QED
        BY <1>2, <3>1, <4>1
    <3>2. CASE q # "rows"
      BY <1>2, <2>1, <3>2 DEF Inv, CoverInv
    <3> QED
      BY <3>1, <3>2
  <2> QED
    BY <2>4, <2>5, <2>6, <2>7 DEF CoverInv
<1>8. OptionsInv'
  BY <1>2, <1>3 DEF Inv, OptionsInv
<1> QED
  BY <1>1, <1>5, <1>6, <1>7, <1>8 DEF Inv

LEMMA ResolvesInv ==
  ASSUME Inv, ResolvesProvider
  PROVE  Inv'
<1> DEFINE result == {m \in {log[i].model : i \in Since(now - Month)} :
                        ProviderOf[m] = session.provider /\ session.provider # ""}
<1>1. Query("models", result)
  BY DEF ResolvesProvider
<1>2. TypeOK /\ TypeOK' /\ ClockInv' /\ WindowInv'
  BY <1>1, QueryLeaves DEF Inv
<1>3. DOMAIN answer' = {"models"} /\ answer'["models"] = result
  BY <1>1, <1>2, QueryAdds
<1>4. now' = now /\ log' = log /\ session' = session /\ began' = began
  BY <1>1 DEF Query
<1>5. \A i \in 1 .. began.rows :
        log[i].time >= now - Month => i \in Since(now - Month)
  BY <1>2, Types DEF Since
<1>6. ModelsInv'
  BY <1>3, <1>4, <1>5 DEF ModelsInv
<1>7. ResultsInv' /\ CoverInv' /\ OptionsInv'
  BY <1>3 DEF ResultsInv, CoverInv, OptionsInv
<1> QED
  BY <1>2, <1>6, <1>7 DEF Inv

LEMMA SumsInv ==
  ASSUME Inv, Sums \/ TimeSeriesRead
  PROVE  Inv'
<1>1. PICK q \in {"summary", "count", "period", "series"} : Query(q, Found)
  BY DEF Sums, TimeSeriesRead
<1>2. FoundIn(began.rows) \subseteq Found
  BY FoundRows DEF Inv
<1> QED
  BY <1>1, <1>2, QueryInv

LEMMA TopInv ==
  ASSUME Inv, TopExpensive
  PROVE  Inv'
<1>1. PICK top \in kSubset(Min({TopLimit, Cardinality(Found)}), Found) : Query("top", top)
  BY DEF TopExpensive
<1>2. top \subseteq Found
  BY <1>1 DEF kSubset
<1> QED
  BY <1>1, <1>2, QueryInv

\* A later time is in the same bucket or in a later one.
LEMMA TruncMonotone ==
  ASSUME NEW a \in Nat, NEW b \in Nat, a <= b, NEW step \in Nat \ {0}
  PROVE  Trunc(a, step) <= Trunc(b, step)
<1>1. /\ a = step * (a \div step) + (a % step) /\ a \div step \in Nat
      /\ a % step \in 0 .. step - 1
  OBVIOUS
<1>2. /\ b = step * (b \div step) + (b % step) /\ b \div step \in Nat
      /\ b % step \in 0 .. step - 1
  OBVIOUS
<1>3. a \div step <= b \div step
  OBVIOUS
<1>4. \A m, n \in Nat : m <= n => step * m <= step * n
  OBVIOUS
<1> QED
  BY <1>1, <1>2, <1>3, <1>4 DEF Trunc

\* Every row that was read has a bucket: it is from since on, and of no time
\* that is still to come when the last bucket is chosen.
LEMMA FillInv ==
  ASSUME Inv, TimeSeriesFilled
  PROVE  Inv'
<1> DEFINE step == Step(session)
           result == {i \in answer.series :
                        Trunc(log[i].time, step) \in
                          Trunc(window.since, step) .. Trunc(EndOfSeries, step)}
<1>1. Query("fill", result)
  BY DEF TimeSeriesFilled
<1>2. TypeOK /\ "series" \in DOMAIN answer
  BY <1>1, QueryOrder DEF Inv
<1>3. FoundIn(began.rows) \subseteq answer["series"] /\ answer["series"] \subseteq Found
  BY <1>2 DEF Inv, ResultsInv
<1>4. step \in Nat \ {0}
  BY Numbers DEF Step
<1> HIDE DEF step
<1>5. ASSUME NEW i \in answer["series"]
      PROVE  Trunc(log[i].time, step) \in
               Trunc(window.since, step) .. Trunc(EndOfSeries, step)
  <2>1. i \in DOMAIN log /\ log[i].time >= window.since
    BY <1>3 DEF Found, Where
  <2>2. log[i].time \in Nat /\ log[i].time <= now
    BY <1>2, <2>1, Types, Numbers DEF Inv, ClockInv, Row
  <2>3. window.since \in Nat /\ now \in Nat
    BY <1>2, Types
  <2>4. /\ Trunc(window.since, step) \in Nat /\ Trunc(log[i].time, step) \in Nat
        /\ Trunc(now, step) \in Nat
    BY <1>4, <2>2, <2>3, TruncTyped
  <2>5. Trunc(window.since, step) <= Trunc(log[i].time, step)
    BY <1>4, <2>1, <2>2, <2>3, TruncMonotone
  <2>6. Trunc(log[i].time, step) <= Trunc(now, step)
    BY <1>4, <2>2, <2>3, TruncMonotone
  <2> QED
    BY <2>4, <2>5, <2>6 DEF EndOfSeries
<1>6. result = answer["series"]
  BY <1>5
<1> HIDE DEF result
<1> QED
  BY <1>1, <1>3, <1>6, QueryInv

LEMMA PageInv ==
  ASSUME Inv, ListsRequests
  PROVE  Inv'
<1>1. Query("page", Page)
  BY DEF ListsRequests
<1>2. Page \subseteq Found
  BY DEF Page, Slice
<1> QED
  BY <1>1, <1>2, QueryInv

LEMMA OptionsOfInv ==
  ASSUME Inv, DistinctUsers \/ DistinctModels \/ DistinctProviders
  PROVE  Inv'
<1>1. /\ now \in Nat /\ began.at \in Nat /\ began.at <= now /\ Month \in Nat
      /\ \A i \in 1 .. began.rows : i \in DOMAIN log /\ log[i].time \in Nat
  BY Types, Numbers DEF Inv, Row
<1>2. CASE DistinctUsers
  <2>1. \A i \in 1 .. began.rows : log[i].time >= now - Month => i \in Since(SinceOfUsers)
    BY <1>1, Recent DEF Since, SinceOfUsers
  <2> DEFINE result == {log[i].user : i \in Since(SinceOfUsers)}
  <2>2. Query("users", result)
    BY <1>2 DEF DistinctUsers
  <2>3. \A i \in 1 .. began.rows : log[i].time >= now - Month => log[i].user \in result
    BY <2>1
  <2> HIDE DEF result
  <2> QED
    BY <2>2, <2>3, QueryInv
<1>3. CASE DistinctModels
  <2>1. PICK result : Query("options", result)
    BY <1>3 DEF DistinctModels
  <2> QED
    BY <2>1, QueryInv
<1>4. CASE DistinctProviders
  <2> DEFINE result == {ProviderOf[log[i].model] : i \in Since(now - Month)} \ {""}
  <2>1. Query("providers", result)
    BY <1>4 DEF DistinctProviders
  <2>2. \A i \in 1 .. began.rows :
          log[i].time >= now - Month /\ ProviderOf[log[i].model] # ""
            => ProviderOf[log[i].model] \in result
    BY <1>1 DEF Since
  <2> HIDE DEF result
  <2> QED
    BY <2>1, <2>2, QueryInv
<1> QED
  BY <1>2, <1>3, <1>4

-----------------------------------------------------------------------------
(* The rows of a report: all of them, or as many as it may have.           *)

LEMMA RowsOrdered ==
  ASSUME TypeOK, NEW sort, NEW i \in DOMAIN log, NEW j \in DOMAIN log
  PROVE  /\ ~Precedes(i, i, sort)
         /\ i # j => Precedes(i, j, sort) \/ Precedes(j, i, sort)
         /\ \A k \in DOMAIN log :
              Precedes(k, i, sort) /\ Precedes(i, j, sort) => Precedes(k, j, sort)
<1> DEFINE cost(k) == CostOf[log[k].model]
<1>1. \A k \in DOMAIN log : k \in Nat /\ log[k].time \in Nat /\ cost(k) \in Nat
  <2>1. DOMAIN log = 1 .. Len(log) /\ \A k \in 1 .. Len(log) : log[k] \in Row
    BY Types
  <2>2. \A row \in Row : row.time \in Nat /\ row.model \in Models
    BY Numbers DEF Row
  <2>3. CostOf \in [Models -> Nat]
    BY ReportsAssumption
  <2> QED
    BY <2>1, <2>2, <2>3
<1>2. CASE sort = "cost"
  <2>1. \A k, l \in DOMAIN log :
          Precedes(k, l, sort) <=>
            \/ cost(k) > cost(l)
            \/ /\ cost(k) = cost(l)
               /\ log[k].time > log[l].time \/ (log[k].time = log[l].time /\ k < l)
    <3>1. \A k, l \in DOMAIN log :
            Precedes(k, l, sort) <=>
              \/ cost(k) - cost(l) > 0
              \/ /\ cost(k) - cost(l) = 0
                 /\ \/ log[k].time - log[l].time > 0
                    \/ log[k].time - log[l].time = 0 /\ k < l
      BY <1>2 DEF Precedes
    <3> HIDE DEF cost
    <3> QED
      BY <1>1, <3>1
  <2> HIDE DEF cost
  <2> QED
    BY <1>1, <2>1
<1>3. CASE sort # "cost"
  <2>1. \A k, l \in DOMAIN log :
          Precedes(k, l, sort) <=>
            log[k].time > log[l].time \/ (log[k].time = log[l].time /\ k > l)
    BY <1>1, <1>3 DEF Precedes
  <2> HIDE DEF cost
  <2> QED
    BY <1>1, <2>1
<1> QED
  BY <1>2, <1>3

LEMMA RowsFinite ==
  ASSUME TypeOK, NEW S, S \subseteq DOMAIN log
  PROVE  IsFiniteSet(S) /\ Cardinality(S) \in Nat
<1>1. IsFiniteSet(1 .. Len(log))
  BY Types, FS_Interval
<1>2. S \in SUBSET (1 .. Len(log))
  BY Types
<1>3. IsFiniteSet(S)
  BY <1>1, <1>2, FS_Subset
<1> QED
  BY <1>3, FS_CardinalityType

\* The rank of a row is the number of the rows before it.
LEMMA RankTyped ==
  ASSUME TypeOK, NEW sort, NEW S, S \subseteq DOMAIN log, NEW i \in S
  PROVE  Cardinality({j \in S : Precedes(j, i, sort)}) \in 0 .. Cardinality(S) - 1
<1> DEFINE before == {j \in S : Precedes(j, i, sort)}
           n == Cardinality(S)
<1>1. i \notin before
  BY RowsOrdered
<1>2. IsFiniteSet(S \ {i}) /\ Cardinality(S \ {i}) = n - 1
  BY RowsFinite, FS_RemoveElement
<1>3. before \in SUBSET (S \ {i})
  BY <1>1
<1>4. IsFiniteSet(before) /\ Cardinality(before) <= n - 1
  BY <1>2, <1>3, FS_Subset
<1>5. Cardinality(before) \in Nat /\ n \in Nat
  BY <1>4, RowsFinite, FS_CardinalityType
<1> QED
  BY <1>4, <1>5

LEMMA RankRises ==
  ASSUME TypeOK, NEW sort, NEW S, S \subseteq DOMAIN log, NEW i \in S, NEW j \in S,
         Precedes(i, j, sort)
  PROVE  Cardinality({k \in S : Precedes(k, i, sort)})
           < Cardinality({k \in S : Precedes(k, j, sort)})
<1> DEFINE Above(x) == {k \in S : Precedes(k, x, sort)}
<1>1. IsFiniteSet(Above(i)) /\ IsFiniteSet(Above(j)) /\ i \notin Above(i)
      /\ Cardinality(Above(i)) \in Nat /\ Cardinality(Above(j)) \in Nat
  BY RowsOrdered, RowsFinite
<1>2. i \in Above(j)
  OBVIOUS
<1>3. Above(i) \in SUBSET (Above(j) \ {i})
  BY <1>1, RowsOrdered
<1>4. /\ IsFiniteSet(Above(j) \ {i})
      /\ Cardinality(Above(j) \ {i}) = Cardinality(Above(j)) - 1
  BY <1>1, <1>2, FS_RemoveElement
<1>5. Cardinality(Above(i)) <= Cardinality(Above(j) \ {i})
  BY <1>3, <1>4, FS_Subset
<1> HIDE DEF Above
<1>6. Cardinality(Above(i)) < Cardinality(Above(j))
  BY <1>1, <1>4, <1>5
<1> QED
  BY <1>6 DEF Above

\* No two rows have the same rank, so that every rank below the number of rows
\* is some row's.
LEMMA SliceCutsOff ==
  ASSUME TypeOK, NEW S, S \subseteq DOMAIN log
  PROVE  LET slice == Slice(S, "time", ReportMax, 0)
         IN  S \subseteq slice \/ Cardinality(slice) = ReportMax
<1> DEFINE n == Cardinality(S)
           rank == [i \in S |-> Cardinality({j \in S : Precedes(j, i, "time")})]
           slice == Slice(S, "time", ReportMax, 0)
<1>1. IsFiniteSet(S) /\ n \in Nat
  BY RowsFinite
<1>2. \A i \in S : rank[i] \in 0 .. n - 1
  BY RankTyped
<1>3. \A i, j \in S : Precedes(i, j, "time") => rank[i] < rank[j]
  BY RankRises
<1>4. rank \in Injection(S, 0 .. n - 1)
  <2>1. \A i \in S : rank[i] \in 0 .. n - 1
    BY <1>2
  <2>2. ASSUME NEW i \in S, NEW j \in S, i # j
        PROVE  rank[i] # rank[j]
    <3>1. Precedes(i, j, "time") \/ Precedes(j, i, "time")
      BY <2>2, RowsOrdered
    <3>2. rank[i] < rank[j] \/ rank[j] < rank[i]
      BY <1>3, <3>1
    <3>3. rank[i] \in Int /\ rank[j] \in Int
      BY <2>1
    <3> HIDE DEF rank
    <3> QED
      BY <3>2, <3>3
  <2>3. rank \in [S -> 0 .. n - 1]
    BY <2>1
  <2> HIDE DEF rank, n
  <2> QED
    BY <2>2, <2>3 DEF Injection, IsInjective
<1>5. IsFiniteSet(0 .. n - 1) /\ Cardinality(0 .. n - 1) = n
  <2> HIDE DEF n
  <2>1. 0 \in Int /\ n - 1 \in Int /\ (0 > n - 1 <=> n = 0) /\ (n - 1) - 0 + 1 = n
    BY <1>1
  <2> QED
    BY <1>1, <2>1, FS_Interval
<1>6. rank \in Surjection(S, 0 .. n - 1)
  <2> HIDE DEF rank
  <2> QED
    BY <1>4, <1>5, FS_Injection
<1>7. slice = {i \in S : rank[i] \in 0 .. ReportMax - 1}
  BY Numbers DEF Slice
<1> SUFFICES ASSUME ~(S \subseteq slice)
             PROVE  Cardinality(slice) = ReportMax
  OBVIOUS
<1> HIDE DEF rank, n, slice
<1>8. ReportMax \in 0 .. n
  <2>1. PICK i \in S : i \notin slice
    OBVIOUS
  <2>2. rank[i] \in 0 .. n - 1 /\ rank[i] \notin 0 .. ReportMax - 1
    BY <1>4, <1>7, <2>1 DEF Injection
  <2> QED
    BY <1>1, <2>2, Numbers
<1>9. [i \in slice |-> rank[i]] \in Bijection(slice, 0 .. ReportMax - 1)
  <2> DEFINE cut == [i \in slice |-> rank[i]]
  <2>1. cut \in [slice -> 0 .. ReportMax - 1]
    BY <1>7
  <2>2. \A i, j \in slice : cut[i] = cut[j] => i = j
    BY <1>4, <1>7 DEF Injection, IsInjective
  <2>3. \A r \in 0 .. ReportMax - 1 : \E i \in slice : cut[i] = r
    <3>1. \A r \in 0 .. ReportMax - 1 : r \in 0 .. n - 1
      BY <1>1, <1>8
    <3> QED
      BY <1>6, <1>7, <3>1 DEF Surjection
  <2> HIDE DEF cut
  <2>4. cut \in Bijection(slice, 0 .. ReportMax - 1)
    BY <2>1, <2>2, <2>3 DEF Bijection, Injection, IsInjective, Surjection
  <2> QED
    BY <2>4 DEF cut
<1>10. IsFiniteSet(slice)
  BY <1>1, <1>7, FS_Subset
<1>11. ExistsBijection(slice, 0 .. ReportMax - 1)
  BY <1>9 DEF ExistsBijection
<1>12. Cardinality(0 .. ReportMax - 1) = Cardinality(slice)
  BY <1>10, <1>11, FS_Bijection
<1> QED
  BY <1>12, FS_Interval, Numbers

LEMMA ExportsInv ==
  ASSUME Inv, ExportsRows
  PROVE  Inv'
<1> DEFINE slice == Slice(Found, "time", ReportMax, 0)
<1>1. Query("rows", slice)
  BY DEF ExportsRows
<1>2. slice \subseteq Found
  BY DEF Slice
<1>3. Found \subseteq DOMAIN log
  BY DEF Found
<1>4. Found \subseteq slice \/ Cardinality(slice) = ReportMax
  BY <1>3, SliceCutsOff DEF Inv
<1> HIDE DEF slice
<1> QED
  BY <1>1, <1>2, <1>4, QueryInv

-----------------------------------------------------------------------------
(* The other steps.                                                        *)

\* An answer has the results of all its queries.
LEMMA AnsweredAll ==
  ASSUME TypeOK, Answered
  PROVE  /\ "models" \in DOMAIN answer
         /\ session.handler = "data" => {"series", "fill", "users", "providers"} \subseteq DOMAIN answer
         /\ session.handler = "requests" =>
              {"count", "page", "period", "providers"} \subseteq DOMAIN answer
         /\ session.handler = "report" => "rows" \in DOMAIN answer
<1>1. session.handler \in Handlers
  BY SessionFields
<1>2. DOMAIN answer = {Plan(session.handler)[i] : i \in 1 .. Len(Plan(session.handler))}
  BY DEF TypeOK, Answered
<1>3. CASE session.handler = "data"
  <2>1. Plan("data") = <<"models", "summary", "top", "series", "fill", "users", "providers">>
    BY DEF Plan
  <2>2. DOMAIN answer = {Plan("data")[i] : i \in 1 .. 7}
    <3>1. Len(Plan("data")) = 7
      BY <2>1
    <3> QED
      BY <3>1, <1>2, <1>3
  <2>3. \A i \in 1 .. 7 : Plan("data")[i] \in DOMAIN answer
    BY <2>2
  <2> QED
    BY <1>3, <2>1, <2>3
<1>4. CASE session.handler = "requests"
  <2>1. Plan("requests") = <<"models", "count", "page", "period", "options", "providers">>
    BY DEF Plan
  <2>2. DOMAIN answer = {Plan("requests")[i] : i \in 1 .. 6}
    <3>1. Len(Plan("requests")) = 6
      BY <2>1
    <3> QED
      BY <3>1, <1>2, <1>4
  <2>3. \A i \in 1 .. 6 : Plan("requests")[i] \in DOMAIN answer
    BY <2>2
  <2> QED
    BY <1>4, <2>1, <2>3
<1>5. CASE session.handler = "report"
  <2>1. Plan("report") = <<"models", "period", "rows">>
    BY DEF Plan
  <2>2. DOMAIN answer = {Plan("report")[i] : i \in 1 .. 3}
    <3>1. Len(Plan("report")) = 3
      BY <2>1
    <3> QED
      BY <3>1, <1>2, <1>5
  <2>3. \A i \in 1 .. 3 : Plan("report")[i] \in DOMAIN answer
    BY <2>2
  <2> QED
    BY <1>5, <2>1, <2>3
<1> QED
  BY <1>1, <1>3, <1>4, <1>5 DEF Handlers

\* What only the request's status or the browser's list changes leaves the
\* invariant alone.
LEMMA SameAnswer ==
  ASSUME Inv, UNCHANGED <<now, log, writing, session, window, answer, began>>,
         status = "idle" => status' = "idle"
  PROVE  (ClockInv /\ WindowInv /\ ModelsInv /\ ResultsInv /\ CoverInv /\ OptionsInv)'
<1>1. ClockInv'
  BY DEF Inv, ClockInv
<1>2. WindowInv'
  BY DEF Inv, WindowInv, Dated, Dates
<1>3. ModelsInv'
  BY DEF Inv, ModelsInv
<1>4. ResultsInv'
  <2>1. \A i : Where(log[i])' <=> Where(log[i])
    BY DEF Where, InModels
  <2>2. Found' = Found /\ FoundIn(began.rows)' = FoundIn(began.rows)
    BY <2>1 DEF Found, FoundIn
  <2> QED
    BY <2>2 DEF Inv, ResultsInv
<1>5. CoverInv'
  BY DEF Inv, CoverInv, Got
<1>6. OptionsInv'
  BY DEF Inv, OptionsInv
<1> QED
  BY <1>1, <1>2, <1>3, <1>4, <1>5, <1>6

LEMMA FailsInv ==
  ASSUME Inv, QueryFails
  PROVE  Inv'
<1>1. TypeOK'
  BY DEF Inv, TypeOK, QueryFails
<1>2. (ClockInv /\ WindowInv /\ ModelsInv /\ ResultsInv /\ CoverInv /\ OptionsInv)'
  BY SameAnswer DEF QueryFails
<1> QED
  BY <1>1, <1>2 DEF Inv

LEMMA ShowsInv ==
  ASSUME Inv, ShowsPage
  PROVE  Inv'
<1>1. /\ now' = now /\ log' = log /\ writing' = writing /\ session' = session
      /\ window' = window /\ answer' = answer /\ began' = began /\ made' = made
      /\ first' = first /\ status = "answered" /\ status' = "shown"
      /\ shown' = shown \cup answer["page"] /\ offset' = offset + Cardinality(answer["page"])
      /\ more' \in BOOLEAN
  BY DEF ShowsPage, Came
<1>2. "page" \in DOMAIN answer
  BY AnsweredAll DEF Inv, ShowsPage, Answered
<1>3. answer["page"] \subseteq DOMAIN log
  BY <1>2 DEF Inv, ResultsInv, Found
<1>4. Cardinality(answer["page"]) \in Nat
  <2>1. Len(log) \in Int /\ DOMAIN log = 1 .. Len(log)
    BY Types DEF Inv
  <2>2. IsFiniteSet(1 .. Len(log))
    BY <2>1, FS_Interval
  <2>3. IsFiniteSet(answer["page"])
    BY <1>3, <2>1, <2>2, FS_Subset
  <2> QED
    BY <2>3, FS_CardinalityType
<1>5. offset' \in Nat /\ shown' \subseteq DOMAIN log'
  <2>1. offset \in Nat /\ shown \subseteq DOMAIN log
    BY DEF Inv, TypeOK
  <2>2. offset' \in Nat
    BY <1>1, <1>4, <2>1
  <2> QED
    BY <1>1, <1>3, <2>1, <2>2
<1>6. TypeOK'
  BY <1>1, <1>5 DEF Inv, TypeOK
<1>7. (ClockInv /\ WindowInv /\ ModelsInv /\ ResultsInv /\ CoverInv /\ OptionsInv)'
  BY <1>1, SameAnswer
<1> QED
  BY <1>6, <1>7 DEF Inv

LEMMA StutterInv ==
  ASSUME Inv, UNCHANGED vars
  PROVE  Inv'
<1>1. /\ now' = now /\ log' = log /\ writing' = writing /\ session' = session
      /\ status' = status /\ window' = window /\ made' = made /\ answer' = answer
      /\ began' = began /\ offset' = offset /\ shown' = shown /\ more' = more
      /\ first' = first
  BY DEF vars, reader, list
<1>2. TypeOK'
  BY <1>1 DEF Inv, TypeOK
<1>3. (ClockInv /\ WindowInv /\ ModelsInv /\ ResultsInv /\ CoverInv /\ OptionsInv)'
  BY <1>1, SameAnswer
<1> QED
  BY <1>2, <1>3 DEF Inv

\* The invariant is kept by every step.
LEMMA AlwaysInv == Spec => []Inv
<1>1. Init => Inv
  BY InitInv
<1>2. Inv /\ [Next]_vars => Inv'
  <2> SUFFICES ASSUME Inv, [Next]_vars
               PROVE  Inv'
    OBVIOUS
  <2>1. CASE LogSide
    BY <2>1, LogSideInv
  <2>2. CASE Asks
    BY <2>2, AsksInv
  <2>3. CASE ResolvesProvider
    BY <2>3, ResolvesInv
  <2>4. CASE Sums \/ TimeSeriesRead
    BY <2>4, SumsInv
  <2>5. CASE TopExpensive
    BY <2>5, TopInv
  <2>6. CASE TimeSeriesFilled
    BY <2>6, FillInv
  <2>7. CASE ListsRequests
    BY <2>7, PageInv
  <2>8. CASE ExportsRows
    BY <2>8, ExportsInv
  <2>9. CASE DistinctUsers \/ DistinctModels \/ DistinctProviders
    BY <2>9, OptionsOfInv
  <2>10. CASE QueryFails
    BY <2>10, FailsInv
  <2>11. CASE ShowsPage
    BY <2>11, ShowsInv
  <2>12. CASE UNCHANGED vars
    BY <2>12, StutterInv
  <2> QED
    BY <2>1, <2>2, <2>3, <2>4, <2>5, <2>6, <2>7, <2>8, <2>9, <2>10, <2>11, <2>12
       DEF Next, LogSide
<1> QED
  BY <1>1, <1>2, PTL DEF Spec

-----------------------------------------------------------------------------
(* What the answers say.                                                   *)

\* The milliseconds of the days from a to b.
LEMMA DaysOf ==
  ASSUME NEW t \in Nat, NEW a \in Nat, NEW b \in Nat, NEW day \in Nat \ {0}
  PROVE  t \div day \in a .. b <=> t >= a * day /\ t <= b * day + day - 1
<1> DEFINE d == t \div day
<1>1. d \in Nat /\ t = day * d + (t % day) /\ t % day \in 0 .. day - 1
  OBVIOUS
<1> HIDE DEF d
<1>2. /\ \A m, k \in Nat : m <= k => m * day <= k * day
      /\ \A m, k \in Nat : m < k => m * day + day <= k * day
      /\ \A m \in Nat : m * day \in Nat /\ day * m = m * day
  <2>1. ASSUME NEW m \in Nat, NEW k \in Nat, m < k
        PROVE  m * day + day <= k * day
    <3>1. k - (m + 1) \in Nat
      BY <2>1
    <3>2. (k - (m + 1)) * day >= 0
      BY <3>1
    <3> QED
      BY <3>2
  <2> QED
    BY <2>1
<1>3. d >= a <=> t >= a * day
  BY <1>1, <1>2
<1>4. d <= b <=> t <= b * day + day - 1
  BY <1>1, <1>2
<1> QED
  BY <1>1, <1>3, <1>4 DEF d

\* What the window holds of the times, said as the reader means it.
LEMMA WindowMeant ==
  ASSUME TypeOK, WindowInv, status # "idle", NEW t \in Nat
  PROVE  (IF Dated(session) THEN t \div Day \in session.from .. session.to
                            ELSE t >= window.since)
           <=> t >= window.since /\ (window.until = 0 \/ t <= window.until)
<1>1. CASE Dated(session)
  <2>1. /\ window.since = session.from * Day
        /\ window.until = session.to * Day + Day - 1
    BY <1>1 DEF WindowInv, Dates
  <2>2. session.from \in Nat /\ session.to \in Nat
        /\ Day \in Nat \ {0} /\ Day > 1
    BY SessionFields, Numbers
  <2>3. session.to * Day \in Nat
    BY <2>2
  <2>4. window.until # 0
    BY <2>1, <2>2, <2>3
  <2>5. t \div Day \in session.from .. session.to
          <=> t >= session.from * Day /\ t <= session.to * Day + Day - 1
    BY <2>2, DaysOf
  <2> QED
    BY <1>1, <2>1, <2>4, <2>5
<1>2. CASE ~Dated(session)
  BY <1>2 DEF WindowInv
<1> QED
  BY <1>1, <1>2

\* The rows that are found are those that are meant, and of the rows that were
\* there when the request came all that are meant are found.
LEMMA MeantFound ==
  ASSUME Inv, Answered, ProviderKnown
  PROVE  /\ Found \subseteq Meant(Len(log))
         /\ Meant(began.rows) \subseteq FoundIn(began.rows)
<1>1. TypeOK /\ WindowInv /\ ModelsInv /\ status # "idle"
  BY DEF Inv, Answered
<1>2. /\ DOMAIN log = 1 .. Len(log) /\ Len(log) \in Nat /\ began.rows \in 0 .. Len(log)
      /\ now \in Nat /\ Month \in Nat /\ window.since \in Nat
  BY <1>1, Types, Numbers
<1>3. \A i \in 1 .. Len(log) : log[i].time \in Nat
  BY <1>1, Types, Numbers DEF Row
<1>4. /\ session.provider = "" => answer["models"] = {}
      /\ \A m \in answer["models"] : ProviderOf[m] = session.provider
      /\ session.provider # "" =>
           \A i \in 1 .. began.rows :
             log[i].time >= now - Month /\ ProviderOf[log[i].model] = session.provider
               => log[i].model \in answer["models"]
  BY <1>1, AnsweredAll DEF ModelsInv
<1>5. session.provider # "" => answer["models"] # {}
  BY <1>4 DEF ProviderKnown
<1>6. \A i \in 1 .. Len(log) :
        (IF Dated(session) THEN log[i].time \div Day \in session.from .. session.to
                           ELSE log[i].time >= window.since)
          <=> log[i].time >= window.since /\ (window.until = 0 \/ log[i].time <= window.until)
  BY <1>1, <1>3, WindowMeant
<1>7. ASSUME NEW i \in Found
      PROVE  i \in Meant(Len(log))
  <2>1. i \in 1 .. Len(log) /\ Where(log[i])
    BY <1>2 DEF Found
  <2>2. session.provider \in {"", ProviderOf[log[i].model]}
    BY <1>4, <1>5, <2>1 DEF Where, InModels
  <2> QED
    BY <1>6, <2>1, <2>2 DEF Where, Meant
<1>8. ASSUME NEW i \in Meant(began.rows)
      PROVE  i \in FoundIn(began.rows)
  <2>1. i \in 1 .. began.rows /\ i \in 1 .. Len(log)
    <3>1. i \in 1 .. began.rows
      BY <1>8 DEF Meant
    <3> QED
      BY <1>2, <3>1
  <2>2. log[i].time >= window.since /\ (window.until = 0 \/ log[i].time <= window.until)
    BY <1>6, <1>8, <2>1 DEF Meant
  <2>3. InModels(log[i].model)
    <3>1. CASE session.provider = ""
      BY <1>4, <3>1 DEF InModels
    <3>2. CASE session.provider # ""
      <4>1. window.since >= now - Month
        BY <3>2 DEF ProviderKnown
      <4>2. log[i].time >= now - Month
        BY <1>2, <1>3, <2>1, <2>2, <4>1
      <4>3. ProviderOf[log[i].model] = session.provider
        BY <1>8, <3>2 DEF Meant
      <4> QED
        BY <1>4, <2>1, <3>2, <4>2, <4>3 DEF InModels
    <3> QED
      BY <3>1, <3>2
  <2>4. session.user \in {"", log[i].user}
    BY <1>8 DEF Meant
  <2> QED
    BY <2>1, <2>2, <2>3, <2>4 DEF FoundIn, Where
<1> QED
  BY <1>7, <1>8

-----------------------------------------------------------------------------
(* The list: page after page, while rows come and the window moves, it     *)
(* passes over no row.  It is up to a place in an order of rows if each    *)
(* owed row that has a place before it is listed.                          *)

\* The rows that go before row i, among these.
Before(i, S) == {j \in S : Precedes(j, i, session.sort)}

\* The rows of the list that are still meant, and still found if a provider is
\* asked for.
Owed ==
  {i \in Meant(first) :
     session.provider # "" =>
       /\ log[i].time >= now - Month
       /\ Dated(session) => window.since >= now - Month}

\* Of these rows, each that is owed and has less than n before it is listed.
UpTo(n, S, listed) == \A i \in Owed : Cardinality(Before(i, S)) < n => i \in listed

\* The list with the page that has come.
Reached == offset + Cardinality(answer["page"])
Listed  == shown \cup answer["page"]

ListedInv ==
  /\ status \in {"running", "answered"} =>
       /\ UpTo(offset, Meant(began.rows), shown)
       /\ "page" \in DOMAIN answer => UpTo(Reached, Found, Listed)
       /\ {"page", "period"} \subseteq DOMAIN answer =>
            UpTo(Reached, answer["period"], Listed)
  /\ status = "shown" =>
       /\ UpTo(offset, Found, shown)
       /\ ~more /\ answer["count"] = answer["period"] => Owed \subseteq shown

ListInv ==
  /\ status = "idle" => offset = 0
  /\ status = "shown" => session.handler = "requests"
  /\ status # "idle" => first <= began.rows /\ window.since <= Window(session).since
  /\ session.handler = "requests" /\ (session.sort = "time" \/ Dated(session)) => ListedInv

\* A page has as many rows as it may have, at most.
LEMMA PageFits ==
  ASSUME TypeOK, NEW sort, NEW S, S \subseteq DOMAIN log, NEW limit \in Nat,
         NEW from \in Nat
  PROVE  Cardinality(Slice(S, sort, limit, from)) <= limit
<1> DEFINE slice == Slice(S, sort, limit, from)
           places == from .. from + limit - 1
           Rank(i) == Cardinality({j \in S : Precedes(j, i, sort)})
           rank == [i \in slice |-> Rank(i)]
<1>1. \A i \in slice : i \in S /\ Rank(i) \in places
  BY DEF Slice
<1>2. \A i, j \in slice : Precedes(i, j, sort) => Rank(i) < Rank(j)
  BY <1>1, RankRises
<1>3. \A i, j \in slice : i # j => Precedes(i, j, sort) \/ Precedes(j, i, sort)
  BY <1>1, RowsOrdered
<1>4. rank \in Injection(slice, places)
  <2> HIDE DEF slice, Rank
  <2>1. rank \in [slice -> places]
    BY <1>1
  <2>2. \A i, j \in slice : Rank(i) = Rank(j) => i = j
    BY <1>1, <1>2, <1>3
  <2> QED
    BY <2>1, <2>2 DEF Injection, IsInjective
<1>5. IsFiniteSet(places) /\ Cardinality(places) = limit
  <2>1. from + limit - 1 \in Int /\ (from + limit - 1) - from + 1 = limit
        /\ (from > from + limit - 1 <=> limit = 0)
    OBVIOUS
  <2> QED
    BY <2>1, FS_Interval
<1> HIDE DEF slice, places, rank
<1>6. Cardinality(slice) <= limit
  BY <1>4, <1>5, FS_Injection
<1> QED
  BY <1>6 DEF slice

LEMMA FewerRows ==
  ASSUME TypeOK, NEW S, NEW T, S \subseteq T, T \subseteq DOMAIN log
  PROVE  /\ Cardinality(S) \in Nat /\ Cardinality(T) \in Nat
         /\ Cardinality(S) <= Cardinality(T)
BY RowsFinite, FS_Subset

\* By time, what goes before a row is not earlier.
LEMMA NotEarlier ==
  ASSUME TypeOK, session.sort = "time", NEW i \in DOMAIN log, NEW j \in DOMAIN log,
         Precedes(j, i, session.sort)
  PROVE  log[j].time >= log[i].time
<1>1. log[i].time \in Nat /\ log[j].time \in Nat
  BY Types, Numbers DEF Row
<1> QED
  BY <1>1 DEF Precedes

\* What it is to be owed, and that the row is in the log.
LEMMA OwedRow ==
  ASSUME TypeOK, NEW i \in Owed
  PROVE  /\ i \in 1 .. first /\ i \in Meant(first) /\ i \in DOMAIN log /\ log[i].time \in Nat
         /\ IF Dated(session) THEN log[i].time \div Day \in session.from .. session.to
                              ELSE log[i].time >= window.since
         /\ session.user \in {"", log[i].user}
         /\ session.provider \in {"", ProviderOf[log[i].model]}
         /\ session.provider # "" =>
              /\ log[i].time >= now - Month
              /\ Dated(session) => window.since >= now - Month
<1>1. first \in 0 .. Len(log)
  BY DEF TypeOK
<1>2. i \in Meant(first) /\ i \in 1 .. first
  BY DEF Owed, Meant
<1>3. i \in DOMAIN log /\ log[i].time \in Nat
  BY <1>1, <1>2, Types, Numbers DEF Row
<1> QED
  BY <1>2, <1>3 DEF Owed, Meant

\* A row that is owed is found, and so are the rows of the request's time that
\* go before it; and no row of another provider is.
LEMMA OwedFound ==
  ASSUME Inv, "models" \in DOMAIN answer, status # "idle", first <= began.rows,
         session.sort = "time" \/ Dated(session), NEW i \in Owed
  PROVE  /\ i \in FoundIn(began.rows)
         /\ \A j \in Found : session.provider \in {"", ProviderOf[log[j].model]}
         /\ Before(i, Meant(began.rows)) \subseteq Before(i, Found)
<1>1. TypeOK /\ WindowInv
  BY DEF Inv
<1>2. /\ DOMAIN log = 1 .. Len(log) /\ Len(log) \in Nat /\ began.rows \in 0 .. Len(log)
      /\ now \in Nat /\ Month \in Nat /\ window.since \in Nat /\ first \in 0 .. Len(log)
      /\ \A j \in 1 .. Len(log) : log[j].time \in Nat
  <2>1. first \in 0 .. Len(log)
    BY <1>1 DEF TypeOK
  <2> QED
    BY <1>1, <2>1, Types, Numbers DEF Row
<1>3. /\ session.provider = "" => answer["models"] = {}
      /\ \A m \in answer["models"] : ProviderOf[m] = session.provider
      /\ session.provider # "" =>
           \A j \in 1 .. began.rows :
             log[j].time >= now - Month /\ ProviderOf[log[j].model] = session.provider
               => log[j].model \in answer["models"]
  BY DEF Inv, ModelsInv
<1>4. \A j \in 1 .. Len(log) :
        (IF Dated(session) THEN log[j].time \div Day \in session.from .. session.to
                           ELSE log[j].time >= window.since)
          <=> log[j].time >= window.since /\ (window.until = 0 \/ log[j].time <= window.until)
  BY <1>1, <1>2, WindowMeant
<1>5. i \in 1 .. began.rows /\ i \in 1 .. Len(log)
  <2>1. i \in 1 .. first
    BY <1>1, OwedRow
  <2> QED
    BY <1>2, <2>1
<1>6. /\ session.provider \in {"", ProviderOf[log[i].model]}
      /\ session.provider # "" =>
           log[i].time >= now - Month /\ (Dated(session) => window.since >= now - Month)
  BY <1>1, OwedRow
<1>7. ASSUME NEW j \in Meant(began.rows), j = i \/ Precedes(j, i, session.sort)
      PROVE  j \in FoundIn(began.rows)
  <2>1. j \in 1 .. began.rows /\ j \in 1 .. Len(log)
    <3>1. j \in 1 .. began.rows
      BY <1>7 DEF Meant
    <3> QED
      BY <1>2, <3>1
  <2>2. log[j].time >= window.since /\ (window.until = 0 \/ log[j].time <= window.until)
    BY <1>4, <1>7, <2>1 DEF Meant
  <2>3. ASSUME session.provider # ""
        PROVE  log[j].time >= now - Month
    <3> DEFINE t == log[j].time
               u == log[i].time
    <3>1. t \in Nat /\ u \in Nat /\ u >= now - Month
      BY <1>2, <1>5, <1>6, <2>1, <2>3
    <3>2. t >= u \/ (t >= window.since /\ window.since >= now - Month)
      <4>1. CASE Dated(session)
        BY <1>6, <2>2, <2>3, <4>1
      <4>2. CASE session.sort = "time"
        <5>1. CASE j = i
          BY <3>1, <5>1
        <5>2. CASE Precedes(j, i, session.sort)
          BY <1>1, <1>2, <1>5, <2>1, <4>2, <5>2, NotEarlier
        <5> QED
          BY <1>7, <5>1, <5>2
      <4> QED
        BY <4>1, <4>2
    <3> HIDE DEF t, u
    <3>3. t >= now - Month
      BY <1>2, <3>1, <3>2
    <3> QED
      BY <3>3 DEF t
  <2>4. session.provider \in {"", ProviderOf[log[j].model]} /\ session.user \in {"", log[j].user}
    BY <1>7 DEF Meant
  <2>5. InModels(log[j].model)
    BY <1>3, <2>1, <2>3, <2>4 DEF InModels
  <2> QED
    BY <2>1, <2>2, <2>4, <2>5 DEF FoundIn, Where
<1>8. i \in FoundIn(began.rows)
  <2>1. i \in Meant(began.rows)
    BY <1>1, <1>5, OwedRow DEF Meant
  <2> QED
    BY <1>7, <2>1
<1>9. \A j \in Found : session.provider \in {"", ProviderOf[log[j].model]}
  <2>1. session.provider # "" => answer["models"] # {}
    BY <1>3, <1>5, <1>6
  <2>2. \A j \in Found : answer["models"] = {} \/ log[j].model \in answer["models"]
    BY DEF Found, Where, InModels
  <2> QED
    BY <1>3, <2>1, <2>2
<1>10. Before(i, Meant(began.rows)) \subseteq Before(i, Found)
  BY <1>1, <1>7, FoundRows DEF Before
<1> QED
  BY <1>8, <1>9, <1>10

-----------------------------------------------------------------------------
(* Each step keeps the list.                                               *)

\* The window only moves on.
LEMMA WindowMoves ==
  ASSUME TypeOK, TypeOK', session' = session, now <= now'
  PROVE  /\ Window(session).since \in Int /\ Window(session)'.since \in Int
         /\ Window(session).since <= Window(session)'.since
<1>1. CASE Dated(session)
  <2>1. Window(session) = Dates(session) /\ Window(session)' = Dates(session)
    BY <1>1 DEF Window, Dated, Dates
  <2>2. Window(session).since \in Nat
    BY WindowTyped
  <2> QED
    BY <2>1, <2>2
<1>2. CASE ~Dated(session)
  <2>1. now \in Nat /\ now' \in Nat /\ Week \in Nat /\ Month \in Nat /\ Day \in Nat \ {0}
    <3>1. now \in Start .. MaxNow /\ now' \in Start .. MaxNow
      BY DEF TypeOK
    <3> QED
      BY <3>1, Numbers
  <2>2. now - Week <= now' - Week /\ now - Month <= now' - Month
    <3>1. \A a, b, m \in Nat : a <= b => a - m <= b - m
      OBVIOUS
    <3> QED
      BY <2>1, <3>1
  <2>3. /\ Trunc(now, Day) <= Trunc(now', Day)
        /\ Trunc(now, Day) \in Nat /\ Trunc(now', Day) \in Nat
    BY <2>1, TruncMonotone, TruncTyped
  <2>4. /\ Window(session).since = CASE session.range = "7d"  -> now - Week
                                     [] session.range = "30d" -> now - Month
                                     [] OTHER                 -> Trunc(now, Day)
        /\ Window(session)'.since = CASE session.range = "7d"  -> now' - Week
                                      [] session.range = "30d" -> now' - Month
                                      [] OTHER                 -> Trunc(now', Day)
    BY <1>2 DEF Window, Dated, Trunc
  <2> QED
    BY <2>1, <2>2, <2>3, <2>4
<1> QED
  BY <1>1, <1>2

\* What is listed up to a place stays so when rows are added.
LEMMA UpToMore ==
  ASSUME TypeOK, NEW n \in Nat, NEW listed, NEW S, NEW T, S \subseteq T,
         T \subseteq DOMAIN log, UpTo(n, S, listed)
  PROVE  UpTo(n, T, listed)
<1> SUFFICES ASSUME NEW i \in Owed, Cardinality(Before(i, T)) < n
             PROVE  i \in listed
  BY DEF UpTo
<1>1. Before(i, S) \subseteq Before(i, T) /\ Before(i, T) \subseteq DOMAIN log
  BY DEF Before
<1>2. /\ Cardinality(Before(i, S)) \in Nat /\ Cardinality(Before(i, T)) \in Nat
      /\ Cardinality(Before(i, S)) <= Cardinality(Before(i, T))
  BY <1>1, FewerRows
<1>3. Cardinality(Before(i, S)) < n
  BY <1>2
<1> QED
  BY <1>3 DEF UpTo

\* Rows and time come: no row is owed that was not.
LEMMA LogSideOwed ==
  ASSUME Inv, LogSide
  PROVE  Owed' \subseteq Owed
<1>1. TypeOK /\ TypeOK'
  BY LogSideTyped DEF Inv
<1>2. /\ session' = session /\ window' = window /\ first' = first /\ now <= now'
      /\ now \in Nat /\ now' \in Nat /\ Month \in Nat /\ window.since \in Nat
      /\ Len(log) \in Nat /\ DOMAIN log = 1 .. Len(log) /\ first \in 0 .. Len(log)
      /\ \A i \in 1 .. Len(log) : log'[i] = log[i] /\ log[i].time \in Nat
  <2>1. first \in 0 .. Len(log)
    BY <1>1 DEF TypeOK
  <2>2. \A i \in 1 .. Len(log) : log[i].time \in Nat
    <3>1. \A i \in 1 .. Len(log) : log[i] \in Row
      BY <1>1, Types
    <3>2. \A row \in Row : row.time \in Nat
      BY Numbers DEF Row
    <3> QED
      BY <3>1, <3>2
  <2>3. /\ session' = session /\ window' = window /\ first' = first
        /\ now <= now' /\ now' \in Start .. MaxNow
        /\ \A i \in 1 .. Len(log) : log'[i] = log[i]
    BY <1>1, LogGrows DEF reader, list
  <2>4. now \in Nat /\ now' \in Nat /\ Month \in Nat
    BY <1>1, <2>3, Types, Numbers
  <2> QED
    BY <1>1, <2>1, <2>2, <2>3, <2>4, Types
<1>3. \A t \in Nat : t >= now' - Month => t >= now - Month
  BY <1>2, Recent
<1>4. ASSUME NEW i \in Owed'
      PROVE  i \in Owed
  <2>1. i \in 1 .. first /\ i \in 1 .. Len(log)
    <3>1. i \in 1 .. first'
      BY <1>4 DEF Owed, Meant
    <3> QED
      BY <1>2, <3>1
  <2>2. log'[i] = log[i] /\ log[i].time \in Nat
    BY <1>2, <2>1
  <2>3. i \in Meant(first)
    BY <1>2, <1>4, <2>1, <2>2 DEF Owed, Meant, Dated
  <2>4. session.provider # "" =>
          log[i].time >= now - Month /\ (Dated(session) => window.since >= now - Month)
    BY <1>2, <1>3, <1>4, <2>2 DEF Owed, Dated
  <2> QED
    BY <2>3, <2>4 DEF Owed
<1> QED
  BY <1>4

\* The rows before a row are still before it.
LEMMA LogSideUpTo ==
  ASSUME Inv, LogSide, NEW n \in Nat, NEW listed, NEW S, NEW T,
         S \subseteq DOMAIN log, S \subseteq T, T \subseteq DOMAIN log',
         UpTo(n, S, listed)
  PROVE  \A i \in Owed' : Cardinality({j \in T : Precedes(j, i, session.sort)'}) < n
                            => i \in listed
<1>1. TypeOK /\ TypeOK'
  BY LogSideTyped DEF Inv
<1>2. /\ session' = session /\ DOMAIN log = 1 .. Len(log)
      /\ \A i \in 1 .. Len(log) : log'[i] = log[i]
  BY <1>1, LogGrows, Types DEF reader
<1>5. \A i, j \in DOMAIN log :
        Precedes(j, i, session.sort)' <=> Precedes(j, i, session.sort)
  BY <1>2 DEF Precedes
<1> SUFFICES ASSUME NEW i \in Owed',
                    Cardinality({j \in T : Precedes(j, i, session.sort)'}) < n
             PROVE  i \in listed
  OBVIOUS
<1> DEFINE A == {j \in T : Precedes(j, i, session.sort)'}
<1>6. i \in Owed /\ i \in DOMAIN log
  BY <1>1, LogSideOwed, OwedRow
<1>7. Before(i, S) \in SUBSET A
  BY <1>5, <1>6 DEF Before
<1>8. IsFiniteSet(A) /\ Cardinality(A) \in Nat
  <2>1. log' \in Seq(Row) /\ A \subseteq 1 .. Len(log')
    BY <1>1, LogFacts DEF TypeOK
  <2>2. IsFiniteSet(1 .. Len(log'))
    BY <2>1, LogFacts, FS_Interval
  <2> QED
    BY <2>1, <2>2, FS_Subset, FS_CardinalityType
<1>9. Cardinality(Before(i, S)) <= Cardinality(A)
  BY <1>7, <1>8, FS_Subset
<1>10. Before(i, S) \subseteq DOMAIN log
  BY DEF Before
<1>11. Cardinality(Before(i, S)) \in Nat
  BY <1>1, <1>10, RowsFinite
<1> HIDE DEF A
<1>12. Cardinality(A) < n
  BY DEF A
<1>13. Cardinality(Before(i, S)) < n
  BY <1>8, <1>9, <1>11, <1>12
<1> QED
  BY <1>6, <1>13 DEF UpTo

LEMMA LogSideListed ==
  ASSUME Inv, ListInv, LogSide
  PROVE  ListInv'
<1>1. TypeOK /\ TypeOK' /\ session' = session /\ now <= now'
  BY LogSideTyped, LogGrows DEF Inv, reader
<1>2. /\ status' = status /\ window' = window /\ made' = made /\ answer' = answer
      /\ began' = began /\ offset' = offset /\ shown' = shown /\ more' = more
      /\ first' = first
  BY <1>1, LogGrows DEF reader, list
<1>3. status' # "idle" => first' <= began'.rows /\ window'.since <= Window(session)'.since
  <2>1. window.since \in Int
    BY <1>1, Types
  <2> QED
    BY <1>1, <1>2, <2>1, WindowMoves DEF ListInv
<1>4. ASSUME session.handler = "requests", session.sort = "time" \/ Dated(session)
      PROVE  ListedInv'
  <2>1. ListedInv
    BY <1>4 DEF ListInv
  <2>2. /\ Found \subseteq Found' /\ Found \subseteq DOMAIN log /\ Found' \subseteq DOMAIN log'
        /\ DOMAIN log \subseteq DOMAIN log'
    <3>1. DOMAIN log \subseteq DOMAIN log'
      <4>1. /\ DOMAIN log = 1 .. Len(log) /\ DOMAIN log' = 1 .. Len(log')
            /\ Len(log') >= Len(log) /\ Len(log) \in Nat /\ Len(log') \in Nat
        BY <1>1, LogGrows, LogFacts DEF TypeOK
      <4> QED
        BY <4>1
    <3> QED
      BY <1>1, <3>1, LogSideFound DEF Found
  <2>3. PICK M : M = Meant(began.rows)
    OBVIOUS
  <2>4. M \subseteq DOMAIN log /\ Meant(began.rows)' = M
    <3>1. /\ began.rows \in 0 .. Len(log) /\ Len(log) \in Nat
          /\ \A i \in 1 .. Len(log) : log'[i] = log[i]
      BY <1>1, LogGrows, Types
    <3>2. \A i \in 1 .. began.rows : log'[i] = log[i] /\ i \in DOMAIN log
      BY <1>1, <3>1, Types
    <3> QED
      BY <1>1, <1>2, <2>3, <3>2 DEF Meant, Dated
  <2>5. offset \in Nat
    BY <1>1 DEF TypeOK
  <2>6. CASE status \in {"running", "answered"}
    <3>1. UpTo(offset, Meant(began.rows), shown)'
      <4>1. UpTo(offset, M, shown)
        BY <2>1, <2>3, <2>6 DEF ListedInv
      <4>2. M \subseteq DOMAIN log'
        BY <2>2, <2>4
      <4>3. \A i \in Owed' : Cardinality({j \in M : Precedes(j, i, session.sort)'}) < offset
                              => i \in shown
        BY <2>4, <2>5, <4>1, <4>2, LogSideUpTo
      <4> QED
        BY <1>2, <2>4, <4>3 DEF UpTo, Before
    <3>2. ASSUME "page" \in DOMAIN answer
          PROVE  /\ UpTo(Reached, Found, Listed)'
                 /\ "period" \in DOMAIN answer => UpTo(Reached, answer["period"], Listed)'
      <4>1. PICK n, listed : n = Reached /\ listed = Listed
        OBVIOUS
      <4>2. /\ UpTo(n, Found, listed)
            /\ "period" \in DOMAIN answer => UpTo(n, answer["period"], listed)
        BY <2>1, <2>6, <3>2, <4>1 DEF ListedInv
      <4>3. answer["page"] \subseteq Found /\ Got("period") \subseteq Found
        BY <3>2 DEF Inv, ResultsInv, Got
      <4>4. n \in Nat
        BY <1>1, <2>2, <2>5, <4>1, <4>3, RowsFinite DEF Reached
      <4>5. Reached' = n /\ Listed' = listed
        BY <1>2, <4>1 DEF Reached, Listed
      <4>6. UpTo(Reached, Found, Listed)'
        <5>1. PICK F : F = Found'
          OBVIOUS
        <5>2. \A i \in Owed' : Cardinality({j \in F : Precedes(j, i, session.sort)'}) < n
                                => i \in listed
          BY <2>2, <4>2, <4>4, <5>1, LogSideUpTo
        <5> QED
          BY <4>5, <5>1, <5>2 DEF UpTo, Before
      <4>7. ASSUME "period" \in DOMAIN answer
            PROVE  UpTo(Reached, answer["period"], Listed)'
        <5>1. PICK P : P = answer["period"]
          OBVIOUS
        <5>2. P \subseteq DOMAIN log /\ P \subseteq DOMAIN log'
          BY <2>2, <4>3, <4>7, <5>1 DEF Got
        <5>3. \A i \in Owed' : Cardinality({j \in P : Precedes(j, i, session.sort)'}) < n
                                => i \in listed
          BY <4>2, <4>4, <4>7, <5>1, <5>2, LogSideUpTo
        <5> QED
          BY <1>2, <4>5, <5>1, <5>3 DEF UpTo, Before
      <4> QED
        BY <4>6, <4>7
    <3> QED
      BY <1>2, <2>6, <3>1, <3>2 DEF ListedInv
  <2>7. CASE status = "shown"
    <3>1. UpTo(offset, Found, shown)'
      <4>1. PICK F : F = Found'
        OBVIOUS
      <4>2. UpTo(offset, Found, shown)
        BY <2>1, <2>7 DEF ListedInv
      <4>3. \A i \in Owed' : Cardinality({j \in F : Precedes(j, i, session.sort)'}) < offset
                              => i \in shown
        BY <2>2, <2>5, <4>1, <4>2, LogSideUpTo
      <4> QED
        BY <1>2, <4>1, <4>3 DEF UpTo, Before
    <3>2. Owed' \subseteq Owed
      BY LogSideOwed
    <3> QED
      BY <1>2, <2>1, <2>7, <3>1, <3>2 DEF ListedInv
  <2> QED
    BY <1>2, <2>6, <2>7 DEF ListedInv
<1> QED
  BY <1>1, <1>2, <1>3, <1>4 DEF ListInv, Dated

\* The next page: its window may have moved on, but not back.
LEMMA AsksListed ==
  ASSUME Inv, ListInv, Asks
  PROVE  ListInv'
<1>1. TypeOK /\ WindowInv /\ TypeOK'
  BY AsksInv DEF Inv
<1>2. /\ status # "running" /\ status' = "running" /\ window' = Window(session)
      /\ answer' = << >> /\ began' = [at |-> now, rows |-> Len(log)]
      /\ first' = IF status = "idle" THEN Len(log) ELSE first
      /\ now' = now /\ log' = log /\ session' = session
      /\ offset' = offset /\ shown' = shown
  BY DEF Asks
<1>3. first' <= began'.rows /\ window'.since <= Window(session)'.since
  <2>1. first \in 0 .. Len(log) /\ Len(log) \in Nat /\ now \in Nat
    BY <1>1, Types DEF TypeOK
  <2>2. first' <= Len(log)
    BY <1>2, <2>1
  <2>3. now <= now'
    BY <1>2, <2>1
  <2>4. /\ Window(session).since \in Int /\ Window(session)'.since \in Int
        /\ Window(session).since <= Window(session)'.since
    BY <1>1, <1>2, <2>3, WindowMoves
  <2> QED
    BY <1>2, <2>2, <2>4
<1>4. ASSUME session.handler = "requests", session.sort = "time" \/ Dated(session)
      PROVE  UpTo(offset, Meant(began.rows), shown)'
  <2>1. DOMAIN log = 1 .. Len(log) /\ Len(log) \in Nat
    BY <1>1, Types
  <2>2. PICK M : M = Meant(began.rows)'
    OBVIOUS
  <2>3. M \subseteq DOMAIN log
    BY <1>2, <2>1, <2>2 DEF Meant
  <2>4. \A i : Cardinality(Before(i, M)) \in Nat
    <3>1. \A i : Before(i, M) \subseteq DOMAIN log
      BY <2>3 DEF Before
    <3> QED
      BY <1>1, <3>1, RowsFinite
  <2>5. CASE status = "idle"
    <3>1. offset = 0
      BY <2>5 DEF ListInv
    <3>2. \A i : Before(i, M)' = Before(i, M)
      BY <1>2 DEF Before, Precedes
    <3>3. \A i : ~(Cardinality(Before(i, M)) < 0)
      BY <2>4
    <3> QED
      BY <1>2, <2>2, <3>1, <3>2, <3>3 DEF UpTo
  <2>6. CASE status = "shown"
    <3>1. UpTo(offset, Found, shown) /\ first <= began.rows
          /\ window.since <= Window(session).since /\ first' = first
      BY <1>2, <1>4, <2>6 DEF ListInv, ListedInv
    <3>2. "models" \in DOMAIN answer
      BY <1>1, <2>6, AnsweredAll DEF Answered
    <3>3. Dated(session) => window' = window
      BY <1>1, <1>2, <2>6 DEF WindowInv, Window
    <3>4. /\ window.since \in Nat /\ window'.since \in Nat /\ window.since <= window'.since
          /\ \A i \in DOMAIN log : log[i].time \in Nat
      <4>1. window'.since \in Nat
        BY <1>1, <1>2, WindowTyped
      <4> QED
        BY <1>1, <1>2, <3>1, <4>1, Types, Numbers DEF Row
    <3>5. ASSUME NEW i \in Owed'
          PROVE  i \in Owed /\ (~Dated(session) => log[i].time >= window'.since)
      <4>1. i \in 1 .. first /\ i \in DOMAIN log
        <5>1. i \in 1 .. first'
          BY <3>5 DEF Owed, Meant
        <5>2. first \in 0 .. Len(log)
          BY <1>1 DEF TypeOK
        <5> QED
          BY <2>1, <3>1, <5>1, <5>2
      <4>2. ~Dated(session) => log[i].time >= window'.since
        BY <1>2, <3>5 DEF Owed, Meant, Dated
      <4>3. ~Dated(session) => log[i].time >= window.since
        BY <3>4, <4>1, <4>2
      <4>4. i \in Meant(first)
        BY <1>2, <3>1, <3>5, <4>1, <4>3 DEF Owed, Meant, Dated
      <4>5. session.provider # "" =>
              log[i].time >= now - Month /\ (Dated(session) => window.since >= now - Month)
        BY <1>2, <3>3, <3>5 DEF Owed, Dated
      <4> QED
        BY <4>2, <4>4, <4>5 DEF Owed
    <3>6. ASSUME NEW i \in Owed', NEW j \in Before(i, Found)
          PROVE  j \in Before(i, M)
      <4>1. i \in Owed /\ i \in DOMAIN log
        BY <1>1, <3>5, OwedRow
      <4>2. j \in DOMAIN log /\ Where(log[j]) /\ Precedes(j, i, session.sort)
        BY <3>6 DEF Before, Found
      <4>3. session.provider \in {"", ProviderOf[log[j].model]}
        BY <1>4, <2>6, <3>1, <3>2, <3>6, <4>1, OwedFound DEF Before
      <4>4. IF Dated(session) THEN log[j].time \div Day \in session.from .. session.to
                              ELSE log[j].time >= window'.since
        <5>1. CASE Dated(session)
          BY <1>1, <2>6, <3>4, <4>2, <5>1, WindowMeant DEF Where
        <5>2. CASE ~Dated(session)
          <6>1. log[j].time >= log[i].time
            BY <1>1, <1>4, <4>1, <4>2, <5>2, NotEarlier
          <6>2. log[i].time >= window'.since
            BY <3>5, <5>2
          <6>3. log[i].time \in Nat /\ log[j].time \in Nat
            BY <3>4, <4>1, <4>2
          <6> QED
            BY <3>4, <5>2, <6>1, <6>2, <6>3
        <5> QED
          BY <5>1, <5>2
      <4>5. session.user \in {"", log[j].user}
        BY <4>2 DEF Where
      <4>6. j \in M
        BY <1>2, <2>1, <2>2, <4>2, <4>3, <4>4, <4>5 DEF Meant, Dated
      <4> QED
        BY <4>2, <4>6 DEF Before
    <3>7. ASSUME NEW i \in Owed', Cardinality(Before(i, M)) < offset
          PROVE  i \in shown
      <4>1. Before(i, Found) \subseteq Before(i, M) /\ Before(i, M) \subseteq DOMAIN log
        BY <2>3, <3>6 DEF Before
      <4>2. /\ Cardinality(Before(i, Found)) \in Nat /\ Cardinality(Before(i, M)) \in Nat
            /\ Cardinality(Before(i, Found)) <= Cardinality(Before(i, M))
        BY <1>1, <4>1, FewerRows
      <4>3. offset \in Nat
        BY <1>1 DEF TypeOK
      <4>4. Cardinality(Before(i, Found)) < offset
        BY <3>7, <4>2, <4>3
      <4> QED
        BY <3>1, <3>5, <4>4 DEF UpTo
    <3>8. \A i : Before(i, M)' = Before(i, M)
      BY <1>2 DEF Before, Precedes
    <3> QED
      BY <1>2, <2>2, <3>7, <3>8 DEF UpTo
  <2> QED
    BY <1>4, <2>5, <2>6 DEF Asks
<1>5. ListedInv' <=> UpTo(offset, Meant(began.rows), shown)'
  BY <1>2 DEF ListedInv
<1> QED
  BY <1>2, <1>3, <1>4, <1>5 DEF ListInv, Dated

\* What leaves the log and the request alone leaves what is owed.
LEMMA OwedStays ==
  ASSUME UNCHANGED <<now, log, session, window, first>>, NEW n, NEW S, NEW listed
  PROVE  /\ Owed' = Owed
         /\ UpTo(n, S, listed)' <=> UpTo(n, S, listed)
<1>1. Owed' = Owed
  <2>1. Meant(first)' = Meant(first)
    BY DEF Meant, Dated
  <2> QED
    BY <2>1 DEF Owed, Dated
<1>2. \A i : Before(i, S)' = Before(i, S)
  BY DEF Before, Precedes
<1> QED
  BY <1>1, <1>2 DEF UpTo

\* A page: its rows, and those listed already, are all up to its end.
LEMMA PageListed ==
  ASSUME Inv, ListInv, ListedInv, Query("page", Page),
         session.handler = "requests", session.sort = "time" \/ Dated(session)
  PROVE  UpTo(offset + Cardinality(Page), Found, shown \cup Page)
<1>1. TypeOK /\ status = "running" /\ first <= began.rows
  BY DEF Inv, ListInv, Query, Turn
<1>2. "models" \in DOMAIN answer
  BY <1>1, QueryAdds
<1>3. offset \in Nat /\ Limit \in Nat
  <2>1. session.limit \in Int /\ DefaultLimit \in Nat
    BY <1>1, SessionFields, ReportsAssumption
  <2>2. MaxLimit \in Nat
    BY ReportsAssumption
  <2> QED
    BY <1>1, <2>1, <2>2 DEF TypeOK, Limit
<1>4. Found \subseteq DOMAIN log /\ FoundIn(began.rows) \subseteq Found
  BY <1>1, FoundRows
<1>5. Cardinality(Page) \in Nat /\ Cardinality(Page) <= Limit
  <2>1. Page \subseteq DOMAIN log
    BY <1>4 DEF Page, Slice
  <2> QED
    BY <1>1, <1>3, <1>4, <2>1, RowsFinite, PageFits DEF Page
<1> SUFFICES ASSUME NEW i \in Owed,
                    Cardinality(Before(i, Found)) < offset + Cardinality(Page)
             PROVE  i \in shown \/ i \in Page
  BY DEF UpTo
<1>6. i \in Found /\ Before(i, Meant(began.rows)) \subseteq Before(i, Found)
  BY <1>1, <1>2, <1>4, OwedFound
<1>7. Before(i, Found) \subseteq DOMAIN log
  BY <1>4 DEF Before
<1>8. /\ Cardinality(Before(i, Meant(began.rows))) \in Nat
      /\ Cardinality(Before(i, Found)) \in Nat
      /\ Cardinality(Before(i, Meant(began.rows))) <= Cardinality(Before(i, Found))
  BY <1>1, <1>6, <1>7, FewerRows
<1>9. CASE Cardinality(Before(i, Found)) < offset
  <2>1. Cardinality(Before(i, Meant(began.rows))) < offset
    BY <1>3, <1>8, <1>9
  <2> QED
    BY <1>1, <2>1 DEF ListedInv, UpTo
<1>10. CASE Cardinality(Before(i, Found)) >= offset
  <2>1. Cardinality(Before(i, Found)) \in offset .. offset + Limit - 1
    BY <1>3, <1>5, <1>8, <1>10
  <2> QED
    BY <1>6, <2>1 DEF Page, Slice, Before
<1> QED
  BY <1>3, <1>8, <1>9, <1>10

LEMMA QueryListed ==
  ASSUME Inv, ListInv, NEW q, NEW result, Query(q, result),
         q = "page" => result = Page, q = "period" => result = Found
  PROVE  ListInv'
<1>1. TypeOK
  BY DEF Inv
<1>2. /\ now' = now /\ log' = log /\ session' = session /\ window' = window
      /\ began' = began /\ offset' = offset /\ shown' = shown /\ first' = first
      /\ status = "running" /\ status' \in {"running", "answered"}
  BY DEF Query, Turn, list
<1>3. /\ q \notin DOMAIN answer /\ DOMAIN answer' = DOMAIN answer \cup {q}
      /\ answer'[q] = result /\ \A x \in DOMAIN answer : answer'[x] = answer[x]
      /\ q = "models" => DOMAIN answer = {}
  BY <1>1, QueryAdds
<1>4. Window(session)' = Window(session)
  BY <1>2 DEF Window, Dated, Dates
<1>5. ASSUME session.handler = "requests", session.sort = "time" \/ Dated(session)
      PROVE  ListedInv'
  <2>1. ListedInv
    BY <1>5 DEF ListInv
  <2>2. UpTo(offset, Meant(began.rows), shown)'
    <3>1. PICK n, M, listed : n = offset /\ M = Meant(began.rows) /\ listed = shown
      OBVIOUS
    <3>2. Meant(began.rows)' = M
      BY <1>2, <3>1 DEF Meant, Dated
    <3>3. UpTo(n, M, listed)
      BY <1>2, <2>1, <3>1 DEF ListedInv
    <3>4. UpTo(n, M, listed)'
      BY <1>2, <3>3, OwedStays
    <3> QED
      BY <1>2, <3>1, <3>2, <3>4 DEF UpTo
  <2>3. ASSUME "page" \in DOMAIN answer'
        PROVE  /\ UpTo(Reached, Found, Listed)'
               /\ "period" \in DOMAIN answer' => UpTo(Reached, answer["period"], Listed)'
    <3>1. PICK n, F, P, listed : /\ n = Reached' /\ F = Found' /\ listed = Listed'
                                /\ P = answer'["period"]
      OBVIOUS
    <3>2. q # "models"
      BY <1>3, <2>3
    <3>3. F = Found
      BY <1>1, <3>1, <3>2, QueryFound
    <3>4. UpTo(n, F, listed) /\ ("period" \in DOMAIN answer' => UpTo(n, P, listed))
      <4>1. CASE q = "page"
        <5>1. "period" \notin DOMAIN answer'
          BY <1>1, <1>3, <1>5, <4>1, QueryOrder
        <5>2. n = offset + Cardinality(Page) /\ listed = shown \cup Page
          BY <1>2, <1>3, <3>1, <4>1 DEF Reached, Listed
        <5> QED
          BY <1>5, <2>1, <3>3, <4>1, <5>1, <5>2, PageListed
      <4>2. CASE q # "page"
        <5>1. "page" \in DOMAIN answer /\ n = Reached /\ listed = Listed
          BY <1>2, <1>3, <2>3, <3>1, <4>2 DEF Reached, Listed
        <5>2. UpTo(n, F, listed)
          BY <1>2, <2>1, <3>3, <5>1 DEF ListedInv
        <5>3. CASE q = "period"
          BY <1>3, <3>1, <3>3, <5>2, <5>3
        <5>4. CASE q # "period"
          BY <1>2, <1>3, <2>1, <3>1, <5>1, <5>2, <5>4 DEF ListedInv
        <5> QED
          BY <5>3, <5>4
      <4> QED
        BY <4>1, <4>2
    <3>5. UpTo(n, F, listed)' /\ ("period" \in DOMAIN answer' => UpTo(n, P, listed)')
      BY <1>2, <3>4, OwedStays
    <3> QED
      BY <3>1, <3>5 DEF UpTo, Before
  <2> QED
    BY <1>2, <2>2, <2>3 DEF ListedInv
<1> QED
  BY <1>2, <1>4, <1>5 DEF ListInv, Dated

\* Shown: if no more is offered, then the list is up to the end of the period.
LEMMA ShowsListed ==
  ASSUME Inv, ListInv, ShowsPage
  PROVE  ListInv'
<1>1. TypeOK /\ ResultsInv
  BY DEF Inv
<1>2. /\ now' = now /\ log' = log /\ session' = session /\ window' = window
      /\ answer' = answer /\ began' = began /\ first' = first
      /\ status = "answered" /\ status' = "shown" /\ session.handler = "requests"
      /\ shown' = Listed /\ offset' = Reached
      /\ more' = (offset' < Cardinality(answer["count"]))
  BY DEF ShowsPage, Came, Reached, Listed
<1>3. {"models", "count", "page", "period"} \subseteq DOMAIN answer
  BY <1>1, <1>2, AnsweredAll DEF Answered
<1>4. Window(session)' = Window(session)
  BY <1>2 DEF Window, Dated, Dates
<1>5. ASSUME session.sort = "time" \/ Dated(session)
      PROVE  ListedInv'
  <2>1. UpTo(Reached, Found, Listed) /\ UpTo(Reached, answer["period"], Listed)
    BY <1>2, <1>3, <1>5 DEF ListInv, ListedInv
  <2>2. UpTo(offset, Found, shown)'
    <3>1. PICK n, F, listed : n = Reached /\ F = Found /\ listed = Listed
      OBVIOUS
    <3>2. Found' = F
      BY <1>2, <3>1 DEF Found, Where, InModels
    <3>3. UpTo(n, F, listed)'
      BY <1>2, <2>1, <3>1, OwedStays
    <3> QED
      BY <1>2, <3>1, <3>2, <3>3 DEF UpTo
  <2>3. ASSUME ~more', answer["count"] = answer["period"], NEW i \in Owed
        PROVE  i \in Listed
    <3> DEFINE period == answer["period"]
    <3>1. period \subseteq DOMAIN log /\ FoundIn(began.rows) \subseteq period
      BY <1>1, <1>3 DEF ResultsInv, Found
    <3>2. i \in period
      BY <1>2, <1>3, <1>5, <3>1, OwedFound DEF ListInv
    <3>3. Cardinality(period) \in Nat /\ Cardinality(Before(i, period)) \in 0 .. Cardinality(period) - 1
      BY <1>1, <3>1, <3>2, RowsFinite, RankTyped DEF Before
    <3>4. ~(Reached < Cardinality(period))
      BY <1>2, <2>3
    <3>5. Reached \in Nat
      <4>1. answer["page"] \subseteq DOMAIN log
        BY <1>1, <1>3 DEF ResultsInv, Found
      <4>2. Cardinality(answer["page"]) \in Nat
        BY <1>1, <4>1, RowsFinite
      <4>3. offset \in Nat
        BY <1>1 DEF TypeOK
      <4> QED
        BY <4>2, <4>3 DEF Reached
    <3> HIDE DEF period
    <3>6. Cardinality(Before(i, period)) < Reached
      BY <3>3, <3>4, <3>5
    <3> QED
      BY <2>1, <3>6 DEF UpTo, period
  <2>4. Owed' = Owed
    BY <1>2, OwedStays
  <2> QED
    BY <1>2, <2>2, <2>3, <2>4 DEF ListedInv
<1> QED
  BY <1>2, <1>4, <1>5 DEF ListInv, Dated

LEMMA FailsListed ==
  ASSUME Inv, ListInv, QueryFails
  PROVE  ListInv'
<1>1. /\ now' = now /\ session' = session /\ window' = window
      /\ began' = began /\ first' = first /\ status = "running" /\ status' = "failed"
  BY DEF QueryFails
<1>2. Window(session)' = Window(session)
  BY <1>1 DEF Window, Dated, Dates
<1>3. ListedInv'
  BY <1>1 DEF ListedInv
<1> QED
  BY <1>1, <1>2, <1>3 DEF ListInv

LEMMA StutterListed ==
  ASSUME ListInv, UNCHANGED vars
  PROVE  ListInv'
<1>1. /\ now' = now /\ log' = log /\ session' = session /\ status' = status
      /\ window' = window /\ answer' = answer /\ began' = began /\ offset' = offset
      /\ shown' = shown /\ more' = more /\ first' = first
  BY DEF vars, reader, list
<1>2. Window(session)' = Window(session) /\ Dated(session)' = Dated(session)
  BY <1>1 DEF Window, Dated, Dates
<1>3. ASSUME ListedInv
      PROVE  ListedInv'
  <2>1. PICK M, F, P, n, listed :
          /\ M = Meant(began.rows) /\ F = Found /\ P = answer["period"]
          /\ n = Reached /\ listed = Listed
    OBVIOUS
  <2>2. PICK o, s : o = offset /\ s = shown
    OBVIOUS
  <2>3. /\ Meant(began.rows)' = M /\ Found' = F /\ answer'["period"] = P
        /\ Reached' = n /\ Listed' = listed /\ offset' = o /\ shown' = s
    <3>1. Meant(began.rows)' = M
      BY <1>1, <2>1 DEF Meant, Dated
    <3>2. Found' = F
      BY <1>1, <2>1 DEF Found, Where, InModels
    <3> QED
      BY <1>1, <2>1, <2>2, <3>1, <3>2 DEF Reached, Listed
  <2>4. /\ Owed' = Owed
        /\ UpTo(o, M, s)' <=> UpTo(o, M, s)
        /\ UpTo(n, F, listed)' <=> UpTo(n, F, listed)
        /\ UpTo(n, P, listed)' <=> UpTo(n, P, listed)
        /\ UpTo(o, F, s)' <=> UpTo(o, F, s)
    BY <1>1, OwedStays
  <2>5. /\ UpTo(offset, Meant(began.rows), shown)' <=> UpTo(o, M, s)'
        /\ UpTo(Reached, Found, Listed)' <=> UpTo(n, F, listed)'
        /\ UpTo(Reached, answer["period"], Listed)' <=> UpTo(n, P, listed)'
        /\ UpTo(offset, Found, shown)' <=> UpTo(o, F, s)'
    BY <2>3 DEF UpTo, Before
  <2> QED
    BY <1>1, <1>3, <2>1, <2>2, <2>4, <2>5 DEF ListedInv
<1> QED
  BY <1>1, <1>2, <1>3 DEF ListInv

LEMMA AlwaysListed == Spec => []ListInv
<1>1. Init => ListInv
  BY DEF Init, ListInv, ListedInv
<1>2. Inv /\ ListInv /\ [Next]_vars => ListInv'
  <2> SUFFICES ASSUME Inv, ListInv, [Next]_vars
               PROVE  ListInv'
    OBVIOUS
  <2>1. CASE LogSide
    BY <2>1, LogSideListed
  <2>2. CASE Asks
    BY <2>2, AsksListed
  <2>3. CASE \/ ResolvesProvider \/ Sums \/ TopExpensive \/ TimeSeriesRead
             \/ TimeSeriesFilled \/ ListsRequests \/ ExportsRows
             \/ DistinctUsers \/ DistinctModels \/ DistinctProviders
    <3>1. \/ \E q \in {"models", "summary", "count", "top", "series", "fill", "rows",
                     "users", "options", "providers"} : \E result : Query(q, result)
          \/ Query("page", Page) \/ Query("period", Found)
      <4>1. ResolvesProvider => \E result : Query("models", result)
        BY DEF ResolvesProvider
      <4>2. TopExpensive => \E result : Query("top", result)
        BY DEF TopExpensive
      <4>3. TimeSeriesFilled => \E result : Query("fill", result)
        BY DEF TimeSeriesFilled
      <4>4. ExportsRows => \E result : Query("rows", result)
        BY DEF ExportsRows
      <4>5. DistinctUsers => \E result : Query("users", result)
        BY DEF DistinctUsers
      <4>6. DistinctModels => \E result : Query("options", result)
        BY DEF DistinctModels
      <4>7. DistinctProviders => \E result : Query("providers", result)
        BY DEF DistinctProviders
      <4> QED
        BY <2>3, <4>1, <4>2, <4>3, <4>4, <4>5, <4>6, <4>7
           DEF Sums, TimeSeriesRead, ListsRequests
    <3> QED
      BY <3>1, QueryListed
  <2>4. CASE QueryFails
    BY <2>4, FailsListed
  <2>5. CASE ShowsPage
    BY <2>5, ShowsListed
  <2>6. CASE UNCHANGED vars
    BY <2>6, StutterListed
  <2> QED
    BY <2>1, <2>2, <2>3, <2>4, <2>5, <2>6 DEF Next, LogSide
<1> QED
  BY <1>1, <1>2, AlwaysInv, PTL DEF Spec

-----------------------------------------------------------------------------
(* The theorems.                                                           *)

\* The log and the dashboard keep their types, whatever is asked and logged, and
\* an answer has a result of each of its handler's queries.
THEOREM TypeCorrect == Spec => []TypeOK
<1>1. Inv => TypeOK
  BY DEF Inv
<1> QED
  BY <1>1, AlwaysInv, PTL

\* However many rows are logged between the queries of a request, each number
\* of its answer is between what it was when the request came and what it is
\* now: no row of another day, user or provider is counted, and none is missed.
THEOREM AnswersOfTheirTime == Spec => []AnswerOfItsTime
<1>1. Inv => AnswerOfItsTime
  <2> SUFFICES ASSUME Inv, Answered, ProviderKnown
               PROVE  /\ \A q \in {"summary", "fill", "count", "period"} \cap DOMAIN answer :
                           /\ Meant(began.rows) \subseteq answer[q]
                           /\ answer[q] \subseteq Meant(Len(log))
                      /\ Got("top") \cup Got("page") \cup Got("rows") \subseteq Meant(Len(log))
    BY DEF AnswerOfItsTime
  <2>1. Found \subseteq Meant(Len(log)) /\ Meant(began.rows) \subseteq FoundIn(began.rows)
    BY MeantFound
  <2>2. \A q \in {"summary", "fill", "count", "period"} \cap DOMAIN answer :
          FoundIn(began.rows) \subseteq answer[q] /\ answer[q] \subseteq Found
    BY DEF Inv, ResultsInv
  <2>3. Got("top") \cup Got("page") \cup Got("rows") \subseteq Found
    BY DEF Inv, ResultsInv, Got
  <2> QED
    BY <2>1, <2>2, <2>3
<1> QED
  BY <1>1, AlwaysInv, PTL

\* The parts of an answer, though each is of another moment, fit together: the
\* tiles in the chart, the page in its total, a report's summary in its rows
\* unless these are as many as a report may have.
THEOREM PartsAlwaysAgree == Spec => []PartsAgree
<1>1. Inv => PartsAgree
  <2> SUFFICES ASSUME Inv, Answered
               PROVE  /\ session.handler = "data" =>
                           Got("summary") \cup Got("top") \subseteq Got("fill")
                      /\ session.handler = "requests" =>
                           Got("count") \cup Got("page") \subseteq Got("period")
                      /\ session.handler = "report" =>
                           \/ Got("period") \subseteq Got("rows")
                           \/ Cardinality(Got("rows")) = ReportMax
    BY DEF PartsAgree
  <2>1. /\ session.handler = "data" => {"series", "fill"} \subseteq DOMAIN answer
        /\ session.handler = "requests" => "period" \in DOMAIN answer
        /\ session.handler = "report" => "rows" \in DOMAIN answer
    BY AnsweredAll DEF Inv
  <2>2. CoverInv
    BY DEF Inv
  <2>3. CASE session.handler = "data"
    BY <2>1, <2>2, <2>3 DEF CoverInv, Got
  <2>4. CASE session.handler = "requests"
    BY <2>1, <2>2, <2>4 DEF CoverInv, Got
  <2>5. CASE session.handler = "report"
    BY <2>1, <2>2, <2>5 DEF CoverInv, Got
  <2> QED
    BY <2>3, <2>4, <2>5
<1> QED
  BY <1>1, AlwaysInv, PTL

\* Whatever a snapshot or a list is restricted to, the users and providers of
\* the last month are offered: what was logged before the request came and is
\* still of that month is among the options.
THEOREM OptionsAlwaysKept == Spec => []OptionsKept
<1>1. Inv => OptionsKept
  <2> SUFFICES ASSUME Inv, Answered
               PROVE  /\ session.handler = "data" =>
                           {log[i].user : i \in Since(now - Month) \cap 1 .. began.rows}
                             \subseteq Got("users")
                      /\ session.handler # "report" =>
                           {ProviderOf[log[i].model] :
                              i \in Since(now - Month) \cap 1 .. began.rows} \ {""}
                             \subseteq Got("providers")
    BY DEF OptionsKept
  <2>1. session.handler \in {"data", "requests", "report"}
    BY SessionFields DEF Inv, Handlers
  <2>2. /\ session.handler = "data" => "users" \in DOMAIN answer
        /\ session.handler # "report" => "providers" \in DOMAIN answer
    BY <2>1, AnsweredAll DEF Inv
  <2>3. /\ session.handler = "data" =>
             \A i \in 1 .. began.rows :
               log[i].time >= now - Month => log[i].user \in Got("users")
        /\ session.handler # "report" =>
             \A i \in 1 .. began.rows :
               log[i].time >= now - Month /\ ProviderOf[log[i].model] # ""
                 => ProviderOf[log[i].model] \in Got("providers")
    BY <2>2 DEF Inv, OptionsInv, Got
  <2> QED
    BY <2>3 DEF Since
<1> QED
  BY <1>1, AlwaysInv, PTL

\* A row that is meant, of a window that lies in the last month, is of it.
LEMMA MeantRecent ==
  ASSUME TypeOK, WindowInv, status # "idle", window.since >= now - Month
  PROVE  \A i \in Meant(first) : log[i].time >= now - Month
<1>1. first \in 0 .. Len(log) /\ Len(log) \in Nat
  BY Types DEF TypeOK
<1>2. /\ \A i \in 1 .. Len(log) : log[i].time \in Nat
      /\ window.since \in Nat /\ now \in Nat /\ Month \in Nat
  BY Types, Numbers DEF Row
<1>3. \A i \in Meant(first) : i \in 1 .. first
  BY DEF Meant
<1>4. \A i \in Meant(first) : log[i].time \in Nat
  BY <1>1, <1>2, <1>3
<1>5. \A i \in Meant(first) : log[i].time >= window.since
  BY <1>4, WindowMeant DEF Meant
<1> QED
  BY <1>2, <1>4, <1>5

\* The list misses nothing, of however many pages it is.  Rows may come while it
\* is read, between its pages too; but if none came in the last request after its
\* count was made, no query of it failed and its page was shown, the list is
\* sorted by time or its window is one of dates, and a provider is not asked for
\* over more than the last month: then once no more is offered, what was there
\* when it was begun, and is still meant, has been shown.
THEOREM ListAlwaysComplete == Spec => []ListComplete
<1>1. Inv /\ ListInv => ListComplete
  <2> SUFFICES ASSUME Inv, ListInv, status = "shown", ~more, answer.count = answer.period,
                      session.sort = "time" \/ Dated(session),
                      session.provider = "" \/ window.since >= now - Month
               PROVE  Meant(first) \subseteq shown
    BY DEF ListComplete
  <2>1. Owed \subseteq shown
    BY DEF ListInv, ListedInv
  <2>2. session.provider # "" => \A i \in Meant(first) : log[i].time >= now - Month
    BY MeantRecent DEF Inv
  <2>3. Meant(first) \subseteq Owed
    BY <2>2 DEF Owed
  <2> QED
    BY <2>1, <2>3
<1> QED
  BY <1>1, AlwaysInv, AlwaysListed, PTL

=============================================================================
