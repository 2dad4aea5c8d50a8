---------------------------- MODULE RequestReports ----------------------------
(***************************************************************************)
(* The dashboard over the request log (internal/dashboard/snapshot.go and  *)
(* requests.go over internal/logging/store.go, and the request list of     *)
(* dashboard.js).  One answer is made of several queries, and the requests *)
(* of the proxy are logged in between.  A sum or a count is modelled as    *)
(* the set of the rows that it is over, a row by its place in the log.     *)
(***************************************************************************)
EXTENDS Integers, Sequences, FiniteSets, FiniteSetsExt

CONSTANTS
  Users, Models,
  ProviderOf,             \* external: cost.ProviderFor, "" if there is none
  CostOf,                 \* the cost of a request by its model
  Hour, Day, Week, Month, \* in ticks, the milliseconds of the log
  DefaultLimit, MaxLimit, \* requestsDefaultLimit, requestsMaxLimit
  TopLimit, ReportMax,    \* the 10 of TopExpensive, reportMaxRows
  Sessions,               \* what is asked for: see Session
  Logs,                   \* what is logged already
  NewRows,                \* what may be logged: users and models
  Start, MaxNow, MaxRows  \* bounds: the clock, the length of the log

Row == [time : 0 .. MaxNow, user : Users, model : Models]

\* The query of a request; from > to stands for no dates, or malformed ones.
Session == [handler : {"data", "requests", "report"}, range : {"today", "7d", "30d"},
            from : Nat, to : Nat, user : Users \cup {""}, provider : STRING,
            sort : {"time", "cost"}, limit : Int]

ASSUME ReportsAssumption ==
  /\ ProviderOf \in [Models -> STRING] /\ CostOf \in [Models -> Nat]
  /\ {Hour, Day, Week, Month} \subseteq Nat \ {0}
  /\ Day % Hour = 0 /\ Hour < Day /\ Day <= Week /\ Week < Month /\ Month <= Start
  /\ {DefaultLimit, MaxLimit, TopLimit, ReportMax} \subseteq Nat \ {0}
  /\ DefaultLimit <= MaxLimit
  /\ Sessions \subseteq Session /\ NewRows \subseteq [user : Users, model : Models]
  /\ \A l \in Logs : l \in Seq(Row) /\ \A i \in DOMAIN l : l[i].time <= Start
  /\ MaxNow \in Nat /\ Start \in 0 .. MaxNow /\ MaxRows \in Nat

VARIABLES
  now,      \* the clock
  log,      \* the table, in the order of the row ids
  writing,  \* rows that have their timestamp and wait for the connection
  session,  \* what is asked for, again and again
  status,   \* of the request: "idle", "running", "answered", "failed" or "shown"
  window,   \* since and until, of which 0 is no bound
  made,     \* how many of its queries have been made
  answer,   \* their results
  began,    \* the time and the length of the log when the request came
  offset,   \* requestsOffset
  shown,    \* the rows in the browser's list
  more,     \* whether the browser offers to load more
  first     \* the length of the log when the list was begun

reader == <<session, status, window, made, answer, began>>
list   == <<offset, shown, more, first>>
vars   == <<now, log, writing, reader, list>>
-----------------------------------------------------------------------------
(* The queries.                                                            *)

Trunc(time, step) == time - (time % step)

\* Defect: the last day ends at its first midnight.
DatesToMidnight(s) == [since |-> s.from * Day, until |-> s.to * Day]

\* customDateRange: the last day is in it to its last millisecond.
Dates(s) == [since |-> s.from * Day, until |-> s.to * Day + Day - 1]

Dated(s) == s.handler # "data" /\ s.from <= s.to

\* rangeWindow, unless there are dates.
Window(s) ==
  IF Dated(s) THEN Dates(s)
  ELSE [since |-> CASE s.range = "7d"  -> now - Week
                    [] s.range = "30d" -> now - Month
                    [] OTHER           -> Trunc(now, Day),
        until |-> 0]

\* rangeWindow's granularity.
Step(s) == IF s.range = "today" THEN Hour ELSE Day

\* modelInClause: no models, no clause.
InModels(m) == answer.models = {} \/ m \in answer.models

\* requestFilterWhere; user stands for the user, the model and the status.
Where(row) ==
  /\ row.time >= window.since
  /\ window.until = 0 \/ row.time <= window.until
  /\ session.user \in {"", row.user}
  /\ InModels(row.model)

Found == {i \in DOMAIN log : Where(log[i])}

\* ORDER BY: the later first, or the more expensive and then the later.  Rows
\* that this leaves equal come as the index of the times is scanned, backwards
\* if the order is its own.
Precedes(i, j, sort) ==
  LET later == log[i].time - log[j].time
      costs == CostOf[log[i].model] - CostOf[log[j].model]
  IN  IF sort = "cost" THEN costs > 0 \/ (costs = 0 /\ (later > 0 \/ (later = 0 /\ i < j)))
      ELSE later > 0 \/ (later = 0 /\ i > j)

\* LIMIT limit OFFSET from.
Slice(S, sort, limit, from) ==
  {i \in S : Cardinality({j \in S : Precedes(j, i, sort)}) \in from .. from + limit - 1}

Limit == IF session.limit \in 1 .. MaxLimit THEN session.limit ELSE DefaultLimit

Since(time) == {i \in DOMAIN log : log[i].time >= time}

Plan(handler) ==
  CASE handler = "data"     -> <<"models", "summary", "top", "series", "fill",
                                 "users", "providers">>
    [] handler = "requests" -> <<"models", "count", "page", "period", "options",
                                 "providers">>
    [] OTHER                -> <<"models", "period", "rows">>
-----------------------------------------------------------------------------
Init ==
  /\ now = Start
  /\ log \in Logs
  /\ writing = {}
  /\ session \in Sessions
  /\ status = "idle"
  /\ window = [since |-> 0, until |-> 0]
  /\ made = 0
  /\ answer = << >>
  /\ began = [at |-> Start, rows |-> 0]
  /\ offset = 0 /\ shown = {} /\ more = TRUE /\ first = 0
-----------------------------------------------------------------------------
(* The proxy's side.                                                       *)

ClockTicks ==
  /\ now < MaxNow
  /\ now' = now + 1
  /\ UNCHANGED <<log, writing, reader, list>>

\* Insert gives the row its timestamp, and then waits for the connection.
Stamps(r) ==
  /\ Len(log) + Cardinality(writing) < MaxRows
  /\ writing' = writing \cup {[time |-> now, user |-> r.user, model |-> r.model]}
  /\ UNCHANGED <<now, log, reader, list>>

Inserts(row) ==
  /\ log' = Append(log, row)
  /\ writing' = writing \ {row}
  /\ UNCHANGED <<now, reader, list>>

InsertFails(row) ==
  /\ writing' = writing \ {row}
  /\ UNCHANGED <<now, log, reader, list>>
-----------------------------------------------------------------------------
(* The dashboard's handlers.                                               *)

\* A request comes.  A snapshot is asked for again and again (Events), the
\* list page by page, a report once, and not without its dates.
Asks ==
  /\ status # "running"
  /\ CASE session.handler = "data"     -> TRUE
       [] session.handler = "requests" -> status \in {"idle", "shown"} /\ more
       [] OTHER                        -> status = "idle" /\ Dated(session)
  /\ status' = "running"
  /\ window' = Window(session)
  /\ made' = 0
  /\ answer' = << >>
  /\ began' = [at |-> now, rows |-> Len(log)]
  /\ first' = IF status = "idle" THEN Len(log) ELSE first
  /\ UNCHANGED <<now, log, writing, session, offset, shown, more>>

\* The next query is q.
Turn(q) == status = "running" /\ Plan(session.handler)[made + 1] = q

Query(q, result) ==
  /\ Turn(q)
  /\ made' = made + 1
  /\ answer' = [x \in DOMAIN answer \cup {q} |-> IF x = q THEN result ELSE answer[x]]
  /\ status' = IF made' = Len(Plan(session.handler)) THEN "answered" ELSE status
  /\ UNCHANGED <<now, log, writing, session, window, began, list>>

\* modelsForProvider: no models if no provider is asked for, and also if none
\* of its models has been logged in the last month.
ResolvesProvider ==
  Query("models", {m \in {log[i].model : i \in Since(now - Month)} :
                     ProviderOf[m] = session.provider /\ session.provider # ""})

\* SummarySince, ListRequests' count, PeriodSummary.
Sums ==
  \/ Query("summary", Found) \/ Query("count", Found) \/ Query("period", Found)

\* Rows of one cost come in any order.
TopExpensive ==
  /\ Turn("top")
  /\ \E top \in kSubset(Min({TopLimit, Cardinality(Found)}), Found) :
       /\ \A i \in top, j \in Found \ top : CostOf[log[i].model] >= CostOf[log[j].model]
       /\ Query("top", top)

\* Defect: the buckets end where the request began.
EndOfRequest == began.at

\* The end of the buckets, once the rows have been read.
EndOfSeries == now

TimeSeriesRead == Query("series", Found)

\* The rows that have a bucket, from since's to the last.
TimeSeriesFilled ==
  Query("fill",
        {i \in answer.series :
           LET step == Step(session)
           IN  Trunc(log[i].time, step) \in
                 Trunc(window.since, step) .. Trunc(EndOfSeries, step)})

Page == Slice(Found, session.sort, Limit, offset)

ListsRequests == Query("page", Page)

ExportsRows == Query("rows", Slice(Found, "time", ReportMax, 0))

\* Defect: the users of the range alone.
SinceOfRange == window.since

\* A fixed window, from when the request came.
SinceOfUsers == began.at - Month

DistinctUsers == Query("users", {log[i].user : i \in Since(SinceOfUsers)})
DistinctModels == Query("options", {log[i].model : i \in Since(window.since)})
DistinctProviders ==
  Query("providers", {ProviderOf[log[i].model] : i \in Since(now - Month)} \ {""})

\* Defect: no return after the error.
QueryFailsAndGoesOn ==
  /\ status = "running"
  /\ made' = made + 1
  /\ UNCHANGED <<now, log, writing, session, status, window, answer, began, list>>

\* Any query may fail, or its time be up: the answer is an error, which for
\* the list is an answer without rows and without a total.
QueryFails ==
  /\ status = "running"
  /\ status' = "failed"
  /\ more' = FALSE
  /\ UNCHANGED <<now, log, writing, session, window, made, answer, began, offset,
                 shown, first>>

\* Defect: the offset goes on by what was asked for, which may be more than
\* the handler allows.
AskedFor == session.limit

\* requestsOffset goes on by the rows that came.
Came == Cardinality(answer.page)

\* loadRequests: the rows are added to the list.
ShowsPage ==
  /\ status = "answered" /\ session.handler = "requests"
  /\ status' = "shown"
  /\ shown' = shown \cup answer.page
  /\ offset' = offset + Came
  /\ more' = (offset' < Cardinality(answer.count))
  /\ UNCHANGED <<now, log, writing, session, window, made, answer, began, first>>

Next ==
  \/ ClockTicks
  \/ \E r \in NewRows : Stamps(r)
  \/ \E row \in writing : Inserts(row) \/ InsertFails(row)
  \/ Asks
  \/ ResolvesProvider \/ Sums \/ TopExpensive \/ TimeSeriesRead \/ TimeSeriesFilled
  \/ ListsRequests \/ ExportsRows
  \/ DistinctUsers \/ DistinctModels \/ DistinctProviders
  \/ QueryFails \/ ShowsPage

Spec == Init /\ [][Next]_vars
-----------------------------------------------------------------------------
(* Properties.                                                             *)

\* Every variable has its type; the results are those of the queries made, and
\* an answer has them all.
TypeOK ==
  /\ now \in Start .. MaxNow
  /\ log \in Seq(Row) /\ writing \subseteq Row
  /\ session \in Session
  /\ status \in {"idle", "running", "answered", "failed", "shown"}
  /\ window \in [since : Nat, until : Nat]
  /\ made \in 0 .. Len(Plan(session.handler))
  /\ DOMAIN answer = {Plan(session.handler)[i] : i \in 1 .. made}
  /\ status \in {"answered", "shown"} => made = Len(Plan(session.handler))
  /\ status = "running" => made < Len(Plan(session.handler))
  /\ began \in [at : Start .. now, rows : 0 .. Len(log)]
  /\ shown \subseteq DOMAIN log /\ offset \in Nat
  /\ more \in BOOLEAN /\ first \in 0 .. Len(log)

Answered == status \in {"answered", "shown"}
Got(q) == IF q \in DOMAIN answer THEN answer[q] ELSE {}

\* The rows that the reader means: of the days or the range, of the user, and
\* of the provider itself, among the first n.
Meant(n) ==
  {i \in 1 .. n :
     /\ IF Dated(session)
        THEN log[i].time \div Day \in session.from .. session.to
        ELSE log[i].time >= window.since
     /\ session.user \in {"", log[i].user}
     /\ session.provider \in {"", ProviderOf[log[i].model]}}

\* The provider was used in the last month, so that its name means something,
\* and the range lies in it, so that its models are all found.
ProviderKnown ==
  \/ session.provider = ""
  \/ /\ \E i \in 1 .. began.rows : /\ log[i].time >= now - Month
                                   /\ ProviderOf[log[i].model] = session.provider
     /\ window.since >= now - Month

\* Rows are logged while an answer is put together: each number in it is still
\* between what it was when the request came and what it is now, over the
\* reader's own rows, for snapshots, pages and reports alike.
AnswerOfItsTime ==
  Answered /\ ProviderKnown =>
    /\ \A q \in {"summary", "fill", "count", "period"} \cap DOMAIN answer :
         Meant(began.rows) \subseteq answer[q] /\ answer[q] \subseteq Meant(Len(log))
    /\ Got("top") \cup Got("page") \cup Got("rows") \subseteq Meant(Len(log))

\* The parts of an answer fit: what the tiles and the table of users count is
\* in the chart; the page is in the total of its period; and the rows of a
\* report are those of its summary, or more, unless they are cut off.
PartsAgree ==
  Answered =>
    /\ session.handler = "data" => Got("summary") \cup Got("top") \subseteq Got("fill")
    /\ session.handler = "requests" => Got("count") \cup Got("page") \subseteq Got("period")
    /\ session.handler = "report" =>
         Got("period") \subseteq Got("rows") \/ Cardinality(Got("rows")) = ReportMax

\* The list misses nothing.  Once no more is offered, every row that is meant
\* and was there when the list was begun has been shown, though rows kept coming
\* between its pages.  It is said of a last page that was shown, not of one that
\* failed; and not if a row came in its request after the count, if rows leave a
\* window that moves under a list sorted by cost, or if its provider's models are
\* no longer all found.
ListComplete ==
  /\ status = "shown" /\ ~more
  /\ answer.count = answer.period
  /\ session.sort = "time" \/ Dated(session)
  /\ session.provider = "" \/ window.since >= now - Month
  => Meant(first) \subseteq shown

\* Whatever range, user and provider a snapshot is of, the users and providers
\* of the last month are offered.
OptionsKept ==
  Answered =>
    /\ session.handler = "data" =>
         {log[i].user : i \in Since(now - Month) \cap 1 .. began.rows} \subseteq Got("users")
    /\ session.handler # "report" =>
         {ProviderOf[log[i].model] : i \in Since(now - Month) \cap 1 .. began.rows} \ {""}
           \subseteq Got("providers")
=============================================================================
