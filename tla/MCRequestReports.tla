-------------------------- MODULE MCRequestReports --------------------------
(***************************************************************************)
(* An instance of RequestReports: hours of two ticks and days of two hours,*)
(* two users, two providers and a model of none; rows of three days, rows  *)
(* that become a month old, and midnight, while the dashboard is looked at.*)
(***************************************************************************)
EXTENDS RequestReports

MCProviderOf == [m \in Models |-> CASE m = "gpt" -> "openai"
                                    [] m = "claude" -> "anthropic"
                                    [] OTHER -> ""]
MCCostOf == [m \in Models |-> IF m = "claude" THEN 2 ELSE 1]

At(time, user, model) == [time |-> time, user |-> user, model |-> model]

\* The clock starts in the last hour of the fourth day, at 14.
MCLogs == {<<At(8, "bob", "claude"), At(9, "ann", "gpt"), At(12, "bob", "gpt")>>,
           <<At(3, "bob", "own"), At(12, "ann", "claude"), At(13, "ann", "gpt")>>,
           <<At(4, "ann", "gpt"), At(4, "bob", "gpt"), At(13, "ann", "claude")>>}

MCNewRows == {[user |-> "ann", model |-> "gpt"], [user |-> "bob", model |-> "claude"]}

Ask(handler, range, from, to, user, provider, sort, limit) ==
  [handler |-> handler, range |-> range, from |-> from, to |-> to, user |-> user,
   provider |-> provider, sort |-> sort, limit |-> limit]

MCSessions ==
  {Ask("data", range, 1, 0, "", provider, "time", 0) :
     range \in {"today", "7d", "30d"}, provider \in {"", "anthropic"}}
  \cup {Ask("data", "today", 1, 0, "ann", "", "time", 0)}
  \cup {Ask("requests", range, 1, 0, "", provider, sort, 2) :
          range \in {"today", "7d"}, provider \in {"", "openai"}, sort \in {"time", "cost"}}
  \cup {Ask("requests", "today", 2, 3, "", "", sort, 9) : sort \in {"time", "cost"}}
  \cup {Ask("requests", "30d", 1, 0, "", "openai", "time", 1)}
  \cup {Ask("report", "today", from, 3, user, "", "time", 0) :
          from \in {2, 3}, user \in {"", "bob"}}
  \cup {Ask("report", "today", 3, 4, "", "openai", "time", 0)}
=============================================================================
