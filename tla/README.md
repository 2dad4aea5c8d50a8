# FitGuard in TLA+

FitGuard is an AI gateway: an OpenAI-compatible proxy that gives each of its
users a daily budget, caches responses, falls back to other models, keeps a log
of what every request cost, and lets an operator change budgets while it runs.
This directory models the parts of it that decide whether a budget holds, checks
the models with TLC on small instances, and proves the main results with TLAPS
for every size.

Names in `code` are names of the program or of the specification; they are kept
the same where TLA+ allows it. Paths are relative to `src/`.

## 1. The system

| Component | Where | State it keeps | Operations |
|---|---|---|---|
| Request handlers | `internal/proxy/handler.go`, `embeddings.go`, `images.go`, `audio.go` | a goroutine per request and its locals | chat, streamed chat, embeddings, images, speech, transcriptions |
| `MemoryEnforcer` | `internal/budget/budget.go` | `inFlight` per user, under a mutex | `Reserve`, the release it returns |
| `RedisEnforcer` | `internal/budget/redis_enforcer.go` | nothing; a counter per user and day in Redis | `Reserve`, the release it returns, as two Lua scripts |
| Response cache | `internal/cache` | entries with an expiry, in memory or in Redis | `Get`, `Set`, a janitor |
| Request log | `internal/logging/store.go` | a SQLite table | `Insert`, `SpendSince`, report queries |
| Live settings | `internal/config/settings.go` | budgets, cache switch, fallback list, keys, under a lock | accessors, `Snapshot`, `Apply` |
| Configuration file | `internal/config/config.go`, `fallback.go` | `config.yaml` | `Load`, `Validate`, `Save` |
| CLI | `internal/cli`, `cmd/fitguard` | none; edits the file | `init`, `add-provider`, `reset-dashboard-password`, `run` |
| Routing, prices | `internal/proxy/route.go`, `internal/cost` | tables | `RouteProvider`, `Calculate`, the estimates |
| Providers | `internal/proxy/openai.go`, `anthropic.go`, `gemini.go`, `stream.go` | a stream session each | chat, embeddings, images, audio, `OpenStream`, `Relay` |
| Dashboard | `internal/dashboard`, `internal/auth` | none; signed session cookies | login, snapshots and their stream, request list, reports, `UpdateSettings` |
| Front end | `internal/dashboard/static` | the browser's filters and its request list | `loadRequests`, rendering |

**How they interact.** A handler authenticates the caller by its virtual key
(with no keys there is one tenant, `default`), looks in the cache, calls
`Reserve` with a worst-case estimate, tries the requested model and then the
fallback list, writes the request log, fills the cache, and releases its
reservation. `MemoryEnforcer` decides by the log's spend since midnight UTC plus
the reservations in flight; `RedisEnforcer` decides by a counter that reservations
raise and releases correct. The handlers, the enforcers and the dashboard share one
`Settings`, so that a saved budget takes effect in the middle of requests. Each provider's adapter translates
the client's whole history into the provider's own request, and what comes back into OpenAI's
shape; the next request carries that back, perhaps to another provider. The dashboard reads the log
that the handlers are writing.

**What is hard about it.** Reservation, charge and log entry of one request are
separate steps among those of other requests; the limit and the day are read before
the enforcer's mutex is taken; a stream releases and logs in the other order than a
plain request; the fallback model, which decides the charge, is not the one that was
reserved for, and estimates are only estimates; inserts, queries and Redis calls fail one at a time; a client stops reading; an instance dies
with reservations out; a file is cut off where it still loads; settings change in between; a conversation changes its provider; an answer
of the dashboard is put together from several queries while the log grows. `PROJECT.json` lists each such
place with its line and the properties that watch over it.

**What makes each part right.**

* Budget: a user's spend, with all that requests in flight may still add, passes the limit only by what no reservation covered; reservations are neither leaked nor returned twice; under `fail_closed` nobody gets past the meter.
* Handlers: every request is answered whose client goes on reading; the enforcer's mutex is always handed on.
* Cache: what is replayed is what a provider sent.
* Settings and file: no program takes a key's budget away, in memory or on disk; a failed save leaves no trace in memory; what was written loads again; a key that was handed out keeps working; a reset password replaces the old one.
* Routing: what is validated as a fallback is sent to a provider that is configured.
* Relays: what is billed, cached and replayed is what the provider said and the client got.
* Adapters: a history reaches every provider whole, each tool result with its call, and the client's choices are obeyed.
* Reports: numbers are of their time and range, parts of one answer fit together, and a list shows everything.

## 2. The modules

| Module | What it is |
|---|---|
| `BudgetLedger` | The abstract specification: what a budget backend promises. |
| `Sums` | The sum of a function over `1..n`. |
| `Gateway` | One process: handlers, `MemoryEnforcer`, log, cache, live settings. |
| `MCGateway` | Small instances of it. |
| `RedisEnforcer`, `MCRedisEnforcer` | Several instances that share one Redis, and small instances of it. |
| `Routing` | The price table and the router: which provider serves a model, by either. |
| `LiveConfig`, `MCLiveConfig` | The configuration file between a running server and the commands, and a small instance. |
| `StreamRelay` | The three relays of a provider's stream as one machine. |
| `Conversation`, `MCConversation` | Chats of several turns through the adapters, with `StreamRelay` for a streamed answer, and a small instance. |
| `RequestReports`, `MCRequestReports` | The dashboard's queries and request list over a growing log, and a small instance. |
| `SumsProofs` | Lemmas about sums. |
| `GatewayProofs` | Type correctness, exact reservations, fail-closed metering; `Gateway` implements `BudgetLedger`, no joint overspending but by what was not reserved. |
| `RedisEnforcerProofs` | Type correctness of `RedisEnforcer`; no lost charge, budgets kept by all instances together; it implements `BudgetLedger`. |
| `RoutingProofs` | The built-in price table and the router agree. |
| `LiveConfigProofs` | All safety properties of `LiveConfig`: types, budgeted keys, exact rollback, complete answers, what survives a restart, files that load, fallbacks that are reached. |
| `StreamRelayProofs` | All safety properties of `StreamRelay`: what is kept, cached, replayed and billed of a stream. |
| `ConversationProofs` | The same within a conversation, and all safety properties of `Conversation`: matched results, a history told in full, texts that arrive, an obeyed `tool_choice`. |
| `RequestReportsProofs` | Type correctness of `RequestReports`; answers of their time, whose parts agree and keep the filters' options; a list that misses nothing. |

### BudgetLedger

`committed[u]` is what user `u` has spent plus what its requests in flight may still
spend, `ceiling[u]` the highest limit `u` has been given, `beyond[u]` what came in as a
charge without a reservation to cover it and has not been counted against the limit yet.
The promise holds of every request, streamed or not, cheap or dear: `committed` passes
`ceiling` by no more than `beyond`. An admission (`Admit`) must fit under the ceiling beside everything
that was counted, and may not enlarge `beyond`; only a charge that no reservation
covers may (`Spill`), by just as much as it commits; everything else lowers a commitment (`Relax`) or raises a ceiling (`Raise`).
It is stated with the *highest* limit because the code does not take back what it
admitted when an operator lowers a limit.

### Gateway

A slot of `Slots` is one handler goroutine; `job[r]` holds where it stands (`pc`) and
its locals. The stages follow the code:

| Stage | Code that runs next |
|---|---|
| `lookup` | the cache lookup (`handler.go:142-151`, `254-266`) |
| `synthesize` | a streamed hit is turned into a stream; a body that does not parse goes on as a miss |
| `check` | `checkConfigured`, and the start of the day (`budget.go:80-103`) |
| `query` | waiting for the mutex, then the spend query (`budget.go:105-118`) |
| `decide` | the comparison and the reservation, mutex held (`budget.go:120-147`) |
| `dispatch`, `attempt`, `relay` | the fallback loop; the stream |
| `log` | `logRequest` |
| `fill` | the cache write |
| `release` | the release closure (`budget.go:133-140`) |

Kinds of request differ as in the code: only chats, streams and embeddings use the
cache; only chats and streams fall back; a stream releases *before* it logs, everything
else logs, fills the cache and releases by `defer`; a transcription may end with an
unlogged 400. A streamed and a plain chat of one prompt share a cache entry.
`keyed` is the set of users that some virtual key maps to: it decides who can call,
`Apply` refuses to drop the budget of such a user and issues a key to every new one,
which also ends single-tenant operation.

Abstractions: amounts are natural numbers; a request's payload is its size, the
price of which is its estimate; a response is `whole` or `part`; a cache entry may
expire at any time; midnight is a step, after which `earlier` holds yesterday's
spend for the requests whose `since` is from before it. A charge is the price of whatever usage the provider
reports, for the model that answered: with `Overruns`, perhaps more than was estimated. `ceiling`, `beyond` and `fresh` are
history variables and guard nothing: `Log` adds to `beyond` and `fresh` what the handler's reservation, if it still has one, does not
cover (`Uncovered`); a spend query under the mutex has counted what is `fresh` and sets that to 0, and an admission leaves
in `beyond` only what has become `fresh` since. A request that is refused for its key or its body
changes nothing and is no step. The cache is the in-memory one.

### RedisEnforcer

Slots belong to instances (`Home`); each instance has its own live settings. A script
runs in Redis in one step; being sent, running, and its reply being heard are three,
and the connection may break between any of them. A command may run after its sender
gave up on it (`late`). The handler's part is one step, `Finish`, with any charge,
up to `MaxOverrun` above the estimate if `Overruns`. What Redis and its client library do is external: modelled from the
calls in the code. Redis itself neither loses nor expires a day's counter while the
day's requests run: the key's TTL is 26 hours and every provider call ends in two
minutes.

`spent` is history here: this backend judges by its counter, not by the log.

A counter can come short in two ways. The part of a charge beyond its estimate, or a charge that was never reserved for,
is in it only once a reconcile script has run, if ever; and the client library may send that script again when it hears no
reply, so that it runs twice (`Resends`), which takes too much off. `missing` is the history of both for each user and day, and `beyond`
what was missing when the user was last admitted, or has come to be since.

### LiveConfig

`file` is `config.yaml`; `Broken` is an empty one, or one of which so much is written that it does not load. `mem` is `Settings.cfg`
of the running server, `mu` the holder of `Settings.mu`, and `job[w]` is where a save stands: one
of each operator's `PUT /dashboard/api/settings`, and one of the command at the terminal.

| Stage | Code that runs next |
|---|---|
| `prompt` | a command waits for its user's answers; it has read the file already |
| `open` | `os.WriteFile` opens the file, which empties it (`Truncate`) |
| `write` | it writes (`Write`); into another's half-written file, the outcome may be `Broken` |
| `cut` | the write ended before the whole was written, and what is there loads (`CutShort`); an error or the end of the program comes next |
| `restrict` | `restrictPermissions`; an error of it is an error of `Save`, the file being new already |
| `answer` | `Apply` has returned and let go of the lock; `UpdateSettings` takes a snapshot (`Respond`) |

`Apply` is one step up to its call of `Save`, since it holds the lock for writing:
it validates, issues a key for every user without one, and swaps four fields. `ApplyFails` is
`Save` returning an error at any of its stages: `Rollback` puts the four fields back and touches no file.
`Stop` is the server's end, at any point of a save; `Start` is `RunServer` loading the file.
`CutOff(c, d)` are the files that a write of `c` may leave when it is cut off in any of its sections: those before are new, those after missing or
still those of the file `d` that another program wrote in between, the one in the middle has some of its entries, the last perhaps in part.
`InitEdits`, `AddProviderEdits` and `ResetEdits` are the three commands between their prompts
and their `Save`; `CommandEnds` is their return or their being broken off, anywhere.

History: `accepted` is what was last loaded or successfully saved, `shown` the keys
some operator has seen and no confirmed `init` has thrown away, `reset` the login of the last reset,
`overlap` whether a command and a server were ever active together, `failed` whether a
save has failed since the start, `torn` whether the file was cut off and loads (`"file"`), or a program has started from such a one (`"loaded"`).

Abstractions: a budget entry is the user it names (limits matter to `Gateway`, not here), the cache
settings are its switch and whether its backend has what it needs (`cacheReady`), a login is a number, and all the provider's fields are its
name. `priced` is the `pricing:` section: the models it has entries for, and the providers these name. Only
a file written by hand has one, so `Init` offers such files (`HandWritten`): any file without a login that loads, whether its keys have budget
entries or not, at which the program only warns (`config.go:240-246`). `init`
issues each user one key. `Load` judges the fallback list by the built-in table, `Apply` by the live one
(`LiveTable`), since `RunServer` applies the prices in between. `FITGUARD_CONFIG`, which holds a whole configuration and is read in place of the file, is taken as unset.

### Routing

Operators without state. A model's name is a sequence of parts, cut where one listed name is the beginning of
another, where the router looks, and at the first slash: `<<"gpt-", "4", "o">>`. `Table` is the whole built-in
table, with the providers; prices are left to `Gateway`. `Lookup` takes the longest entry that a name begins with,
`ApplyOverrides` the pricing section. `ProviderFor` (validation) asks the table, or takes what stands before
a slash; `RouteProvider` (requests) looks at the name only. `ValidateFallback` trims white space from a name (`Trimmed`), and keeps and sends the name
as it was: white space is a part of its own, before which the router knows no family (`RoutePadded`). `MCLiveConfig` assumes, and so has TLC evaluate, that
the two agree on every model of the table (`TableRouted`); `RoutingProofs` proves it, and that they agree on every
other name too that has no white space in front (section 4). Names are lower case here.

### StreamRelay

`kind` is the relay: `openai.go`, `anthropic.go` or `gemini.go`. The provider is external: `said` is
what it has sent, and the rules of what may come next (`Parts`, `Reports`, `Line`) are those that the three
relays rely on: only openai's streams interleave the fragments of several tool calls, gemini's calls come whole,
anthropic's index counts blocks of text too and its usage comes in two halves.

| Action | Code |
|---|---|
| `ReadLine` | a line is scanned and decoded; usage and finish reason are taken; openai's relay writes the line to the client first |
| `LineUndelivered` | that write fails: the line is not looked at |
| `TakePart` | a piece of text or a fragment of a call is accumulated and delivered; anthropic's and gemini's relays do it in this order |
| `PartUndelivered` | their write fails: the part has been accumulated |
| `StreamBreaks` | `scanner.Err`, or openai's client gone at `[DONE]`: what there is is returned with an error |
| `StreamEnds` | the end: openai's estimate of a usage that was not reported, the others' last chunk |

`Response` is `nonStreamOpenAIResponse` of it, which goes into the cache, `Replay` what a client makes of
`streamFromCached`, and `client` what the client of the stream itself makes of its chunks, joining tool calls by index (`Received`).
`ToolCalls` is what `finalizeToolCalls` and `finalizeAnthropicToolCalls` make of the accumulated calls, with `{}` for arguments that are not valid JSON;
the client of the stream has got them as they came, and `Mended` is what `{}` and a finish reason of `stop` would make of that.

Abstractions: text is numbered pieces; a call's arguments are two pieces and valid JSON when there are both, or
`{}` (`EmptyObject`); an id or name stands for both. A stream has one choice: openai's relay reads `choices[0]` whatever its
index, so with `n > 1` the choices run together. Lines that do not decode are skipped by the code and left out
here. An interrupted stream is billed for what was reported so far, perhaps nothing.

### Conversation

It EXTENDS `StreamRelay`: `kind` is here the provider that is asked, and `Relays` any step of that machine.
`stage` is whose turn it is. `messages` is the client's history in OpenAI's shape, `spoken` what the providers
have really said, which no code sees, and `sent` the request that the provider has got.

| Definition | Code |
|---|---|
| `Request` | `buildAnthropicRequest`, `buildGeminiRequest`; for openai `setModel`, `prepareStreamBody`, which change no message |
| `Turns`, `Blocks`, `ResultBlock`, `System`, `Offer` | the parts of these: one turn per message, its content and calls; results by id or, for gemini, by the function's name (`ToolCallName`); system texts; tools and `tool_choice` |
| `Asks(k)` | the handler's loop over the requested model and its fallbacks (`handler.go:185-200`, `292-306`): any provider may be next, after one has failed too |
| `AnswersPlain(a)` | `ChatCompletion`: `splitResponseBlocks` and `splitGeminiParts` make a message of answer `a` (`Shaped`) |
| `StreamOpens`, `Relays`, `StreamDone` | `OpenStream`, `Relay`, and the message that a client joins from its chunks |
| `ClientSpeaks` | the client runs the tools and sends their results, in the order of the calls or the other one, or says something |

`Turns` follows `buildGeminiRequest`'s switch on the role with one branch for each; `Picked` keeps the elements of a sequence
that the adapters' loops do not skip (it is `SelectSeq`, by a fold instead of a recursive operator, so that there is something to prove).
`ConversationAssumption` types the openings: system and user messages, each a string or an array of parts.

Providers call only what they were offered and obey the choice in the request they got (`Answers`); ids that they make
up are unique, and gemini's, which the adapter makes up, are of a random suffix, here the answer's number.
Abstractions: a text is the numbers of its pieces, an image is `inline` or `remote`; `parseImageSource`, which passes a
remote image on, and gemini's adapter, which drops it, differ by that; all of the tools are offered or none; a `tool_choice` that names a
function is left out; of the other options only `temperature` and `max_tokens` are passed on by the two adapters, which the model does not
carry. A streamed conversation is followed up to the request after its first answer.

### RequestReports

One reader asks, again and again, for what `session` says: a snapshot (`data`, and `Events`, which repeats it), pages of the
request list, or a report. `made` is how many of the handler's queries (`Plan`, in their order) have been made, and each is a step of its own, since the
log's connection is free for others in between. A sum or a count is the set of the rows that it is over, a row its
place in `log`: that keeps what the numbers are of, and drops the arithmetic. `writing` holds the rows that `Insert` has
stamped and not yet written, so that rows come late and not in the order of their times.

| Definition | Code |
|---|---|
| `Window`, `Dates` | `rangeWindow`, `customDateRange` |
| `ResolvesProvider`, `InModels` | `modelsForProvider` and `modelInClause`: a provider is the set of its models logged within 30 days, and an empty set is no filter |
| `Where`, `Precedes`, `Slice` | `requestFilterWhere`, `ORDER BY`, `LIMIT` and `OFFSET` |
| `Sums`, `ListsRequests`, `ExportsRows`, `TopExpensive` | `SummarySince`, `PeriodSummary`, `ListRequests` (whose count is a query before the page), its export, `TopExpensive` |
| `TimeSeriesRead`, `TimeSeriesFilled` | `TimeSeriesSince`'s query, and the buckets that it then fills up to the clock |
| `DistinctUsers`, `DistinctModels`, `DistinctProviders` | the options of the filters |
| `QueryFails` | an error or the timeout of the whole answer |
| `ShowsPage` | `loadRequests` in the browser: offset, rows, and whether more is offered |

Times are ticks, and `Hour`, `Day`, `Week` and `Month` constants (a month is 30 days); the filters by model and by status are as the one by user and are left
out. `offset` and `limit` that the handlers correct are asked for too (`Limit`).

## 3. What the runs check

| Run | Instance | Shows |
|---|---|---|
| `gateway_metered` | 2 handlers, 1 user, 2 models, limits of 2 and 3 or no entry, `fail_closed`, a failing store; a chat that may fall back to a dearer model, a stream, a transcription that may cost more than was reserved | `InFlightIsSumOfHolds`, `CommitmentWithinCeiling`, `FailClosedMeters`, `ImplementsLedger` |
| `gateway_mixed` | 2 handlers, a streamed and a plain chat of one prompt, no `fail_closed`, fairness | `TypeOK`, `InFlightIsSumOfHolds`, `RequestsAnswered` |
| `gateway_stream_window` | 2 streams, one limit, nothing fails | violates `SpendWithinCeiling` |
| `redis_ledger` | 2 instances, 2 days, requests of 1 unit charged up to 2, limit 2; any script may be sent again | `TypeOK`, `LedgerAccounts`, `CommitmentWithinCeiling` |
| `redis_promise` | 2 instances whose limits of 1, 2 or none change apart | `ImplementsLedger` |
| `redis_fail_closed` | as above, `fail_closed`, 1 day | violates `FailClosedMeters` |
| `live_config` | 2 operators, 2 commands, 2 users, 2 keys and one by hand for a user without an entry, 2 providers; fallback lists with a dated name, a listed one with a space before it, one that only a pricing section knows; a cache without its address; every write may fail or be cut off | `TypeOK`, `KeysBudgeted`, `FailedSaveLeavesNoTrace`, `SavedConfigsLoad`, `KnownFallbackReached`, `ChangesSurvive`, `AnswerShowsIssuedUsers`, `AgreeWhileNothingFails` |
| `config_disagree` | as above, `init` only | violates `ProcessAndFileAgree` |
| `config_reset` | as above, 2 commands, nothing fails | violates `ResetTakesEffect` |
| `conversation` | three providers in any order; 2 system messages, strings and arrays, 2 images; 2 functions, each `tool_choice`; 2 answers of up to 2 blocks; or a first answer that streams 2 pieces of text and 3 tool calls, 2 parts to a line, broken off anywhere | `TypeOK`, `RebuiltAsSaid`, `ReplayAsStreamed`, `UsageAsReported`, `DeliveredIsKept` of `StreamRelay`; `ConversationTypeOK`, `ResultsFindTheirCalls`, `HistoryKept`, `OnlyArraysLost`, `ChoiceObeyed` |
| `conversation_text` | a system message given as an array | violates `TextReaches` |
| `request_reports` | 2 users, 3 models, 2 providers; 3 logs of 3 rows over 3 days, 2 more to come; 23 different requests; a midnight, and rows that become a month old | `TypeOK`, `AnswerOfItsTime`, `PartsAgree`, `ListComplete`, `OptionsKept` |

* `InFlightIsSumOfHolds`: the enforcer's account is the sum of the reservations that live handlers hold. A leak on any path, a double release, or a clamp at zero that hides one would break it.
* `CommitmentWithinCeiling`: recorded spend plus what admitted requests may still add passes the highest limit given at most by charges that no reservation covered, and of these only by those that came since the last admission: an overspend that is in the log stops the next request. It relates the log, all slots and all past settings. In `RedisEnforcer` it is the same with what is missing from the counter.
* `FailClosedMeters`: under `fail_closed`, and if no limit of 0 is saved, nobody reaches a provider without a reservation.
* `ImplementsLedger`: every step is one that `BudgetLedger` allows.
* `RequestsAnswered`: every request that was taken in is answered, if its own relay does not stall, whatever the relays of others do.
* `LedgerAccounts`: the Redis counter of a user and a day and what is `missing` from it are at least what the day's requests cost plus what they hold or have still to give back, and exactly that as long as nothing has failed. So a lost reply, an abandoned command and a dead instance err upwards only, midnight moves nothing to another day, and a counter comes short by nothing but what `missing` counts: charges that no reservation covered and second runs of a reconcile.

* `KeysBudgeted`: a virtual key of a user without a budget entry would spend without limit. No interleaving of saves, commands and crashes makes one, in memory or in the file; those that are there stem from a file by hand, or from one that was cut off in a user's name.
* `FailedSaveLeavesNoTrace`: between saves, memory is exactly what was last loaded or saved.
* `SavedConfigsLoad`: whoever writes last and wherever a write is cut off, a file that is not broken starts the next server, unless it is one of two things that `Apply` does not check: its cache is on and has no address, or a pricing entry is about one of its fallbacks. Both happen in `live_config`.
* `KnownFallbackReached`: a fallback model in force is sent to a configured provider, if the program's table and not the operator says whose it is, and its name has no white space around it.
* `ChangesSurvive`: as long as commands keep out of a running server's way, a key that was shown and a password that was reset work in every later server, through failed saves and crashes, until a program starts from a file that was cut off and still loads.
* `AnswerShowsIssuedUsers`: the answer's snapshot, taken after the lock is let go, has the users of the keys it shows.
* `AgreeWhileNothingFails`: what is left of the promise that process and file agree.

* `RebuiltAsSaid`: after a stream that ended, the response rebuilt for the cache has all text and all tool calls in order, their arguments joined, however they were interleaved.
* `ReplayAsStreamed`: a client of the cached response ends up with the message that the stream's client had, but that it gets `{}` where that one has no whole arguments, and `stop` where it has no finish reason. It relates three indices of a call: the provider's, the chunk's and the cached position.
* `UsageAsReported`: what is billed is the last report, count by count.
* `DeliveredIsKept`: however a relay ends, what it returns to be logged and cached holds all that the client got, and at most one piece more, which it could not deliver; arguments that were broken off are `{}` in it.

* `ResultsFindTheirCalls`: each tool result that openai or anthropic gets points at one call, the one it is the result of; to gemini it points at the calls of its function, as the name does not say which; and a call that it points at is in an earlier turn. It relates ids made by one provider or adapter to a request built for another, turns later.
* `HistoryKept`: what providers said in earlier turns, plain or streamed, the next one is told in full and in order.
* `OnlyArraysLost`: no text of the client gets lost on the way, but those of finding 5.
* `ChoiceObeyed`: a client that says `none` gets no call and one that says `required` gets one, from openai and anthropic. Gemini's adapter leaves the choice out.

* `AnswerOfItsTime`: each sum, count, chart and page is of the rows that its reader means, no fewer than when the request came and no more than there are at its end. It relates what is read in several steps to what is written between them, and the days, ranges and providers of a reader to the queries' conditions. `ProviderKnown` is its precondition: a provider is looked up among the models of the last 30 days, and one that has none there is silently no filter.
* `PartsAgree`: what the tiles count is in the chart, the page is in the period's total, and a report's rows are those of its summary or more, if they are not cut off.
* `ListComplete`: once the list offers no more, each row that was there when it was begun, and is still meant, has been shown, although others kept coming in at the front. It needs that none came between the count and the page of the last request, that the window does not move under a list sorted by cost, and that a provider is asked for over the last 30 days at most.
* `OptionsKept`: no user or provider of the last 30 days vanishes from its filter.

**Findings.** (1) A stream's release comes before its log entry, so its cost is for a
moment counted nowhere and another request is admitted past the limit. (2) `RedisEnforcer`
returns an error when Redis fails, whatever `fail_closed` says, and the handlers let the
request through. (3) When a save fails after the file has been opened, memory is rolled back and
the file stays empty, or new: process and file disagree, against the comment of `Apply`. (4) A password
reset beside a running server takes no effect in it, old sessions included, and the server's next
save undoes it in the file, against the troubleshooting page. (5) A system
prompt or a tool result that is sent as an array of text parts, as OpenAI allows, is dropped by the adapters of
anthropic and gemini without an error.

More came up that no run shows.

* The reservation is priced for the requested model (`handler.go:159`) and the charge for the fallback that answered (`handler.go:213`). What it is dearer by is in `beyond`, and counts only against the next request.
* A stream that was cut short is cached as if it were complete (`handler.go:322-345`).
* `Load` validates the fallback list before the pricing section is applied (`run.go:30`, `39`): a fallback to a model registered there is accepted and saved by a running server, and the next one refuses the file. `SavedConfigsLoad` excepts it; an edit of `live_config` does it (`Tuned`).
* The dashboard can turn the cache on although its backend is redis and no URL is configured: `Apply` does not look at that (`settings.go`), `Validate` does at the next start (`config.go:195`), and refuses the file. `SavedConfigsLoad` excepts it, and `live_config` reaches it.
* A fallback `acme/my-model` is accepted where a provider `acme` is configured, but the router sends every name it does not know to `together`. `KnownFallbackReached` leaves such names out.
* A fallback `" claude-sonnet-5"` is trimmed for its validation only (`fallback.go:26`): the list keeps the space, and the router sends the name to `openai`. `KnownFallbackReached` leaves such names out, too.
* `os.WriteFile` (`config.go:277`) is not atomic: when it fails or the process dies after the `providers:` section, what there is loads without budgets, users and keys, and the next server starts, as a single tenant. `ChangesSurvive` holds up to there (`torn`).
* A client that stops reading its stream keeps its handler in `Relay` and its reservation in `inFlight` for as long as it likes: `run.go:123-127` sets no `WriteTimeout`, on purpose. Only the user's own budget is held up by it.
* go-redis sends a command again when it hears no reply, and `NewRedisEnforcer` does not turn that off: a reconcile script that runs twice takes the difference off twice (`redis_enforcer.go:128`), and later requests may pass the limit by it. It is in `redis_ledger`, as what is `missing`.
* A result goes to gemini with its function's name only (`gemini.go:105-107`): if one answer called a function twice, the results are told apart by nothing but their order, which is the client's.
* A call whose arguments were not valid JSON, or missing, is cached with `{}` (`openai.go:547`, `anthropic.go:620`): a client of the cached response sees a whole call where that of the stream saw a broken one.
* A report with `?provider=` of a provider without a request in the last 30 days is of all providers, and older days miss the models that were not used since (`snapshot.go:106`, `store.go:34`). `AnswerOfItsTime` fails without `ProviderKnown`.
* A request that is logged between the count and the page of a list makes it offer no more while rows are left (`store.go:397`, `411`). `ListComplete` fails without that condition.
* Under `30d` and a provider, a list loses rows when those that make up its first page become a month old between two pages: the next page is without a filter, or with fewer models, and its offset still counts them (`snapshot.go:106`, `requests.go`). `ListComplete`, which once asked for all rows that the last page's queries would find, was false for that reason; what it asks for now is what is meant, and it is proved.
* `all_models` is of the selected range (`requests.go:91`), although `distinctProviders`' comment calls it a fixed window.

**Bounds.** `N` = 2 handlers: the interleavings that break a reservation need two
requests of one user. One user: users share only the mutex, and the proofs are for any
number. Limits of 2 and 3 against requests of 0, 1 and 2 units, so that one request
fits, two may or may not, and a recorded charge matters; a charge may be twice its estimate, or 1 above none. `MaxSpend` stops new requests
of a user once so much is recorded, which bounds the log. A `Reserve` waits for the mutex over at most one
midnight. In `RedisEnforcer`: `MaxDay`, `MaxLate` abandoned commands at a time, one
re-sending per command, a charge at most `MaxOverrun` = 1 above its estimate. In `LiveConfig`: `MaxCommands` = 2, a command after or in the middle of another program's
work, and a further one; a file that was cut off is not cut off again once a program has loaded it (`CutAgain`), since the properties promise nothing after that; two operators, since only whose turn it is matters beyond that; keys and
operators are interchangeable (symmetry), users and providers are not. In `Conversation`: two answers, so that the second request carries calls
and results of one provider to any other, and the third both of theirs; two blocks to an answer, so that it may be text and a call or two calls
of one function; one answer if it streams, whose calls then go to any provider. In `RequestReports`: a clock of three ticks with a midnight, hours of two ticks and days of
two hours, so that each range and bucket begins and ends within the log; pages of one or two rows, so that five rows are
several pages; a report of four rows at most, so that it is cut off or not. In `StreamRelay`: two pieces of text, so that a
block of text can lie between calls; three calls, so that one is opened, another grows and a third comes in between; two
parts to a line, where parts of one line can be handled and the next is not; one prompt count and two completion
counts, of which the later must win. None of them is in the way of the runs' interesting cases:
each property's mutant violates it within the same bounds.

**Fairness.** `gateway_mixed` assumes weak fairness of a handler's own steps other than
`Relay`: a goroutine is scheduled, and every provider call ends by the HTTP client's
timeout of 120 s. It assumes strong fairness of the steps that take the mutex: Go's
`sync.Mutex` hands the lock to a waiter that has waited for over a millisecond. Nothing is
assumed of `Relay`: the timeout bounds what the provider sends, not how long a write to a client
takes that does not read, and `run.go:123-127` leaves `WriteTimeout` unset. `RequestsAnswered` is therefore
conditional, request by request, on the fairness of that request's own `Relay`. Arrivals,
settings, expiry, midnight and crashes are not fair.

**Deadlock** is checked in every run of `Gateway` and `RedisEnforcer`: an idle slot can
always take a request, or midnight come, or an operator save settings. It is not in those
of `LiveConfig`: once the commands of the bound are used up and the file is lost, no
server starts any more, and the system has stopped. Nor in `conversation` and `request_reports`: a conversation ends
after its bound of answers, or a relay that has failed, and a report is asked for once while clock and log are at their bounds.

## 4. What is proved

For any number of handlers and users, any models, prices, requests and settings that
satisfy `GatewayAssumption`:

* `TypeCorrect`: `Spec => []TypeOK`.
* `ReservationsExact`: `Spec => []InFlightIsSumOfHolds`.
* `FailClosedHolds`: `Spec => []FailClosedMeters`.
* `GatewayImplementsLedger`: `Spec => ImplementsLedger`.
* `NoJointOverspend`: `Spec => []CommitmentWithinCeiling`.

They are about all six kinds of requests, fallbacks dearer than what was reserved for, and charges above
their estimates. What the code does not ensure (finding 1, and the dearer fallback) is in the formula, as `beyond`:
no hypothesis rules it out.

**The argument.** `InFlightIsSumOfHolds` is not inductive: `Release` takes out an
estimate, which keeps the sum only if the slot really holds it, and `Answer` forgets a slot
only if it holds nothing. `SlotInv` says so for each stage: a reservation is out only
in the stages that lead to a release, the stream's stages before `release` included;
`Inv` is `TypeOK`, `SlotInv` of every slot, and the sum. `HandlerSteps` shows that every
step of a handler turns its record into one that satisfies `SlotInv` and either keeps
both account and reservation, enters both, or takes out both (`Accounted`);
`AccountedKeeps` then does the arithmetic once for all actions, by `TotalUpdate`.

`FailClosedHolds` strengthens the property to all stages from `dispatch` to `relay`.

For `CommitmentWithinCeiling` the decision must be right when it is made: `MeterInv`
adds to `Inv` that the slot in `decide` holds the mutex, and that the commitment is at most the spend it has
`seen`, the account and what is `fresh` (`Locked`); that its limit is at most the ceiling (`Meter`); and that what is `fresh` is
part of what is `beyond` (`Counted`). The subtle part is that the log grows while the mutex is
held: what is recorded behind the back of a decision is covered by the reservation that the
recording slot still has in `inFlight`, or else it is `fresh`. A stream, which releases before it logs, has its
whole charge there, and that is finding 1.
`HandlerMeters` classifies each handler step as raising a commitment under the check, as spilling, or as not
raising it; `LedgerStep` maps every step to a step of `BudgetLedger` or a stutter, and `PromiseStep` shows
that a step of that keeps its promise.

**`RedisEnforcer`,** for any instances, slots, users, requests, budgets and days that satisfy `RedisAssumption`, with
connections that break or not, commands that come late, scripts that are re-sent and charges above their estimates: `TypeCorrect`,
`LedgerNeverLoses`, `BudgetsKeptTogether` and `EnforcerImplementsLedger`. `LedgerAccounts` alone is not inductive. `MeterInv` says of each slot that it holds a
reservation only while it serves, and that the limit it sent is one that the user has been given; and of each late command that it
stems from a fault. `CoveredInv` is what the script decides by: what was charged and what the counter was raised by for requests still to be
charged passes the ceiling only by what is `beyond`, which is at least what is `missing`. Every step of a slot then moves a counter and what is missing from it
together by at least as much as its charges and what is
pending, and by exactly that if nothing has failed (`Accounted`), and keeps what `CoveredInv` relates (`Covered`); `SlotStep` has both, one lemma per action, and `SlotStepKeeps` does the
arithmetic once, by `TotalUpdate`. Where a reserve script finds room, `LedgerAccounts` gives the counter's side and `CoveredInv` follows: the two need each
other (`Books`). The refinement follows: hearing a grant is `Admit`, since the commitment after it is within ceiling and `beyond`; a charge that is covered, or a death, is `Relax`,
one that is not, and a second run of a script, `Spill`.

**`LiveConfig`,** for any operators, users, keys, providers, models and edits that satisfy
`LiveConfigAssumption`: `TypeCorrect` (which says also that the lock is held by exactly the
operator in the middle of a save), `KeysAlwaysBudgeted`, `FailedSavesUndone`,
`AnswersShowIssuedUsers`, `ChangesAlwaysSurvive`, `AgreesUntilFailure`, `FallbacksReached` and
`FilesAlwaysLoad`. `KeysBudgeted` alone is not inductive: a save still to be written, and the
configuration that a rollback would restore, may be what breaks it. `BudgetInv` therefore asks it of memory, of
the file, and of every writer's `cfg`, up to a file that was cut off. `FailedSaveLeavesNoTrace` needs `SaveInv`: while `o` holds
the lock, memory with the four fields put back is what was `accepted`, that is, a save
changes only fields that the rollback restores. `AnswerShowsIssuedUsers` needs `IssuedInv`: keys
that are issued go into `mem.keys`, and once their save has succeeded no other save's rollback removes them; and `Apply` lets no user of a key go, so that their entries stay, whichever
saves come in between.

`ChangesSurvive` speaks of a server that starts later, so `SurviveInv` follows each key and password to every place that
server's memory may come from: memory itself and what a rollback restores, the file unless it was cut off, and what a command still has to write, which has
the keys that it issued already (`CommandInv`). `AgreeInv` says where a save has got to: the file is
broken before the write, and memory's after it. `FilesAlwaysLoad` asks of memory, of the file and of a command's record that they are `Sound` (`LoadInv`): providers there are, and every fallback that no pricing
entry is about is one that the built-in table knows. A sound configuration loads, but for the two exceptions (`SoundLoads`). `Apply`
judges a fallback by the live table and `Load` by the built-in one; `Untouched` shows that one that no pricing entry is about is served by the same provider under
both. `FallbacksReached` rests on `TableAndRouterAgree` of `RoutingProofs`: whatever
name without white space before it the built-in table knows, itself or by the longest of its beginnings, and gives to one of the router's five providers, `RouteProvider`
sends there. The proof goes through the families of names of the table, since a name is routed by its first part, or by its first two if the second is a slash.

**`StreamRelay` and `Conversation`,** for any number of pieces of text, calls, parts of a line and any counts that
satisfy `StreamRelayAssumption` and `ConversationAssumption`: `RelayTypeOK`, `StreamsRebuilt`, `CachedAsStreamed`, `StreamsBilled` and `DeliveredTextKept` of
the relay within a conversation, and `OneStream` of a single one. The properties compare what was said with what is kept when all is
over. `StreamInv` compares them at every part: `AccumulatedAs(g)` says that text, order and calls are just what `g` says,
`HeardAs(g)` that the client's are. While a line is handled (`Scanning`) both are of the same `g`, from which a
chain of what is said part by part (`Chain`) leads over the pending ones to `said`. `PartCases` splits the parts into text, a call's start and
a call's further fragment; `AccumulateAsSaid` and `HeardAsSaid` show that each takes relay and client to the next link. There
the three indices of a call meet: `InOrder` says that the provider's are ordered, and without gaps but for
anthropic's, so that the chunk's index, openai's own or a place in the order, is the place among the calls. A return in the middle leaves the client at one
link and the relay at the next (`Behind`), from which `DeliveredIsKept` follows; a stream that ends leaves both at `said`. `RunsGoOn`
makes the chain for a new line; since `Runs` is a recursive function, `Iterates` shows first that there is such a function.
Outside a stream the relay is as it starts (`RelayInTurn`), so each answer finds a fresh one.

For `Conversation`'s own properties: `ConversationTypeCorrect`, `ResultsMatched`, `HistoryRetold`, `TextsOnlyLostFromArrays`, `ChoicesObeyed`,
for any openings and any number and length of answers. `ResultsMatched` needs more than counting: `ResultPoints` shows that a result points at its call and, but for gemini, at no other, since an id in the history is that of one call, and `ResultsInOrder` that
the call is in an earlier turn than its result.
All but the last compare a request that was built by loops over the
history with the history, so the lemmas are about `Gather(s, f)`, the images `f[x]` of the elements of `s` one after the other:
filtering, mapping and flattening are all of that form, and to gather from what was gathered is to gather at once (`GatherTwice`). So the
results in a request are, one by one, those of the history (`ResultsAre`), and its assistant turns, retold, are
the history's assistant messages (`AnswersRetold`). None of the properties is inductive, since they speak of the moment when the provider has its
request. `ConversationInv` says instead what a history is (`History`): typed messages of the shape that their role has (`WellShaped`);
`spoken` is what its assistant messages utter; each call's id carries the number of the answer that made it; two calls of one id
are the same call, and each result has the id and the name of a call. The number is why an id never returns, whichever provider makes the next
answer (`HistoryAnswered`); a client's reply makes no calls and answers only the last ones (`HistoryReplied`). At the provider `sent` is `Request` of that history.
`ChoiceObeyed` is part of the invariant, since the message that obeys it was made from an offer that is gone. A streamed answer comes into
the history as the relay's theorems say (`StreamAnswer`). TLC has checked `ConversationInv` on the instance of `conversation`.

**`RequestReports`,** for any users, models, times, requests and logs that satisfy `ReportsAssumption`, however many
rows are logged and however long the clock runs: `TypeCorrect`, `AnswersOfTheirTime`, `PartsAlwaysAgree`,
`OptionsAlwaysKept`, `ListAlwaysComplete`. The first ones speak of finished answers, so `Inv` says of an answer in the making what each result that
is there already owes: `ResultsInv` puts it between the rows found when the request came and those found now,
`CoverInv` puts the earlier results into the later ones, `OptionsInv` and `ModelsInv` keep what the last month had.
`ClockInv` (no row has a time to come) makes the chart complete: every row that was read has a bucket, since the last
bucket is chosen after the rows are read and a later time is never in an earlier bucket (`TruncMonotone`). The order
of the queries is part of it: `QueryOrder` is why no tile is read after the chart, and no page after its total.
`LogSideInv` shows that rows that come, late or in time, disturb none of this. That a report has all rows or exactly
as many as it may have is `SliceCutsOff`: the ranks of the rows are an injection into as many numbers, hence onto them.
`MeantFound` then shows that the conditions of the queries select what the reader means: days up to their last
millisecond (`DaysOf`), and a provider through its models.

The list is an argument over all its pages, between which rows come, windows move and models are looked up anew, so
that no page is cut from the order of the one before. `ListInv` compares them by `UpTo(n, S, listed)`: of the rows that
are owed, each with fewer than `n` rows of `S` before it is listed. It holds of the rows that were *meant* when a request came, up to the offset;
then of those *found*, up to the end of the page (`PageListed`: a page has at most `Limit` rows, since no two have the same rank, `PageFits`);
and of those of the period when its result came, which is why a count that equals it bounds every rank. It passes from one set to a larger one
(`UpToMore`, `LogSideUpTo`), and `AsksListed` shows that what the last page found before an owed row is meant by the next
request: by time such rows are no earlier than the owed one, so they are in every window that it is in; with dates the window stays.

**Sums.** `Total` is a recursive function; that it is typed, monotone, and moves by
the difference when one term changes is proved in `SumsProofs` by the least element of a
set of counterexamples, since the library's induction theorems cannot be instantiated.

**Only model-checked:** liveness (`RequestsAnswered`) and the absence of deadlock: liveness under fairness and
`ENABLED` are out of reach of the prover. Every invariant of a passing run has a theorem, and none has a hypothesis but the assumptions on the
constants; what a property excepts, it says itself. The five violated properties are, of course, not theorems.

## 5. What is not modelled

* The dashboard's sessions: signed tokens without state on the server; what a reset does to them is the login in `LiveConfig`.
* The front end apart from its request list, and the packaging: rendering and downloads.
* The cache in Redis: two calls, of which a failed one is a miss or an ignored write; across instances its entries are as those of the in-memory one within one.
* The bodies of embeddings, images and audio, whose adapters translate one request and one answer without a history; in `Gateway` they are outcomes. The options of a chat other than tools, `tool_choice` and streaming.
* The arithmetic of prices, estimates and sums: floating-point residues of `inFlight`, too.
* The size of the in-memory cache, and graceful shutdown (its timeout ends like a crash).
* In the request list, a page of which the browser hears nothing (`dashboard.js:647`): the list stays as it was, and the button is offered again.

## 6. Plan

Done: `BudgetLedger`, `Sums`, `Gateway`, `RedisEnforcer`, `Routing`, `LiveConfig`, `StreamRelay`,
`Conversation` and `RequestReports`, each with its proofs.

1. `Pricing`: the estimators against the charges over bounded requests (per-part rounding, images, `n`, defaults of unknown models), with `StreamRelay`, whose usage it prices: how large what is `beyond` may get.
2. `FITGUARD_CONFIG` in `LiveConfig`: the commands and the server then load the variable and save to the file, so what is saved is not what the next server loads.
3. `Gateway`: the cache of a truncated stream; several choices in `StreamRelay`.
