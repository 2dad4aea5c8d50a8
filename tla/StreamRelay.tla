----------------------------- MODULE StreamRelay -----------------------------
(***************************************************************************)
(* One streamed chat: a provider's stream is relayed to the client line by *)
(* line, while the relay keeps what the request log, the bill and the      *)
(* cache need of it.  The three relays (internal/proxy/openai.go,          *)
(* anthropic.go and gemini.go) are one machine here: they differ in what a *)
(* line may hold, in whether they write before or after they accumulate,   *)
(* and in how they count usage and tool calls.                             *)
(***************************************************************************)
EXTENDS Naturals, Sequences, SequencesExt

CONSTANTS
  Kinds,           \* the relays: some of "openai", "anthropic", "gemini"
  MaxText,         \* bound: pieces of text that a provider sends
  MaxCalls,        \* bound: tool calls that it makes
  MaxParts,        \* bound: parts of one line
  Prompts,         \* prompt tokens that it may report
  Completions,     \* completion tokens that it may report
  PromptEstimate,  \* EstimatePromptTokens of the request
  PieceLength      \* characters in a piece of text

ASSUME StreamRelayAssumption ==
  /\ Kinds \subseteq {"openai", "anthropic", "gemini"}
  /\ MaxText \in Nat /\ MaxCalls \in Nat /\ MaxParts \in Nat \ {0}
  /\ Prompts \subseteq Nat \ {0} /\ Completions \subseteq Nat \ {0}
  /\ PromptEstimate \in Nat \ {0} /\ PieceLength \in Nat

\* The arguments of a tool call come in two pieces, and are valid JSON when
\* both have come.  "{}" stands for arguments that are not: broken off, or "".
Whole == <<1, 2>>
EmptyObject == <<0>>
Arguments(args) == IF args \in {Whole, EmptyObject} THEN args ELSE EmptyObject

\* Indices of tool calls: anthropic's count text blocks too, so have gaps.
Indices == 0 .. MaxCalls
Unseen  == [seen |-> FALSE, id |-> 0, seq |-> 0, args |-> << >>]
Call    == [seen : BOOLEAN, id : Indices, seq : Indices, args : Seq(0 .. 2)]

Reasons(k) ==
  CASE k = "openai"    -> {"stop", "length", "tool_calls", "content_filter"}
    [] k = "anthropic" -> {"end_turn", "stop_sequence", "max_tokens", "tool_use", "refusal"}
    [] OTHER           -> {"STOP", "MAX_TOKENS", "SAFETY", "OTHER"}

\* mapAnthropicStopReason, mapGeminiFinishReason: gemini's unknown reasons are
\* "stop", anthropic's stay as they are.
FinishReason(reason) ==
  CASE reason \in {"end_turn", "stop_sequence", "STOP", "OTHER"} -> "stop"
    [] reason \in {"max_tokens", "MAX_TOKENS"}                   -> "length"
    [] reason = "tool_use"                                       -> "tool_calls"
    [] reason = "SAFETY"                                         -> "content_filter"
    [] OTHER                                                     -> reason

Finish == {"", "stop", "length", "tool_calls", "content_filter", "refusal"}
OrStop(finish) == IF finish = "" THEN "stop" ELSE finish

\* A count of 0 has not been reported.
Usage == [prompt : Nat, completion : Nat]
NoUsage == [prompt |-> 0, completion |-> 0]

VARIABLES
  kind,     \* which relay
  said,     \* external: what the provider has sent
  pc,       \* "scan" or "returned"
  pending,  \* the parts of the current line that are still to be handled
  text,     \* the text accumulated
  order,    \* toolCallOrder
  calls,    \* the tool calls accumulated, by the provider's index
  usage,    \* the usage counted
  exact,    \* haveExactUsage
  finish,   \* the finish reason
  failed,   \* whether Relay returned an error
  client    \* external: what the client has made of the chunks it got

vars == <<kind, said, pc, pending, text, order, calls, usage, exact, finish,
          failed, client>>

kept == <<text, order, calls>>
-----------------------------------------------------------------------------
(* The providers.                                                          *)

\* A part of a line: a piece of text, or a fragment of a tool call, with the
\* call's id and name or without.
TextPart(n) == [of |-> "text", index |-> 0, named |-> FALSE, pieces |-> <<n>>]
CallPart(i, named, pieces) ==
  [of |-> "call", index |-> i, named |-> named, pieces |-> pieces]

\* s.calls: for each call its index and how many pieces have been sent.
NewIndices(s) ==
  IF kind # "anthropic" THEN {Len(s.calls)} \ {MaxCalls}
  ELSE {i \in Indices : Len(s.calls) < MaxCalls
                          /\ \A c \in 1 .. Len(s.calls) : s.calls[c].index < i}

Openings == CASE kind = "openai"    -> {<< >>, <<1>>}
              [] kind = "anthropic" -> {<< >>}
              [] OTHER              -> {<< >>, Whole}

\* Only openai interleaves the arguments of several calls, and perhaps repeats
\* their ids; gemini's come whole.
Growing(s) ==
  {c \in 1 .. Len(s.calls) :
     /\ s.calls[c].sent < 2
     /\ kind = "openai" \/ (kind = "anthropic" /\ c = Len(s.calls))}

TextParts(s) == {TextPart(s.text + 1) : n \in {s.text} \ {MaxText}}
OpeningParts(s) ==
  UNION {{CallPart(i, TRUE, p) : p \in Openings} : i \in NewIndices(s)}
GrowingParts(s) ==
  UNION {{CallPart(s.calls[c].index, named, <<s.calls[c].sent + 1>>) :
            named \in {FALSE, kind = "openai"}} : c \in Growing(s)}
Parts(s) == TextParts(s) \cup OpeningParts(s) \cup GrowingParts(s)

\* What has been said once part p has.
Said(s, p) ==
  CASE p.of = "text" -> [s EXCEPT !.text = @ + 1]
    [] p.of = "call" /\ \A c \in DOMAIN s.calls : s.calls[c].index # p.index ->
         [s EXCEPT !.calls = Append(@, [index |-> p.index, sent |-> Len(p.pieces)])]
    [] OTHER ->
         [s EXCEPT !.calls = [c \in DOMAIN s.calls |->
                                IF s.calls[c].index = p.index
                                THEN [s.calls[c] EXCEPT !.sent = @ + 1] ELSE s.calls[c]]]

\* The runs of parts that one line may hold, each with what has been said then.
Runs[n \in Nat] ==
  IF n = 0 THEN {[parts |-> << >>, said |-> said]}
  ELSE Runs[n - 1] \cup
       UNION {{[parts |-> Append(r.parts, p), said |-> Said(r.said, p)] :
                 p \in Parts(r.said)} : r \in Runs[n - 1]}

\* The usage that a line may report, cumulative: openai's both counts or none,
\* gemini's any, anthropic's the prompt first and the completion later.
Reports ==
  LET More == {c \in Completions : c >= said.usage.completion}
      Both == [prompt : Prompts, completion : More]
      First == [prompt : Prompts, completion : {0}]
      Later == [prompt : {0}, completion : More]
  IN  CASE kind = "openai"    -> Both
        [] kind = "anthropic" -> IF said.usage.prompt = 0 THEN First ELSE Later
        [] OTHER              -> Both \cup First \cup Later

\* A line: parts, a finish reason and a usage, of which anthropic's events have
\* only one, but for the finish reason, which comes with a usage.  No parts
\* and no other reason after the finish reason.
Line(r, reason, report) ==
  /\ r.parts # << >> \/ reason # "" \/ report # NoUsage
  /\ said.finish # "" => r.parts = << >> /\ reason = ""
  /\ kind = "anthropic" =>
       /\ said.usage.prompt = 0 => report # NoUsage /\ reason = ""
       /\ r.parts # << >> => Len(r.parts) = 1 /\ reason = "" /\ report = NoUsage
       /\ reason # "" => report # NoUsage

\* The later report counts, count by count.
Latest(u, report) ==
  [prompt |-> IF report.prompt = 0 THEN u.prompt ELSE report.prompt,
   completion |-> IF report.completion = 0 THEN u.completion ELSE report.completion]
-----------------------------------------------------------------------------
(* The client: it joins tool calls by the index in the chunks.             *)

\* The arguments that a call opens with, kept and passed on: gemini's are
\* never missing.
Pieces(p) == IF kind = "gemini" /\ p.pieces = << >> THEN EmptyObject ELSE p.pieces

Heard(p, i) ==
  IF p.of = "text" THEN [client EXCEPT !.text = @ \o p.pieces]
  ELSE LET call == client.calls[i]
       IN  [client EXCEPT
              !.calls[i] = IF call.seen THEN [call EXCEPT !.args = @ \o p.pieces]
                           ELSE [Unseen EXCEPT !.seen = TRUE, !.id = p.index,
                                               !.args = Pieces(p)]]

HeardFinish(reason) ==
  client' = [client EXCEPT !.finish = IF reason = "" THEN @ ELSE reason]
-----------------------------------------------------------------------------
NothingSaid == [text |-> 0, calls |-> << >>, finish |-> "", usage |-> NoUsage]
NoCalls == [i \in Indices |-> Unseen]
NothingHeard == [text |-> << >>, calls |-> NoCalls, finish |-> ""]

Init ==
  /\ kind \in Kinds
  /\ said = NothingSaid
  /\ pc = "scan"
  /\ pending = << >>
  /\ text = << >>
  /\ order = << >>
  /\ calls = NoCalls
  /\ usage = NoUsage
  /\ exact = FALSE
  /\ finish = ""
  /\ failed = FALSE
  /\ client = NothingHeard
-----------------------------------------------------------------------------
(* Relay.                                                                  *)

\* Defect: gemini's counts are taken even where they are missing.
CountedEvenIfMissing(report) ==
  IF kind = "openai" /\ report = NoUsage THEN usage ELSE report

\* openai's usage is nil or whole; anthropic's message_start sets one count
\* and message_delta the other; gemini's counts are taken if positive.
Counted(report) ==
  IF kind = "openai"
  THEN IF report = NoUsage THEN usage ELSE report
  ELSE [prompt |-> IF report.prompt > 0 THEN report.prompt ELSE usage.prompt,
        completion |-> IF report.completion > 0 THEN report.completion
                       ELSE usage.completion]

\* The provider sends a line.
Sends(r, reason, report) ==
  /\ pc = "scan" /\ pending = << >>
  /\ Line(r, reason, report)
  /\ said' = [r.said EXCEPT !.finish = IF reason = "" THEN @ ELSE FinishReason(reason),
                            !.usage = Latest(@, report)]

\* The relay reads it; openai's passes it on first, as it is.
ReadLine(r, reason, report) ==
  /\ Sends(r, reason, report)
  /\ pending' = r.parts
  /\ usage' = Counted(report)
  /\ exact' = (exact \/ report # NoUsage)
  /\ finish' = IF reason = "" THEN finish ELSE FinishReason(reason)
  /\ IF kind = "openai" THEN HeardFinish(reason) ELSE UNCHANGED client
  /\ UNCHANGED <<kind, pc, kept, failed>>

\* openai's cannot pass it on: the client is gone, the line is dropped.
LineUndelivered(r, reason, report) ==
  /\ kind = "openai"
  /\ Sends(r, reason, report)
  /\ pc' = "returned" /\ failed' = TRUE
  /\ UNCHANGED <<kind, pending, kept, usage, exact, finish, client>>

\* Defect: the arguments are replaced, not joined.
Replaced(args, pieces) == IF pieces = << >> THEN args ELSE pieces

Joined(args, pieces) == args \o pieces

\* Defect: each fragment with an id opens a call.
OpensIfNamed(p) == p.of = "call" /\ p.named

\* openai's opens a call at an index not seen before, the others at each start.
Opens(p) == p.of = "call" /\ (IF kind = "openai" THEN ~calls[p.index].seen ELSE p.named)

Accumulate(p) ==
  /\ text' = IF p.of = "text" THEN Joined(text, p.pieces) ELSE text
  /\ order' = IF Opens(p) THEN Append(order, p.index) ELSE order
  /\ calls' =
       IF p.of = "text" THEN calls
       ELSE IF Opens(p)
            THEN [calls EXCEPT ![p.index] =
                    [seen |-> TRUE, id |-> p.index, seq |-> Len(order), args |-> Pieces(p)]]
            ELSE [calls EXCEPT ![p.index].args = Joined(@, p.pieces)]

\* Defect: the provider's block index is passed on.
IndexOfBlock(p) == p.index

\* The index in the chunk: openai's own; the others' position among the calls.
ChunkIndex(p) ==
  IF kind = "openai" THEN p.index
  ELSE IF p.named THEN Len(order) ELSE calls[p.index].seq

\* The next part is accumulated and delivered.
TakePart ==
  /\ pending # << >>
  /\ pending' = Tail(pending)
  /\ Accumulate(Head(pending))
  /\ client' = Heard(Head(pending), ChunkIndex(Head(pending)))
  /\ UNCHANGED <<kind, said, pc, usage, exact, finish, failed>>

\* Defect: an interrupted relay returns nothing.
InterruptedWithNothing ==
  pc' = "returned" /\ failed' = TRUE /\ text' = << >> /\ UNCHANGED <<order, calls>>

\* Relay returns early, with what it has.
Interrupted ==
  pc' = "returned" /\ failed' = TRUE /\ UNCHANGED kept

\* It is accumulated, but the client is gone.
PartUndelivered ==
  /\ kind # "openai"
  /\ pending # << >>
  /\ pending' = << >>
  /\ Accumulate(Head(pending))
  /\ pc' = "returned" /\ failed' = TRUE
  /\ UNCHANGED <<kind, said, usage, exact, finish, client>>

\* scanner.Err: the connection breaks, its time is up, or a line is too long;
\* or openai's client is gone when [DONE] is passed on.
StreamBreaks ==
  /\ pc = "scan" /\ pending = << >>
  /\ Interrupted
  /\ UNCHANGED <<kind, said, pending, usage, exact, finish, client>>

\* openai's estimates what was not reported.
Settled ==
  IF kind # "openai" \/ exact THEN usage
  ELSE [prompt |-> PromptEstimate, completion |-> (Len(text) * PieceLength) \div 4]

\* The stream ends.  openai's has passed everything on; the others write a
\* last chunk and [DONE], and so far as the client is still there.
StreamEnds ==
  /\ pc = "scan" /\ pending = << >>
  /\ pc' = "returned"
  /\ usage' = Settled
  /\ finish' = IF kind = "openai" THEN finish ELSE OrStop(finish)
  /\ \/ failed' = FALSE /\ HeardFinish(finish')
     \/ kind # "openai" /\ failed' = TRUE /\ (UNCHANGED client \/ HeardFinish(finish'))
  /\ UNCHANGED <<kind, said, pending, kept, exact>>

Next ==
  \/ \E r \in Runs[MaxParts], reason \in Reasons(kind) \cup {""},
        report \in Reports \cup {NoUsage} :
        ReadLine(r, reason, report) \/ LineUndelivered(r, reason, report)
  \/ TakePart \/ PartUndelivered \/ StreamBreaks \/ StreamEnds

Spec == Init /\ [][Next]_vars
-----------------------------------------------------------------------------
(* What becomes of it.                                                     *)

\* finalizeToolCalls, finalizeAnthropicToolCalls.
ToolCalls ==
  [n \in 1 .. Len(order) |-> [id |-> calls[order[n]].id,
                              args |-> Arguments(calls[order[n]].args)]]

\* nonStreamOpenAIResponse: what goes into the cache.
Response == [text |-> text, toolCalls |-> ToolCalls, finish |-> finish]

\* streamFromCached: what a client of a cached response has in the end.
Replay(r) ==
  [text |-> r.text,
   calls |-> [i \in 0 .. Len(r.toolCalls) - 1 |-> r.toolCalls[i + 1]],
   finish |-> OrStop(r.finish)]

\* What the client of the stream itself has, as it came.
Received ==
  [text |-> client.text,
   calls |-> [i \in {i \in Indices : client.calls[i].seen} |->
                [id |-> client.calls[i].id, args |-> client.calls[i].args]],
   finish |-> client.finish]

\* A message with {} for arguments that are not valid JSON, and "stop" for a
\* finish reason that never came.
Mended(m) ==
  [text |-> m.text,
   calls |-> [i \in DOMAIN m.calls |->
                [id |-> m.calls[i].id, args |-> Arguments(m.calls[i].args)]],
   finish |-> OrStop(m.finish)]
-----------------------------------------------------------------------------
(* Properties.                                                             *)

Part == [of : {"text", "call"}, index : Indices, named : BOOLEAN, pieces : Seq(Nat)]

\* Every variable has its type, and no index is in the order twice.
TypeOK ==
  /\ kind \in Kinds
  /\ said \in [text : 0 .. MaxText, calls : Seq([index : Indices, sent : 0 .. 2]),
               finish : Finish, usage : Usage]
  /\ pc \in {"scan", "returned"}
  /\ pending \in Seq(Part)
  /\ text \in Seq(1 .. MaxText)
  /\ order \in Seq(Indices)
  /\ calls \in [Indices -> Call]
  /\ usage \in Usage
  /\ exact \in BOOLEAN /\ failed \in BOOLEAN
  /\ finish \in Finish
  /\ client \in [text : Seq(1 .. MaxText), calls : [Indices -> Call], finish : Finish]
  /\ \A m, n \in 1 .. Len(order) : order[m] = order[n] => m = n

Ended == pc = "returned" /\ ~failed

\* After a stream that ended, what is rebuilt for the cache is what the
\* provider said: all text, all tool calls in their order with the arguments
\* joined, however the calls were interleaved; broken arguments are {}.
RebuiltAsSaid ==
  Ended =>
    /\ text = [n \in 1 .. said.text |-> n]
    /\ ToolCalls = [n \in 1 .. Len(said.calls) |->
                      [id |-> said.calls[n].index,
                       args |-> IF said.calls[n].sent = 2 THEN Whole ELSE EmptyObject]]
    /\ finish = IF kind = "openai" THEN said.finish ELSE OrStop(said.finish)

\* A client that is served the cached response ends up with the message of the
\* client of the stream it was rebuilt from, mended: where the stream left a
\* call's arguments out or broke them off its own client has them as they came,
\* and where it gave no finish reason none; the other has {} and "stop".
ReplayAsStreamed == Ended => Replay(Response) = Mended(Received)

\* The usage that is billed for a stream that ended is what the provider last
\* reported; only if it reported none at all is it openai's estimate.
UsageAsReported ==
  Ended => usage = IF kind = "openai" /\ said.usage = NoUsage
                   THEN [prompt |-> PromptEstimate,
                         completion |-> (said.text * PieceLength) \div 4]
                   ELSE said.usage

\* However a relay ends, what it returns to be logged and cached has all that
\* the client got: its text and at most one piece more; each of its calls in
\* its place, with its id and with the arguments that were delivered or those
\* and the one piece that was not any more, and {} for either if they are not
\* valid JSON.
DeliveredIsKept ==
  pc = "returned" =>
    /\ IsPrefix(client.text, text) /\ Len(text) <= Len(client.text) + 1
    /\ \A i \in Indices : client.calls[i].seen =>
         LET got == client.calls[i]
         IN  /\ i < Len(ToolCalls)
             /\ ToolCalls[i + 1].id = got.id
             /\ ToolCalls[i + 1].args
                  \in {Arguments(got.args),
                       Arguments(Append(got.args, Len(got.args) + 1))}
=============================================================================
