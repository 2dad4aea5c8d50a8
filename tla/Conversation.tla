----------------------------- MODULE Conversation -----------------------------
(***************************************************************************)
(* A chat of several turns.  The client sends its whole history each time; *)
(* each request may be served by another provider, whose adapter translates*)
(* the history into the provider's own request (buildAnthropicRequest,     *)
(* buildGeminiRequest; openai's stays as it is) and the answer back into   *)
(* OpenAI's shape, at once or, by the relay of StreamRelay, in a stream.   *)
(***************************************************************************)
EXTENDS StreamRelay

CONSTANTS
  Functions,   \* the tools that a client may offer, by name
  Called,      \* the function that the call at an index of a stream is of
  Chats,       \* how conversations begin: messages, and what is asked for
  MaxBlocks,   \* bound: blocks of an answer that is not streamed
  MaxAnswers   \* bound: answers in a conversation

\* A part of a content, a call to a tool, and a message.
Piece == [type : {"text", "inline", "remote"}, what : Seq(Nat)]
CallMade == [id : Seq(Nat), name : Functions, args : Seq(0 .. 2)]
AnyMessage ==
  [role : {"system", "user", "assistant", "tool"}, array : BOOLEAN,
   parts : Seq(Piece), calls : Seq(CallMade), id : Seq(Nat), of : Functions \cup {""}]

\* The content of m is a string: one part of text, or none if it is "".
IsString(m) ==
  /\ ~m.array
  /\ m.parts # << >> =>
       Len(m.parts) = 1 /\ m.parts[1].type = "text" /\ m.parts[1].what # << >>

\* A client begins with system and user messages.
Begun(m) ==
  m.role \in {"system", "user"} /\ m.calls = << >> /\ (m.array \/ IsString(m))

ASSUME ConversationAssumption ==
  /\ Called \in [Indices -> Functions]
  /\ \A o \in Chats :
       /\ DOMAIN o = {"messages", "tools", "choice", "stream"}
       /\ o.messages \in Seq(AnyMessage) /\ \A m \in ToSet(o.messages) : Begun(m)
       /\ o.tools \in BOOLEAN /\ o.stream \in BOOLEAN
       /\ o.choice \in {"auto", "none", "required"}
       /\ o.tools \/ o.choice = "auto"
       /\ o.stream => o.tools /\ o.choice = "auto"
  /\ MaxBlocks \in Nat /\ MaxAnswers \in Nat

VARIABLES
  stage,     \* whose turn it is: the client's, the handler's, the provider's
             \* or the relay's
  opening,   \* tools, tool_choice and stream, the same in every request
  messages,  \* the history, as the client has it
  spoken,    \* external: what the providers have said, answer by answer
  sent       \* the request that the provider has got

conversation == <<stage, opening, messages, spoken, sent>>
-----------------------------------------------------------------------------
\* The elements of s that are to be kept, as SelectSeq has them.
Picked(s, Keep(_)) ==
  FlattenSeq([i \in DOMAIN s |-> IF Keep(s[i]) THEN <<s[i]>> ELSE << >>])
-----------------------------------------------------------------------------
(* Messages.  A text is the numbers of its pieces, none for "".  The       *)
(* content is a string or an array of parts; a string is one part of text, *)
(* or none.  of is not in the message: the function whose result it is.    *)

TextOf(text_) == [type |-> "text", what |-> text_]

Message(role, array, parts) ==
  [role |-> role, array |-> array, parts |-> parts, calls |-> << >>,
   id |-> << >>, of |-> ""]

\* The message that ChatCompletion or a client of a stream makes of an answer.
Assistant(text_, calls_) ==
  [Message("assistant", FALSE, IF text_ = << >> THEN << >> ELSE <<TextOf(text_)>>)
     EXCEPT !.calls = calls_]

\* A client's tool message: the result of call c.
ResultOf(c, array) ==
  [Message("tool", array, <<TextOf(<<0>> \o c.id)>>) EXCEPT !.id = c.id, !.of = c.name]

\* What a client may say next: the results of all calls, in either order, or
\* a word of its own.
Replies ==
  LET cs == Last(messages).calls
      Each(f(_)) == [i \in DOMAIN cs |-> f(cs[i])]
  IN  IF cs = << >> THEN {<<Message("user", FALSE, <<TextOf(<<0, Len(spoken)>>)>>)>>}
      ELSE UNION {{Each(LAMBDA c : ResultOf(c, array)),
                   Reverse(Each(LAMBDA c : ResultOf(c, array)))} : array \in BOOLEAN}
-----------------------------------------------------------------------------
(* Requests.  The text of a system message is in system or, in openai's, a *)
(* turn like any other; gemini's role "model" is called assistant here.    *)

Block(type, what, id, name, args) ==
  [type |-> type, what |-> what, id |-> id, name |-> name, args |-> args]

Turn(role, blocks) == [role |-> role, blocks |-> blocks]

\* parseOpenAIContent: system and tool messages keep only a string's text.
StringText(m) == IF m.array \/ m.parts = << >> THEN << >> ELSE m.parts[1].what

\* toolCallNames: a later call with the same id replaces an earlier one.
ToolCallName(ms, id) ==
  LET cs   == FlattenSeq([i \in DOMAIN ms |-> ms[i].calls])
      hits == {i \in DOMAIN cs : cs[i].id = id}
  IN  IF hits = {} THEN "" ELSE cs[CHOOSE i \in hits : \A j \in hits : j <= i].name

\* gemini does not fetch images: an inline one is kept, a remote one dropped.
ContentBlocks(k, m) ==
  LET ps == Picked(m.parts, LAMBDA p : k # "gemini" \/ p.type # "remote")
  IN  [i \in DOMAIN ps |-> Block(ps[i].type, ps[i].what, << >>, "", << >>)]

\* A call keeps its id but in gemini's request, which has none; broken
\* arguments become {}.
CallBlocks(k, m) ==
  [i \in DOMAIN m.calls |->
     Block("call", << >>, IF k = "gemini" THEN << >> ELSE m.calls[i].id,
           m.calls[i].name,
           IF k = "openai" THEN m.calls[i].args ELSE Arguments(m.calls[i].args))]

\* Defect: the calls of a message that has a text are left out.
TextOrCalls(k, m) ==
  IF m.parts = << >> THEN CallBlocks(k, m) ELSE ContentBlocks(k, m)

Blocks(k, m) == ContentBlocks(k, m) \o CallBlocks(k, m)

\* tool_result, functionResponse: the call is named by its id or by its
\* function.
ResultBlock(k, ms, m) ==
  CASE k = "openai"    -> Block("result", m.parts[1].what, m.id, "", << >>)
    [] k = "anthropic" -> Block("result", StringText(m), m.id, "", << >>)
    [] OTHER           -> Block("result", StringText(m), << >>,
                                ToolCallName(ms, m.id), << >>)

\* Defect: a system message is a turn of anthropic's too.
SystemAsTurn(k, ms, m) ==
  IF m.role = "tool" THEN <<Turn("user", <<ResultBlock(k, ms, m)>>)>>
  ELSE <<Turn(m.role, Blocks(k, m))>>

\* The turns that a message becomes: none if nothing is left of it.
Turns(k, ms, m) ==
  IF m.role = "tool" THEN <<Turn("user", <<ResultBlock(k, ms, m)>>)>>
  ELSE IF k # "openai" /\ (m.role = "system" \/ Blocks(k, m) = << >>) THEN << >>
  ELSE <<Turn(m.role, Blocks(k, m))>>

\* Defect: only the last system message is kept.
LastSystem(k, ms) ==
  LET ss == Picked(ms, LAMBDA m : m.role = "system")
  IN  IF k = "openai" \/ ss = << >> THEN << >> ELSE <<StringText(Last(ss))>>

\* systemParts.
System(k, ms) ==
  IF k = "openai" THEN << >>
  ELSE LET ss == Picked(ms, LAMBDA m : m.role = "system" /\ StringText(m) # << >>)
       IN  [i \in DOMAIN ss |-> StringText(ss[i])]

\* Defect: "none" is translated like any other choice.
NoneAsAuto(k, o) ==
  [tools |-> o.tools,
   choice |-> IF k = "openai" \/ o.choice = "required" THEN o.choice ELSE "auto"]

\* toolChoiceIsNone, translateToolChoice: anthropic's way to say "none" is not
\* to offer tools; gemini's request has no choice.
Offer(k, o) ==
  CASE k = "openai"    -> [tools |-> o.tools, choice |-> o.choice]
    [] k = "anthropic" -> IF o.choice = "none" THEN [tools |-> FALSE, choice |-> "auto"]
                          ELSE [tools |-> o.tools, choice |-> o.choice]
    [] OTHER           -> [tools |-> o.tools, choice |-> "auto"]

\* setModel and prepareStreamBody, buildAnthropicRequest, buildGeminiRequest.
Request(k, ms, o) ==
  [system |-> System(k, ms),
   turns  |-> FlattenSeq([i \in DOMAIN ms |-> Turns(k, ms, ms[i])]),
   offer  |-> Offer(k, o)]
-----------------------------------------------------------------------------
(* Answers.                                                                *)

\* A provider calls a function only if it was offered, and obeys the choice.
Answers(offer) ==
  {a \in UNION {[1 .. n -> {"text"} \cup Functions] : n \in 0 .. MaxBlocks} :
     LET called == \E i \in DOMAIN a : a[i] \in Functions
     IN  /\ called => offer.tools /\ offer.choice # "none"
         /\ offer.choice = "required" => called}

\* Defect: gemini's ids do without the random suffix.
PositionAsId(k, n, i) == IF k = "gemini" THEN <<0, i>> ELSE <<n, i>>

\* The id of a call: the provider's, and unique; gemini's is made of a random
\* suffix, here the number of the answer, and a position.
CallId(k, n, i) == <<n, i>>

\* splitResponseBlocks, splitGeminiParts: the texts are joined, the calls
\* listed; the n-th answer's pieces of text come after n.
Shaped(k, n, a) ==
  LET At(S) == Picked([i \in DOMAIN a |-> i], LAMBDA i : a[i] \in S)
      texts == At({"text"})
      cs    == At(Functions)
  IN  Assistant(IF texts = << >> THEN << >> ELSE <<n>> \o texts,
                [c \in DOMAIN cs |-> [id |-> CallId(k, n, cs[c]), name |-> a[cs[c]],
                                      args |-> Whole]])

\* The message of a client of a stream that has ended.
Streamed(n) ==
  Assistant(IF client.text = << >> THEN << >> ELSE <<n>> \o client.text,
            [c \in 1 .. Len(said.calls) |->
               LET call == client.calls[c - 1]
               IN  [id |-> CallId(kind, n, call.id), name |-> Called[call.id],
                    args |-> call.args]])

\* What the providers have said in these answers.
Utterance(text_, calls_) == [text |-> text_, calls |-> calls_]

SpokenPlain(n, a) ==
  LET m == Shaped("openai", n, a)
  IN  Utterance(IF m.parts = << >> THEN << >> ELSE m.parts[1].what,
                [c \in DOMAIN m.calls |-> [name |-> m.calls[c].name, args |-> Whole]])

SpokenStream(n) ==
  Utterance(IF said.text = 0 THEN << >> ELSE <<n>> \o [i \in 1 .. said.text |-> i],
            [c \in DOMAIN said.calls |->
               [name |-> Called[said.calls[c].index],
                args |-> IF said.calls[c].sent = 2 THEN Whole ELSE EmptyObject]])
-----------------------------------------------------------------------------
NothingSent == [system |-> << >>, turns |-> << >>,
                offer |-> [tools |-> FALSE, choice |-> "auto"]]

ConversationInit ==
  /\ Init
  /\ stage = "handler"
  /\ \E o \in Chats :
       /\ opening = [tools |-> o.tools, choice |-> o.choice, stream |-> o.stream]
       /\ messages = o.messages
  /\ spoken = << >>
  /\ sent = NothingSent

\* The client goes on.
ClientSpeaks ==
  /\ stage = "client"
  /\ stage' = "handler"
  /\ \E ms \in Replies : messages' = messages \o ms
  /\ UNCHANGED <<vars, opening, spoken, sent>>

\* The handler asks provider k, or a fallback after another one failed.
Asks(k) ==
  /\ stage = "handler" \/ (stage = "provider" /\ k # kind)
  /\ stage' = "provider"
  /\ kind' = k
  /\ sent' = Request(k, messages, opening)
  /\ UNCHANGED <<said, pc, pending, kept, usage, exact, finish, failed, client,
                 opening, messages, spoken>>

\* A conversation that is streamed is followed for one answer only.
MoreAnswers == Len(spoken) < IF opening.stream THEN 1 ELSE MaxAnswers

AnswersPlain(a) ==
  /\ stage = "provider" /\ MoreAnswers /\ ~opening.stream
  /\ stage' = "client"
  /\ messages' = Append(messages, Shaped(kind, Len(spoken) + 1, a))
  /\ spoken' = Append(spoken, SpokenPlain(Len(spoken) + 1, a))
  /\ UNCHANGED <<vars, opening, sent>>

StreamOpens ==
  /\ stage = "provider" /\ MoreAnswers /\ opening.stream
  /\ stage' = "relay"
  /\ UNCHANGED <<vars, opening, messages, spoken, sent>>

Relays ==
  /\ stage = "relay"
  /\ Next
  /\ UNCHANGED conversation

\* The stream has ended, and the next request will have a relay of its own.
StreamDone ==
  /\ stage = "relay" /\ pc = "returned" /\ ~failed
  /\ stage' = "client"
  /\ messages' = Append(messages, Streamed(Len(spoken) + 1))
  /\ spoken' = Append(spoken, SpokenStream(Len(spoken) + 1))
  /\ said' = NothingSaid /\ client' = NothingHeard
  /\ pc' = "scan"
  /\ text' = << >> /\ order' = << >> /\ calls' = NoCalls
  /\ usage' = NoUsage /\ exact' = FALSE /\ finish' = ""
  /\ UNCHANGED <<kind, pending, failed, opening, sent>>

ConversationNext ==
  \/ ClientSpeaks
  \/ \E k \in Kinds : Asks(k)
  \/ \E a \in Answers(sent.offer) : AnswersPlain(a)
  \/ StreamOpens \/ Relays \/ StreamDone

ConversationSpec == ConversationInit /\ [][ConversationNext]_<<vars, conversation>>
-----------------------------------------------------------------------------
(* Properties.                                                             *)

AnyOffer == [tools : BOOLEAN, choice : {"auto", "none", "required"}]
AnyBlock ==
  [type : {"text", "inline", "remote", "call", "result"}, what : Seq(Nat),
   id : Seq(Nat), name : Functions \cup {""}, args : Seq(0 .. 2)]
AnyTurn == [role : {"system", "user", "assistant"}, blocks : Seq(AnyBlock)]
AnyUtterance ==
  [text : Seq(Nat), calls : Seq([name : Functions, args : Seq(0 .. 2)])]

\* Every variable has its type; a history holds every answer.
ConversationTypeOK ==
  /\ stage \in {"client", "handler", "provider", "relay"}
  /\ opening \in [tools : BOOLEAN, choice : {"auto", "none", "required"},
                  stream : BOOLEAN]
  /\ messages \in Seq(AnyMessage) /\ spoken \in Seq(AnyUtterance)
  /\ sent \in [system : Seq(Seq(Nat)), turns : Seq(AnyTurn), offer : AnyOffer]
  /\ Len(Picked(messages, LAMBDA m : m.role = "assistant")) = Len(spoken)
  /\ \A t \in ToSet(sent.turns) : t.role = "system" => kind = "openai"

BlocksSent == FlattenSeq([i \in DOMAIN sent.turns |-> sent.turns[i].blocks])

Of(type, blocks) == Picked(blocks, LAMBDA b : b.type = type)

\* Whichever providers made the calls and whichever gets the results, in
\* whatever order the client gives them: each result that is sent follows a
\* turn with a call it points at, and points at no other call than the one it
\* is the result of.  At gemini that is as far as the name goes (gemini.go:105-
\* 107): of several calls of one function a result does not say which.
ResultsFindTheirCalls ==
  stage = "provider" =>
    LET results == Of("result", BlocksSent)
        answers == Picked(messages, LAMBDA m : m.role = "tool")
        callers == ToSet(Of("call", BlocksSent))
        Points(r, c) == IF kind = "gemini" THEN c.name = r.name ELSE c.id = r.id
    IN  /\ Len(results) = Len(answers)
        /\ \A i \in DOMAIN results :
             IF kind = "gemini" THEN results[i].name = answers[i].of
             ELSE \E b \in callers :
                    b.name = answers[i].of /\ {c \in callers : Points(results[i], c)} = {b}
        /\ \A t \in DOMAIN sent.turns : \A r \in ToSet(sent.turns[t].blocks) :
             r.type = "result" =>
               \E u \in 1 .. t - 1 : \E c \in ToSet(sent.turns[u].blocks) :
                 c.type = "call" /\ Points(r, c)

\* What the providers said in earlier turns, streamed or not, the next one is
\* told in full: the texts and, in order, the calls with their arguments.
HistoryKept ==
  stage = "provider" =>
    LET Retold(t) ==
          Utterance(FlattenSeq([i \in DOMAIN Of("text", t.blocks) |->
                                  Of("text", t.blocks)[i].what]),
                    [i \in DOMAIN Of("call", t.blocks) |->
                       [name |-> Of("call", t.blocks)[i].name,
                        args |-> Arguments(Of("call", t.blocks)[i].args)]])
        turns == Picked(sent.turns, LAMBDA t : t.role = "assistant")
        Silent == Utterance(<< >>, << >>)
    IN  Picked([i \in DOMAIN turns |-> Retold(turns[i])], LAMBDA u : u # Silent)
          = Picked(spoken, LAMBDA u : u # Silent)

\* The texts of a message, and those that reach the provider.
TextsOf(m) == {p.what : p \in {q \in ToSet(m.parts) : q.type = "text"}}
TextsSent == ToSet(sent.system) \cup {b.what : b \in ToSet(BlocksSent)}

\* A text that does not reach the provider is that of a system message or of a
\* tool's result, given as an array of parts.
OnlyArraysLost ==
  stage = "provider" =>
    \A m \in ToSet(messages) :
      TextsOf(m) \subseteq TextsSent \/ (m.array /\ m.role \in {"system", "tool"})

\* The tool_choice of the request is obeyed, whichever provider answers, but
\* gemini's: "none" is answered without calls, "required" with one.
ChoiceObeyed ==
  stage = "client" /\ kind # "gemini" =>
    /\ opening.choice = "none" => Last(messages).calls = << >>
    /\ opening.choice = "required" => Last(messages).calls # << >>

\* "system messages become the top-level `system` field, [...] tool_calls/results
\* become tool_use/tool_result blocks" (anthropic.go:141-143, and gemini.go:86-90
\* likewise): every text of the client reaches the provider.
TextReaches ==
  stage = "provider" => \A m \in ToSet(messages) : TextsOf(m) \subseteq TextsSent
=============================================================================
