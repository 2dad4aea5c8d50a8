------------------------- MODULE StreamRelayProofs -------------------------
(***************************************************************************)
(* Theorems of StreamRelay, for any number of texts, calls, parts of a line*)
(* and reported counts: what a relay rebuilds is what the provider said,   *)
(* and what a client gets is what is kept.                                 *)
(***************************************************************************)
EXTENDS StreamRelay, SumsProofs


-----------------------------------------------------------------------------
(* Repeated application.                                                   *)

\* A function on a set can be applied any number of times.
Iterated(s, n, base, step) ==
  \A i \in 0 .. n : s[i] = IF i = 0 THEN base ELSE step[s[i - 1]]

LEMMA IteratedExists ==
  ASSUME NEW S, NEW base \in S, NEW step \in [S -> S], NEW n \in Nat
  PROVE  \E s \in [0 .. n -> S] : Iterated(s, n, base, step)
<1> DEFINE T == {k \in Nat : \E s \in [0 .. k -> S] : Iterated(s, k, base, step)}
<1>1. 0 \in T
  <2>1. Iterated([i \in 0 .. 0 |-> base], 0, base, step)
    BY DEF Iterated
  <2> QED
    BY <2>1
<1>2. ASSUME NEW k \in Nat, k \in T
      PROVE  k + 1 \in T
  <2>1. PICK s \in [0 .. k -> S] : Iterated(s, k, base, step)
    BY <1>2
  <2> DEFINE t == [i \in 0 .. k + 1 |-> IF i = k + 1 THEN step[s[k]] ELSE s[i]]
  <2>2. t \in [0 .. k + 1 -> S]
    OBVIOUS
  <2>3. ASSUME NEW i \in 0 .. k + 1
        PROVE  t[i] = IF i = 0 THEN base ELSE step[t[i - 1]]
    BY <2>1 DEF Iterated
  <2>4. Iterated(t, k + 1, base, step)
    BY <2>3 DEF Iterated
  <2> QED
    BY <2>2, <2>4
<1> HIDE DEF T
<1>3. Nat \subseteq T
  BY <1>1, <1>2, NatInductionSet
<1> QED
  BY <1>3 DEF T

LEMMA IteratedUnique ==
  ASSUME NEW base, NEW step, NEW n \in Nat, NEW m \in Nat, NEW s, NEW t,
         Iterated(s, n, base, step), Iterated(t, m, base, step), n <= m
  PROVE  \A i \in 0 .. n : s[i] = t[i]
<1> DEFINE T == {i \in Nat : i <= n => s[i] = t[i]}
<1>1. 0 \in T
  BY DEF Iterated
<1>2. ASSUME NEW i \in Nat, i \in T
      PROVE  i + 1 \in T
  <2> SUFFICES ASSUME i + 1 <= n PROVE s[i + 1] = t[i + 1]
    OBVIOUS
  <2>1. i + 1 \in 0 .. n /\ i + 1 \in 0 .. m /\ (i + 1) - 1 = i /\ i + 1 # 0
    OBVIOUS
  <2>2. s[i + 1] = step[s[i]] /\ t[i + 1] = step[t[i]]
    BY <2>1 DEF Iterated
  <2> QED
    BY <1>2, <2>2
<1> HIDE DEF T
<1>3. Nat \subseteq T
  BY <1>1, <1>2, NatInductionSet
<1> QED
  BY <1>3 DEF T

LEMMA Iterates ==
  ASSUME NEW S, NEW base \in S, NEW step \in [S -> S]
  PROVE  \E F \in [Nat -> S] :
           F[0] = base /\ \A n \in Nat : F[n + 1] = step[F[n]]
<1> DEFINE upTo(n) == CHOOSE s \in [0 .. n -> S] : Iterated(s, n, base, step)
           F == [n \in Nat |-> upTo(n)[n]]
<1>1. \A n \in Nat : upTo(n) \in [0 .. n -> S] /\ Iterated(upTo(n), n, base, step)
  BY IteratedExists
<1> HIDE DEF upTo
<1>2. F \in [Nat -> S]
  BY <1>1
<1>3. F[0] = base
  BY <1>1 DEF Iterated
<1>4. ASSUME NEW n \in Nat
      PROVE  F[n + 1] = step[F[n]]
  <2>1. upTo(n + 1)[n + 1] = step[upTo(n + 1)[n]]
    <3>1. n + 1 \in 0 .. n + 1 /\ (n + 1) - 1 = n /\ n + 1 # 0 /\ n + 1 \in Nat
      OBVIOUS
    <3> QED
      BY <1>1, <3>1 DEF Iterated
  <2>2. upTo(n + 1)[n] = upTo(n)[n]
    BY <1>1, IteratedUnique
  <2> QED
    BY <2>1, <2>2
<1> QED
  BY <1>2, <1>3, <1>4
-----------------------------------------------------------------------------
(* What a provider may have said.                                          *)

CallSaid == [index : Indices, sent : 0 .. 2]
SaidRecord == [text : 0 .. MaxText, calls : Seq(CallSaid), finish : Finish, usage : Usage]

\* The indices of the calls are in order, and without gaps but in anthropic's
\* streams.
InOrder(g) ==
  /\ Len(g.calls) <= MaxCalls
  /\ kind # "anthropic" => \A c \in 1 .. Len(g.calls) : g.calls[c].index = c - 1
  /\ \A c, d \in 1 .. Len(g.calls) : c < d => g.calls[c].index < g.calls[d].index
WellSaid(g) == g \in SaidRecord /\ InOrder(g)

\* A part is a piece of text, opens a call or continues one.
TextNext(g, p, h) ==
  /\ g.text < MaxText /\ p = TextPart(g.text + 1)
  /\ h = [g EXCEPT !.text = g.text + 1]
CallOpened(g, p, h) ==
  \E i \in NewIndices(g), pieces \in Openings :
    /\ p = CallPart(i, TRUE, pieces)
    /\ h = [g EXCEPT !.calls = Append(g.calls, [index |-> i, sent |-> Len(pieces)])]
CallGrown(g, p, h) ==
  \E c \in Growing(g), named \in {FALSE, kind = "openai"} :
    /\ p = CallPart(g.calls[c].index, named, <<g.calls[c].sent + 1>>)
    /\ h = [g EXCEPT !.calls = [g.calls EXCEPT ![c].sent = g.calls[c].sent + 1]]

LEMMA SaidFields ==
  ASSUME NEW g \in SaidRecord
  PROVE  /\ g.text \in 0 .. MaxText /\ g.calls \in Seq(CallSaid)
         /\ g.finish \in Finish /\ g.usage \in Usage
         /\ Len(g.calls) \in Nat
         /\ \A c \in 1 .. Len(g.calls) : g.calls[c] \in CallSaid
BY DEF SaidRecord

LEMMA DistinctIndices ==
  ASSUME NEW g, WellSaid(g),
         NEW c \in 1 .. Len(g.calls), NEW d \in 1 .. Len(g.calls),
         g.calls[c].index = g.calls[d].index
  PROVE  c = d
<1>1. Len(g.calls) \in Nat /\ g.calls[c].index \in Nat /\ g.calls[d].index \in Nat
  BY SaidFields DEF WellSaid, CallSaid, Indices
<1>2. c < d \/ d < c \/ c = d
  BY <1>1
<1> QED
  BY <1>1, <1>2 DEF WellSaid, InOrder

\* A call that is opened has an index that comes next.
LEMMA NewIndex ==
  ASSUME NEW g, WellSaid(g), NEW i \in NewIndices(g)
  PROVE  /\ i \in Indices /\ Len(g.calls) < MaxCalls
         /\ kind # "anthropic" => i = Len(g.calls)
         /\ \A c \in 1 .. Len(g.calls) : g.calls[c].index < i
<1> MaxCalls \in Nat
  BY StreamRelayAssumption
<1>1. /\ Len(g.calls) \in Nat /\ Len(g.calls) <= MaxCalls
      /\ \A c \in 1 .. Len(g.calls) : g.calls[c].index \in Nat
  BY SaidFields DEF WellSaid, InOrder, CallSaid, Indices
<1>2. CASE kind # "anthropic"
  <2>1. i = Len(g.calls) /\ i # MaxCalls
    BY <1>2 DEF NewIndices
  <2>2. \A c \in 1 .. Len(g.calls) : g.calls[c].index = c - 1
    BY <1>2 DEF WellSaid, InOrder
  <2> QED
    BY <1>1, <1>2, <2>1, <2>2 DEF Indices
<1>3. CASE kind = "anthropic"
  BY <1>1, <1>3 DEF NewIndices
<1> QED
  BY <1>2, <1>3

\* The pieces of a call's arguments come in order.
UpTo(n) == [i \in 1 .. n |-> i]

LEMMA OpeningPieces ==
  ASSUME NEW pieces \in Openings
  PROVE  Len(pieces) \in 0 .. 2 /\ pieces = UpTo(Len(pieces)) /\ pieces \in Seq(1 .. 2)
<1>1. pieces \in {<< >>, <<1>>, <<1, 2>>}
  BY DEF Openings, Whole
<1>2. CASE pieces = << >>
  BY <1>2 DEF UpTo
<1>3. CASE pieces = <<1>>
  <2>1. Len(<<1>>) = 1 /\ <<1>> \in Seq(1 .. 2)
    OBVIOUS
  <2>2. <<1>> = [i \in 1 .. 1 |-> i]
    OBVIOUS
  <2> QED
    BY <1>3, <2>1, <2>2 DEF UpTo
<1>4. CASE pieces = <<1, 2>>
  <2>1. Len(<<1, 2>>) = 2 /\ <<1, 2>> \in Seq(1 .. 2)
    OBVIOUS
  <2>2. <<1, 2>> = [i \in 1 .. 2 |-> i]
    OBVIOUS
  <2> QED
    BY <1>4, <2>1, <2>2 DEF UpTo
<1> QED
  BY <1>1, <1>2, <1>3, <1>4

LEMMA PartKinds ==
  ASSUME NEW g, NEW x \in Parts(g)
  PROVE  \/ g.text # MaxText /\ x = TextPart(g.text + 1)
         \/ \E i \in NewIndices(g), pieces \in Openings : x = CallPart(i, TRUE, pieces)
         \/ \E c \in Growing(g), named \in {FALSE, kind = "openai"} :
              x = CallPart(g.calls[c].index, named, <<g.calls[c].sent + 1>>)
<1>1. x \in TextParts(g) => g.text # MaxText /\ x = TextPart(g.text + 1)
  BY DEF TextParts
<1>2. x \in OpeningParts(g) =>
        \E i \in NewIndices(g), pieces \in Openings : x = CallPart(i, TRUE, pieces)
  BY DEF OpeningParts
<1>3. x \in GrowingParts(g) =>
        \E c \in Growing(g), named \in {FALSE, kind = "openai"} :
              x = CallPart(g.calls[c].index, named, <<g.calls[c].sent + 1>>)
  BY DEF GrowingParts
<1> QED
  BY <1>1, <1>2, <1>3 DEF Parts

LEMMA PartCases ==
  ASSUME NEW g, WellSaid(g), NEW p \in Parts(g)
  PROVE  \/ TextNext(g, p, Said(g, p))
         \/ CallOpened(g, p, Said(g, p))
         \/ CallGrown(g, p, Said(g, p))
<1>1. \/ g.text # MaxText /\ p = TextPart(g.text + 1)
      \/ \E i \in NewIndices(g), pieces \in Openings : p = CallPart(i, TRUE, pieces)
      \/ \E c \in Growing(g), named \in {FALSE, kind = "openai"} :
           p = CallPart(g.calls[c].index, named, <<g.calls[c].sent + 1>>)
  BY PartKinds
<1>2. CASE g.text # MaxText /\ p = TextPart(g.text + 1)
  <2>1. g.text < MaxText
    BY <1>2, SaidFields, StreamRelayAssumption DEF WellSaid
  <2>2. Said(g, p) = [g EXCEPT !.text = g.text + 1]
    BY <1>2 DEF Said, TextPart, WellSaid, SaidRecord
  <2> QED
    BY <1>2, <2>1, <2>2 DEF TextNext
<1>3. ASSUME NEW i \in NewIndices(g), NEW pieces \in Openings, p = CallPart(i, TRUE, pieces)
      PROVE  CallOpened(g, p, Said(g, p))
  <2>1. p.of = "call" /\ p.index = i /\ p.pieces = pieces
    BY <1>3 DEF CallPart
  <2>2. DOMAIN g.calls = 1 .. Len(g.calls)
    BY SaidFields DEF WellSaid
  <2>3. \A c \in DOMAIN g.calls : g.calls[c].index # i
    BY <2>2, NewIndex, SaidFields DEF WellSaid, CallSaid, Indices
  <2>4. Said(g, p) = [g EXCEPT !.calls = Append(g.calls, [index |-> i, sent |-> Len(pieces)])]
    BY <2>1, <2>3 DEF Said, WellSaid, SaidRecord
  <2> QED
    BY <1>3, <2>4 DEF CallOpened
<1>4. ASSUME NEW c \in Growing(g), NEW named \in {FALSE, kind = "openai"},
             p = CallPart(g.calls[c].index, named, <<g.calls[c].sent + 1>>)
      PROVE  CallGrown(g, p, Said(g, p))
  <2>1. p.of = "call" /\ p.index = g.calls[c].index
    BY <1>4 DEF CallPart
  <2>2. c \in 1 .. Len(g.calls) /\ DOMAIN g.calls = 1 .. Len(g.calls)
    BY SaidFields DEF Growing, WellSaid
  <2>3. Said(g, p) = [g EXCEPT !.calls = [d \in DOMAIN g.calls |->
                                IF g.calls[d].index = p.index
                                THEN [g.calls[d] EXCEPT !.sent = @ + 1] ELSE g.calls[d]]]
    <3>1. p.of # "text" /\ ~ \A d \in DOMAIN g.calls : g.calls[d].index # p.index
      BY <2>1, <2>2
    <3>2. p.of = "call"
      BY <2>1
    <3> QED
      BY <3>1, <3>2 DEF Said
  <2>4. \A d \in DOMAIN g.calls : g.calls[d].index = p.index <=> d = c
    BY <2>1, <2>2, DistinctIndices
  <2>5. [d \in DOMAIN g.calls |-> IF g.calls[d].index = p.index
                                  THEN [g.calls[d] EXCEPT !.sent = @ + 1] ELSE g.calls[d]]
          = [g.calls EXCEPT ![c].sent = g.calls[c].sent + 1]
    BY <2>2, <2>4
  <2>6. Said(g, p) = [g EXCEPT !.calls = [g.calls EXCEPT ![c].sent = g.calls[c].sent + 1]]
    BY <2>3, <2>5
  <2> QED
    BY <1>4, <2>6 DEF CallGrown
<1> QED
  BY <1>1, <1>2, <1>3, <1>4


\* What has been said next, count by count and call by call.
LEMMA TextNextEffect ==
  ASSUME NEW g, WellSaid(g), NEW p, NEW h, TextNext(g, p, h)
  PROVE  /\ WellSaid(h) /\ h.text = g.text + 1 /\ h.calls = g.calls
         /\ h.finish = g.finish /\ h.usage = g.usage
         /\ p.of = "text" /\ p.pieces = <<h.text>> /\ p \in Part
<1> MaxText \in Nat
  BY StreamRelayAssumption
<1>1. /\ h.text = g.text + 1 /\ h.calls = g.calls
      /\ h.finish = g.finish /\ h.usage = g.usage
  BY DEF TextNext, WellSaid, SaidRecord
<1>2. g.text + 1 \in 0 .. MaxText
  BY SaidFields DEF TextNext, WellSaid
<1>3. h \in SaidRecord
  BY <1>2 DEF TextNext, WellSaid, SaidRecord
<1>4. InOrder(h)
  BY <1>1 DEF WellSaid, InOrder
<1>5. p.of = "text" /\ p.pieces = <<h.text>>
  BY <1>1 DEF TextNext, TextPart
<1>6. 0 \in Indices /\ <<g.text + 1>> \in Seq(Nat)
  BY <1>2, StreamRelayAssumption DEF Indices
<1>7. p \in Part
  BY <1>6 DEF TextNext, TextPart, Part
<1> QED
  BY <1>1, <1>3, <1>4, <1>5, <1>7 DEF WellSaid

OpenedAt(g, p, h, n) ==
  /\ n = Len(g.calls) + 1 /\ Len(h.calls) = n
  /\ \A c \in 1 .. Len(g.calls) : h.calls[c] = g.calls[c]
  /\ p.index = h.calls[n].index /\ p.pieces = UpTo(h.calls[n].sent)
GrownAt(g, p, h, c) ==
  /\ Len(h.calls) = Len(g.calls)
  /\ p.index = g.calls[c].index /\ p.pieces = <<h.calls[c].sent>>
  /\ h.calls[c].index = g.calls[c].index
  /\ h.calls[c].sent = g.calls[c].sent + 1
  /\ \A d \in 1 .. Len(g.calls) : d # c => h.calls[d] = g.calls[d]

LEMMA CallOpenedEffect ==
  ASSUME NEW g, WellSaid(g), NEW p, NEW h, CallOpened(g, p, h)
  PROVE  /\ WellSaid(h) /\ h.text = g.text /\ h.finish = g.finish /\ h.usage = g.usage
         /\ p.of = "call" /\ p.named = TRUE /\ p \in Part
         /\ OpenedAt(g, p, h, Len(g.calls) + 1)
<1> MaxCalls \in Nat
  BY StreamRelayAssumption
<1>1. PICK i \in NewIndices(g), pieces \in Openings :
        /\ p = CallPart(i, TRUE, pieces)
        /\ h = [g EXCEPT !.calls = Append(g.calls, [index |-> i, sent |-> Len(pieces)])]
  BY DEF CallOpened
<1>2. /\ i \in Indices /\ Len(g.calls) < MaxCalls
      /\ kind # "anthropic" => i = Len(g.calls)
      /\ \A c \in 1 .. Len(g.calls) : g.calls[c].index < i
  BY NewIndex
<1>3. Len(pieces) \in 0 .. 2 /\ pieces = UpTo(Len(pieces)) /\ pieces \in Seq(1 .. 2)
  BY OpeningPieces
<1> DEFINE call == [index |-> i, sent |-> Len(pieces)]
<1>4. call \in CallSaid /\ call.index = i /\ call.sent = Len(pieces)
  BY <1>2, <1>3 DEF CallSaid
<1>5. h.calls = Append(g.calls, call) /\ h.text = g.text /\ g.calls \in Seq(CallSaid)
      /\ h.finish = g.finish /\ h.usage = g.usage
  BY <1>1, SaidFields DEF WellSaid, SaidRecord
<1> HIDE DEF call
<1>6. /\ h.calls \in Seq(CallSaid) /\ Len(g.calls) \in Nat
      /\ Len(h.calls) = Len(g.calls) + 1
      /\ \A c \in 1 .. Len(g.calls) : h.calls[c] = g.calls[c]
      /\ h.calls[Len(g.calls) + 1] = call
  BY <1>4, <1>5
<1>7. h \in SaidRecord
  BY <1>1, <1>5, <1>6 DEF WellSaid, SaidRecord
<1>8. InOrder(h)
  <2>1. Len(h.calls) <= MaxCalls
    BY <1>2, <1>6
  <2>2. \A c \in 1 .. Len(h.calls) :
           c \in 1 .. Len(g.calls) \/ (c = Len(g.calls) + 1 /\ h.calls[c].index = i)
    BY <1>4, <1>6
  <2>3. ASSUME kind # "anthropic", NEW c \in 1 .. Len(h.calls)
        PROVE  h.calls[c].index = c - 1
    <3>1. CASE c \in 1 .. Len(g.calls)
      BY <1>6, <2>3, <3>1 DEF WellSaid, InOrder
    <3>2. CASE c = Len(g.calls) + 1 /\ h.calls[c].index = i
      BY <1>2, <1>6, <2>3, <3>2
    <3> QED
      BY <2>2, <3>1, <3>2
  <2>4. ASSUME NEW c \in 1 .. Len(h.calls), NEW d \in 1 .. Len(h.calls), c < d
        PROVE  h.calls[c].index < h.calls[d].index
    <3>1. c \in 1 .. Len(g.calls)
      BY <1>6, <2>4
    <3>2. CASE d = Len(g.calls) + 1 /\ h.calls[d].index = i
      <4>1. h.calls[c] = g.calls[c] /\ g.calls[c].index < i
        BY <1>2, <1>6, <3>1
      <4> QED
        BY <3>2, <4>1
    <3>3. CASE d \in 1 .. Len(g.calls)
      BY <1>6, <2>4, <3>1, <3>3 DEF WellSaid, InOrder
    <3> QED
      BY <2>2, <3>2, <3>3
  <2> QED
    BY <2>1, <2>3, <2>4 DEF InOrder
<1>9. /\ p.of = "call" /\ p.named = TRUE /\ p.index = i /\ p.pieces = pieces
  BY <1>1 DEF CallPart
<1>10. p \in Part
  BY <1>1, <1>2, <1>3 DEF CallPart, Part
<1>11. OpenedAt(g, p, h, Len(g.calls) + 1)
  BY <1>3, <1>4, <1>6, <1>9 DEF OpenedAt
<1> QED
  BY <1>5, <1>7, <1>8, <1>9, <1>10, <1>11 DEF WellSaid

LEMMA CallGrownEffect ==
  ASSUME NEW g, WellSaid(g), NEW p, NEW h, CallGrown(g, p, h)
  PROVE  /\ WellSaid(h) /\ h.text = g.text /\ h.finish = g.finish /\ h.usage = g.usage
         /\ p.of = "call" /\ p \in Part
         /\ \E c \in 1 .. Len(g.calls) : GrownAt(g, p, h, c)
         /\ kind # "openai" => p.named = FALSE
         /\ kind # "gemini"
<1>1. PICK c \in Growing(g), named \in {FALSE, kind = "openai"} :
        /\ p = CallPart(g.calls[c].index, named, <<g.calls[c].sent + 1>>)
        /\ h = [g EXCEPT !.calls = [g.calls EXCEPT ![c].sent = g.calls[c].sent + 1]]
  BY DEF CallGrown
<1>2. /\ c \in 1 .. Len(g.calls) /\ g.calls[c].sent < 2
  BY DEF Growing
<1>3. g.calls \in Seq(CallSaid) /\ g.calls[c] \in CallSaid /\ Len(g.calls) \in Nat
  BY <1>2, SaidFields DEF WellSaid
<1> DEFINE grown == [g.calls[c] EXCEPT !.sent = g.calls[c].sent + 1]
<1>4. grown \in CallSaid /\ grown.index = g.calls[c].index /\ grown.sent = g.calls[c].sent + 1
  BY <1>2, <1>3 DEF CallSaid
<1>5. /\ h.calls = [g.calls EXCEPT ![c] = grown] /\ h.text = g.text
      /\ h.finish = g.finish /\ h.usage = g.usage
  BY <1>1 DEF WellSaid, SaidRecord
<1> HIDE DEF grown
<1>6. /\ h.calls \in Seq(CallSaid) /\ Len(h.calls) = Len(g.calls)
      /\ h.calls[c] = grown
      /\ \A d \in 1 .. Len(g.calls) : d # c => h.calls[d] = g.calls[d]
  BY <1>2, <1>3, <1>4, <1>5
<1>7. h \in SaidRecord
  BY <1>1, <1>5, <1>6 DEF WellSaid, SaidRecord
<1>8. InOrder(h)
  <2>1. \A d \in 1 .. Len(g.calls) : h.calls[d].index = g.calls[d].index
    BY <1>4, <1>6
  <2> QED
    BY <1>6, <2>1 DEF WellSaid, InOrder
<1>9. /\ p.of = "call" /\ p.named = named /\ p.index = g.calls[c].index
      /\ p.pieces = <<g.calls[c].sent + 1>>
  BY <1>1 DEF CallPart
<1>10. p \in Part
  <2>1. g.calls[c].index \in Indices /\ <<g.calls[c].sent + 1>> \in Seq(Nat)
    BY <1>3 DEF CallSaid
  <2>2. named \in BOOLEAN
    OBVIOUS
  <2> QED
    BY <1>1, <2>1, <2>2 DEF CallPart, Part
<1>11. GrownAt(g, p, h, c)
  BY <1>4, <1>6, <1>9 DEF GrownAt
<1>12. kind # "openai" => p.named = FALSE
  BY <1>9
<1>13. kind # "gemini"
  BY DEF Growing
<1> QED
  BY <1>13, <1>2, <1>5, <1>7, <1>8, <1>9, <1>10, <1>11, <1>12 DEF WellSaid
-----------------------------------------------------------------------------
(* Pieces in order.                                                        *)

LEMMA UpToIs ==
  ASSUME NEW n \in Nat
  PROVE  /\ UpTo(n) \in Seq(1 .. n) /\ UpTo(n) \in Seq(Nat) /\ Len(UpTo(n)) = n
         /\ \A m \in Nat : n <= m => UpTo(n) \in Seq(1 .. m)
         /\ \A i \in 1 .. n : UpTo(n)[i] = i
BY DEF UpTo

LEMMA UpToNext ==
  ASSUME NEW n \in Nat
  PROVE  UpTo(n) \o <<n + 1>> = UpTo(n + 1)
<1>1. UpTo(n) \o <<n + 1>> \in Seq(Nat) /\ UpTo(n + 1) \in Seq(Nat)
  BY UpToIs
<1>2. Len(UpTo(n) \o <<n + 1>>) = n + 1 /\ Len(UpTo(n + 1)) = n + 1
  BY UpToIs
<1>3. \A i \in 1 .. n + 1 : (UpTo(n) \o <<n + 1>>)[i] = UpTo(n + 1)[i]
  BY UpToIs DEF UpTo
<1> DEFINE longer == UpTo(n) \o <<n + 1>>
<1>4. longer \in Seq(Nat) /\ Len(longer) = n + 1
  BY <1>1, <1>2
<1>5. \A i \in 1 .. n + 1 : longer[i] = i
  BY <1>3 DEF UpTo
<1> HIDE DEF longer
<1>6. longer = [i \in 1 .. n + 1 |-> longer[i]]
  BY <1>4
<1> QED
  BY <1>5, <1>6 DEF UpTo, longer

LEMMA UpToPrefix ==
  ASSUME NEW n \in Nat, NEW m \in Nat, n <= m
  PROVE  IsPrefix(UpTo(n), UpTo(m))
<1>1. Len(UpTo(n)) = n /\ Len(UpTo(m)) = m
  BY UpToIs
<1>2. SubSeq(UpTo(n), 1, n) = [i \in 1 .. n |-> i] /\ SubSeq(UpTo(m), 1, n) = [i \in 1 .. n |-> i]
  BY UpToIs DEF UpTo
<1> QED
  BY <1>1, <1>2 DEF IsPrefix

\* The arguments of a call of which n pieces have come.
ArgsOf(n) == IF kind = "gemini" /\ n = 0 THEN EmptyObject ELSE UpTo(n)

LEMMA ArgsOfTyped ==
  ASSUME NEW n \in 0 .. 2
  PROVE  ArgsOf(n) \in Seq(0 .. 2) /\ UpTo(n) \in Seq(0 .. 2)
<1>1. n \in Nat /\ n <= 2
  OBVIOUS
<1>2. UpTo(n) \in Seq(1 .. 2)
  BY <1>1, UpToIs
<1>3. UpTo(n) \in Seq(0 .. 2)
  BY <1>1, <1>2, UpToIs
<1>4. EmptyObject \in Seq(0 .. 2)
  BY DEF EmptyObject
<1> QED
  BY <1>3, <1>4 DEF ArgsOf

\* A call opens with the pieces that were sent, or with {}.
LEMMA PiecesOpened ==
  ASSUME NEW p, NEW n \in 0 .. 2, p.pieces = UpTo(n)
  PROVE  Pieces(p) = ArgsOf(n)
<1>1. n \in Nat
  OBVIOUS
<1>2. Len(UpTo(n)) = n /\ UpTo(n) \in Seq(Nat)
  BY <1>1, UpToIs
<1>3. UpTo(n) = << >> <=> n = 0
  BY <1>1, <1>2 DEF UpTo
<1> QED
  BY <1>3 DEF Pieces, ArgsOf

\* A call that is continued had no {}: only others than gemini's are.
LEMMA ArgsGrown ==
  ASSUME NEW n \in 0 .. 1, kind # "gemini"
  PROVE  ArgsOf(n) \o <<n + 1>> = ArgsOf(n + 1)
BY UpToNext DEF ArgsOf

\* The arguments are whole when both pieces have come.
LEMMA WholeAtTwo ==
  ASSUME NEW n \in 0 .. 2
  PROVE  Arguments(ArgsOf(n)) = IF n = 2 THEN Whole ELSE EmptyObject
<1>1. Len(Whole) = 2 /\ Len(EmptyObject) = 1 /\ EmptyObject[1] = 0
  BY DEF Whole, EmptyObject
<1>2. Whole = UpTo(2)
  BY DEF Whole, UpTo
<1>3. n # 2 => UpTo(n) # Whole
  <2>1. Len(UpTo(n)) = n
    BY UpToIs
  <2> QED
    BY <1>1, <2>1
<1>4. EmptyObject # Whole
  BY <1>1
<1>5. CASE ArgsOf(n) = EmptyObject
  <2>1. n # 2
    BY <1>2, <1>4, <1>5 DEF ArgsOf
  <2> QED
    BY <1>5, <2>1 DEF Arguments
<1>6. CASE ArgsOf(n) # EmptyObject
  <2>1. ArgsOf(n) = UpTo(n)
    BY <1>6 DEF ArgsOf
  <2> QED
    BY <1>2, <1>3, <1>6, <2>1 DEF Arguments
<1> QED
  BY <1>5, <1>6
-----------------------------------------------------------------------------
(* What the relay keeps, and what the client has.                          *)

\* The relay has accumulated just what g says.
AccumulatedAs(g) ==
  /\ text = UpTo(g.text)
  /\ order = [c \in 1 .. Len(g.calls) |-> g.calls[c].index]
  /\ calls \in [Indices -> Call]
  /\ \A c \in 1 .. Len(g.calls) :
       calls[g.calls[c].index] = [seen |-> TRUE, id |-> g.calls[c].index, seq |-> c - 1,
                                  args |-> ArgsOf(g.calls[c].sent)]
  /\ \A i \in Indices : (\A c \in 1 .. Len(g.calls) : g.calls[c].index # i) => calls[i] = Unseen

\* The client has just what g says.
HeardAs(g) ==
  /\ client.text = UpTo(g.text)
  /\ client \in [text : Seq(1 .. MaxText), calls : [Indices -> Call], finish : Finish]
  /\ \A i \in Indices :
       client.calls[i] =
         IF i < Len(g.calls)
         THEN [seen |-> TRUE, id |-> g.calls[i + 1].index, seq |-> 0,
               args |-> ArgsOf(g.calls[i + 1].sent)]
         ELSE Unseen

\* The fields of a call that has been opened.
LEMMA CallTypes ==
  /\ Unseen \in Call /\ Unseen.seen = FALSE
  /\ \A i \in Indices, q \in Indices, n \in 0 .. 2 :
       [seen |-> TRUE, id |-> i, seq |-> q, args |-> ArgsOf(n)] \in Call
<1>1. 0 \in Indices /\ << >> \in Seq(0 .. 2)
  BY StreamRelayAssumption DEF Indices
<1> QED
  BY <1>1, ArgsOfTyped DEF Unseen, Call

\* Joining the pieces of a call's arguments.
LEMMA SameCall ==
  ASSUME NEW x \in Call, NEW y \in Call,
         x.seen = y.seen, x.id = y.id, x.seq = y.seq, x.args = y.args
  PROVE  x = y
BY DEF Call

LEMMA ArgsReplaced ==
  ASSUME NEW r \in Call, NEW args \in Seq(0 .. 2)
  PROVE  LET x == [r EXCEPT !.args = args]
         IN  /\ x \in Call /\ x.seen = r.seen /\ x.id = r.id /\ x.seq = r.seq
             /\ x.args = args
BY DEF Call

LEMMA CallFields ==
  ASSUME NEW id \in Indices, NEW seq \in Indices, NEW args \in Seq(0 .. 2)
  PROVE  LET x == [seen |-> TRUE, id |-> id, seq |-> seq, args |-> args]
         IN  /\ x \in Call /\ x.seen = TRUE /\ x.id = id /\ x.seq = seq /\ x.args = args
BY DEF Call

LEMMA AccumulateText ==
  ASSUME NEW g, WellSaid(g), NEW p, NEW h, TextNext(g, p, h),
         AccumulatedAs(g), Accumulate(p), kind' = kind
  PROVE  AccumulatedAs(h)'
<1>1. /\ h.text = g.text + 1 /\ h.calls = g.calls
      /\ p.of = "text" /\ p.pieces = <<h.text>>
  BY TextNextEffect
<1>2. text' = text \o p.pieces /\ order' = order /\ calls' = calls
  BY <1>1 DEF Accumulate, Joined, Opens
<1>3. g.text \in Nat
  BY SaidFields, StreamRelayAssumption DEF WellSaid
<1>4. text' = UpTo(h.text)
  BY <1>1, <1>2, <1>3, UpToNext DEF AccumulatedAs
<1> QED
  BY <1>1, <1>2, <1>4 DEF AccumulatedAs, ArgsOf

LEMMA AccumulateOpened ==
  ASSUME NEW g, WellSaid(g), NEW p, NEW h, CallOpened(g, p, h),
         AccumulatedAs(g), Accumulate(p), kind' = kind
  PROVE  AccumulatedAs(h)'
<1> DEFINE n == Len(g.calls)
           i == h.calls[n + 1].index
<1> MaxCalls \in Nat
  BY StreamRelayAssumption
<1>1. /\ WellSaid(h) /\ h.text = g.text /\ Len(h.calls) = n + 1
      /\ \A c \in 1 .. n : h.calls[c] = g.calls[c]
      /\ p.of = "call" /\ p.named = TRUE
      /\ p.index = i /\ p.pieces = UpTo(h.calls[n + 1].sent)
  <2>1. WellSaid(h) /\ h.text = g.text /\ p.of = "call" /\ p.named = TRUE
    BY CallOpenedEffect
  <2>2. OpenedAt(g, p, h, n + 1)
    BY CallOpenedEffect
  <2> QED
    BY <2>1, <2>2 DEF OpenedAt
<1>2. n \in Nat /\ n + 1 \in 1 .. Len(h.calls) /\ n <= MaxCalls /\ n \in Indices
  BY <1>1, SaidFields DEF WellSaid, InOrder, Indices
<1>3. i \in Indices /\ h.calls[n + 1].sent \in 0 .. 2
  BY <1>1, <1>2, SaidFields DEF WellSaid, CallSaid
<1>4. \A c \in 1 .. n : g.calls[c].index # i /\ h.calls[c].index # i
  <2>1. \A c \in 1 .. n : c \in 1 .. Len(h.calls) /\ c # n + 1
    BY <1>1, <1>2
  <2>2. \A c \in 1 .. n : h.calls[c].index # i
    BY <1>1, <1>2, <2>1, DistinctIndices
  <2> QED
    BY <1>1, <2>2
<1>5. calls[i] = Unseen
  BY <1>3, <1>4 DEF AccumulatedAs
<1>6. Opens(p)
  BY <1>1, <1>5, CallTypes DEF Opens
<1>7. Len(order) = n
  BY <1>2 DEF AccumulatedAs
<1> DEFINE call == [seen |-> TRUE, id |-> i, seq |-> n, args |-> ArgsOf(h.calls[n + 1].sent)]
<1>8. /\ text' = text /\ order' = Append(order, i)
      /\ calls' = [calls EXCEPT ![i] = call]
  <2>1. Pieces(p) = ArgsOf(h.calls[n + 1].sent)
    BY <1>1, <1>3, PiecesOpened
  <2> QED
    BY <1>1, <1>6, <1>7, <2>1 DEF Accumulate
<1>9. call \in Call
  BY <1>2, <1>3, CallTypes
<1> HIDE DEF call
<1>10. /\ calls' \in [Indices -> Call] /\ calls'[i] = call
       /\ \A j \in Indices : j # i => calls'[j] = calls[j]
  BY <1>3, <1>8, <1>9 DEF AccumulatedAs
<1>11. order' = [c \in 1 .. Len(h.calls) |-> h.calls[c].index]
  <2>1. order = [c \in 1 .. n |-> g.calls[c].index] /\ order \in Seq(Indices)
    BY <1>2, SaidFields DEF AccumulatedAs, WellSaid, CallSaid
  <2>2. Append(order, i) = [c \in 1 .. n + 1 |-> IF c = n + 1 THEN i ELSE order[c]]
    BY <1>2, <1>3, <1>7, <2>1
  <2>3. \A c \in 1 .. n + 1 : (IF c = n + 1 THEN i ELSE order[c]) = h.calls[c].index
    <3>1. \A c \in 1 .. n + 1 : c = n + 1 \/ c \in 1 .. n
      BY <1>2
    <3>2. \A c \in 1 .. n : order[c] = h.calls[c].index
      BY <1>1, <2>1
    <3> QED
      BY <3>1, <3>2
  <2> QED
    BY <1>1, <1>8, <2>2, <2>3
<1>12. ASSUME NEW c \in 1 .. Len(h.calls)
       PROVE  calls'[h.calls[c].index] =
                [seen |-> TRUE, id |-> h.calls[c].index, seq |-> c - 1,
                 args |-> ArgsOf(h.calls[c].sent)]
  <2>1. CASE c = n + 1
    BY <1>2, <1>10, <2>1 DEF call
  <2>2. CASE c # n + 1
    <3>1. c \in 1 .. n
      BY <1>1, <1>2, <2>2
    <3>2. h.calls[c] = g.calls[c] /\ g.calls[c].index \in Indices /\ g.calls[c].index # i
      BY <1>1, <1>4, <3>1, SaidFields DEF WellSaid, CallSaid
    <3> QED
      BY <1>10, <3>1, <3>2 DEF AccumulatedAs
  <2> QED
    BY <2>1, <2>2
<1>13. ASSUME NEW j \in Indices, \A c \in 1 .. Len(h.calls) : h.calls[c].index # j
       PROVE  calls'[j] = Unseen
  <2>1. j # i
    BY <1>2, <1>13
  <2>2. \A c \in 1 .. n : c \in 1 .. Len(h.calls) /\ h.calls[c] = g.calls[c]
    BY <1>1, <1>2
  <2>3. \A c \in 1 .. n : g.calls[c].index # j
    BY <1>13, <2>2
  <2> QED
    BY <1>10, <2>1, <2>3 DEF AccumulatedAs
<1>14. text' = UpTo(h.text)
  BY <1>1, <1>8 DEF AccumulatedAs
<1> QED
  BY <1>10, <1>11, <1>12, <1>13, <1>14 DEF AccumulatedAs, ArgsOf

LEMMA AccumulateGrown ==
  ASSUME NEW g, WellSaid(g), NEW p, NEW h, CallGrown(g, p, h),
         AccumulatedAs(g), Accumulate(p), kind' = kind
  PROVE  AccumulatedAs(h)'
<1>1. /\ WellSaid(h) /\ h.text = g.text
      /\ p.of = "call" /\ (kind # "openai" => p.named = FALSE) /\ kind # "gemini"
  BY CallGrownEffect
<1>2. PICK c \in 1 .. Len(g.calls) : GrownAt(g, p, h, c)
  BY CallGrownEffect
<1>3. /\ Len(h.calls) = Len(g.calls)
       /\ p.index = g.calls[c].index /\ p.pieces = <<h.calls[c].sent>>
       /\ h.calls[c].index = g.calls[c].index
       /\ h.calls[c].sent = g.calls[c].sent + 1
       /\ \A d \in 1 .. Len(g.calls) : d # c => h.calls[d] = g.calls[d]
  BY <1>2 DEF GrownAt
<1>4. /\ g.calls[c].index \in Indices /\ g.calls[c].sent \in 0 .. 2
      /\ h.calls[c].sent \in 0 .. 2
      /\ Len(g.calls) \in Nat
  BY <1>1, <1>3, SaidFields DEF WellSaid, CallSaid
<1> DEFINE i == g.calls[c].index
           call == [seen |-> TRUE, id |-> i, seq |-> c - 1, args |-> ArgsOf(g.calls[c].sent)]
           grown == [seen |-> TRUE, id |-> i, seq |-> c - 1, args |-> ArgsOf(h.calls[c].sent)]
<1>5. calls[i] = call
  BY DEF AccumulatedAs
<1>6. ~Opens(p)
  BY <1>1, <1>3, <1>5 DEF Opens
<1>7. /\ text' = text /\ order' = order
      /\ calls' = [calls EXCEPT ![i].args = @ \o p.pieces]
  BY <1>1, <1>3, <1>6 DEF Accumulate, Joined
<1>8. ArgsOf(g.calls[c].sent) \o p.pieces = ArgsOf(h.calls[c].sent)
  <2>1. p.pieces = <<g.calls[c].sent + 1>> /\ g.calls[c].sent \in 0 .. 1
    BY <1>3, <1>4
  <2> QED
    BY <1>1, <1>3, <2>1, ArgsGrown
<1>9. c - 1 \in Indices /\ ArgsOf(h.calls[c].sent) \in Seq(0 .. 2)
  <2>1. c - 1 \in Indices
    BY <1>4, StreamRelayAssumption DEF WellSaid, InOrder, Indices
  <2> QED
    BY <1>4, <2>1, ArgsOfTyped
<1>10. calls' = [calls EXCEPT ![i] = grown] /\ grown \in Call
  <2>1. calls \in [Indices -> Call] /\ i \in Indices
    BY <1>4 DEF AccumulatedAs
  <2>2. grown \in Call
    BY <1>4, <1>9, CallTypes
  <2>3. calls[i] = [seen |-> TRUE, id |-> i, seq |-> c - 1, args |-> ArgsOf(g.calls[c].sent)]
    BY <1>5
  <2> DEFINE b == ArgsOf(h.calls[c].sent)
             a == ArgsOf(g.calls[c].sent)
             pieces == p.pieces
             q == c - 1
  <2>4. a \o pieces = b /\ b \in Seq(0 .. 2)
    BY <1>8, <1>9
  <2>5. calls[i] = [seen |-> TRUE, id |-> i, seq |-> q, args |-> a] /\ q \in Indices
    BY <1>9, <2>3
  <2> HIDE DEF i, a, b, pieces, q
  <2> DEFINE r == calls[i]
             x == [r EXCEPT !.args = b]
             y == [seen |-> TRUE, id |-> i, seq |-> q, args |-> b]
  <2>6. r \in Call /\ r.seen = TRUE /\ r.id = i /\ r.seq = q /\ r.args = a
    <3>1. r \in Call
      BY <2>1
    <3>2. r = [seen |-> TRUE, id |-> i, seq |-> q, args |-> a]
      BY <2>5
    <3> HIDE DEF r
    <3>3. r.seen = TRUE /\ r.id = i /\ r.seq = q /\ r.args = a
      BY <3>2
    <3> QED
      BY <3>1, <3>3
  <2>7. x = y
    <3>1. x \in Call /\ x.seen = r.seen /\ x.id = r.id /\ x.seq = r.seq /\ x.args = b
      BY <2>4, <2>6, ArgsReplaced
    <3>2. y \in Call /\ y.seen = TRUE /\ y.id = i /\ y.seq = q /\ y.args = b
      BY <2>1, <2>4, <2>5, CallFields
    <3>3. x.id = y.id /\ x.seen = y.seen /\ x.seq = y.seq /\ x.args = y.args
      BY <2>6, <3>1, <3>2
    <3> HIDE DEF x, y
    <3> QED
      BY <3>1, <3>2, <3>3, SameCall
  <2>8. [calls EXCEPT ![i].args = @ \o pieces] = [calls EXCEPT ![i] = x]
    BY <2>4, <2>6
  <2>9. [calls EXCEPT ![i].args = @ \o pieces] = [calls EXCEPT ![i] = y]
    BY <2>7, <2>8
  <2> USE DEF i, a, b, pieces, q
  <2> QED
    BY <1>7, <2>2, <2>9
<1> HIDE DEF call, grown
<1>11. /\ calls' \in [Indices -> Call] /\ calls'[i] = grown
       /\ \A j \in Indices : j # i => calls'[j] = calls[j]
  BY <1>4, <1>10 DEF AccumulatedAs
<1>12. \A d \in 1 .. Len(g.calls) : h.calls[d].index = g.calls[d].index
  BY <1>3
<1>13. order' = [d \in 1 .. Len(h.calls) |-> h.calls[d].index]
  BY <1>1, <1>7, <1>12, <1>3 DEF AccumulatedAs
<1>14. ASSUME NEW d \in 1 .. Len(h.calls)
       PROVE  calls'[h.calls[d].index] =
                [seen |-> TRUE, id |-> h.calls[d].index, seq |-> d - 1,
                 args |-> ArgsOf(h.calls[d].sent)]
  <2>1. CASE d = c
    BY <1>3, <1>11, <2>1 DEF grown
  <2>2. CASE d # c
    <3>1. h.calls[d] = g.calls[d] /\ g.calls[d].index \in Indices /\ g.calls[d].index # i
      BY <1>1, <1>3, <2>2, SaidFields, DistinctIndices DEF WellSaid, CallSaid
    <3> QED
      BY <1>11, <1>3, <3>1 DEF AccumulatedAs
  <2> QED
    BY <2>1, <2>2
<1>15. ASSUME NEW j \in Indices, \A d \in 1 .. Len(h.calls) : h.calls[d].index # j
       PROVE  calls'[j] = Unseen
  BY <1>11, <1>12, <1>15, <1>3 DEF AccumulatedAs
<1>16. text' = UpTo(h.text)
  BY <1>1, <1>7 DEF AccumulatedAs
<1> QED
  BY <1>11, <1>13, <1>14, <1>15, <1>16 DEF AccumulatedAs, ArgsOf

\* Whatever the next part is: it is accumulated as said.
LEMMA AccumulateAsSaid ==
  ASSUME NEW g, WellSaid(g), NEW p \in Parts(g), NEW h, h = Said(g, p),
         AccumulatedAs(g), Accumulate(p), kind' = kind
  PROVE  AccumulatedAs(h)'
BY PartCases, AccumulateText, AccumulateOpened, AccumulateGrown

\* What the client has after one more part.
LEMMA HeardText ==
  ASSUME NEW g, WellSaid(g), NEW p, NEW h, TextNext(g, p, h),
         HeardAs(g), NEW i, client' = Heard(p, i), kind' = kind
  PROVE  HeardAs(h)' /\ client'.finish = client.finish
<1>1. /\ WellSaid(h) /\ h.text = g.text + 1 /\ h.calls = g.calls
      /\ p.of = "text" /\ p.pieces = <<h.text>>
  BY TextNextEffect
<1>2. g.text \in Nat /\ h.text \in 0 .. MaxText /\ MaxText \in Nat
  BY <1>1, SaidFields, StreamRelayAssumption DEF WellSaid
<1>3. client.text \o p.pieces = UpTo(h.text)
  BY <1>1, <1>2, UpToNext DEF HeardAs
<1>4. UpTo(h.text) \in Seq(1 .. MaxText)
  BY <1>2, UpToIs
<1>5. client' = [client EXCEPT !.text = UpTo(h.text)]
  BY <1>1, <1>3 DEF Heard
<1>6. /\ client'.text = UpTo(h.text) /\ client'.calls = client.calls
      /\ client'.finish = client.finish
      /\ client' \in [text : Seq(1 .. MaxText), calls : [Indices -> Call], finish : Finish]
  BY <1>4, <1>5 DEF HeardAs
<1> QED
  BY <1>1, <1>6 DEF HeardAs, ArgsOf

LEMMA HeardCall ==
  ASSUME client \in [text : Seq(1 .. MaxText), calls : [Indices -> Call], finish : Finish],
         NEW i \in Indices, NEW x \in Call, client' = [client EXCEPT !.calls[i] = x]
  PROVE  /\ client' \in [text : Seq(1 .. MaxText), calls : [Indices -> Call],
                         finish : Finish]
         /\ client'.text = client.text /\ client'.finish = client.finish
         /\ client'.calls[i] = x
         /\ \A j \in Indices : j # i => client'.calls[j] = client.calls[j]
<1> DEFINE after == [client.calls EXCEPT ![i] = x]
<1>1. /\ after \in [Indices -> Call] /\ after[i] = x
      /\ \A j \in Indices : j # i => after[j] = client.calls[j]
  OBVIOUS
<1>2. client' = [client EXCEPT !.calls = after]
  OBVIOUS
<1> HIDE DEF after
<1>3. /\ client' \in [text : Seq(1 .. MaxText), calls : [Indices -> Call], finish : Finish]
      /\ client'.text = client.text /\ client'.finish = client.finish
      /\ client'.calls = after
  BY <1>1, <1>2
<1> QED
  BY <1>1, <1>3

LEMMA UnseenOpened ==
  ASSUME NEW id \in Indices, NEW args \in Seq(0 .. 2)
  PROVE  LET x == [Unseen EXCEPT !.seen = TRUE, !.id = id, !.args = args]
         IN  x = [seen |-> TRUE, id |-> id, seq |-> 0, args |-> args]
<1> DEFINE x == [Unseen EXCEPT !.seen = TRUE, !.id = id, !.args = args]
           y == [seen |-> TRUE, id |-> id, seq |-> 0, args |-> args]
<1>1. 0 \in Indices
  BY StreamRelayAssumption DEF Indices
<1>2. x \in Call /\ x.seen = TRUE /\ x.id = id /\ x.seq = 0 /\ x.args = args
  <2>1. Unseen \in Call /\ Unseen.seq = 0
    BY CallTypes DEF Unseen
  <2> QED
    BY <2>1 DEF Call
<1>3. y \in Call /\ y.seen = TRUE /\ y.id = id /\ y.seq = 0 /\ y.args = args
  BY <1>1, CallFields
<1> HIDE DEF x, y
<1>4. x = y
  BY <1>2, <1>3, SameCall
<1> QED
  BY <1>4 DEF x, y

LEMMA HeardOpened ==
  ASSUME NEW g, WellSaid(g), NEW p, NEW h, CallOpened(g, p, h),
         AccumulatedAs(g), HeardAs(g), client' = Heard(p, ChunkIndex(p)),
         kind' = kind
  PROVE  HeardAs(h)' /\ client'.finish = client.finish
<1> DEFINE n == Len(g.calls)
<1> MaxCalls \in Nat
  BY StreamRelayAssumption
<1>1. /\ WellSaid(h) /\ h.text = g.text /\ Len(h.calls) = n + 1
      /\ \A c \in 1 .. n : h.calls[c] = g.calls[c]
      /\ p.of = "call" /\ p.named = TRUE
      /\ p.index = h.calls[n + 1].index /\ p.pieces = UpTo(h.calls[n + 1].sent)
  <2>1. WellSaid(h) /\ h.text = g.text /\ p.of = "call" /\ p.named = TRUE
    BY CallOpenedEffect
  <2>2. OpenedAt(g, p, h, n + 1)
    BY CallOpenedEffect
  <2> QED
    BY <2>1, <2>2 DEF OpenedAt
<1>2. n \in Nat /\ n + 1 \in 1 .. Len(h.calls) /\ n <= MaxCalls /\ n \in Indices
  BY <1>1, SaidFields DEF WellSaid, InOrder, Indices
<1>3. p.index \in Indices /\ h.calls[n + 1].sent \in 0 .. 2
  BY <1>1, <1>2, SaidFields DEF WellSaid, CallSaid
<1>4. ChunkIndex(p) = n
  <2>1. CASE kind = "openai"
    <3>1. h.calls[n + 1].index = (n + 1) - 1
      BY <1>1, <1>2, <2>1 DEF WellSaid, InOrder
    <3> QED
      BY <1>1, <1>2, <2>1, <3>1 DEF ChunkIndex
  <2>2. CASE kind # "openai"
    <3>1. Len(order) = n
      BY <1>2 DEF AccumulatedAs
    <3> QED
      BY <1>1, <2>2, <3>1 DEF ChunkIndex
  <2> QED
    BY <2>1, <2>2
<1> DEFINE call == [seen |-> TRUE, id |-> p.index, seq |-> 0, args |-> Pieces(p)]
<1>5. 0 \in Indices /\ Pieces(p) = ArgsOf(h.calls[n + 1].sent) /\ Pieces(p) \in Seq(0 .. 2)
  <2>1. 0 \in Indices
    BY DEF Indices
  <2>2. Pieces(p) = ArgsOf(h.calls[n + 1].sent)
    BY <1>1, <1>3, PiecesOpened
  <2> QED
    BY <1>3, <2>1, <2>2, ArgsOfTyped
<1>6. client.calls[n] = Unseen
  <2>1. ~(n < Len(g.calls))
    BY <1>2
  <2> QED
    BY <1>2, <2>1 DEF HeardAs
<1>7. [Unseen EXCEPT !.seen = TRUE, !.id = p.index, !.args = Pieces(p)] = call /\ call \in Call
  BY <1>3, <1>5, UnseenOpened, CallFields
<1>8. Heard(p, n) = [client EXCEPT !.calls[n] = call]
  <2>1. client.calls[n].seen = FALSE
    BY <1>6, CallTypes
  <2> QED
    BY <1>1, <1>7, <2>1 DEF Heard
<1> HIDE DEF call
<1>9. /\ client' \in [text : Seq(1 .. MaxText), calls : [Indices -> Call], finish : Finish]
      /\ client'.text = client.text /\ client'.finish = client.finish
      /\ client'.calls[n] = call
      /\ \A j \in Indices : j # n => client'.calls[j] = client.calls[j]
  <2>1. client' = [client EXCEPT !.calls[n] = call]
    BY <1>4, <1>8
  <2>2. client \in [text : Seq(1 .. MaxText), calls : [Indices -> Call], finish : Finish]
    BY DEF HeardAs
  <2>3. n \in Indices /\ call \in Call
    BY <1>2, <1>7
  <2> HIDE DEF n
  <2> QED
    BY <2>1, <2>2, <2>3, HeardCall
<1>10. ASSUME NEW j \in Indices
       PROVE  client'.calls[j] =
                IF j < n + 1
                THEN [seen |-> TRUE, id |-> h.calls[j + 1].index, seq |-> 0,
                      args |-> ArgsOf(h.calls[j + 1].sent)]
                ELSE Unseen
  <2>1. CASE j = n
    BY <1>1, <1>2, <1>5, <1>9, <2>1 DEF call
  <2>2. CASE j < n
    <3>1. h.calls[j + 1] = g.calls[j + 1] /\ j # n /\ j < n + 1
      BY <1>1, <1>2, <2>2 DEF Indices
    <3> QED
      BY <1>9, <2>2, <3>1 DEF HeardAs
  <2>3. CASE j > n
    <3>1. ~(j < n + 1) /\ ~(j < n) /\ j # n
      BY <1>2, <2>3 DEF Indices
    <3> QED
      BY <1>9, <3>1 DEF HeardAs
  <2> QED
    BY <1>2, <2>1, <2>2, <2>3 DEF Indices
<1>11. client'.text = UpTo(h.text)
  BY <1>1, <1>9 DEF HeardAs
<1> QED
  BY <1>1, <1>9, <1>10, <1>11 DEF HeardAs, ArgsOf

LEMMA HeardGrown ==
  ASSUME NEW g, WellSaid(g), NEW p, NEW h, CallGrown(g, p, h),
         AccumulatedAs(g), HeardAs(g), client' = Heard(p, ChunkIndex(p)),
         kind' = kind
  PROVE  HeardAs(h)' /\ client'.finish = client.finish
<1>1. /\ WellSaid(h) /\ h.text = g.text
      /\ p.of = "call" /\ (kind # "openai" => p.named = FALSE) /\ kind # "gemini"
  BY CallGrownEffect
<1>2. PICK c \in 1 .. Len(g.calls) : GrownAt(g, p, h, c)
  BY CallGrownEffect
<1>3. /\ Len(h.calls) = Len(g.calls)
      /\ p.index = g.calls[c].index /\ p.pieces = <<h.calls[c].sent>>
      /\ h.calls[c].index = g.calls[c].index
      /\ h.calls[c].sent = g.calls[c].sent + 1
      /\ \A d \in 1 .. Len(g.calls) : d # c => h.calls[d] = g.calls[d]
  BY <1>2 DEF GrownAt
<1>4. /\ g.calls[c].index \in Indices /\ g.calls[c].sent \in 0 .. 2
      /\ h.calls[c].sent \in 0 .. 2
      /\ Len(g.calls) \in Nat /\ Len(g.calls) <= MaxCalls /\ MaxCalls \in Nat
  BY <1>1, <1>3, SaidFields, StreamRelayAssumption DEF WellSaid, CallSaid, InOrder
<1> DEFINE i == c - 1
<1>5. i \in Indices /\ 0 \in Indices /\ i < Len(g.calls) /\ i + 1 = c /\ i \in Nat
  BY <1>4 DEF Indices
<1>6. ChunkIndex(p) = i
  <2>1. CASE kind = "openai"
    <3>1. g.calls[c].index = c - 1
      BY <2>1 DEF WellSaid, InOrder
    <3> QED
      BY <1>3, <2>1, <3>1 DEF ChunkIndex
  <2>2. CASE kind # "openai"
    <3>1. calls[g.calls[c].index] = [seen |-> TRUE, id |-> g.calls[c].index, seq |-> c - 1,
                                     args |-> ArgsOf(g.calls[c].sent)]
      BY DEF AccumulatedAs
    <3> QED
      BY <1>1, <1>3, <2>2, <3>1 DEF ChunkIndex
  <2> QED
    BY <2>1, <2>2
<1>7. client.calls[i] = [seen |-> TRUE, id |-> g.calls[c].index, seq |-> 0,
                         args |-> ArgsOf(g.calls[c].sent)]
  BY <1>5 DEF HeardAs
<1> HIDE DEF i
<1>8. ArgsOf(g.calls[c].sent) \o p.pieces = ArgsOf(h.calls[c].sent)
  <2>1. p.pieces = <<g.calls[c].sent + 1>> /\ g.calls[c].sent \in 0 .. 1
    BY <1>3, <1>4
  <2> QED
    BY <1>1, <1>3, <2>1, ArgsGrown
<1>9. ArgsOf(h.calls[c].sent) \in Seq(0 .. 2)
  BY <1>4, ArgsOfTyped
<1> DEFINE b == ArgsOf(h.calls[c].sent)
           r == client.calls[i]
           x == [r EXCEPT !.args = b]
           y == [seen |-> TRUE, id |-> g.calls[c].index, seq |-> 0, args |-> b]
<1>10. /\ r \in Call /\ r.seen = TRUE /\ r.id = g.calls[c].index /\ r.seq = 0
       /\ r.args = ArgsOf(g.calls[c].sent)
  <2>1. r \in Call
    BY <1>5 DEF HeardAs
  <2>2. r = [seen |-> TRUE, id |-> g.calls[c].index, seq |-> 0,
             args |-> ArgsOf(g.calls[c].sent)]
    BY <1>7
  <2> HIDE DEF r
  <2> QED
    BY <2>1, <2>2
<1>11. x = y /\ y \in Call
  <2>1. x \in Call /\ x.seen = r.seen /\ x.id = r.id /\ x.seq = r.seq /\ x.args = b
    BY <1>9, <1>10, ArgsReplaced
  <2>2. y \in Call /\ y.seen = TRUE /\ y.id = g.calls[c].index /\ y.seq = 0 /\ y.args = b
    BY <1>4, <1>5, <1>9, CallFields
  <2> HIDE DEF x, y
  <2> QED
    BY <1>10, <2>1, <2>2, SameCall
<1>12. Heard(p, i) = [client EXCEPT !.calls[i] = y]
  <2>1. [r EXCEPT !.args = @ \o p.pieces] = x
    BY <1>8, <1>10
  <2>2. [r EXCEPT !.args = @ \o p.pieces] = y
    BY <1>11, <2>1
  <2> HIDE DEF x, y
  <2> QED
    BY <1>1, <1>10, <2>2 DEF Heard
<1> HIDE DEF x, y, r
<1>13. /\ client' \in [text : Seq(1 .. MaxText), calls : [Indices -> Call], finish : Finish]
       /\ client'.text = client.text /\ client'.finish = client.finish
       /\ client'.calls[i] = y
       /\ \A j \in Indices : j # i => client'.calls[j] = client.calls[j]
  <2>1. client' = [client EXCEPT !.calls[i] = y]
    BY <1>6, <1>12
  <2>2. client \in [text : Seq(1 .. MaxText), calls : [Indices -> Call], finish : Finish]
    BY DEF HeardAs
  <2> QED
    BY <1>5, <1>11, <2>1, <2>2, HeardCall
<1>14. ASSUME NEW j \in Indices
       PROVE  client'.calls[j] =
                IF j < Len(h.calls)
                THEN [seen |-> TRUE, id |-> h.calls[j + 1].index, seq |-> 0,
                      args |-> ArgsOf(h.calls[j + 1].sent)]
                ELSE Unseen
  <2>1. CASE j = i
    BY <1>3, <1>5, <1>13, <2>1 DEF y
  <2>2. CASE j # i /\ j < Len(g.calls)
    <3>1. j + 1 \in 1 .. Len(g.calls) /\ j + 1 # c
      BY <1>4, <1>5, <2>2 DEF Indices
    <3>2. h.calls[j + 1] = g.calls[j + 1]
      BY <1>3, <3>1
    <3> QED
      BY <1>3, <1>13, <2>2, <3>2 DEF HeardAs
  <2>3. CASE j # i /\ ~(j < Len(g.calls))
    BY <1>3, <1>13, <2>3 DEF HeardAs
  <2> QED
    BY <2>1, <2>2, <2>3
<1>15. client'.text = UpTo(h.text)
  BY <1>1, <1>13 DEF HeardAs
<1> QED
  BY <1>1, <1>13, <1>14, <1>15 DEF HeardAs, ArgsOf

\* Whatever the next part is: the client has it as said.
LEMMA HeardAsSaid ==
  ASSUME NEW g, WellSaid(g), NEW p \in Parts(g), NEW h, h = Said(g, p),
         AccumulatedAs(g), HeardAs(g), client' = Heard(p, ChunkIndex(p)),
         kind' = kind
  PROVE  HeardAs(h)' /\ client'.finish = client.finish
BY PartCases, HeardText, HeardOpened, HeardGrown
-----------------------------------------------------------------------------
(* The parts of a line.                                                    *)

LEMMA SaidNext ==
  ASSUME NEW g, WellSaid(g), NEW p \in Parts(g), NEW h, h = Said(g, p)
  PROVE  WellSaid(h) /\ p \in Part /\ h.finish = g.finish /\ h.usage = g.usage
<1>1. CASE TextNext(g, p, h)
  BY <1>1, TextNextEffect
<1>2. CASE CallOpened(g, p, h)
  BY <1>2, CallOpenedEffect
<1>3. CASE CallGrown(g, p, h)
  BY <1>3, CallGrownEffect
<1> QED
  BY <1>1, <1>2, <1>3, PartCases

\* f is what has been said before and after each of the parts.
Chain(f, parts) ==
  /\ f \in [0 .. Len(parts) -> SaidRecord]
  /\ \A i \in 0 .. Len(parts) : WellSaid(f[i])
  /\ \A i \in 1 .. Len(parts) :
       parts[i] \in Parts(f[i - 1]) /\ f[i] = Said(f[i - 1], parts[i])

\* A run of parts that goes on from what has been said.
RunFrom(r) ==
  /\ r.parts \in Seq(Part) /\ WellSaid(r.said)
  /\ r.said.finish = said.finish /\ r.said.usage = said.usage
  /\ \E f : Chain(f, r.parts) /\ f[0] = said /\ f[Len(r.parts)] = r.said

Longer(r) ==
  {[parts |-> Append(r.parts, p), said |-> Said(r.said, p)] : p \in Parts(r.said)}
Extended(R) == R \cup UNION {Longer(r) : r \in R}
RunRecord ==
  {r \in [parts : Seq(Part), said : SaidRecord] : WellSaid(r.said)}

LEMMA ExtendedRuns ==
  ASSUME NEW R \in SUBSET RunRecord
  PROVE  Extended(R) \in SUBSET RunRecord
<1>1. ASSUME NEW r \in R, NEW q \in Longer(r)
      PROVE  q \in RunRecord
  <2>1. r.parts \in Seq(Part) /\ WellSaid(r.said)
    BY DEF RunRecord
  <2>2. PICK p \in Parts(r.said) : q = [parts |-> Append(r.parts, p), said |-> Said(r.said, p)]
    BY DEF Longer
  <2>3. p \in Part /\ WellSaid(Said(r.said, p))
    BY <2>1, SaidNext
  <2>4. Append(r.parts, p) \in Seq(Part) /\ Said(r.said, p) \in SaidRecord
    BY <2>1, <2>3 DEF WellSaid
  <2> QED
    BY <2>2, <2>3, <2>4 DEF RunRecord
<1> QED
  BY <1>1 DEF Extended

LEMMA RunsAre ==
  ASSUME WellSaid(said)
  PROVE  /\ Runs[0] = {[parts |-> << >>, said |-> said]}
         /\ \A n \in Nat : Runs[n + 1] = Extended(Runs[n])
<1> DEFINE S == SUBSET RunRecord
           base == {[parts |-> << >>, said |-> said]}
           step == [R \in S |-> Extended(R)]
<1>1. base \in S
  BY DEF RunRecord, WellSaid
<1>2. step \in [S -> S]
  BY ExtendedRuns
<1> HIDE DEF S, base, step
<1>3. PICK F \in [Nat -> S] : F[0] = base /\ \A n \in Nat : F[n + 1] = step[F[n]]
  BY <1>1, <1>2, Iterates
<1>4. \A n \in Nat : F[n + 1] = Extended(F[n])
  BY <1>3 DEF step
<1>5. F = [n \in Nat |-> IF n = 0 THEN base ELSE Extended(F[n - 1])]
  <2>1. \A n \in Nat : n # 0 => n - 1 \in Nat /\ (n - 1) + 1 = n
    OBVIOUS
  <2>2. \A n \in Nat : F[n] = IF n = 0 THEN base ELSE Extended(F[n - 1])
    BY <1>3, <1>4, <2>1
  <2> QED
    BY <1>3, <2>2
<1>6. Runs = [n \in Nat |-> IF n = 0 THEN base ELSE Extended(Runs[n - 1])]
  BY <1>5 DEF Runs, Extended, Longer, base
<1>7. \A n \in Nat : n + 1 \in Nat /\ n + 1 # 0 /\ (n + 1) - 1 = n
  OBVIOUS
<1> QED
  BY <1>6, <1>7 DEF base

LEMMA LongerRun ==
  ASSUME NEW r, RunFrom(r), NEW q \in Longer(r)
  PROVE  RunFrom(q)
<1>1. PICK p \in Parts(r.said) : q = [parts |-> Append(r.parts, p), said |-> Said(r.said, p)]
  BY DEF Longer
<1>2. PICK f : Chain(f, r.parts) /\ f[0] = said /\ f[Len(r.parts)] = r.said
  BY DEF RunFrom
<1>3. r.parts \in Seq(Part) /\ WellSaid(r.said)
  BY DEF RunFrom
<1> DEFINE n == Len(r.parts)
           h == Said(r.said, p)
           parts == Append(r.parts, p)
<1>4. /\ WellSaid(h) /\ p \in Part
      /\ h.finish = r.said.finish /\ h.usage = r.said.usage
  BY <1>3, SaidNext
<1>5. /\ n \in Nat /\ parts \in Seq(Part) /\ Len(parts) = n + 1
      /\ \A i \in 1 .. n : parts[i] = r.parts[i]
      /\ parts[n + 1] = p
  BY <1>3, <1>4
<1>6. q.parts = parts /\ q.said = h
  BY <1>1
<1> HIDE DEF n, h, parts
<1> DEFINE e == [i \in 0 .. n + 1 |-> IF i = n + 1 THEN h ELSE f[i]]
<1>7. /\ f \in [0 .. n -> SaidRecord]
      /\ \A i \in 0 .. n : WellSaid(f[i])
      /\ \A i \in 1 .. n : r.parts[i] \in Parts(f[i - 1]) /\ f[i] = Said(f[i - 1], r.parts[i])
      /\ f[0] = said /\ f[n] = r.said
  BY <1>2 DEF Chain, n
<1>8. /\ e \in [0 .. n + 1 -> SaidRecord]
      /\ e[n + 1] = h /\ \A i \in 0 .. n : e[i] = f[i]
  BY <1>4, <1>5, <1>7 DEF WellSaid
<1> HIDE DEF e
<1>9. Chain(e, parts)
  <2>1. \A i \in 0 .. n + 1 : WellSaid(e[i])
    <3>1. \A i \in 0 .. n + 1 : i = n + 1 \/ i \in 0 .. n
      BY <1>5
    <3> QED
      BY <1>4, <1>7, <1>8, <3>1
  <2>2. ASSUME NEW i \in 1 .. n + 1
        PROVE  parts[i] \in Parts(e[i - 1]) /\ e[i] = Said(e[i - 1], parts[i])
    <3>1. CASE i = n + 1
      <4>1. e[i - 1] = r.said
        BY <1>5, <1>7, <1>8, <3>1
      <4> QED
        BY <1>5, <1>8, <3>1, <4>1 DEF h
    <3>2. CASE i # n + 1
      <4>1. i \in 1 .. n /\ i - 1 \in 0 .. n /\ i \in 0 .. n
        BY <1>5, <3>2
      <4> QED
        BY <1>5, <1>7, <1>8, <4>1
    <3> QED
      BY <3>1, <3>2
  <2> QED
    BY <1>5, <1>8, <2>1, <2>2 DEF Chain
<1>10. e[0] = said /\ e[Len(parts)] = h
  BY <1>5, <1>7, <1>8
<1>11. h.finish = said.finish /\ h.usage = said.usage
  BY <1>4 DEF RunFrom
<1> QED
  BY <1>4, <1>5, <1>6, <1>9, <1>10, <1>11 DEF RunFrom

\* However many parts a line holds, they go on from what has been said.
LEMMA RunsGoOn ==
  ASSUME WellSaid(said), NEW n \in Nat, NEW r \in Runs[n]
  PROVE  RunFrom(r)
<1> DEFINE T == {k \in Nat : \A q \in Runs[k] : RunFrom(q)}
<1>1. 0 \in T
  <2> SUFFICES RunFrom([parts |-> << >>, said |-> said])
    BY RunsAre
  <2> DEFINE f == [i \in 0 .. 0 |-> said]
  <2>1. f \in [0 .. 0 -> SaidRecord] /\ f[0] = said
    BY DEF WellSaid
  <2> HIDE DEF f
  <2>2. Chain(f, << >>)
    BY <2>1 DEF Chain
  <2> QED
    BY <2>1, <2>2 DEF RunFrom
<1>2. ASSUME NEW k \in Nat, k \in T
      PROVE  k + 1 \in T
  <2>1. \A q \in Runs[k] : RunFrom(q)
    BY <1>2
  <2>2. ASSUME NEW q \in Extended(Runs[k])
        PROVE  RunFrom(q)
    <3>1. q \in Runs[k] \/ \E x \in Runs[k] : q \in Longer(x)
      BY DEF Extended
    <3> QED
      BY <2>1, <3>1, LongerRun
  <2>3. Runs[k + 1] = Extended(Runs[k]) /\ k + 1 \in Nat
    BY RunsAre
  <2>4. \A q \in Runs[k + 1] : RunFrom(q)
    BY <2>2, <2>3
  <2> QED
    BY <2>3, <2>4
<1> HIDE DEF T
<1>3. Nat \subseteq T
  BY <1>1, <1>2, NatInductionSet
<1> QED
  BY <1>3 DEF T
-----------------------------------------------------------------------------
(* The invariant.                                                          *)

\* g says no more than h, and of the text and of each call at most one piece
\* less.
Behind(g, h) ==
  /\ g.text <= h.text /\ h.text <= g.text + 1
  /\ Len(g.calls) <= Len(h.calls)
  /\ \A c \in 1 .. Len(g.calls) :
       /\ g.calls[c].index = h.calls[c].index
       /\ g.calls[c].sent <= h.calls[c].sent /\ h.calls[c].sent <= g.calls[c].sent + 1

SaidSoFar(g) == g.text = said.text /\ g.calls = said.calls

\* While the relay reads, it and the client have all that has been said but
\* the parts still pending.
Scanning ==
  /\ \E f : /\ Chain(f, pending)
            /\ AccumulatedAs(f[0]) /\ HeardAs(f[0])
            /\ SaidSoFar(f[Len(pending)])
  /\ usage = said.usage /\ finish = said.finish
  /\ exact = (said.usage # NoUsage)
  /\ client.finish = IF kind = "openai" THEN finish ELSE ""

\* When it has returned, the client has what the relay has or a part less, and
\* both have all if the stream ended.
Returned ==
  /\ \E g, h : /\ WellSaid(g) /\ WellSaid(h) /\ Behind(g, h)
               /\ HeardAs(g) /\ AccumulatedAs(h)
               /\ ~failed => g = h /\ SaidSoFar(h)
  /\ ~failed =>
       /\ usage = IF kind = "openai" /\ said.usage = NoUsage
                  THEN [prompt |-> PromptEstimate,
                        completion |-> (said.text * PieceLength) \div 4]
                  ELSE said.usage
       /\ finish = IF kind = "openai" THEN said.finish ELSE OrStop(said.finish)
       /\ client.finish = finish

RelayTypes ==
  /\ kind \in Kinds /\ pc \in {"scan", "returned"}
  /\ usage \in Usage /\ exact \in BOOLEAN /\ failed \in BOOLEAN /\ finish \in Finish

StreamInv ==
  /\ RelayTypes /\ WellSaid(said)
  /\ pending \in Seq(Part)
  /\ pc = "scan" => Scanning
  /\ pc = "returned" => pending = << >> /\ Returned

LEMMA SeenCalls ==
  ASSUME NEW g, WellSaid(g), HeardAs(g), NEW i \in Indices
  PROVE  /\ ~(i < Len(g.calls)) => client.calls[i].seen = FALSE
         /\ i < Len(g.calls) =>
              /\ client.calls[i].seen = TRUE
              /\ client.calls[i].id = g.calls[i + 1].index
              /\ client.calls[i].args = ArgsOf(g.calls[i + 1].sent)
<1>1. CASE i < Len(g.calls)
  <2>1. client.calls[i] = [seen |-> TRUE, id |-> g.calls[i + 1].index, seq |-> 0,
                           args |-> ArgsOf(g.calls[i + 1].sent)]
    BY <1>1 DEF HeardAs
  <2> QED
    BY <1>1, <2>1
<1>2. CASE ~(i < Len(g.calls))
  <2>1. client.calls[i] = Unseen
    BY <1>2 DEF HeardAs
  <2> QED
    BY <1>2, <2>1, CallTypes
<1> QED
  BY <1>1, <1>2

\* One piece more.
LEMMA OnePieceMore ==
  ASSUME NEW m \in 0 .. 2, NEW n \in 0 .. 2, m <= n, n <= m + 1
  PROVE  Arguments(ArgsOf(n)) \in {Arguments(ArgsOf(m)),
                                  Arguments(Append(ArgsOf(m), Len(ArgsOf(m)) + 1))}
<1>1. CASE n = m
  BY <1>1
<1>2. CASE n = m + 1 /\ kind = "gemini" /\ m = 0
  <2>1. Arguments(ArgsOf(n)) = EmptyObject /\ Arguments(ArgsOf(m)) = EmptyObject
    BY <1>2, WholeAtTwo
  <2> QED
    BY <2>1
<1>3. CASE n = m + 1 /\ ~(kind = "gemini" /\ m = 0)
  <2>1. ArgsOf(m) = UpTo(m) /\ ArgsOf(n) = UpTo(n) /\ m \in Nat
    BY <1>3 DEF ArgsOf
  <2>2. Len(UpTo(m)) = m /\ UpTo(m) \in Seq(Nat)
    BY <2>1, UpToIs
  <2>3. Append(UpTo(m), m + 1) = UpTo(m) \o <<m + 1>>
    BY <2>1, <2>2
  <2>4. Append(UpTo(m), m + 1) = UpTo(n)
    BY <1>3, <2>1, <2>3, UpToNext
  <2> QED
    BY <2>1, <2>2, <2>4
<1> QED
  BY <1>1, <1>2, <1>3

\* The client has what the relay returns, or a part less.
LEMMA DeliveredBehind ==
  ASSUME NEW g, NEW h, WellSaid(g), WellSaid(h), Behind(g, h),
         HeardAs(g), AccumulatedAs(h)
  PROVE  DeliveredIsKept
<1>1. /\ g.text \in Nat /\ h.text \in Nat
      /\ Len(g.calls) \in Nat /\ Len(h.calls) \in Nat
      /\ MaxCalls \in Nat /\ Len(h.calls) <= MaxCalls
  BY SaidFields, StreamRelayAssumption DEF WellSaid, InOrder
<1>2. IsPrefix(client.text, text) /\ Len(text) <= Len(client.text) + 1
  BY <1>1, UpToIs, UpToPrefix DEF Behind, HeardAs, AccumulatedAs
<1>3. ASSUME NEW i \in Indices, client.calls[i].seen
      PROVE  /\ i < Len(ToolCalls)
             /\ ToolCalls[i + 1].id = client.calls[i].id
             /\ ToolCalls[i + 1].args
                  \in {Arguments(client.calls[i].args),
                       Arguments(Append(client.calls[i].args,
                                        Len(client.calls[i].args) + 1))}
  <2> DEFINE c == i + 1
  <2>1. /\ i < Len(g.calls) /\ client.calls[i].id = g.calls[c].index
        /\ client.calls[i].args = ArgsOf(g.calls[c].sent)
    BY <1>3, SeenCalls
  <2>2. /\ c \in 1 .. Len(g.calls) /\ c \in 1 .. Len(h.calls) /\ c - 1 = i
        /\ i < Len(h.calls)
    BY <1>1, <2>1 DEF Behind, Indices
  <2>3. g.calls[c].sent \in 0 .. 2 /\ h.calls[c].sent \in 0 .. 2
    <3>1. g.calls[c] \in CallSaid
      BY <2>2, SaidFields DEF WellSaid
    <3>2. h.calls[c] \in CallSaid
      BY <2>2, SaidFields DEF WellSaid
    <3> QED
      BY <3>1, <3>2 DEF CallSaid
  <2>4. /\ g.calls[c].index = h.calls[c].index
        /\ g.calls[c].sent <= h.calls[c].sent /\ h.calls[c].sent <= g.calls[c].sent + 1
    BY <2>2 DEF Behind
  <2>5. Len(order) = Len(h.calls) /\ order[c] = h.calls[c].index
    BY <1>1, <2>2 DEF AccumulatedAs
  <2>6. calls[order[c]] = [seen |-> TRUE, id |-> h.calls[c].index, seq |-> c - 1,
                           args |-> ArgsOf(h.calls[c].sent)]
    BY <2>2, <2>5 DEF AccumulatedAs
  <2>7. /\ Len(ToolCalls) = Len(h.calls)
        /\ ToolCalls[c] = [id |-> calls[order[c]].id, args |-> Arguments(calls[order[c]].args)]
    BY <1>1, <2>2, <2>5 DEF ToolCalls
  <2>8. ToolCalls[c].id = h.calls[c].index
        /\ ToolCalls[c].args = Arguments(ArgsOf(h.calls[c].sent))
    BY <2>6, <2>7
  <2>9. Arguments(ArgsOf(h.calls[c].sent))
          \in {Arguments(ArgsOf(g.calls[c].sent)),
               Arguments(Append(ArgsOf(g.calls[c].sent), Len(ArgsOf(g.calls[c].sent)) + 1))}
    BY <2>3, <2>4, OnePieceMore
  <2> QED
    BY <2>1, <2>2, <2>4, <2>7, <2>8, <2>9
<1> QED
  BY <1>2, <1>3 DEF DeliveredIsKept

LEMMA BehindItself ==
  ASSUME NEW g, WellSaid(g)
  PROVE  Behind(g, g)
<1>1. g.text \in Nat /\ Len(g.calls) \in Nat
      /\ \A c \in 1 .. Len(g.calls) : g.calls[c].sent \in Nat
  BY SaidFields DEF WellSaid, CallSaid
<1> QED
  BY <1>1 DEF Behind

\* In any state there are such g and h.
LEMMA KeptAndHeard ==
  ASSUME StreamInv
  PROVE  \E g, h : /\ WellSaid(g) /\ WellSaid(h) /\ Behind(g, h)
                   /\ HeardAs(g) /\ AccumulatedAs(h)
<1>1. CASE pc = "returned"
  BY <1>1 DEF StreamInv, Returned
<1>2. CASE pc = "scan"
  <2>1. PICK f : Chain(f, pending) /\ AccumulatedAs(f[0]) /\ HeardAs(f[0])
    BY <1>2 DEF StreamInv, Scanning
  <2>2. WellSaid(f[0])
    <3>1. Len(pending) \in Nat
      BY DEF StreamInv
    <3> QED
      BY <2>1, <3>1 DEF Chain
  <2> QED
    BY <2>1, <2>2, BehindItself
<1> QED
  BY <1>1, <1>2 DEF StreamInv, RelayTypes

LEMMA DeliveredKept ==
  ASSUME StreamInv
  PROVE  DeliveredIsKept
BY KeptAndHeard, DeliveredBehind

LEMMA RelayTyped ==
  ASSUME StreamInv
  PROVE  TypeOK
<1>1. PICK g, h : /\ WellSaid(g) /\ WellSaid(h) /\ Behind(g, h)
                  /\ HeardAs(g) /\ AccumulatedAs(h)
  BY KeptAndHeard
<1>2. /\ h.text \in Nat /\ h.text <= MaxText /\ MaxText \in Nat /\ Len(h.calls) \in Nat
      /\ \A c \in 1 .. Len(h.calls) : h.calls[c].index \in Indices
  BY <1>1, SaidFields, StreamRelayAssumption DEF WellSaid, CallSaid
<1>3. text \in Seq(1 .. MaxText)
  BY <1>1, <1>2, UpToIs DEF AccumulatedAs
<1>4. order \in Seq(Indices) /\ Len(order) = Len(h.calls)
  BY <1>1, <1>2 DEF AccumulatedAs
<1>5. \A m, n \in 1 .. Len(order) : order[m] = order[n] => m = n
  <2>1. \A m \in 1 .. Len(h.calls) : order[m] = h.calls[m].index
    BY <1>1 DEF AccumulatedAs
  <2> QED
    BY <1>1, <1>4, <2>1, DistinctIndices
<1>6. calls \in [Indices -> Call]
  BY <1>1 DEF AccumulatedAs
<1>7. client \in [text : Seq(1 .. MaxText), calls : [Indices -> Call], finish : Finish]
  BY <1>1 DEF HeardAs
<1>8. said \in [text : 0 .. MaxText, calls : Seq([index : Indices, sent : 0 .. 2]),
               finish : Finish, usage : Usage]
  BY DEF StreamInv, WellSaid, SaidRecord, CallSaid
<1> QED
  BY <1>3, <1>4, <1>5, <1>6, <1>7, <1>8 DEF TypeOK, StreamInv, RelayTypes

\* After a stream that ended.
LEMMA WhenEnded ==
  ASSUME StreamInv, Ended
  PROVE  /\ HeardAs(said) /\ AccumulatedAs(said)
         /\ client.finish = finish
         /\ finish = IF kind = "openai" THEN said.finish ELSE OrStop(said.finish)
         /\ usage = IF kind = "openai" /\ said.usage = NoUsage
                  THEN [prompt |-> PromptEstimate,
                        completion |-> (said.text * PieceLength) \div 4]
                  ELSE said.usage
<1>1. Returned /\ ~failed
  BY DEF StreamInv, Ended
<1>2. PICK g, h : g = h /\ SaidSoFar(h) /\ HeardAs(g) /\ AccumulatedAs(h)
  BY <1>1 DEF Returned
<1>3. HeardAs(said) /\ AccumulatedAs(said)
  BY <1>2 DEF HeardAs, AccumulatedAs, SaidSoFar
<1> QED
  BY <1>1, <1>3 DEF Returned

LEMMA UsageReported ==
  ASSUME StreamInv
  PROVE  UsageAsReported
BY WhenEnded DEF UsageAsReported

\* The tool calls that are rebuilt.
LEMMA CallsRebuilt ==
  ASSUME StreamInv, Ended
  PROVE  ToolCalls = [n \in 1 .. Len(said.calls) |->
                        [id |-> said.calls[n].index,
                         args |-> IF said.calls[n].sent = 2 THEN Whole ELSE EmptyObject]]
<1>1. /\ Len(said.calls) \in Nat
      /\ \A n \in 1 .. Len(said.calls) : said.calls[n].sent \in 0 .. 2
  BY SaidFields DEF StreamInv, WellSaid, CallSaid
<1>2. Len(order) = Len(said.calls)
  BY <1>1, WhenEnded DEF AccumulatedAs
<1>3. ASSUME NEW n \in 1 .. Len(said.calls)
      PROVE  /\ calls[order[n]].id = said.calls[n].index
             /\ Arguments(calls[order[n]].args)
                  = IF said.calls[n].sent = 2 THEN Whole ELSE EmptyObject
  <2>1. order[n] = said.calls[n].index
    BY WhenEnded DEF AccumulatedAs
  <2>2. calls[order[n]] = [seen |-> TRUE, id |-> said.calls[n].index, seq |-> n - 1,
                           args |-> ArgsOf(said.calls[n].sent)]
    BY <2>1, WhenEnded DEF AccumulatedAs
  <2>3. Arguments(ArgsOf(said.calls[n].sent)) = IF said.calls[n].sent = 2 THEN Whole ELSE EmptyObject
    BY <1>1, WholeAtTwo
  <2> QED
    BY <2>2, <2>3
<1> QED
  BY <1>2, <1>3 DEF ToolCalls

LEMMA Rebuilt ==
  ASSUME StreamInv
  PROVE  RebuiltAsSaid
<1> SUFFICES ASSUME Ended PROVE RebuiltAsSaid
  BY DEF RebuiltAsSaid
<1>1. text = [n \in 1 .. said.text |-> n]
  BY WhenEnded DEF AccumulatedAs, UpTo
<1> QED
  BY <1>1, WhenEnded, CallsRebuilt DEF RebuiltAsSaid

LEMMA Replayed ==
  ASSUME StreamInv
  PROVE  ReplayAsStreamed
<1> SUFFICES ASSUME Ended PROVE Replay(Response) = Mended(Received)
  BY DEF ReplayAsStreamed
<1> DEFINE n == Len(said.calls)
<1>1. /\ n \in Nat /\ n <= MaxCalls /\ MaxCalls \in Nat /\ WellSaid(said)
      /\ \A c \in 1 .. n : said.calls[c].sent \in 0 .. 2
  BY SaidFields, StreamRelayAssumption DEF StreamInv, WellSaid, InOrder, CallSaid
<1>2. client.text = text
  BY WhenEnded DEF AccumulatedAs, HeardAs
<1>3. {i \in Indices : client.calls[i].seen} = 0 .. n - 1
  <2>1. \A i \in Indices : client.calls[i].seen <=> i < n
    BY <1>1, WhenEnded, SeenCalls
  <2>2. \A i : i \in 0 .. n - 1 <=> i \in Indices /\ i < n
    BY <1>1 DEF Indices
  <2> QED
    BY <2>1, <2>2
<1>4. Len(ToolCalls) = n
  <2>1. Len(order) = n
    BY <1>1, WhenEnded DEF AccumulatedAs
  <2> QED
    BY <1>1, <2>1 DEF ToolCalls
<1>5. ASSUME NEW i \in 0 .. n - 1
      PROVE  ToolCalls[i + 1] = [id |-> client.calls[i].id,
                                 args |-> Arguments(client.calls[i].args)]
  <2>1. i \in Indices /\ i < n /\ i + 1 \in 1 .. n
    BY <1>1 DEF Indices
  <2>2. /\ client.calls[i].id = said.calls[i + 1].index
        /\ client.calls[i].args = ArgsOf(said.calls[i + 1].sent)
    BY <1>1, <2>1, WhenEnded, SeenCalls
  <2>3. ToolCalls[i + 1] = [id |-> said.calls[i + 1].index,
                            args |-> IF said.calls[i + 1].sent = 2 THEN Whole ELSE EmptyObject]
    BY <2>1, CallsRebuilt
  <2>4. Arguments(ArgsOf(said.calls[i + 1].sent))
          = IF said.calls[i + 1].sent = 2 THEN Whole ELSE EmptyObject
    BY <1>1, <2>1, WholeAtTwo
  <2> QED
    BY <2>2, <2>3, <2>4
<1>6. Replay(Response).calls = Mended(Received).calls
  <2>1. Replay(Response).calls = [i \in 0 .. n - 1 |-> ToolCalls[i + 1]]
    BY <1>4 DEF Replay, Response
  <2>2. Received.calls = [i \in 0 .. n - 1 |-> [id |-> client.calls[i].id,
                                               args |-> client.calls[i].args]]
    BY <1>3 DEF Received
  <2>3. DOMAIN Received.calls = 0 .. n - 1
        /\ \A i \in 0 .. n - 1 : /\ Received.calls[i].id = client.calls[i].id
                                /\ Received.calls[i].args = client.calls[i].args
    BY <2>2
  <2>4. Mended(Received).calls = [i \in 0 .. n - 1 |-> [id |-> client.calls[i].id,
                                 args |-> Arguments(client.calls[i].args)]]
    BY <2>3 DEF Mended
  <2> QED
    BY <1>5, <2>1, <2>4
<1>7. /\ Replay(Response).text = Mended(Received).text
      /\ Replay(Response).finish = Mended(Received).finish
  BY <1>2, WhenEnded DEF Replay, Response, Received, Mended
<1> QED
  BY <1>6, <1>7 DEF Replay, Mended
-----------------------------------------------------------------------------
(* Every step keeps it.                                                    *)

LEMMA NothingFields ==
  /\ NothingSaid.text = 0 /\ NothingSaid.calls = << >> /\ Len(NothingSaid.calls) = 0
  /\ NothingSaid.finish = "" /\ NothingSaid.usage = NoUsage
  /\ NothingSaid \in SaidRecord /\ NoUsage \in Usage
  /\ NothingHeard.text = << >> /\ NothingHeard.calls = NoCalls /\ NothingHeard.finish = ""
  /\ NothingHeard \in [text : Seq(1 .. MaxText), calls : [Indices -> Call], finish : Finish]
  /\ NoCalls \in [Indices -> Call] /\ \A i \in Indices : NoCalls[i] = Unseen
<1>1. NoCalls \in [Indices -> Call] /\ \A i \in Indices : NoCalls[i] = Unseen
  BY CallTypes DEF NoCalls
<1>2. << >> \in Seq(CallSaid) /\ << >> \in Seq(1 .. MaxText) /\ Len(<< >>) = 0
  OBVIOUS
<1>3. NoUsage \in Usage /\ "" \in Finish /\ 0 \in 0 .. MaxText
  BY StreamRelayAssumption DEF NoUsage, Usage, Finish
<1>4. /\ NothingSaid.text = 0 /\ NothingSaid.calls = << >>
      /\ NothingSaid.finish = "" /\ NothingSaid.usage = NoUsage
      /\ NothingSaid \in SaidRecord
  BY <1>2, <1>3 DEF NothingSaid, SaidRecord
<1>5. /\ NothingHeard.text = << >> /\ NothingHeard.calls = NoCalls /\ NothingHeard.finish = ""
      /\ NothingHeard \in [text : Seq(1 .. MaxText), calls : [Indices -> Call],
                           finish : Finish]
  BY <1>1, <1>2, <1>3 DEF NothingHeard
<1> QED
  BY <1>1, <1>2, <1>3, <1>4, <1>5

LEMMA NothingInOrder ==
  ASSUME NEW s \in SaidRecord, Len(s.calls) = 0
  PROVE  WellSaid(s)
BY StreamRelayAssumption DEF WellSaid, InOrder

LEMMA NothingAccumulated ==
  ASSUME NEW s \in SaidRecord, s.text = 0, Len(s.calls) = 0,
         text = << >>, order = << >>, calls = NoCalls, client = NothingHeard
  PROVE  AccumulatedAs(s) /\ HeardAs(s)
<1>1. UpTo(0) = << >>
  BY DEF UpTo
<1>2. [c \in 1 .. 0 |-> s.calls[c].index] = << >>
  <2>1. 1 .. 0 = {}
    OBVIOUS
  <2> QED
    BY <2>1
<1>3. AccumulatedAs(s)
  <2>1. order = [c \in 1 .. Len(s.calls) |-> s.calls[c].index] /\ text = UpTo(s.text)
    BY <1>1, <1>2
  <2>2. 1 .. Len(s.calls) = {}
    OBVIOUS
  <2>3. calls \in [Indices -> Call] /\ \A i \in Indices : calls[i] = Unseen
    BY NothingFields
  <2> QED
    BY <2>1, <2>2, <2>3 DEF AccumulatedAs
<1>4. HeardAs(s)
  <2>1. \A i \in Indices : ~(i < 0)
    BY DEF Indices
  <2> QED
    BY <1>1, <2>1, NothingFields DEF HeardAs
<1> QED
  BY <1>3, <1>4

LEMMA StreamInit ==
  Init => StreamInv
<1> SUFFICES ASSUME Init PROVE StreamInv
  OBVIOUS
<1>1. said \in SaidRecord /\ said.text = 0 /\ Len(said.calls) = 0
      /\ said.usage = NoUsage /\ said.finish = ""
  BY NothingFields DEF Init
<1>2. WellSaid(said)
  BY <1>1, NothingInOrder
<1>3. AccumulatedAs(said) /\ HeardAs(said)
  BY <1>1, NothingAccumulated DEF Init
<1> DEFINE f == [i \in 0 .. 0 |-> said]
<1>4. f \in [0 .. 0 -> SaidRecord] /\ f[0] = said
  <2>1. said \in SaidRecord
    BY <1>1
  <2> QED
    BY <2>1
<1> HIDE DEF f
<1>5. Chain(f, << >>)
  BY <1>2, <1>4 DEF Chain
<1>6. SaidSoFar(f[Len(<< >>)])
  BY <1>4 DEF SaidSoFar
<1>7. pending = << >> /\ usage = NoUsage /\ exact = FALSE /\ finish = "" /\ client.finish = ""
  BY NothingFields DEF Init
<1>8. Scanning
  BY <1>1, <1>3, <1>4, <1>5, <1>6, <1>7 DEF Scanning
<1>9. RelayTypes /\ pc = "scan" /\ << >> \in Seq(Part)
  <2>1. NoUsage \in Usage
    BY NothingFields
  <2>3. << >> \in Seq(Part)
    OBVIOUS
  <2>2. kind \in Kinds /\ pc = "scan" /\ failed = FALSE
    BY DEF Init
  <2> QED
    BY <1>7, <2>1, <2>2, <2>3 DEF RelayTypes, Finish
<1> QED
  BY <1>2, <1>7, <1>8, <1>9 DEF StreamInv

\* What a provider may say next depends on no variable but kind.
OpeningsAt(is, ps) == UNION {{CallPart(i, TRUE, p) : p \in ps} : i \in is}
GrowingsAt(g, cs, names) ==
  UNION {{CallPart(g.calls[c].index, named, <<g.calls[c].sent + 1>>) : named \in names} :
           c \in cs}

LEMMA SameKind ==
  ASSUME kind' = kind
  PROVE  /\ \A g : Parts(g)' = Parts(g)
         /\ \A g : WellSaid(g)' = WellSaid(g)
<1>1. \A g : WellSaid(g)' = WellSaid(g)
  BY DEF WellSaid, InOrder
<1>2. ASSUME NEW g PROVE Parts(g)' = Parts(g)
  <2>1. NewIndices(g)' = NewIndices(g)
    BY DEF NewIndices
  <2>2. Openings' = Openings
    BY DEF Openings
  <2>3. Growing(g)' = Growing(g)
    BY DEF Growing
  <2>4. TextParts(g)' = TextParts(g)
    BY DEF TextParts
  <2>5. OpeningParts(g)' = OpeningParts(g)
    <3>1. OpeningParts(g) = OpeningsAt(NewIndices(g), Openings)
      BY DEF OpeningParts, OpeningsAt
    <3>2. OpeningParts(g)' = OpeningsAt(NewIndices(g)', Openings')
      BY DEF OpeningParts, OpeningsAt
    <3> QED
      BY <2>1, <2>2, <3>1, <3>2
  <2>6. GrowingParts(g)' = GrowingParts(g)
    <3>1. GrowingParts(g) = GrowingsAt(g, Growing(g), {FALSE, kind = "openai"})
      BY DEF GrowingParts, GrowingsAt
    <3>2. GrowingParts(g)' = GrowingsAt(g, Growing(g)', {FALSE, kind' = "openai"})
      BY DEF GrowingParts, GrowingsAt
    <3> QED
      BY <2>3, <3>1, <3>2
  <2> QED
    BY <2>4, <2>5, <2>6 DEF Parts
<1> QED
  BY <1>1, <1>2

LEMMA SameChain ==
  ASSUME kind' = kind, NEW f, NEW parts, Chain(f, parts)
  PROVE  Chain(f, parts)'
BY SameKind DEF Chain

LEMMA StreamUnchanged ==
  ASSUME StreamInv, UNCHANGED vars
  PROVE  StreamInv'
<1> USE DEF vars
<1>1. kind' = kind
  OBVIOUS
<1>2. \A g : (AccumulatedAs(g)' <=> AccumulatedAs(g)) /\ (HeardAs(g)' <=> HeardAs(g))
             /\ (SaidSoFar(g)' <=> SaidSoFar(g))
  BY DEF AccumulatedAs, HeardAs, SaidSoFar, ArgsOf
<1>3. Scanning => Scanning'
  <2> SUFFICES ASSUME Scanning PROVE Scanning'
    OBVIOUS
  <2>1. PICK f : /\ Chain(f, pending)
                 /\ AccumulatedAs(f[0]) /\ HeardAs(f[0])
                 /\ SaidSoFar(f[Len(pending)])
    BY DEF Scanning
  <2>2. Chain(f, pending)'
    BY <1>1, <2>1, SameChain
  <2> QED
    BY <1>2, <2>1, <2>2 DEF Scanning
<1>4. Returned => Returned'
  <2> SUFFICES ASSUME Returned PROVE Returned'
    OBVIOUS
  <2>1. PICK g, h : /\ WellSaid(g) /\ WellSaid(h) /\ Behind(g, h)
                    /\ HeardAs(g) /\ AccumulatedAs(h)
                    /\ ~failed => g = h /\ SaidSoFar(h)
    BY DEF Returned
  <2> QED
    BY <1>1, <1>2, <2>1, SameKind DEF Returned
<1> QED
  BY <1>1, <1>3, <1>4, SameKind DEF StreamInv, RelayTypes

\* The part that is next: it is accumulated, whatever becomes of its delivery.
LEMMA NextPart ==
  ASSUME NEW f, Chain(f, pending), pending \in Seq(Part), pending # << >>
  PROVE  /\ Head(pending) \in Parts(f[0]) /\ f[1] = Said(f[0], Head(pending))
         /\ WellSaid(f[0]) /\ WellSaid(f[1])
<1>1. Len(pending) \in Nat \ {0} /\ Head(pending) = pending[1]
  OBVIOUS
<1>2. 0 \in 0 .. Len(pending) /\ 1 \in 0 .. Len(pending) /\ 1 \in 1 .. Len(pending) /\ 1 - 1 = 0
  BY <1>1
<1> QED
  BY <1>1, <1>2 DEF Chain

LEMMA ScanIfPending ==
  ASSUME StreamInv, pending # << >>
  PROVE  pc = "scan" /\ Scanning
BY DEF StreamInv, RelayTypes

LEMMA StreamTakePart ==
  ASSUME StreamInv, TakePart
  PROVE  StreamInv'
<1>1. pc = "scan" /\ Scanning /\ pending # << >> /\ pending \in Seq(Part)
  BY ScanIfPending DEF TakePart, StreamInv
<1>2. PICK f : /\ Chain(f, pending)
               /\ AccumulatedAs(f[0]) /\ HeardAs(f[0])
               /\ SaidSoFar(f[Len(pending)])
  BY <1>1 DEF Scanning
<1> DEFINE p == Head(pending)
           n == Len(pending)
<1>3. p \in Parts(f[0]) /\ f[1] = Said(f[0], p) /\ WellSaid(f[0]) /\ WellSaid(f[1])
  BY <1>1, <1>2, NextPart
<1>4. AccumulatedAs(f[1])' /\ HeardAs(f[1])' /\ client'.finish = client.finish
  BY <1>2, <1>3, AccumulateAsSaid, HeardAsSaid DEF TakePart
<1> HIDE DEF p
<1>5. /\ n \in Nat /\ n # 0 /\ pending' \in Seq(Part) /\ Len(pending') = n - 1
      /\ \A i \in 1 .. n - 1 : pending'[i] = pending[i + 1]
  BY <1>1 DEF TakePart
<1> HIDE DEF n
<1> DEFINE e == [i \in 0 .. n - 1 |-> f[i + 1]]
<1>6. /\ f \in [0 .. n -> SaidRecord] /\ \A i \in 0 .. n : WellSaid(f[i])
      /\ \A i \in 1 .. n : pending[i] \in Parts(f[i - 1]) /\ f[i] = Said(f[i - 1], pending[i])
  BY <1>2 DEF Chain, n
<1>7. e \in [0 .. n - 1 -> SaidRecord] /\ \A i \in 0 .. n - 1 : e[i] = f[i + 1]
  BY <1>5, <1>6
<1> HIDE DEF e
<1>8. Chain(e, pending')
  <2>1. \A i \in 0 .. n - 1 : WellSaid(e[i])
    BY <1>5, <1>6, <1>7
  <2>2. ASSUME NEW i \in 1 .. n - 1
        PROVE  pending'[i] \in Parts(e[i - 1]) /\ e[i] = Said(e[i - 1], pending'[i])
    <3>1. /\ i + 1 \in 1 .. n /\ (i + 1) - 1 = i /\ i \in 0 .. n - 1 /\ i - 1 \in 0 .. n - 1
          /\ (i - 1) + 1 = i
      BY <1>5
    <3>2. e[i - 1] = f[i] /\ e[i] = f[i + 1] /\ pending'[i] = pending[i + 1]
      BY <1>5, <1>7, <3>1
    <3>3. pending[i + 1] \in Parts(f[i]) /\ f[i + 1] = Said(f[i], pending[i + 1])
      BY <1>6, <3>1
    <3> QED
      BY <3>2, <3>3
  <2> QED
    BY <1>5, <1>7, <2>1, <2>2 DEF Chain
<1>9. e[0] = f[1] /\ e[Len(pending')] = f[n]
  BY <1>5, <1>7
<1>10. \E x : Chain(x, pending') /\ x[0] = f[1] /\ x[Len(pending')] = f[n]
  BY <1>8, <1>9
<1>11. PICK x : Chain(x, pending') /\ x[0] = f[1] /\ x[Len(pending')] = f[n]
  BY <1>10
<1>12. Scanning'
  <2>1. kind' = kind
    BY DEF TakePart
  <2>2. Chain(x, pending)'
    BY <1>11, <2>1, SameKind DEF Chain
  <2>3. SaidSoFar(x[Len(pending)])'
    BY <1>2, <1>11 DEF SaidSoFar, TakePart, n
  <2>4. /\ usage' = said'.usage /\ finish' = said'.finish
        /\ exact' = (said'.usage # NoUsage)
        /\ client'.finish = IF kind' = "openai" THEN finish' ELSE ""
    BY <1>1, <1>4 DEF Scanning, TakePart
  <2>5. AccumulatedAs(x[0])' /\ HeardAs(x[0])'
    BY <1>4, <1>11
  <2> QED
    BY <2>2, <2>3, <2>4, <2>5 DEF Scanning
<1>13. RelayTypes' /\ WellSaid(said)' /\ pc' = "scan"
  BY <1>1, SameKind DEF StreamInv, RelayTypes, TakePart
<1> QED
  BY <1>5, <1>12, <1>13 DEF StreamInv

\* g says no more than what is said once one more part has been.
LEMMA OnePartBehind ==
  ASSUME NEW g, WellSaid(g), NEW p \in Parts(g), NEW h, h = Said(g, p)
  PROVE  Behind(g, h)
<1>1. /\ g.text \in Nat /\ Len(g.calls) \in Nat
      /\ \A c \in 1 .. Len(g.calls) : g.calls[c].sent \in Nat
  BY SaidFields DEF WellSaid, CallSaid
<1>2. CASE TextNext(g, p, h)
  <2>1. h.text = g.text + 1 /\ h.calls = g.calls
    BY <1>2, TextNextEffect
  <2> QED
    BY <1>1, <2>1 DEF Behind
<1>3. CASE CallOpened(g, p, h)
  <2>1. h.text = g.text /\ OpenedAt(g, p, h, Len(g.calls) + 1)
    BY <1>3, CallOpenedEffect
  <2>2. /\ Len(h.calls) = Len(g.calls) + 1
        /\ \A c \in 1 .. Len(g.calls) : h.calls[c] = g.calls[c]
    BY <2>1 DEF OpenedAt
  <2>3. \A c \in 1 .. Len(g.calls) :
          /\ g.calls[c].index = h.calls[c].index
          /\ g.calls[c].sent <= h.calls[c].sent /\ h.calls[c].sent <= g.calls[c].sent + 1
    BY <1>1, <2>2
  <2> QED
    BY <1>1, <2>1, <2>2, <2>3 DEF Behind
<1>4. CASE CallGrown(g, p, h)
  <2>1. h.text = g.text
    BY <1>4, CallGrownEffect
  <2>2. PICK c \in 1 .. Len(g.calls) : GrownAt(g, p, h, c)
    BY <1>4, CallGrownEffect
  <2>3. /\ Len(h.calls) = Len(g.calls)
        /\ h.calls[c].index = g.calls[c].index /\ h.calls[c].sent = g.calls[c].sent + 1
        /\ \A d \in 1 .. Len(g.calls) : d # c => h.calls[d] = g.calls[d]
    BY <2>2 DEF GrownAt
  <2>4. \A d \in 1 .. Len(g.calls) :
          /\ g.calls[d].index = h.calls[d].index
          /\ g.calls[d].sent <= h.calls[d].sent /\ h.calls[d].sent <= g.calls[d].sent + 1
    BY <1>1, <2>3
  <2> QED
    BY <1>1, <2>1, <2>3, <2>4 DEF Behind
<1> QED
  BY <1>2, <1>3, <1>4, PartCases

LEMMA StreamPartUndelivered ==
  ASSUME StreamInv, PartUndelivered
  PROVE  StreamInv'
<1>1. pc = "scan" /\ Scanning /\ pending # << >> /\ pending \in Seq(Part)
  BY ScanIfPending DEF PartUndelivered, StreamInv
<1>2. PICK f : Chain(f, pending) /\ AccumulatedAs(f[0]) /\ HeardAs(f[0])
  BY <1>1 DEF Scanning
<1> DEFINE p == Head(pending)
           g == f[0]
           h == f[1]
<1>3. p \in Parts(g) /\ h = Said(g, p) /\ WellSaid(g) /\ WellSaid(h)
  BY <1>1, <1>2, NextPart
<1>4. Accumulate(p) /\ kind' = kind /\ client' = client /\ failed' = TRUE
      /\ pc' = "returned" /\ pending' = << >> /\ said' = said
  BY DEF PartUndelivered
<1>5. AccumulatedAs(h)'
  BY <1>2, <1>3, <1>4, AccumulateAsSaid
<1>6. HeardAs(g)'
  BY <1>2, <1>4 DEF HeardAs, ArgsOf
<1>7. Behind(g, h)
  BY <1>3, OnePartBehind
<1> HIDE DEF g, h, p
<1>8. WellSaid(g)' /\ WellSaid(h)' /\ WellSaid(said)'
  BY <1>3, <1>4, SameKind DEF StreamInv
<1>9. Behind(g, h)'
  BY <1>7 DEF Behind
<1>10. Returned'
  BY <1>4, <1>5, <1>6, <1>8, <1>9 DEF Returned
<1>11. RelayTypes'
  BY <1>4 DEF StreamInv, RelayTypes, PartUndelivered
<1> QED
  BY <1>4, <1>8, <1>10, <1>11 DEF StreamInv

\* Between two lines the relay and the client have all that has been said.
LEMMA BetweenLines ==
  ASSUME StreamInv, pc = "scan", pending = << >>
  PROVE  /\ AccumulatedAs(said) /\ HeardAs(said) /\ Scanning
<1>1. PICK f : /\ Chain(f, << >>)
               /\ AccumulatedAs(f[0]) /\ HeardAs(f[0])
               /\ SaidSoFar(f[Len(<< >>)])
  BY DEF StreamInv, Scanning
<1>2. SaidSoFar(f[0])
  BY <1>1
<1> QED
  BY <1>1, <1>2 DEF StreamInv, AccumulatedAs, HeardAs, SaidSoFar

LEMMA StreamEarlyReturn ==
  ASSUME StreamInv, pc = "scan", pending = << >>,
         pc' = "returned", failed' = TRUE, pending' = << >>, kind' = kind,
         WellSaid(said)', UNCHANGED <<kept, usage, exact, finish, client>>
  PROVE  StreamInv'
<1>1. AccumulatedAs(said) /\ HeardAs(said) /\ WellSaid(said) /\ Behind(said, said)
  BY BetweenLines, BehindItself DEF StreamInv
<1>2. PICK s : AccumulatedAs(s) /\ HeardAs(s) /\ WellSaid(s) /\ Behind(s, s)
  BY <1>1
<1>3. AccumulatedAs(s)' /\ HeardAs(s)' /\ WellSaid(s)' /\ Behind(s, s)'
  BY <1>2, SameKind DEF AccumulatedAs, HeardAs, Behind, kept, ArgsOf
<1>4. Returned'
  BY <1>3 DEF Returned
<1>5. RelayTypes'
  BY DEF StreamInv, RelayTypes
<1> QED
  BY <1>4, <1>5 DEF StreamInv

LEMMA StreamStreamBreaks ==
  ASSUME StreamInv, StreamBreaks
  PROVE  StreamInv'
<1>1. WellSaid(said)'
  BY SameKind DEF StreamInv, StreamBreaks
<1> QED
  BY <1>1, StreamEarlyReturn DEF StreamBreaks, Interrupted

\* What a line may report.
LEMMA ReportsTyped ==
  ASSUME NEW report \in Reports \cup {NoUsage}
  PROVE  /\ report \in Usage
         /\ kind = "openai" /\ report # NoUsage =>
              report.prompt # 0 /\ report.completion # 0
<1>1. CASE report = NoUsage
  BY <1>1, NothingFields
<1> DEFINE More == {c \in Completions : c >= said.usage.completion}
           Both == [prompt : Prompts, completion : More]
           First == [prompt : Prompts, completion : {0}]
           Later == [prompt : {0}, completion : More]
<1>2. /\ \A n \in Prompts : n \in Nat /\ n # 0
      /\ \A n \in More : n \in Nat /\ n # 0
  BY StreamRelayAssumption
<1>3. report \in Reports => report \in Both \/ (kind # "openai" /\ report \in First \cup Later)
  BY DEF Reports
<1> HIDE DEF More
<1>4. report \in Both => report \in Usage /\ report.prompt # 0 /\ report.completion # 0
  BY <1>2 DEF Usage
<1>5. report \in First \cup Later => report \in Usage
  BY <1>2 DEF Usage
<1> QED
  BY <1>1, <1>3, <1>4, <1>5

LEMMA ReasonsMapped ==
  ASSUME kind \in Kinds, NEW reason \in Reasons(kind)
  PROVE  /\ FinishReason(reason) \in Finish /\ reason # ""
         /\ kind = "openai" => reason \in Finish /\ FinishReason(reason) = reason
<1>1. kind \in {"openai", "anthropic", "gemini"}
  BY StreamRelayAssumption
<1>2. CASE kind = "openai"
  BY <1>2 DEF Reasons, FinishReason, Finish
<1>3. CASE kind = "anthropic"
  BY <1>3 DEF Reasons, FinishReason, Finish
<1>4. CASE kind = "gemini"
  BY <1>4 DEF Reasons, FinishReason, Finish
<1> QED
  BY <1>1, <1>2, <1>3, <1>4

\* The usage counted is the latest that was reported.
LEMMA SameUsage ==
  ASSUME NEW u \in Usage, NEW v \in Usage, u.prompt = v.prompt, u.completion = v.completion
  PROVE  u = v
BY DEF Usage

LEMMA LatestFields ==
  ASSUME NEW u \in Usage, NEW v \in Usage
  PROVE  /\ Latest(u, v) \in Usage
         /\ Latest(u, v).prompt = IF v.prompt = 0 THEN u.prompt ELSE v.prompt
         /\ Latest(u, v).completion = IF v.completion = 0 THEN u.completion ELSE v.completion
BY DEF Latest, Usage

LEMMA NoUsageFields ==
  NoUsage \in Usage /\ NoUsage.prompt = 0 /\ NoUsage.completion = 0
BY DEF NoUsage, Usage

LEMMA LatestReported ==
  ASSUME NEW u \in Usage, NEW v \in Usage
  PROVE  (Latest(u, v) # NoUsage) <=> (u # NoUsage \/ v # NoUsage)
<1>1. \A w \in Usage : w = NoUsage <=> w.prompt = 0 /\ w.completion = 0
  BY NoUsageFields, SameUsage
<1>2. Latest(u, v) = NoUsage <=> u = NoUsage /\ v = NoUsage
  BY <1>1, LatestFields
<1> QED
  BY <1>2

LEMMA CountedIsLatest ==
  ASSUME usage \in Usage, NEW report \in Usage,
         kind = "openai" /\ report # NoUsage => report.prompt # 0 /\ report.completion # 0
  PROVE  Counted(report) = Latest(usage, report)
<1> DEFINE late == Latest(usage, report)
<1>1. /\ late \in Usage
      /\ late.prompt = IF report.prompt = 0 THEN usage.prompt ELSE report.prompt
      /\ late.completion = IF report.completion = 0 THEN usage.completion ELSE report.completion
  BY LatestFields
<1> HIDE DEF late
<1>2. CASE kind = "openai" /\ report = NoUsage
  <2>1. Counted(report) = usage
    BY <1>2 DEF Counted
  <2>2. late = usage
    BY <1>1, <1>2, NoUsageFields, SameUsage
  <2> QED
    BY <2>1, <2>2 DEF late
<1>3. CASE kind = "openai" /\ report # NoUsage
  <2>1. Counted(report) = report
    BY <1>3 DEF Counted
  <2>2. late = report
    BY <1>1, <1>3, SameUsage
  <2> QED
    BY <2>1, <2>2 DEF late
<1>4. CASE kind # "openai"
  <2> DEFINE new == Counted(report)
  <2>1. new = [prompt |-> IF report.prompt > 0 THEN report.prompt ELSE usage.prompt,
               completion |-> IF report.completion > 0 THEN report.completion
                              ELSE usage.completion]
    BY <1>4 DEF Counted
  <2>2. /\ new \in Usage
        /\ new.prompt = IF report.prompt > 0 THEN report.prompt ELSE usage.prompt
        /\ new.completion = IF report.completion > 0 THEN report.completion
                            ELSE usage.completion
    BY <2>1 DEF Usage
  <2>3. (report.prompt > 0 <=> report.prompt # 0)
        /\ (report.completion > 0 <=> report.completion # 0)
    BY DEF Usage
  <2> HIDE DEF new
  <2>4. new = late
    BY <1>1, <2>2, <2>3, SameUsage
  <2> QED
    BY <2>4 DEF new, late
<1> QED
  BY <1>2, <1>3, <1>4

\* What has been said once a line has been sent.
LEMMA SentLine ==
  ASSUME StreamInv, NEW r \in Runs[MaxParts],
         NEW reason \in Reasons(kind) \cup {""}, NEW report \in Reports \cup {NoUsage},
         Sends(r, reason, report), kind' = kind
  PROVE  /\ WellSaid(said)' /\ RunFrom(r)
         /\ said'.text = r.said.text /\ said'.calls = r.said.calls
         /\ said'.finish = IF reason = "" THEN said.finish ELSE FinishReason(reason)
         /\ said'.usage = Latest(said.usage, report)
<1>1. RunFrom(r) /\ WellSaid(r.said)
      /\ r.said.finish = said.finish /\ r.said.usage = said.usage
  <2>1. MaxParts \in Nat /\ WellSaid(said)
    BY StreamRelayAssumption DEF StreamInv
  <2>2. RunFrom(r)
    BY <2>1, RunsGoOn
  <2> QED
    BY <2>2 DEF RunFrom
<1> DEFINE last == IF reason = "" THEN said.finish ELSE FinishReason(reason)
           late == Latest(said.usage, report)
<1>2. kind \in Kinds /\ said.finish \in Finish /\ said.usage \in Usage
  BY SaidFields DEF StreamInv, RelayTypes, WellSaid
<1>3. last \in Finish
  BY <1>2, ReasonsMapped
<1>4. late \in Usage
  BY <1>2, ReportsTyped, LatestFields
<1>5. said' = [r.said EXCEPT !.finish = last, !.usage = late]
  BY <1>1 DEF Sends
<1> HIDE DEF last, late
<1>6. /\ said'.text = r.said.text /\ said'.calls = r.said.calls
      /\ said'.finish = last /\ said'.usage = late /\ said' \in SaidRecord
  BY <1>1, <1>3, <1>4, <1>5 DEF WellSaid, SaidRecord
<1>7. WellSaid(said)'
  BY <1>1, <1>6 DEF WellSaid, InOrder, SaidRecord, CallSaid
<1> QED
  BY <1>1, <1>6, <1>7 DEF last, late

LEMMA StreamLineUndelivered ==
  ASSUME StreamInv, NEW r \in Runs[MaxParts],
         NEW reason \in Reasons(kind) \cup {""}, NEW report \in Reports \cup {NoUsage},
         LineUndelivered(r, reason, report)
  PROVE  StreamInv'
<1>1. /\ Sends(r, reason, report) /\ kind' = kind /\ pc = "scan" /\ pending = << >>
      /\ pending' = << >> /\ pc' = "returned" /\ failed' = TRUE
      /\ UNCHANGED <<kept, usage, exact, finish, client>>
  BY DEF LineUndelivered, Sends
<1>2. WellSaid(said)'
  BY <1>1, SentLine
<1> QED
  BY <1>1, <1>2, StreamEarlyReturn

LEMMA StreamReadLine ==
  ASSUME StreamInv, NEW r \in Runs[MaxParts],
         NEW reason \in Reasons(kind) \cup {""}, NEW report \in Reports \cup {NoUsage},
         ReadLine(r, reason, report)
  PROVE  StreamInv'
<1>1. /\ Sends(r, reason, report) /\ kind' = kind /\ pc = "scan" /\ pc' = "scan"
      /\ pending = << >> /\ pending' = r.parts /\ failed' = failed
      /\ UNCHANGED <<text, order, calls>>
  BY DEF ReadLine, Sends, kept
<1>2. /\ WellSaid(said)' /\ RunFrom(r)
      /\ said'.text = r.said.text /\ said'.calls = r.said.calls
      /\ said'.finish = IF reason = "" THEN said.finish ELSE FinishReason(reason)
      /\ said'.usage = Latest(said.usage, report)
  BY <1>1, SentLine
<1>3. AccumulatedAs(said) /\ HeardAs(said) /\ Scanning
  BY <1>1, BetweenLines
<1>4. /\ kind \in Kinds /\ usage \in Usage /\ exact \in BOOLEAN
      /\ finish \in Finish /\ said.usage \in Usage /\ said.finish \in Finish
  BY SaidFields DEF StreamInv, RelayTypes, WellSaid
<1>5. /\ usage = said.usage /\ finish = said.finish /\ exact = (said.usage # NoUsage)
      /\ client.finish = IF kind = "openai" THEN finish ELSE ""
  BY <1>3 DEF Scanning
<1>6. report \in Usage
      /\ (kind = "openai" /\ report # NoUsage => report.prompt # 0 /\ report.completion # 0)
  BY ReportsTyped
<1>7. usage' = said'.usage /\ usage' \in Usage
  <2>1. usage' = Counted(report)
    BY DEF ReadLine
  <2>2. Counted(report) = Latest(usage, report)
    BY <1>4, <1>6, CountedIsLatest
  <2>3. Latest(usage, report) \in Usage
    BY <1>4, <1>6, LatestFields
  <2> QED
    BY <1>2, <1>5, <2>1, <2>2, <2>3
<1>8. exact' = (said'.usage # NoUsage) /\ exact' \in BOOLEAN
  <2>1. exact' = (exact \/ report # NoUsage)
    BY DEF ReadLine
  <2>2. (said'.usage # NoUsage) <=> (said.usage # NoUsage \/ report # NoUsage)
    BY <1>2, <1>4, <1>6, LatestReported
  <2> QED
    BY <1>5, <2>1, <2>2
<1>9. finish' = said'.finish /\ finish' \in Finish
  <2>1. finish' = IF reason = "" THEN finish ELSE FinishReason(reason)
    BY DEF ReadLine
  <2> QED
    BY <1>2, <1>4, <1>5, <2>1, ReasonsMapped
<1> DEFINE records == [text : Seq(1 .. MaxText), calls : [Indices -> Call], finish : Finish]
<1>10. /\ client' \in records
       /\ client'.text = client.text /\ client'.calls = client.calls
       /\ client'.finish = IF kind = "openai" THEN finish' ELSE ""
  <2>1. client \in records
    BY <1>3 DEF HeardAs
  <2>2. CASE kind = "openai"
    <3> DEFINE last == IF reason = "" THEN client.finish ELSE reason
    <3>1. last \in Finish /\ last = finish'
      <4>1. finish' = IF reason = "" THEN finish ELSE FinishReason(reason)
        BY DEF ReadLine
      <4> QED
        BY <1>4, <1>5, <2>2, <4>1, ReasonsMapped
    <3>2. client' = [client EXCEPT !.finish = last]
      BY <2>2 DEF ReadLine, HeardFinish
    <3> HIDE DEF last
    <3> QED
      BY <2>1, <2>2, <3>1, <3>2
  <2>3. CASE kind # "openai"
    BY <1>5, <2>1, <2>3 DEF ReadLine
  <2> QED
    BY <2>2, <2>3
<1> HIDE DEF records
<1>11. PICK f : Chain(f, r.parts) /\ f[0] = said /\ f[Len(r.parts)] = r.said
  BY <1>2 DEF RunFrom
<1>12. Chain(f, pending)'
  BY <1>1, <1>11, SameKind DEF Chain
<1>13. AccumulatedAs(f[0])' /\ HeardAs(f[0])'
  BY <1>1, <1>3, <1>10, <1>11 DEF AccumulatedAs, HeardAs, records, ArgsOf
<1>14. SaidSoFar(f[Len(pending)])'
  BY <1>1, <1>2, <1>11 DEF SaidSoFar
<1>15. Scanning'
  BY <1>1, <1>7, <1>8, <1>9, <1>10, <1>12, <1>13, <1>14 DEF Scanning
<1>16. RelayTypes'
  BY <1>1, <1>4, <1>7, <1>8, <1>9 DEF StreamInv, RelayTypes
<1>17. pending' \in Seq(Part)
  BY <1>1, <1>2 DEF RunFrom
<1> QED
  BY <1>1, <1>2, <1>15, <1>16, <1>17 DEF StreamInv

LEMMA StreamStreamEnds ==
  ASSUME StreamInv, StreamEnds
  PROVE  StreamInv'
<1>1. /\ kind' = kind /\ said' = said /\ pc' = "returned" /\ pending' = << >>
      /\ text' = text /\ order' = order /\ calls' = calls /\ exact' = exact
      /\ failed' \in BOOLEAN /\ pc = "scan" /\ pending = << >>
  BY DEF StreamEnds, kept
<1>2. AccumulatedAs(said) /\ HeardAs(said) /\ WellSaid(said) /\ Behind(said, said)
  BY <1>1, BetweenLines, BehindItself DEF StreamInv
<1>3. /\ kind \in Kinds /\ usage \in Usage /\ exact \in BOOLEAN /\ finish \in Finish
      /\ usage = said.usage /\ finish = said.finish /\ exact = (said.usage # NoUsage)
      /\ client.finish = IF kind = "openai" THEN finish ELSE ""
  BY <1>1 DEF StreamInv, RelayTypes, Scanning
<1>4. /\ Len(text) = said.text /\ said.text \in Nat
  BY <1>2, SaidFields, UpToIs DEF AccumulatedAs, WellSaid
<1> DEFINE estimate == [prompt |-> PromptEstimate,
                        completion |-> (said.text * PieceLength) \div 4]
<1>5. usage' = (IF kind = "openai" /\ said.usage = NoUsage THEN estimate ELSE said.usage)
  BY <1>3, <1>4 DEF StreamEnds, Settled
<1>6. usage' \in Usage
  <2>1. said.text * PieceLength \in Nat /\ PromptEstimate \in Nat
    BY <1>4, StreamRelayAssumption
  <2>2. \A n \in Nat : n \div 4 \in Nat
    OBVIOUS
  <2>3. estimate \in Usage
    BY <2>1, <2>2 DEF Usage
  <2> HIDE DEF estimate
  <2> QED
    BY <1>3, <1>5, <2>3
<1>7. finish' = (IF kind = "openai" THEN said.finish ELSE OrStop(said.finish))
      /\ finish' \in Finish
  BY <1>3 DEF StreamEnds, OrStop, Finish
<1> DEFINE records == [text : Seq(1 .. MaxText), calls : [Indices -> Call], finish : Finish]
           heard == IF finish' = "" THEN client.finish ELSE finish'
<1>8. client \in records /\ heard \in Finish
  BY <1>2, <1>3, <1>7 DEF HeardAs, Finish
<1>9. client' = client \/ client' = [client EXCEPT !.finish = heard]
  BY DEF StreamEnds, HeardFinish
<1>10. failed' = FALSE => client' = [client EXCEPT !.finish = heard]
  BY DEF StreamEnds, HeardFinish
<1>11. heard = finish'
  BY <1>3, <1>7 DEF OrStop
<1> HIDE DEF heard
<1>12. /\ client' \in records
       /\ client'.text = client.text /\ client'.calls = client.calls
       /\ failed' = FALSE => client'.finish = finish'
  BY <1>8, <1>9, <1>10, <1>11
<1> HIDE DEF records
<1>13. PICK s : /\ AccumulatedAs(s) /\ HeardAs(s) /\ WellSaid(s) /\ Behind(s, s)
                /\ s = said
  BY <1>2
<1>14. AccumulatedAs(s)'
  BY <1>1, <1>13 DEF AccumulatedAs, ArgsOf
<1>15. HeardAs(s)'
  BY <1>1, <1>12, <1>13 DEF HeardAs, records, ArgsOf
<1>16. WellSaid(s)' /\ Behind(s, s)' /\ WellSaid(said)' /\ SaidSoFar(s)'
  BY <1>1, <1>13, SameKind DEF Behind, SaidSoFar
<1>17. Returned'
  <2>1. ~failed' =>
          /\ usage' = IF kind' = "openai" /\ said'.usage = NoUsage
                  THEN [prompt |-> PromptEstimate,
                        completion |-> (said'.text * PieceLength) \div 4]
                  ELSE said'.usage
          /\ finish' = IF kind' = "openai" THEN said'.finish ELSE OrStop(said'.finish)
          /\ client'.finish = finish'
    BY <1>1, <1>5, <1>7, <1>12
  <2> QED
    BY <1>14, <1>15, <1>16, <2>1 DEF Returned
<1>18. RelayTypes'
  BY <1>1, <1>3, <1>6, <1>7 DEF RelayTypes
<1>19. pending' \in Seq(Part)
  BY <1>1
<1> QED
  BY <1>1, <1>16, <1>17, <1>18, <1>19 DEF StreamInv

\* Every step of a relay keeps the invariant.
LEMMA StreamStep ==
  ASSUME StreamInv, Next
  PROVE  StreamInv'
<1>1. CASE \E r \in Runs[MaxParts], reason \in Reasons(kind) \cup {""},
              report \in Reports \cup {NoUsage} :
              ReadLine(r, reason, report) \/ LineUndelivered(r, reason, report)
  BY <1>1, StreamReadLine, StreamLineUndelivered
<1>2. CASE TakePart
  BY <1>2, StreamTakePart
<1>3. CASE PartUndelivered
  BY <1>3, StreamPartUndelivered
<1>4. CASE StreamBreaks
  BY <1>4, StreamStreamBreaks
<1>5. CASE StreamEnds
  BY <1>5, StreamStreamEnds
<1> QED
  BY <1>1, <1>2, <1>3, <1>4, <1>5 DEF Next

\* The properties of a relay that follow.
LEMMA StreamProperties ==
  StreamInv => TypeOK /\ RebuiltAsSaid /\ ReplayAsStreamed /\ UsageAsReported
                 /\ DeliveredIsKept
BY RelayTyped, Rebuilt, Replayed, UsageReported, DeliveredKept

\* One relay: whatever the provider sends, and whenever its client goes or the
\* connection breaks, what is rebuilt of a stream that ended is what was said,
\* and what is returned of any has what was delivered, with {} for arguments
\* that were broken off.
THEOREM OneStream ==
  Spec => [](TypeOK /\ RebuiltAsSaid /\ ReplayAsStreamed /\ UsageAsReported
               /\ DeliveredIsKept)
<1>1. Init => StreamInv
  BY StreamInit
<1>2. StreamInv /\ [Next]_vars => StreamInv'
  BY StreamStep, StreamUnchanged
<1> QED
  BY <1>1, <1>2, StreamProperties, PTL DEF Spec
=============================================================================
