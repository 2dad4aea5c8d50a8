---------------------------- MODULE RoutingProofs ----------------------------
(***************************************************************************)
(* The price table against the router, for every name: what a pricing      *)
(* section may change, and that on the models of the providers that the    *)
(* router knows the program's own table and the router agree.              *)
(***************************************************************************)
EXTENDS Routing, SumsProofs

\* The names that a name begins with: itself and shorter ones, which agree with
\* it as far as they go.
LEMMA BeginningsOf ==
  ASSUME NEW m \in Seq(STRING) \ {<< >>}
  PROVE  /\ m \in Beginnings(m)
         /\ \A n \in Beginnings(m) :
              /\ Len(n) \in 1 .. Len(m) /\ n[1] = m[1] /\ n \in Seq(STRING)
              /\ Len(n) > 1 => n[2] = m[2]
<1>1. m = SubSeq(m, 1, Len(m)) /\ Len(m) \in 1 .. Len(m)
  OBVIOUS
<1>2. m \in Beginnings(m)
  BY <1>1 DEF Beginnings
<1>3. ASSUME NEW k \in 1 .. Len(m)
      PROVE  LET n == SubSeq(m, 1, k)
             IN  /\ Len(n) = k /\ n[1] = m[1] /\ n \in Seq(STRING)
                 /\ k > 1 => n[2] = m[2]
  OBVIOUS
<1> QED
  BY <1>2, <1>3 DEF Beginnings

\* Among some of them there is a longest: the entry that Lookup takes.
LEMMA LongestBeginning ==
  ASSUME NEW m \in Seq(STRING) \ {<< >>}, NEW S, S \subseteq Beginnings(m), S # {}
  PROVE  \E n \in S : \A other \in S : Len(other) <= Len(n)
<1> DEFINE T == {Len(m) - Len(n) : n \in S}
<1>1. \A n \in S : Len(n) \in 1 .. Len(m)
  BY BeginningsOf
<1>2. T \subseteq Nat /\ T # {}
  BY <1>1
<1>3. PICK x \in T : \A y \in T : x <= y
  BY <1>2, LeastNat
<1>4. PICK n \in S : x = Len(m) - Len(n)
  BY <1>3
<1>5. \A other \in S : Len(m) - Len(n) <= Len(m) - Len(other)
  BY <1>3, <1>4
<1> QED
  BY <1>1, <1>4, <1>5

\* The entry that a name is looked up by.
Entry(table, m) ==
  CHOOSE n \in Matches(table, m) :
    \A other \in Matches(table, m) : Len(other) <= Len(n)

LEMMA EntryIs ==
  ASSUME NEW m \in Seq(STRING) \ {<< >>}, NEW table, Matches(table, m) # {}
  PROVE  Entry(table, m) \in Beginnings(m) \cap DOMAIN table
<1>1. Matches(table, m) \subseteq Beginnings(m)
  BY DEF Matches
<1>2. \E n \in Matches(table, m) : \A other \in Matches(table, m) : Len(other) <= Len(n)
  BY <1>1, LongestBeginning
<1> QED
  BY <1>2 DEF Entry, Matches

\* Without the white space around it, a name is a name or nothing is left of it.
LEMMA TrimmedName ==
  ASSUME NEW m \in Seq(STRING) \ {<< >>}
  PROVE  /\ Trimmed(m) \in Seq(STRING)
         /\ Trimmed(m) = m => m[1] # Space
<1> DEFINE first == IF m[1] = Space THEN 2 ELSE 1
           last  == IF m[Len(m)] = Space THEN Len(m) - 1 ELSE Len(m)
<1>1. Len(m) \in Nat /\ Len(m) > 0
  OBVIOUS
<1>2. first \in {1, 2} /\ last \in 0 .. Len(m) /\ (m[1] = Space => first = 2)
  BY <1>1
<1>3. Trimmed(m) = SubSeq(m, first, last)
  BY DEF Trimmed
<1> HIDE DEF first, last
<1>4. \A i \in first .. last : m[i] \in STRING
  BY <1>1, <1>2
<1>5. Trimmed(m) \in Seq(STRING)
  BY <1>2, <1>3, <1>4
<1>6. first = 2 => Len(Trimmed(m)) < Len(m)
  BY <1>1, <1>2, <1>3
<1> QED
  BY <1>1, <1>2, <1>5, <1>6

\* Of no name nothing is known.
LEMMA NothingKnown == \A table : ~Known(table, << >>)
<1>1. Beginnings(<< >>) = {}
  BY DEF Beginnings
<1> QED
  BY <1>1 DEF Known, Slashed, Matches

\* A pricing section that has none of the names that a model's begins with does
\* not change who serves the model.
LEMMA Untouched ==
  ASSUME NEW m \in Seq(STRING) \ {<< >>}, NEW overrides,
         \A o \in overrides : o[1] \notin Beginnings(m)
  PROVE  /\ Known(ApplyOverrides(Table, overrides), m) = Known(Table, m)
         /\ Known(Table, m) =>
              ProviderFor(ApplyOverrides(Table, overrides), m) = ProviderFor(Table, m)
<1> DEFINE live == ApplyOverrides(Table, overrides)
<1>1. /\ DOMAIN live = DOMAIN Table \cup {o[1] : o \in overrides}
      /\ \A n \in DOMAIN Table : (\A o \in overrides : o[1] # n) => live[n] = Table[n]
  <2> DEFINE named(n) == {o[2] : o \in {v \in overrides : v[1] = n}} \ {Unnamed}
  <2>1. live = [n \in DOMAIN Table \cup {o[1] : o \in overrides} |->
                  IF named(n) # {} THEN CHOOSE p \in named(n) : TRUE
                  ELSE IF n \in DOMAIN Table THEN Table[n] ELSE Unnamed]
    BY DEF ApplyOverrides
  <2> HIDE DEF live
  <2>2. \A n : (\A o \in overrides : o[1] # n) => named(n) = {}
    OBVIOUS
  <2> HIDE DEF named
  <2> QED
    BY <2>1, <2>2
<1> HIDE DEF live
<1>2. Matches(live, m) = Matches(Table, m)
  BY <1>1 DEF Matches
<1>3. \A n \in Beginnings(m) \cap DOMAIN Table : live[n] = Table[n]
  BY <1>1
<1>4. Matches(Table, m) # {} => Lookup(live, m) = Lookup(Table, m)
  <2>1. Entry(live, m) = Entry(Table, m)
    BY <1>2 DEF Entry
  <2>2. Lookup(live, m) = live[Entry(live, m)] /\ Lookup(Table, m) = Table[Entry(Table, m)]
    BY DEF Lookup, Entry
  <2> QED
    BY <1>3, <2>1, <2>2, EntryIs
<1>5. m \in DOMAIN live <=> m \in DOMAIN Table
  BY <1>1, BeginningsOf
<1>6. m \in DOMAIN Table => live[m] = Table[m]
  BY <1>3, BeginningsOf
<1> QED
  BY <1>2, <1>4, <1>5, <1>6 DEF Known, ProviderFor, live
-----------------------------------------------------------------------------
\* A name whose first part is one of firsts, and that has no slash after it.
Plain(m, firsts) ==
  /\ Len(m) \in Nat /\ Len(m) > 0
  /\ m[1] \in firsts /\ m[1] # Space
  /\ Len(m) > 1 => m[2] # Slash

\* The names of the table, by how many parts they have.
LEMMA PlainOne ==
  ASSUME NEW firsts, NEW a \in firsts, a # Space
  PROVE  Plain(<<a>>, firsts)
BY DEF Plain

LEMMA PlainTwo ==
  ASSUME NEW firsts, NEW a \in firsts, a # Space, NEW b, b # Slash
  PROVE  Plain(<<a, b>>, firsts)
BY DEF Plain

LEMMA PlainThree ==
  ASSUME NEW firsts, NEW a \in firsts, a # Space, NEW b, b # Slash, NEW c
  PROVE  Plain(<<a, b, c>>, firsts)
BY DEF Plain

LEMMA PlainFour ==
  ASSUME NEW firsts, NEW a \in firsts, a # Space, NEW b, b # Slash, NEW c, NEW d
  PROVE  Plain(<<a, b, c, d>>, firsts)
BY DEF Plain

OpenAIFirsts == {"gpt-", "o1", "o3", "o4-", "text-", "tts-", "whisper-1"}

\* The first two parts of the names that the program comes with.
LEMMA OpenAINames == \A m \in Families["openai"] : Plain(m, OpenAIFirsts)
<1> SUFFICES ASSUME NEW m \in Families["openai"] PROVE Plain(m, OpenAIFirsts)
  OBVIOUS
<1>1. \/ \E v \in {"5", "4", "3.5-turbo", "image-1"} : m = <<"gpt-", v>>
      \/ \E v \in {"-mini", "-nano"} : m = <<"gpt-", "5", v>>
      \/ \E v \in {"o", ".1", "-turbo"} : m = <<"gpt-", "4", v>>
      \/ m = <<"gpt-", "4", "o", "-mini">>
      \/ \E v \in {"-mini", "-nano"} : m = <<"gpt-", "4", ".1", v>>
      \/ m \in {<<"o1">>, <<"o1", "-mini">>, <<"o3">>, <<"o3", "-mini">>, <<"o4-", "mini">>}
      \/ \E v \in {"embedding-3-small", "embedding-3-large",
                                     "embedding-ada-002"} : m = <<"text-", v>>
      \/ m \in {<<"tts-", "1">>, <<"tts-", "1", "-hd">>, <<"whisper-1">>}
  BY DEF Families
<1>2. CASE \E v \in {"5", "4", "3.5-turbo", "image-1"} : m = <<"gpt-", v>>
  BY <1>2, PlainTwo DEF OpenAIFirsts, Slash, Space
<1>3. CASE \E v \in {"-mini", "-nano"} : m = <<"gpt-", "5", v>>
  BY <1>3, PlainThree DEF OpenAIFirsts, Slash, Space
<1>4. CASE \E v \in {"o", ".1", "-turbo"} : m = <<"gpt-", "4", v>>
  BY <1>4, PlainThree DEF OpenAIFirsts, Slash, Space
<1>5. CASE \/ m = <<"gpt-", "4", "o", "-mini">>
           \/ \E v \in {"-mini", "-nano"} : m = <<"gpt-", "4", ".1", v>>
  BY <1>5, PlainFour DEF OpenAIFirsts, Slash, Space
<1>6. CASE m \in {<<"o1">>, <<"o1", "-mini">>, <<"o3">>, <<"o3", "-mini">>, <<"o4-", "mini">>}
  BY <1>6, PlainOne, PlainTwo DEF OpenAIFirsts, Slash, Space
<1>7. CASE \E v \in {"embedding-3-small", "embedding-3-large",
                                     "embedding-ada-002"} : m = <<"text-", v>>
  BY <1>7, PlainTwo DEF OpenAIFirsts, Slash, Space
<1>8. CASE m \in {<<"tts-", "1">>, <<"tts-", "1", "-hd">>, <<"whisper-1">>}
  BY <1>8, PlainOne, PlainTwo, PlainThree DEF OpenAIFirsts, Slash, Space
<1> QED
  BY <1>1, <1>2, <1>3, <1>4, <1>5, <1>6, <1>7, <1>8

\* A name with a slash after its first part, as the table has them.
LEMMA SlashThree ==
  ASSUME NEW a, NEW b
  PROVE  Slashed(<<a, Slash, b>>) /\ <<a, Slash, b>>[1] = a
BY DEF Slashed

\* Without the slash, the first part decides.
LEMMA PlainRouted ==
  ASSUME NEW m, NEW firsts, Plain(m, firsts)
  PROVE  RouteProvider(m) = RouteBare(m) /\ m[1] \in firsts
BY DEF Plain, RouteProvider, Slashed

\* Family by family, the router agrees with the program's own table.
LEMMA OpenAIRouted == \A m \in Families["openai"] : RouteProvider(m) = "openai"
  BY OpenAINames, PlainRouted DEF RouteBare, OpenAIFirsts

LEMMA AnthropicRouted == \A m \in Families["anthropic"] : RouteProvider(m) = "anthropic"
<1> SUFFICES ASSUME NEW m \in Families["anthropic"] PROVE RouteProvider(m) = "anthropic"
  OBVIOUS
<1>1. PICK v \in {"-sonnet-5", "-opus-5", "-fable-5", "-haiku-4-5",
                  "-sonnet-4-5", "-opus-4-5"} : m = <<"claude", v>>
  BY DEF Families
<1>2. Plain(m, {"claude"})
  BY <1>1, PlainTwo DEF Slash, Space
<1> QED
  BY <1>2, PlainRouted DEF RouteBare

LEMMA GeminiRouted == \A m \in Families["gemini"] : RouteProvider(m) = "gemini"
<1> SUFFICES ASSUME NEW m \in Families["gemini"] PROVE RouteProvider(m) = "gemini"
  OBVIOUS
<1>1. \E v \in {"-3.5-flash", "-2.5-pro", "-2.5-flash", "-embedding-001",
                "-3.1-flash-image", "-3.1-flash-tts-preview"} :
         m \in {<<"gemini", v>>, <<"gemini", v, "-lite">>}
  BY DEF Families
<1>2. Plain(m, {"gemini"})
  BY <1>1, PlainTwo, PlainThree DEF Slash, Space
<1> QED
  BY <1>2, PlainRouted DEF RouteBare

LEMMA GroqRouted == \A m \in Families["groq"] : RouteProvider(m) = "groq"
<1> SUFFICES ASSUME NEW m \in Families["groq"] PROVE RouteProvider(m) = "groq"
  OBVIOUS
<1>1. \/ \E v \in {"-3.1-8b-instant", "-3.3-70b-versatile"} : m = <<"llama", v>>
      \/ m \in {<<"whisper-large-v3">>, <<"whisper-large-v3", "-turbo">>}
      \/ \E v \in {"orpheus-v1-english", "orpheus-arabic-saudi"} :
            m = <<"canopylabs", Slash, v>>
  BY DEF Families
<1>2. CASE \E v \in {"-3.1-8b-instant", "-3.3-70b-versatile"} : m = <<"llama", v>>
  <2>1. Plain(m, {"llama"})
    BY <1>2, PlainTwo DEF Slash, Space
  <2> QED
    BY <2>1, PlainRouted DEF RouteBare
<1>3. CASE m \in {<<"whisper-large-v3">>, <<"whisper-large-v3", "-turbo">>}
  <2>1. Plain(m, {"whisper-large-v3"})
    BY <1>3, PlainOne, PlainTwo DEF Slash, Space
  <2> QED
    BY <2>1, PlainRouted DEF RouteBare
<1>4. CASE \E v \in {"orpheus-v1-english", "orpheus-arabic-saudi"} :
            m = <<"canopylabs", Slash, v>>
  <2>1. Slashed(m) /\ m[1] = "canopylabs"
    BY <1>4, SlashThree
  <2> QED
    BY <2>1 DEF RouteProvider, RouteSlashed, Families, Space
<1> QED
  BY <1>1, <1>2, <1>3, <1>4

LEMMA TogetherRouted == \A m \in Families["together"] : RouteProvider(m) = "together"
<1> SUFFICES ASSUME NEW m \in Families["together"] PROVE RouteProvider(m) = "together"
  OBVIOUS
<1>1. \E a \in {"meta-llama", "together", "black-forest-labs"} : \E v : m = <<a, Slash, v>>
  BY DEF Families
<1>2. Slashed(m) /\ m[1] \in {"meta-llama", "together", "black-forest-labs"}
  BY <1>1, SlashThree
<1> QED
  BY <1>2 DEF RouteProvider, RouteSlashed, Families, Space

\* Together: the router sends each listed model to the provider it is listed with.
LEMMA FamilyRouted ==
  \A p \in DOMAIN Families : \A m \in Families[p] : RouteProvider(m) = p
<1>1. DOMAIN Families = {"openai", "anthropic", "gemini", "groq", "together"}
  BY DEF Families
<1> QED
  BY <1>1, OpenAIRouted, AnthropicRouted, GeminiRouted, GroqRouted, TogetherRouted

LEMMA TableRouted == \A m \in DOMAIN Table : Table[m] = RouteProvider(m)
<1>1. Table = [m \in UNION {Families[p] : p \in DOMAIN Families} |->
                 CHOOSE p \in DOMAIN Families : m \in Families[p]]
  BY DEF Table
<1> SUFFICES ASSUME NEW m \in DOMAIN Table PROVE Table[m] = RouteProvider(m)
  OBVIOUS
<1>2. \E p \in DOMAIN Families : m \in Families[p]
  BY <1>1
<1>3. Table[m] \in DOMAIN Families /\ m \in Families[Table[m]]
  BY <1>1, <1>2
<1> QED
  BY <1>3, FamilyRouted

\* The program's own table and the router agree on the models of the providers
\* that the router knows, for every name that white space does not stand before.
THEOREM TableAndRouterAgree ==
  ASSUME NEW m \in Seq(STRING) \ {<< >>}, m[1] # Space,
         Known(Table, m), ProviderFor(Table, m) \in DOMAIN Families
  PROVE  RouteProvider(m) = ProviderFor(Table, m)
<1>1. CASE Slashed(m) /\ m \in DOMAIN Table
  BY <1>1, TableRouted DEF ProviderFor
<1>2. CASE Slashed(m) /\ m \notin DOMAIN Table
  <2>1. m[1] \in {"openai", "anthropic", "gemini", "groq", "together"}
    BY <1>2 DEF ProviderFor, Families
  <2>2. RouteSlashed(m) = m[1]
    BY <2>1 DEF RouteSlashed, Families
  <2> QED
    BY <1>2, <2>2 DEF ProviderFor, RouteProvider
<1>3. CASE ~Slashed(m)
  <2> DEFINE n == Entry(Table, m)
  <2>1. Matches(Table, m) # {} /\ ProviderFor(Table, m) = Table[n]
    BY <1>3 DEF Known, ProviderFor, Lookup, Entry
  <2>2. n \in Beginnings(m) \cap DOMAIN Table
    BY <2>1, EntryIs
  <2> HIDE DEF n
  <2>3. /\ Len(n) \in 1 .. Len(m) /\ n[1] = m[1] /\ n \in Seq(STRING)
        /\ Len(n) > 1 => n[2] = m[2]
    BY <2>2, BeginningsOf
  <2>4. Len(m) \in Nat
    OBVIOUS
  <2>5. ~Slashed(n)
    BY <1>3, <2>3, <2>4 DEF Slashed
  <2>6. RouteProvider(n) = RouteProvider(m)
    BY <1>3, <2>3, <2>5 DEF RouteProvider, RouteBare
  <2> QED
    BY <2>1, <2>2, <2>6, TableRouted
<1> QED
  BY <1>1, <1>2, <1>3
=============================================================================
