------------------------------- MODULE Routing -------------------------------
(***************************************************************************)
(* Which provider serves a model: by the price table (internal/cost), which *)
(* decides when a fallback list is validated, and by the name alone        *)
(* (internal/proxy/route.go), which decides when a request is sent.        *)
(*                                                                         *)
(* A name is a sequence of parts, cut where one name is a prefix of        *)
(* another, where the router looks, around the first slash, and around the *)
(* white space before and after the name.                                  *)
(***************************************************************************)
EXTENDS Naturals, Sequences

Slash == "/"
Slashed(m) == Len(m) > 1 /\ m[2] = Slash

\* strings.TrimSpace: the white space at either end is one part at most.
Space == " "
Trimmed(m) ==
  SubSeq(m, IF m[1] = Space THEN 2 ELSE 1,
            IF m[Len(m)] = Space THEN Len(m) - 1 ELSE Len(m))

\* Table: the models that the program comes with, each with its provider.
Families ==
  [openai |->
     {<<"gpt-", v>> : v \in {"5", "4", "3.5-turbo", "image-1"}}
       \cup {<<"gpt-", "5", v>> : v \in {"-mini", "-nano"}}
       \cup {<<"gpt-", "4", v>> : v \in {"o", ".1", "-turbo"}}
       \cup {<<"gpt-", "4", "o", "-mini">>}
       \cup {<<"gpt-", "4", ".1", v>> : v \in {"-mini", "-nano"}}
       \cup {<<"o1">>, <<"o1", "-mini">>, <<"o3">>, <<"o3", "-mini">>, <<"o4-", "mini">>}
       \cup {<<"text-", v>> : v \in {"embedding-3-small", "embedding-3-large",
                                     "embedding-ada-002"}}
       \cup {<<"tts-", "1">>, <<"tts-", "1", "-hd">>, <<"whisper-1">>},
   anthropic |->
     {<<"claude", v>> : v \in {"-sonnet-5", "-opus-5", "-fable-5", "-haiku-4-5",
                               "-sonnet-4-5", "-opus-4-5"}},
   gemini |->
     {<<"gemini", v>> : v \in {"-3.5-flash", "-2.5-pro", "-2.5-flash", "-embedding-001",
                               "-3.1-flash-image", "-3.1-flash-tts-preview"}}
       \cup {<<"gemini", v, "-lite">> : v \in {"-3.5-flash", "-2.5-flash"}},
   groq |->
     {<<"llama", v>> : v \in {"-3.1-8b-instant", "-3.3-70b-versatile"}}
       \cup {<<"whisper-large-v3">>, <<"whisper-large-v3", "-turbo">>}
       \cup {<<"canopylabs", Slash, v>> : v \in {"orpheus-v1-english",
                                                 "orpheus-arabic-saudi"}},
   together |->
     {<<"meta-llama", Slash, "Llama-3.3-70B-Instruct-Turbo">>,
      <<"together", Slash, "whisper-large-v3">>}
       \cup {<<"black-forest-labs", Slash, v>> : v \in {"FLUX.1.1-pro", "FLUX.1-schnell"}}]

Table ==
  [m \in UNION {Families[p] : p \in DOMAIN Families} |->
     CHOOSE p \in DOMAIN Families : m \in Families[p]]

\* What a pricing section may name as a model's provider, if anything.
Unnamed == ""

\* ApplyOverrides: overrides are pairs of a model and a provider or Unnamed.  A
\* listed model keeps its provider unless the override names one.
ApplyOverrides(table, overrides) ==
  LET registered == {o[1] : o \in overrides}
      named(m)   == {o[2] : o \in {v \in overrides : v[1] = m}} \ {Unnamed}
  IN  [m \in DOMAIN table \cup registered |->
         IF named(m) # {} THEN CHOOSE p \in named(m) : TRUE
         ELSE IF m \in DOMAIN table THEN table[m] ELSE Unnamed]

\* Lookup: the model's own entry, or else the longest that its name begins with.
Beginnings(m) == {SubSeq(m, 1, n) : n \in 1 .. Len(m)}
Matches(table, m) == Beginnings(m) \cap DOMAIN table
Lookup(table, m) ==
  table[CHOOSE n \in Matches(table, m) :
          \A other \in Matches(table, m) : Len(other) <= Len(n)]

\* ProviderFor: for a name with a slash the table's only if it is listed itself,
\* for another that of its entry.
Known(table, m) == Slashed(m) \/ Matches(table, m) # {}
ProviderFor(table, m) ==
  IF Slashed(m) THEN IF m \in DOMAIN table THEN table[m] ELSE m[1]
  ELSE Lookup(table, m)

\* Where the router sends a name with a slash, and one without.
RouteSlashed(m) ==
  CASE m[1] \in DOMAIN Families  -> m[1]
    [] m[1] = "canopylabs"       -> "groq"
    [] OTHER                     -> "together"
RouteBare(m) ==
  CASE m[1] \in {"gpt-", "o1", "o3", "text-", "dall-e", "tts-", "whisper-1"} -> "openai"
    [] m[1] = "claude"                                                        -> "anthropic"
    [] m[1] = "gemini"                                                        -> "gemini"
    [] m[1] \in {"llama", "mixtral", "gemma", "deepseek", "whisper-large-v3"} -> "groq"
    [] m[1] \in {"flux", "stable-diffusion"}                                  -> "together"
    [] OTHER                                                                  -> "openai"

\* With white space before it, it begins with no vendor and no family it knows.
RoutePadded(m) == IF Slashed(Tail(m)) THEN "together" ELSE "openai"

\* RouteProvider knows neither the table nor the configuration.
RouteProvider(m) ==
  IF m[1] = Space THEN RoutePadded(m)
  ELSE IF Slashed(m) THEN RouteSlashed(m) ELSE RouteBare(m)
=============================================================================
