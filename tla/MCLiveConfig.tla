---------------------------- MODULE MCLiveConfig ----------------------------
(***************************************************************************)
(* Instances of LiveConfig: two users, two keys and one by hand, two       *)
(* providers, and models that the price table lists, that extend one of    *)
(* it, or that it does not list.                                           *)
(***************************************************************************)
EXTENDS LiveConfig, TLC

CONSTANTS o1, o2, k1, k2, own

MCTokens    == {k1, k2, own}
MCOperators == {o1, o2}

\* A dated name, one that the table lists with a vendor and has a space before it
\* here, and one that only a pricing section knows.
Dated   == <<"gpt-", "4", "o", "-2024-08-06">>
Padded  == <<Space, "canopylabs", Slash, "orpheus-v1-english">>
Tuned   == <<"tuned">>

MCModels == {Dated, Padded, Tuned}

\* A file that an operator has written: it maps a key to a user without an entry,
\* names a cache without its address, and registers a model.
MCHandWritten ==
  {[NoConfig EXCEPT !.providers = {"openai"}, !.keys = {<<own, "bob">>},
                    !.priced = {<<Tuned, "openai">>}, !.cacheReady = FALSE]}

MCSetups == {[providers |-> {"groq"}, users |-> {"ann"}, cacheOn |-> TRUE]}

\* One user or the other or both, with fallbacks that need both providers, or
\* that only a pricing section knows, or none.
MCEdits ==
  {[users |-> {"bob"}, fallback |-> {Tuned}, cacheOn |-> FALSE],
   [users |-> {"ann"}, fallback |-> {Dated, Padded}, cacheOn |-> TRUE],
   [users |-> {"ann", "bob"}, fallback |-> {}, cacheOn |-> TRUE]}

\* The price table's providers are the router's, for every model of the table.
ASSUME TableRouted == \A m \in DOMAIN Table : RouteProvider(m) = Table[m]

\* Generated keys are random, and operators alike.
Symmetry == Permutations({k1, k2}) \cup Permutations(MCOperators)
=============================================================================
