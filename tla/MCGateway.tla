------------------------------ MODULE MCGateway ------------------------------
(***************************************************************************)
(* Small instances of Gateway: two models, the second half as dear as the  *)
(* first, and requests of one unit of usage (or of none).                  *)
(***************************************************************************)
EXTENDS Gateway

Big   == "big"
Small == "small"

\* Prices per unit: 2 for the big model, 1 for the small one.
MCCost == [m \in Models |-> [t \in 0..MaxSize |-> IF m = Big THEN 2*t ELSE t]]

Ask(u, k, m) == [user |-> u, kind |-> k, model |-> m, size |-> 1]

\* A request whose size was estimated at nothing; its provider may bill more.
AskTiny(u) == [user |-> u, kind |-> "transcription", model |-> Small, size |-> 0]

\* A plain chat that may fall back to the dearer model, a transcription that
\* may cost more than was estimated, and a stream.
MeteredRequests == {Ask(u, "chat", Small) : u \in Users}
                     \cup {AskTiny(u) : u \in Users}
                     \cup {Ask(u, "stream", Big) : u \in Users}
\* Streamed and plain chats that share a prompt, and so a cache entry.
MixedRequests == {Ask(u, kind, Small) : u \in Users, kind \in {"stream", "chat"}}
StreamRequests == {Ask(u, "stream", Small) : u \in Users}

\* Settings that keep a limit on everyone.
Tight == [budget |-> [u \in Users |-> 2], cacheOn |-> TRUE,  fallback |-> <<Small>>]
Dear  == [budget |-> [u \in Users |-> 3], cacheOn |-> FALSE, fallback |-> <<Big>>]
\* Settings that take the users' entries away again.
Unset == [budget |-> << >>, cacheOn |-> TRUE, fallback |-> <<>>]

Limited     == {Tight, Dear, Unset}
LimitedOnly == {Tight}
AnyLimits   == {Tight, Unset}
=============================================================================
