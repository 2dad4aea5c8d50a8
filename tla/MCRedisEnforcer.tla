--------------------------- MODULE MCRedisEnforcer ---------------------------
(***************************************************************************)
(* Small instances of RedisEnforcer: two instances with a handler each, one *)
(* user, two days.                                                         *)
(***************************************************************************)
EXTENDS RedisEnforcer

OneEach == [r \in Slots |-> IF r = 1 THEN "east" ELSE "west"]

\* Requests estimated at one unit; the limit of 2 has room for one on each
\* instance, the limit of 1 does not.
Units == {[user |-> u, estimate |-> 1] : u \in Users}

Limit(l) == [u \in Users |-> l]
OnlyOne  == {Limit(1)}
OnlyTwo  == {Limit(2)}
\* Also no entry at all, which is not metered when fail_closed is off.
AnyBudget == {Limit(1), Limit(2), << >>}
=============================================================================
