---------------------------- MODULE BudgetLedger ----------------------------
(***************************************************************************)
(* What a budget backend promises, whatever keeps the books.               *)
(*                                                                         *)
(* committed[u] is what user u has spent today plus what u's requests in   *)
(* flight may still spend.  ceiling[u] is the highest daily limit u has    *)
(* been given.  beyond[u] is what came in as a charge of u without a       *)
(* reservation to cover it and has not been counted against the limit yet. *)
(*                                                                         *)
(* The promise: a commitment passes the ceiling only by what no            *)
(* reservation covered.  Admitting a request never takes it further:       *)
(* whatever is beyond was counted before, or is still on its way.          *)
(***************************************************************************)
EXTENDS Integers

CONSTANT Users

VARIABLES committed, ceiling, beyond

vars == <<committed, ceiling, beyond>>

Init ==
  /\ committed = [u \in Users |-> 0]
  /\ ceiling \in [Users -> Nat]
  /\ beyond = [u \in Users |-> 0]

\* Nothing moves for anyone but user u.
OnlyFor(u) ==
  /\ \A v \in Users \ {u} : committed'[v] = committed[v] /\ beyond'[v] = beyond[v]
  /\ UNCHANGED ceiling

\* A request of u is admitted: its reservation fits under the ceiling beside
\* everything that was counted.
Admit(u) ==
  /\ OnlyFor(u)
  /\ beyond'[u] <= beyond[u]
  /\ committed'[u] <= ceiling[u] + beyond'[u]

\* Charges come in below their estimates, reservations are dropped, the day
\* turns, an instance dies: commitments shrink, and at least by as much as is
\* forgotten of what was beyond.
Relax ==
  /\ \A u \in Users : /\ beyond'[u] <= beyond[u]
                      /\ committed'[u] + beyond[u] <= committed[u] + beyond'[u]
  /\ UNCHANGED ceiling

\* A charge of u comes in that no reservation covers, or not all of it.
Spill(u) ==
  /\ OnlyFor(u)
  /\ beyond'[u] >= beyond[u]
  /\ committed'[u] + beyond[u] <= committed[u] + beyond'[u]

\* An operator raises limits.
Raise ==
  /\ ceiling' \in [Users -> Nat]
  /\ \A u \in Users : ceiling'[u] >= ceiling[u]
  /\ UNCHANGED <<committed, beyond>>

Next ==
  /\ committed' \in [Users -> Nat]
  /\ beyond' \in [Users -> Nat]
  /\ \/ \E u \in Users : Admit(u) \/ Spill(u)
     \/ Relax
     \/ Raise

Spec == Init /\ [][Next]_vars

\* Every variable keeps its type.
TypeOK ==
  /\ committed \in [Users -> Nat]
  /\ ceiling \in [Users -> Nat]
  /\ beyond \in [Users -> Nat]

\* No user ever has more committed than the highest limit in force and what no
\* reservation covered.
Promise == \A u \in Users : committed[u] <= ceiling[u] + beyond[u]
=============================================================================
