-------------------------------- MODULE Sums --------------------------------
(***************************************************************************)
(* Sums over the request slots 1..n.  Written as a recursive function, not *)
(* as a RECURSIVE operator, so that the proof modules can reason about it. *)
(***************************************************************************)
EXTENDS Integers

\* f[1] + ... + f[n]
Total(n, f) ==
  LET partial[i \in 0..n] == IF i = 0 THEN 0 ELSE partial[i-1] + f[i]
  IN  partial[n]
=============================================================================
