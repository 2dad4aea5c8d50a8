----------------------------- MODULE SumsProofs -----------------------------
(***************************************************************************)
(* Facts about Total.  The library's induction theorems take an operator   *)
(* as a parameter; here induction is over a set of naturals instead, from  *)
(* the theorem that a non-empty set of naturals has a least element.       *)
(***************************************************************************)
EXTENDS Sums, TLAPS, WellFoundedInduction

\* A non-empty set of naturals has a least element.
LEMMA LeastNat ==
  ASSUME NEW T, T \subseteq Nat, T # {}
  PROVE  \E x \in T : \A y \in T : x <= y
<1>1. \E x \in T : \A y \in T : <<y, x>> \notin OpToRel(<, Nat)
  BY NatLessThanWellFounded, WFMin
<1>2. ASSUME NEW x \in T, NEW y \in T, <<y, x>> \notin OpToRel(<, Nat)
      PROVE  x <= y
  BY <1>2 DEF OpToRel
<1> QED
  BY <1>1, <1>2

\* Induction: a set that contains 0 and is closed under successor holds all
\* the naturals.
LEMMA NatInductionSet ==
  ASSUME NEW T, 0 \in T, \A n \in Nat : n \in T => n + 1 \in T
  PROVE  Nat \subseteq T
<1> SUFFICES ASSUME NEW k \in Nat \ T
             PROVE  FALSE
  OBVIOUS
<1>1. PICK m \in Nat \ T : \A y \in Nat \ T : m <= y
  BY LeastNat
<1>2. m - 1 \in Nat /\ m - 1 \in T
  BY <1>1
<1> QED
  BY <1>1, <1>2

\* s lists the partial sums of f up to n.
PartialSums(s, n, f) ==
  s = [i \in 0..n |-> IF i = 0 THEN 0 ELSE s[i-1] + f[i]]

\* The partial sums of naturals exist and are naturals.
LEMMA PartialSumsExist ==
  ASSUME NEW n \in Nat, NEW f \in [1..n -> Nat]
  PROVE  \E s \in [0..n -> Nat] : PartialSums(s, n, f)
<1> DEFINE T == {k \in Nat :
                   k <= n => \E s \in [0..k -> Nat] : PartialSums(s, k, f)}
<1>1. 0 \in T
  <2>1. PartialSums([i \in 0..0 |-> 0], 0, f)
    BY DEF PartialSums
  <2> QED
    BY <2>1
<1>2. ASSUME NEW k \in Nat, k \in T
      PROVE  k + 1 \in T
  <2> SUFFICES ASSUME k + 1 <= n
               PROVE  \E s \in [0..(k+1) -> Nat] : PartialSums(s, k + 1, f)
    OBVIOUS
  <2>1. PICK s \in [0..k -> Nat] : PartialSums(s, k, f)
    BY <1>2
  <2> DEFINE t == [i \in 0..(k+1) |-> IF i = k + 1 THEN s[k] + f[k+1] ELSE s[i]]
  <2>2. t \in [0..(k+1) -> Nat]
    OBVIOUS
  <2>3. ASSUME NEW i \in 0..(k+1)
        PROVE  t[i] = IF i = 0 THEN 0 ELSE t[i-1] + f[i]
    BY <2>1 DEF PartialSums
  <2>4. PartialSums(t, k + 1, f)
    BY <2>2, <2>3 DEF PartialSums
  <2> QED
    BY <2>2, <2>4
<1>3. n \in T
  <2> HIDE DEF T
  <2> QED
    BY <1>1, <1>2, NatInductionSet
<1> QED
  BY <1>3

\* Total(n, f) is the last of them.
LEMMA TotalIsPartialSum ==
  ASSUME NEW n \in Nat, NEW f \in [1..n -> Nat]
  PROVE  \E s \in [0..n -> Nat] :
            /\ \A i \in 0..n : s[i] = IF i = 0 THEN 0 ELSE s[i-1] + f[i]
            /\ Total(n, f) = s[n]
<1> DEFINE c == CHOOSE s : PartialSums(s, n, f)
<1>1. Total(n, f) = c[n]
  BY DEF Total, PartialSums
<1>2. PartialSums(c, n, f)
  BY PartialSumsExist
<1>3. PICK s \in [0..n -> Nat] : PartialSums(s, n, f)
  BY PartialSumsExist
<1> HIDE DEF c
<1>4. c \in [0..n -> Nat]
  <2> DEFINE T == {k \in Nat : k <= n => c[k] = s[k]}
  <2>1. 0 \in T
    BY <1>2, <1>3 DEF PartialSums
  <2>2. ASSUME NEW k \in Nat, k \in T
        PROVE  k + 1 \in T
    <3> SUFFICES ASSUME k + 1 <= n
                 PROVE  c[k+1] = s[k+1]
      OBVIOUS
    <3>1. k + 1 \in 0..n /\ k + 1 # 0 /\ (k + 1) - 1 = k
      OBVIOUS
    <3>2. c[k+1] = c[k] + f[k+1]
      BY <1>2, <3>1 DEF PartialSums
    <3>3. s[k+1] = s[k] + f[k+1]
      BY <1>3, <3>1 DEF PartialSums
    <3> QED
      BY <2>2, <3>2, <3>3
  <2>3. \A k \in 0..n : c[k] = s[k]
    <3> HIDE DEF T
    <3>1. Nat \subseteq T
      BY <2>1, <2>2, NatInductionSet
    <3> QED
      BY <3>1 DEF T
  <2>4. DOMAIN c = 0..n /\ c = [i \in 0..n |-> c[i]]
    BY <1>2 DEF PartialSums
  <2> QED
    BY <2>3, <2>4
<1> QED
  BY <1>1, <1>2, <1>4 DEF PartialSums

\* A sum of naturals is a natural.
LEMMA TotalType ==
  ASSUME NEW n \in Nat, NEW f \in [1..n -> Nat]
  PROVE  Total(n, f) \in Nat
BY TotalIsPartialSum

\* A sum of zeros is zero.
LEMMA TotalZero ==
  ASSUME NEW n \in Nat, NEW f \in [1..n -> Nat], \A i \in 1..n : f[i] = 0
  PROVE  Total(n, f) = 0
<1>1. PICK s \in [0..n -> Nat] :
            /\ \A i \in 0..n : s[i] = IF i = 0 THEN 0 ELSE s[i-1] + f[i]
            /\ Total(n, f) = s[n]
  BY TotalIsPartialSum
<1> DEFINE T == {k \in Nat : k <= n => s[k] = 0}
<1>2. 0 \in T
  BY <1>1
<1>3. ASSUME NEW k \in Nat, k \in T
      PROVE  k + 1 \in T
  <2> SUFFICES ASSUME k + 1 <= n
               PROVE  s[k+1] = 0
    OBVIOUS
  <2>1. k + 1 \in 0..n /\ k + 1 # 0 /\ (k + 1) - 1 = k
    OBVIOUS
  <2>2. s[k+1] = s[k] + f[k+1]
    BY <1>1, <2>1
  <2> QED
    BY <1>3, <2>2
<1>4. n \in T
  <2> HIDE DEF T
  <2> QED
    BY <1>2, <1>3, NatInductionSet
<1> QED
  BY <1>1, <1>4

\* A sum of larger terms is larger.
LEMMA TotalMonotone ==
  ASSUME NEW n \in Nat, NEW f \in [1..n -> Nat], NEW g \in [1..n -> Nat],
         \A i \in 1..n : f[i] <= g[i]
  PROVE  Total(n, f) <= Total(n, g)
<1>1. PICK s \in [0..n -> Nat] :
            /\ \A i \in 0..n : s[i] = IF i = 0 THEN 0 ELSE s[i-1] + f[i]
            /\ Total(n, f) = s[n]
  BY TotalIsPartialSum
<1>2. PICK t \in [0..n -> Nat] :
            /\ \A i \in 0..n : t[i] = IF i = 0 THEN 0 ELSE t[i-1] + g[i]
            /\ Total(n, g) = t[n]
  BY TotalIsPartialSum
<1> DEFINE T == {k \in Nat : k <= n => s[k] <= t[k]}
<1>3. 0 \in T
  BY <1>1, <1>2
<1>4. ASSUME NEW k \in Nat, k \in T
      PROVE  k + 1 \in T
  <2> SUFFICES ASSUME k + 1 <= n
               PROVE  s[k+1] <= t[k+1]
    OBVIOUS
  <2>1. k \in 0..n /\ k + 1 \in 0..n /\ k + 1 # 0 /\ (k + 1) - 1 = k
    OBVIOUS
  <2>2. s[k+1] = s[k] + f[k+1]
    BY <1>1, <2>1
  <2>3. t[k+1] = t[k] + g[k+1]
    BY <1>2, <2>1
  <2>4. s[k] <= t[k]
    BY <1>4
  <2>5. k + 1 \in 1..n /\ f[k+1] <= g[k+1]
    OBVIOUS
  <2>6. /\ s[k] \in Nat /\ t[k] \in Nat
        /\ f[k+1] \in Nat /\ g[k+1] \in Nat
    BY <2>1, <2>5
  <2> QED
    BY <2>2, <2>3, <2>4, <2>5, <2>6
<1>5. n \in T
  <2> HIDE DEF T
  <2> QED
    BY <1>3, <1>4, NatInductionSet
<1> QED
  BY <1>1, <1>2, <1>5

\* g differs from f in the term r at most.  (Kept folded where TotalUpdate is
\* used: the provers do not instantiate the lemma otherwise.)
OneTermChanges(n, f, g, r) ==
  /\ f \in [1..n -> Nat] /\ g \in [1..n -> Nat] /\ r \in 1..n
  /\ \A i \in 1..n : i # r => g[i] = f[i]

\* Changing one term changes the sum by as much.
LEMMA TotalUpdate ==
  ASSUME NEW n \in Nat, NEW f, NEW g, NEW r, OneTermChanges(n, f, g, r)
  PROVE  Total(n, g) + f[r] = Total(n, f) + g[r]
<1>0. /\ f \in [1..n -> Nat] /\ g \in [1..n -> Nat] /\ r \in 1..n
      /\ \A i \in 1..n : i # r => g[i] = f[i]
  BY DEF OneTermChanges
<1>1. PICK s :
            /\ s \in [0..n -> Nat]
            /\ \A i \in 0..n : s[i] = IF i = 0 THEN 0 ELSE s[i-1] + f[i]
            /\ Total(n, f) = s[n]
  BY <1>0, TotalIsPartialSum
<1>2. PICK t :
            /\ t \in [0..n -> Nat]
            /\ \A i \in 0..n : t[i] = IF i = 0 THEN 0 ELSE t[i-1] + g[i]
            /\ Total(n, g) = t[n]
  BY <1>0, TotalIsPartialSum
<1> DEFINE Same(k) == k < r => t[k] = s[k]
           Moved(k) == r <= k => t[k] + f[r] = s[k] + g[r]
           T == {k \in Nat : k <= n => Same(k) /\ Moved(k)}
<1>3. 0 \in T
  BY <1>0, <1>1, <1>2
<1>4. ASSUME NEW k \in Nat, k \in T
      PROVE  k + 1 \in T
  <2> SUFFICES ASSUME k + 1 <= n
               PROVE  Same(k + 1) /\ Moved(k + 1)
    OBVIOUS
  <2>1. k \in 0..n /\ k + 1 \in 0..n /\ k + 1 # 0 /\ (k + 1) - 1 = k
    OBVIOUS
  <2>2. s[k+1] = s[k] + f[k+1]
    BY <1>1, <2>1
  <2>3. t[k+1] = t[k] + g[k+1]
    BY <1>2, <2>1
  <2>4. Same(k) /\ Moved(k)
    BY <1>4
  <2>5. k + 1 \in 1..n
    OBVIOUS
  <2>6. /\ s[k] \in Nat /\ t[k] \in Nat
        /\ f[k+1] \in Nat /\ g[k+1] \in Nat
        /\ f[r] \in Nat /\ g[r] \in Nat
    BY <1>0, <1>1, <1>2, <2>1, <2>5
  <2>7. k + 1 # r => g[k+1] = f[k+1]
    BY <1>0, <2>5
  <2>8. Same(k + 1)
    BY <1>0, <2>2, <2>3, <2>4, <2>6, <2>7
  <2>9. Moved(k + 1)
    <3>1. CASE r = k + 1
      <4>1. t[k] = s[k]
        BY <2>4, <3>1
      <4> QED
        BY <2>2, <2>3, <2>6, <3>1, <4>1
    <3>2. CASE r <= k
      <4>1. t[k] + f[r] = s[k] + g[r] /\ g[k+1] = f[k+1]
        BY <2>4, <2>7, <3>2
      <4>2. (t[k] + f[k+1]) + f[r] = (s[k] + f[k+1]) + g[r]
        BY ONLY <2>6, <4>1
      <4> QED
        BY <2>2, <2>3, <4>1, <4>2
    <3> QED
      BY <1>0, <3>1, <3>2
  <2> QED
    BY <2>8, <2>9
<1>5. n \in T
  <2> HIDE DEF T
  <2> QED
    BY <1>3, <1>4, NatInductionSet
<1> QED
  BY <1>0, <1>1, <1>2, <1>5

\* No term exceeds the sum.
LEMMA TotalBound ==
  ASSUME NEW n \in Nat, NEW f \in [1..n -> Nat], NEW r \in 1..n
  PROVE  f[r] <= Total(n, f)
<1> DEFINE g == [f EXCEPT ![r] = 0]
<1>1. OneTermChanges(n, f, g, r) /\ g \in [1..n -> Nat] /\ g[r] = 0
  BY DEF OneTermChanges
<1> HIDE DEF g
<1>2. Total(n, g) + f[r] = Total(n, f) + g[r]
  BY <1>1, TotalUpdate
<1>3. Total(n, g) \in Nat /\ Total(n, f) \in Nat
  BY <1>1, TotalType
<1> QED
  BY <1>1, <1>2, <1>3
=============================================================================
