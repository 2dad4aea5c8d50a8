------------------------- MODULE ConversationProofs -------------------------
(***************************************************************************)
(* Theorems of Conversation, for any conversations, any numbers of answers *)
(* and any lengths of them and of streams: what StreamRelay promises holds *)
(* of every relay of a conversation, and the history that each provider is *)
(* sent has the results of its calls, the earlier answers and the texts.   *)
(***************************************************************************)
EXTENDS Conversation, StreamRelayProofs

-----------------------------------------------------------------------------
(* Sequences that are put together from shorter ones.                      *)

\* Induction: a set that holds the empty sequence and all longer ones.
LEMMA SequenceInduction ==
  ASSUME NEW S, NEW T, << >> \in T,
         \A s \in Seq(S), x \in S : s \in T => Append(s, x) \in T
  PROVE  Seq(S) \subseteq T
<1> DEFINE N == {n \in Nat : \A s \in Seq(S) : Len(s) = n => s \in T}
<1>1. 0 \in N
  OBVIOUS
<1>2. ASSUME NEW n \in Nat, n \in N
      PROVE  n + 1 \in N
  <2> SUFFICES ASSUME NEW s \in Seq(S), Len(s) = n + 1
               PROVE  s \in T
    OBVIOUS
  <2> DEFINE front == SubSeq(s, 1, n)
  <2>1. front \in Seq(S) /\ Len(front) = n /\ s[n + 1] \in S
    OBVIOUS
  <2>2. s = Append(front, s[n + 1])
    OBVIOUS
  <2>3. front \in T
    BY <1>2, <2>1
  <2> HIDE DEF front
  <2> QED
    BY <2>1, <2>2, <2>3
<1> HIDE DEF N
<1>3. Nat \subseteq N
  BY <1>1, <1>2, NatInductionSet
<1>4. ASSUME NEW s \in Seq(S)
      PROVE  s \in T
  <2>1. Len(s) \in N
    BY <1>3
  <2> QED
    BY <2>1 DEF N
<1> QED
  BY <1>4

\* g joins ss, one after the other.
Joins(g, ss) ==
  \A i \in 1 .. Len(ss) : g[i] = IF i = 1 THEN ss[i] ELSE g[i - 1] \o ss[i]

LEMMA JoinsExist ==
  ASSUME NEW S, NEW ss \in Seq(Seq(S))
  PROVE  \E g \in [1 .. Len(ss) -> Seq(S)] : Joins(g, ss)
<1> DEFINE T == {rs \in Seq(Seq(S)) : \E g \in [1 .. Len(rs) -> Seq(S)] : Joins(g, rs)}
<1>1. << >> \in T
  <2>1. [i \in 1 .. 0 |-> << >>] \in [1 .. 0 -> Seq(S)]
    OBVIOUS
  <2>2. Joins([i \in 1 .. 0 |-> << >>], << >>)
    BY DEF Joins
  <2>3. << >> \in Seq(Seq(S)) /\ Len(<< >>) = 0
    OBVIOUS
  <2> QED
    BY <2>1, <2>2, <2>3
<1>2. ASSUME NEW rs \in Seq(Seq(S)), NEW s \in Seq(S), rs \in T
      PROVE  Append(rs, s) \in T
  <2>1. PICK g \in [1 .. Len(rs) -> Seq(S)] : Joins(g, rs)
    BY <1>2
  <2> DEFINE n == Len(rs)
             h == [i \in 1 .. n + 1 |->
                     IF i = n + 1 THEN IF i = 1 THEN s ELSE g[n] \o s ELSE g[i]]
  <2>2. n \in Nat /\ Len(Append(rs, s)) = n + 1 /\ Append(rs, s) \in Seq(Seq(S))
    OBVIOUS
  <2>3. h \in [1 .. n + 1 -> Seq(S)]
    <3> SUFFICES ASSUME NEW i \in 1 .. n + 1
                 PROVE  (IF i = n + 1 THEN IF i = 1 THEN s ELSE g[n] \o s ELSE g[i])
                          \in Seq(S)
      OBVIOUS
    <3>1. CASE i = n + 1 /\ i # 1
      <4>1. n \in 1 .. n
        BY <2>2, <3>1
      <4>2. g[n] \in Seq(S)
        BY <4>1
      <4> QED
        BY <3>1, <4>2
    <3>2. CASE i # n + 1
      <4>1. i \in 1 .. n
        BY <2>2, <3>2
      <4> QED
        BY <3>2, <4>1
    <3> QED
      BY <3>1, <3>2
  <2>4. Joins(h, Append(rs, s))
    <3> SUFFICES ASSUME NEW i \in 1 .. n + 1
                 PROVE  h[i] = IF i = 1 THEN Append(rs, s)[i]
                               ELSE h[i - 1] \o Append(rs, s)[i]
      BY <2>2 DEF Joins
    <3>1. CASE i = n + 1
      <4>1. Append(rs, s)[i] = s
        BY <3>1
      <4>2. i # 1 => h[i - 1] = g[n]
        BY <2>2, <3>1
      <4> QED
        BY <3>1, <4>1, <4>2
    <3>2. CASE i # n + 1
      <4>1. i \in 1 .. n /\ Append(rs, s)[i] = rs[i] /\ h[i] = g[i]
        BY <2>2, <3>2
      <4>2. i # 1 => h[i - 1] = g[i - 1]
        BY <2>2, <4>1
      <4> QED
        BY <2>1, <4>1, <4>2 DEF Joins
    <3> QED
      BY <3>1, <3>2
  <2> HIDE DEF h, n
  <2> QED
    BY <2>2, <2>3, <2>4
<1> HIDE DEF T
<1>3. Seq(Seq(S)) \subseteq T
  BY <1>1, <1>2, SequenceInduction
<1> QED
  BY <1>3 DEF T

\* rs begins with ss.
Begins(ss, rs) ==
  /\ Len(ss) \in Nat /\ Len(rs) \in Nat /\ Len(ss) <= Len(rs)
  /\ \A i \in 1 .. Len(ss) : ss[i] = rs[i]

LEMMA JoinsUnique ==
  ASSUME NEW ss, NEW rs, NEW g, NEW h, Joins(g, ss), Joins(h, rs), Begins(ss, rs)
  PROVE  \A i \in 1 .. Len(ss) : g[i] = h[i]
<1> DEFINE n == Len(ss)
           T == {i \in Nat : i \in 1 .. n => g[i] = h[i]}
<1> USE DEF Begins
<1>1. 0 \in T
  OBVIOUS
<1>2. ASSUME NEW i \in Nat, i \in T
      PROVE  i + 1 \in T
  <2> SUFFICES ASSUME i + 1 \in 1 .. n PROVE g[i + 1] = h[i + 1]
    OBVIOUS
  <2>1. i + 1 \in 1 .. Len(ss) /\ i + 1 \in 1 .. Len(rs) /\ (i + 1) - 1 = i
    OBVIOUS
  <2>2. ss[i + 1] = rs[i + 1]
    OBVIOUS
  <2>3. CASE i = 0
    BY <2>1, <2>2, <2>3 DEF Joins
  <2>4. CASE i # 0
    <3>1. i \in 1 .. n /\ i + 1 # 1
      BY <2>4
    <3>2. g[i] = h[i]
      BY <1>2, <3>1
    <3> QED
      BY <2>1, <2>2, <3>1, <3>2 DEF Joins
  <2> QED
    BY <2>3, <2>4
<1> HIDE DEF T
<1>3. Nat \subseteq T
  BY <1>1, <1>2, NatInductionSet
<1> QED
  BY <1>3 DEF T

LEMMA AppendBegins ==
  ASSUME NEW S, NEW s \in Seq(S), NEW x \in S
  PROVE  Begins(s, Append(s, x))
BY DEF Begins

\* FlattenSeq ends with what joins its argument.
LEMMA FlattenJoins ==
  ASSUME NEW S, NEW ss \in Seq(Seq(S)), Len(ss) # 0
  PROVE  \E g : Joins(g, ss) /\ FlattenSeq(ss) = g[Len(ss)] /\ g[Len(ss)] \in Seq(S)
<1> DEFINE Rec(g) == g = [i \in 1 .. Len(ss) |-> IF i = 1 THEN ss[i] ELSE g[i - 1] \o ss[i]]
           c == CHOOSE g : Rec(g)
<1>1. FlattenSeq(ss) = c[Len(ss)]
  BY DEF FlattenSeq
<1>2. PICK g \in [1 .. Len(ss) -> Seq(S)] : Joins(g, ss)
  BY JoinsExist
<1>3. Rec(g)
  BY <1>2 DEF Joins
<1>4. Rec(c)
  BY <1>3
<1> HIDE DEF c
<1>5. Joins(c, ss) /\ DOMAIN c = 1 .. Len(ss) /\ c = [i \in DOMAIN c |-> c[i]]
  BY <1>4 DEF Joins
<1>6. Len(ss) \in Nat /\ Begins(ss, ss)
  BY DEF Begins
<1>7. \A i \in 1 .. Len(ss) : c[i] = g[i]
  <2>1. Joins(c, ss) /\ Joins(g, ss)
    BY <1>2, <1>5
  <2> QED
    BY <1>6, <2>1, JoinsUnique
<1>8. Len(ss) \in 1 .. Len(ss)
  BY <1>6
<1>9. g[Len(ss)] \in Seq(S)
  BY <1>8
<1>10. c[Len(ss)] \in Seq(S)
  BY <1>7, <1>8, <1>9
<1> QED
  BY <1>1, <1>5, <1>10

LEMMA ElementsAppended ==
  ASSUME NEW S, NEW s \in Seq(S), NEW x \in S
  PROVE  ToSet(Append(s, x)) = ToSet(s) \cup {x}
<1>1. DOMAIN Append(s, x) = DOMAIN s \cup {Len(s) + 1}
  OBVIOUS
<1>2. \A i \in DOMAIN s : Append(s, x)[i] = s[i]
  OBVIOUS
<1>3. Append(s, x)[Len(s) + 1] = x
  OBVIOUS
<1> QED
  BY <1>1, <1>2, <1>3 DEF ToSet

LEMMA ElementsJoined ==
  ASSUME NEW S, NEW s \in Seq(S), NEW t \in Seq(S)
  PROVE  ToSet(s \o t) = ToSet(s) \cup ToSet(t)
<1>1. \A i \in DOMAIN s : i \in DOMAIN (s \o t) /\ (s \o t)[i] = s[i]
  OBVIOUS
<1>2. \A i \in DOMAIN t : Len(s) + i \in DOMAIN (s \o t) /\ (s \o t)[Len(s) + i] = t[i]
  OBVIOUS
<1>3. \A i \in DOMAIN (s \o t) :
        i \in DOMAIN s \/ \E j \in DOMAIN t : i = Len(s) + j
  <2> SUFFICES ASSUME NEW i \in DOMAIN (s \o t), i \notin DOMAIN s
               PROVE  \E j \in DOMAIN t : i = Len(s) + j
    OBVIOUS
  <2>1. i \in Nat /\ Len(s) \in Nat /\ Len(t) \in Nat /\ i > Len(s) /\ i <= Len(s) + Len(t)
    OBVIOUS
  <2>2. i - Len(s) \in 1 .. Len(t) /\ i = Len(s) + (i - Len(s)) /\ DOMAIN t = 1 .. Len(t)
    BY <2>1
  <2> QED
    BY <2>2
<1> DEFINE r == s \o t
<1> HIDE DEF r
<1>4. \A i \in DOMAIN s : i \in DOMAIN r /\ r[i] = s[i]
  BY <1>1 DEF r
<1>5. \A j \in DOMAIN t : Len(s) + j \in DOMAIN r /\ r[Len(s) + j] = t[j]
  BY <1>2 DEF r
<1>6. \A i \in DOMAIN r : i \in DOMAIN s \/ \E j \in DOMAIN t : i = Len(s) + j
  BY <1>3 DEF r
<1>7. ToSet(r) \subseteq ToSet(s) \cup ToSet(t)
  BY <1>4, <1>5, <1>6 DEF ToSet
<1>8. ToSet(s) \subseteq ToSet(r) /\ ToSet(t) \subseteq ToSet(r)
  BY <1>4, <1>5 DEF ToSet
<1>9. ToSet(r) = ToSet(s) \cup ToSet(t)
  BY <1>7, <1>8
<1> QED
  BY <1>9 DEF r

InTurn(s, t, u) == (s \o t) \o u = s \o (t \o u)

LEMMA JoinedInTurn ==
  ASSUME NEW S, NEW s \in Seq(S), NEW t \in Seq(S), NEW u \in Seq(S)
  PROVE  InTurn(s, t, u)
BY DEF InTurn

LEMMA FlattenNone == FlattenSeq(<< >>) = << >>
BY DEF FlattenSeq

\* A sequence more is joined at the end.
LEMMA FlattenAppend ==
  ASSUME NEW S, NEW ss \in Seq(Seq(S)), NEW s \in Seq(S)
  PROVE  /\ FlattenSeq(ss) \in Seq(S)
         /\ FlattenSeq(Append(ss, s)) = FlattenSeq(ss) \o s
<1> DEFINE n == Len(ss)
           rs == Append(ss, s)
<1>1. rs \in Seq(Seq(S)) /\ Len(rs) = n + 1 /\ n \in Nat /\ rs[n + 1] = s
      /\ \A i \in 1 .. n : rs[i] = ss[i]
  OBVIOUS
<1> HIDE DEF rs
<1>2. PICK h : Joins(h, rs) /\ FlattenSeq(rs) = h[n + 1]
  BY <1>1, FlattenJoins
<1>3. CASE n = 0
  <2>1. FlattenSeq(ss) = << >>
    BY <1>3, FlattenNone
  <2>2. FlattenSeq(rs) = s
    BY <1>1, <1>2, <1>3 DEF Joins
  <2> QED
    BY <2>1, <2>2 DEF rs
<1>4. CASE n # 0
  <2>1. PICK g : Joins(g, ss) /\ FlattenSeq(ss) = g[n] /\ g[n] \in Seq(S)
    BY <1>4, FlattenJoins
  <2>2. n \in 1 .. n /\ n <= Len(rs) /\ (n + 1) - 1 = n /\ n + 1 # 1
        /\ n + 1 \in 1 .. Len(rs)
    BY <1>1, <1>4
  <2>3. \A i \in 1 .. Len(ss) : g[i] = h[i]
    <3>1. Begins(ss, rs)
      BY AppendBegins DEF rs
    <3>2. Joins(g, ss) /\ Joins(h, rs)
      BY <1>2, <2>1
    <3> QED
      BY <3>1, <3>2, JoinsUnique
  <2>4. h[n] = g[n]
    BY <2>2, <2>3
  <2>5. h[n + 1] = h[n] \o s
    BY <1>1, <1>2, <2>2 DEF Joins
  <2> QED
    BY <1>2, <2>1, <2>2, <2>4, <2>5 DEF rs
<1> QED
  BY <1>3, <1>4
-----------------------------------------------------------------------------
(* Each element of a sequence becomes a sequence, and these are joined.    *)

Gather(s, f) == FlattenSeq([i \in DOMAIN s |-> f[s[i]]])

LEMMA GatherNone ==
  ASSUME NEW f
  PROVE  Gather(<< >>, f) = << >>
<1>1. [i \in DOMAIN << >> |-> f[<< >>[i]]] = << >>
  OBVIOUS
<1> QED
  BY <1>1, FlattenNone DEF Gather

LEMMA GatherParts ==
  ASSUME NEW S, NEW T, NEW f \in [S -> Seq(T)], NEW s \in Seq(S)
  PROVE  /\ [i \in DOMAIN s |-> f[s[i]]] \in Seq(Seq(T))
         /\ Len([i \in DOMAIN s |-> f[s[i]]]) = Len(s)
<1>1. \A i \in 1 .. Len(s) : f[s[i]] \in Seq(T)
  OBVIOUS
<1>2. DOMAIN s = 1 .. Len(s) /\ Len(s) \in Nat
  OBVIOUS
<1> QED
  BY <1>1, <1>2

LEMMA GatherType ==
  ASSUME NEW S, NEW T, NEW f \in [S -> Seq(T)], NEW s \in Seq(S)
  PROVE  Gather(s, f) \in Seq(T)
<1> DEFINE fs == [i \in DOMAIN s |-> f[s[i]]]
<1>1. fs \in Seq(Seq(T))
  BY GatherParts
<1> HIDE DEF fs
<1>2. << >> \in Seq(T)
  OBVIOUS
<1>3. FlattenSeq(fs) \in Seq(T)
  BY <1>1, <1>2, FlattenAppend
<1> QED
  BY <1>3 DEF Gather, fs

LEMMA GatherAppend ==
  ASSUME NEW S, NEW T, NEW f \in [S -> Seq(T)], NEW s \in Seq(S), NEW x \in S
  PROVE  Gather(Append(s, x), f) = Gather(s, f) \o f[x]
<1> DEFINE fs == [i \in DOMAIN s |-> f[s[i]]]
           r  == Append(s, x)
<1>1. fs \in Seq(Seq(T))
  BY GatherParts
<1>2. [i \in DOMAIN r |-> f[r[i]]] = Append(fs, f[x])
  OBVIOUS
<1>3. f[x] \in Seq(T)
  OBVIOUS
<1> HIDE DEF fs, r
<1>4. FlattenSeq(Append(fs, f[x])) = FlattenSeq(fs) \o f[x]
  BY <1>1, <1>3, FlattenAppend
<1>5. Gather(s, f) = FlattenSeq(fs)
  BY DEF Gather, fs
<1> QED
  BY <1>2, <1>4, <1>5 DEF Gather, r

\* The elements of what is gathered.
LEMMA GatherElements ==
  ASSUME NEW S, NEW T, NEW f \in [S -> Seq(T)], NEW s \in Seq(S), NEW y
  PROVE  y \in ToSet(Gather(s, f)) <=> \E x \in ToSet(s) : y \in ToSet(f[x])
<1> DEFINE P == {r \in Seq(S) :
                   y \in ToSet(Gather(r, f)) <=> \E x \in ToSet(r) : y \in ToSet(f[x])}
<1>1. << >> \in P
  <2>1. Gather(<< >>, f) = << >> /\ << >> \in Seq(S)
    BY GatherNone
  <2>2. DOMAIN << >> = {}
    OBVIOUS
  <2>3. ~ \E x \in ToSet(<< >>) : y \in ToSet(f[x])
    BY <2>2 DEF ToSet
  <2>4. y \notin ToSet(Gather(<< >>, f))
    BY <2>1, <2>2 DEF ToSet
  <2> QED
    BY <2>1, <2>3, <2>4
<1>2. ASSUME NEW r \in Seq(S), NEW x \in S, r \in P
      PROVE  Append(r, x) \in P
  <2>1. Gather(Append(r, x), f) = Gather(r, f) \o f[x]
    BY GatherAppend
  <2>2. Gather(r, f) \in Seq(T) /\ f[x] \in Seq(T)
    BY GatherType
  <2>3. ToSet(Gather(r, f) \o f[x]) = ToSet(Gather(r, f)) \cup ToSet(f[x])
    BY <2>2, ElementsJoined
  <2>4. ToSet(Append(r, x)) = ToSet(r) \cup {x}
    BY ElementsAppended
  <2>5. Append(r, x) \in Seq(S)
    OBVIOUS
  <2> QED
    BY <1>2, <2>1, <2>3, <2>4, <2>5
<1> HIDE DEF P
<1>3. Seq(S) \subseteq P
  BY <1>1, <1>2, SequenceInduction
<1> QED
  BY <1>3 DEF P

\* Each element of g is gathered of an element of s, and what is gathered of the
\* elements of s before that one comes before it in g.
InPlace(s, f, g) ==
  \A t \in 1 .. Len(g) : \E i \in 1 .. Len(s) :
    /\ g[t] \in ToSet(f[s[i]])
    /\ \A j \in 1 .. i - 1 : \A x \in ToSet(f[s[j]]) : \E u \in 1 .. t - 1 : g[u] = x

LEMMA InPlaceOneMore ==
  ASSUME NEW S, NEW T, NEW f \in [S -> Seq(T)], NEW s \in Seq(S), NEW x \in S,
         InPlace(s, f, Gather(s, f))
  PROVE  InPlace(Append(s, x), f, Gather(Append(s, x), f))
<1> DEFINE g == Gather(s, f)
           h == Gather(Append(s, x), f)
           r == Append(s, x)
<1>1. g \in Seq(T) /\ f[x] \in Seq(T) /\ h = g \o f[x]
  BY GatherType, GatherAppend
<1>2. /\ Len(r) = Len(s) + 1 /\ Len(s) \in Nat /\ r[Len(s) + 1] = x
      /\ \A i \in 1 .. Len(s) : r[i] = s[i]
  OBVIOUS
<1>3. InPlace(s, f, g)
  OBVIOUS
<1>4. \A y : y \in ToSet(g) <=> \E z \in ToSet(s) : y \in ToSet(f[z])
  BY GatherElements
<1> HIDE DEF g, h, r
<1>5. /\ Len(h) = Len(g) + Len(f[x]) /\ Len(g) \in Nat /\ Len(f[x]) \in Nat
      /\ \A t \in 1 .. Len(g) : h[t] = g[t]
      /\ \A t \in 1 .. Len(f[x]) : h[Len(g) + t] = f[x][t]
  BY <1>1
<1>6. ASSUME NEW t \in 1 .. Len(h)
      PROVE  \E i \in 1 .. Len(r) :
               /\ h[t] \in ToSet(f[r[i]])
               /\ \A j \in 1 .. i - 1 : \A y \in ToSet(f[r[j]]) :
                    \E u \in 1 .. t - 1 : h[u] = y
  <2>1. CASE t <= Len(g)
    <3>1. t \in 1 .. Len(g)
      BY <1>5, <2>1
    <3>2. PICK i \in 1 .. Len(s) :
            /\ g[t] \in ToSet(f[s[i]])
            /\ \A j \in 1 .. i - 1 : \A y \in ToSet(f[s[j]]) :
                 \E u \in 1 .. t - 1 : g[u] = y
      BY <1>3, <3>1 DEF InPlace
    <3>3. i \in 1 .. Len(r) /\ h[t] \in ToSet(f[r[i]])
      BY <1>2, <1>5, <3>1, <3>2
    <3>4. ASSUME NEW j \in 1 .. i - 1, NEW y \in ToSet(f[r[j]])
          PROVE  \E u \in 1 .. t - 1 : h[u] = y
      <4>1. j \in 1 .. Len(s) /\ r[j] = s[j]
        BY <1>2, <3>2
      <4>2. PICK u \in 1 .. t - 1 : g[u] = y
        BY <3>2, <4>1
      <4>3. u \in 1 .. Len(g)
        BY <1>5, <3>1
      <4> QED
        BY <1>5, <4>2, <4>3
    <3> QED
      BY <3>3, <3>4
  <2>2. CASE t > Len(g)
    <3> DEFINE i == Len(s) + 1
               v == t - Len(g)
    <3>1. v \in 1 .. Len(f[x]) /\ t = Len(g) + v
      BY <1>5, <2>2
    <3>2. i \in 1 .. Len(r) /\ r[i] = x
      BY <1>2
    <3>3. h[t] \in ToSet(f[x])
      <4>1. h[t] = f[x][v]
        BY <1>5, <3>1
      <4>2. DOMAIN f[x] = 1 .. Len(f[x])
        BY <1>1
      <4> QED
        BY <3>1, <4>1, <4>2 DEF ToSet
    <3>4. ASSUME NEW j \in 1 .. i - 1, NEW y \in ToSet(f[r[j]])
          PROVE  \E u \in 1 .. t - 1 : h[u] = y
      <4>1. j \in 1 .. Len(s) /\ r[j] = s[j]
        BY <1>2
      <4>2. s[j] \in ToSet(s)
        BY <4>1 DEF ToSet
      <4>3. y \in ToSet(g)
        BY <1>4, <4>1, <4>2
      <4>4. PICK u \in 1 .. Len(g) : g[u] = y
        BY <1>1, <4>3 DEF ToSet
      <4>5. u \in 1 .. t - 1 /\ h[u] = y
        BY <1>5, <2>2, <4>4
      <4> QED
        BY <4>5
    <3> QED
      BY <3>2, <3>3, <3>4
  <2> QED
    BY <1>5, <2>1, <2>2
<1>7. InPlace(r, f, h)
  BY <1>6 DEF InPlace
<1> QED
  BY <1>7 DEF r, h

LEMMA GatherPlaces ==
  ASSUME NEW S, NEW T, NEW f \in [S -> Seq(T)], NEW s \in Seq(S)
  PROVE  InPlace(s, f, Gather(s, f))
<1> DEFINE P == {r \in Seq(S) : InPlace(r, f, Gather(r, f))}
<1>1. << >> \in P
  <2>1. Gather(<< >>, f) = << >> /\ << >> \in Seq(S) /\ 1 .. Len(<< >>) = {}
    BY GatherNone
  <2> QED
    BY <2>1 DEF InPlace
<1>2. ASSUME NEW r \in Seq(S), NEW x \in S, r \in P
      PROVE  Append(r, x) \in P
  <2>1. Append(r, x) \in Seq(S)
    OBVIOUS
  <2> QED
    BY <1>2, <2>1, InPlaceOneMore
<1> HIDE DEF P
<1>3. Seq(S) \subseteq P
  BY <1>1, <1>2, SequenceInduction
<1> QED
  BY <1>3 DEF P

\* What is gathered of two sequences that are joined.
LEMMA GatherJoined ==
  ASSUME NEW S, NEW T, NEW f \in [S -> Seq(T)], NEW s \in Seq(S), NEW t \in Seq(S)
  PROVE  Gather(s \o t, f) = Gather(s, f) \o Gather(t, f)
<1> DEFINE P == {r \in Seq(S) : Gather(s \o r, f) = Gather(s, f) \o Gather(r, f)}
<1>0. Gather(s, f) \in Seq(T)
  BY GatherType
<1>1. << >> \in P
  <2>1. s \o << >> = s /\ Gather(s, f) \o << >> = Gather(s, f)
    BY <1>0
  <2>2. Gather(<< >>, f) = << >> /\ << >> \in Seq(S)
    BY GatherNone
  <2> QED
    BY <2>1, <2>2
<1>2. ASSUME NEW r \in Seq(S), NEW x \in S, r \in P
      PROVE  Append(r, x) \in P
  <2>1. Gather(Append(r, x), f) = Gather(r, f) \o f[x]
    BY GatherAppend
  <2>2. s \o Append(r, x) = Append(s \o r, x) /\ s \o r \in Seq(S)
    OBVIOUS
  <2>3. Gather(Append(s \o r, x), f) = Gather(s \o r, f) \o f[x]
    BY <2>2, GatherAppend
  <2>4. Gather(r, f) \in Seq(T) /\ f[x] \in Seq(T)
    BY GatherType
  <2>5. (Gather(s, f) \o Gather(r, f)) \o f[x] = Gather(s, f) \o (Gather(r, f) \o f[x])
    <3> DEFINE a == Gather(s, f)
               b == Gather(r, f)
               c == f[x]
    <3>1. a \in Seq(T) /\ b \in Seq(T) /\ c \in Seq(T)
      BY <1>0, <2>4
    <3> HIDE DEF a, b, c
    <3>2. InTurn(a, b, c)
      BY <3>1, JoinedInTurn
    <3> QED
      BY <3>2 DEF InTurn, a, b, c
  <2>6. Append(r, x) \in Seq(S)
    OBVIOUS
  <2> QED
    BY <1>2, <2>1, <2>2, <2>3, <2>5, <2>6
<1> HIDE DEF P
<1>3. Seq(S) \subseteq P
  BY <1>1, <1>2, SequenceInduction
<1> QED
  BY <1>3 DEF P

\* To gather from what was gathered is to gather at once.
Through(h, f, g, S, T, U) ==
  /\ f \in [S -> Seq(T)] /\ g \in [T -> Seq(U)] /\ h \in [S -> Seq(U)]
  /\ \A x \in S : h[x] = Gather(f[x], g)

LEMMA GatherTwice ==
  ASSUME NEW S, NEW T, NEW U, NEW f, NEW g, NEW h, NEW s \in Seq(S),
         Through(h, f, g, S, T, U)
  PROVE  Gather(Gather(s, f), g) = Gather(s, h)
<1>1. f \in [S -> Seq(T)]
  BY DEF Through
<1>2. g \in [T -> Seq(U)]
  BY DEF Through
<1>3. h \in [S -> Seq(U)]
  BY DEF Through
<1> DEFINE P == {r \in Seq(S) : Gather(Gather(r, f), g) = Gather(r, h)}
<1>4. << >> \in P
  <2>1. /\ Gather(<< >>, f) = << >> /\ Gather(<< >>, g) = << >>
        /\ Gather(<< >>, h) = << >> /\ << >> \in Seq(S)
    BY GatherNone
  <2> QED
    BY <2>1
<1>5. ASSUME NEW r \in Seq(S), NEW x \in S, r \in P
      PROVE  Append(r, x) \in P
  <2>1. Gather(Append(r, x), f) = Gather(r, f) \o f[x]
    BY <1>1, GatherAppend
  <2>2. Gather(Append(r, x), h) = Gather(r, h) \o h[x]
    BY <1>3, GatherAppend
  <2>3. Gather(r, f) \in Seq(T) /\ f[x] \in Seq(T)
    BY <1>1, GatherType
  <2>4. Gather(Gather(r, f) \o f[x], g) = Gather(Gather(r, f), g) \o Gather(f[x], g)
    <3> DEFINE a == Gather(r, f)
               b == f[x]
    <3>1. a \in Seq(T) /\ b \in Seq(T)
      BY <2>3
    <3> HIDE DEF a, b
    <3>2. Gather(a \o b, g) = Gather(a, g) \o Gather(b, g)
      BY <1>2, <3>1, GatherJoined
    <3> QED
      BY <3>2 DEF a, b
  <2>5. h[x] = Gather(f[x], g)
    BY DEF Through
  <2>6. Append(r, x) \in Seq(S)
    OBVIOUS
  <2> QED
    BY <1>5, <2>1, <2>2, <2>4, <2>5, <2>6
<1> HIDE DEF P
<1>6. Seq(S) \subseteq P
  BY <1>4, <1>5, SequenceInduction
<1> QED
  BY <1>6 DEF P

\* One for each.
Each(h, f, S, T) ==
  h \in [S -> Seq(T)] /\ \A x \in S : f[x] \in T /\ h[x] = <<f[x]>>

\* r holds f of each element of s.
Image(r, f, s) == Len(r) = Len(s) /\ \A i \in 1 .. Len(s) : r[i] = f[s[i]]

LEMMA GatherEach ==
  ASSUME NEW S, NEW T, NEW f, NEW h, NEW s \in Seq(S), Each(h, f, S, T)
  PROVE  Gather(s, h) \in Seq(T) /\ Image(Gather(s, h), f, s)
<1> DEFINE P == {r \in Seq(S) : /\ Len(Gather(r, h)) = Len(r)
                                /\ \A i \in 1 .. Len(r) : Gather(r, h)[i] = f[r[i]]}
<1>0. h \in [S -> Seq(T)] /\ \A x \in S : f[x] \in T /\ h[x] = <<f[x]>>
  BY DEF Each
<1>1. << >> \in P
  <2>1. << >> \in Seq(S) /\ Gather(<< >>, h) = << >> /\ Len(<< >>) = 0
    BY GatherNone
  <2> QED
    BY <2>1
<1>2. ASSUME NEW r \in Seq(S), NEW x \in S, r \in P
      PROVE  Append(r, x) \in P
  <2> DEFINE q == Append(r, x)
             gr == Gather(r, h)
             gq == Gather(q, h)
  <2>1. gq = gr \o h[x] /\ gr \in Seq(T)
    BY <1>0, GatherAppend, GatherType
  <2>2. h[x] = <<f[x]>> /\ f[x] \in T
    BY <1>0
  <2>3. q \in Seq(S) /\ Len(q) = Len(r) + 1 /\ q[Len(r) + 1] = x /\ Len(r) \in Nat
        /\ \A i \in 1 .. Len(r) : q[i] = r[i]
    OBVIOUS
  <2>4. Len(gr) = Len(r) /\ \A i \in 1 .. Len(r) : gr[i] = f[r[i]]
    BY <1>2
  <2> HIDE DEF q, gr, gq
  <2>5. gq = gr \o <<f[x]>>
    BY <2>1, <2>2
  <2>6. <<f[x]>> \in Seq(T) /\ Len(<<f[x]>>) = 1 /\ <<f[x]>>[1] = f[x]
    BY <2>2
  <2>7. Len(gq) = Len(gr) + 1 /\ gq[Len(gr) + 1] = f[x]
        /\ \A i \in 1 .. Len(gr) : gq[i] = gr[i]
    BY <2>1, <2>5, <2>6
  <2>8. \A i \in 1 .. Len(q) : i \in 1 .. Len(r) \/ i = Len(r) + 1
    BY <2>3
  <2>9. \A i \in 1 .. Len(q) : gq[i] = f[q[i]]
    BY <2>3, <2>4, <2>7, <2>8
  <2>10. Len(gq) = Len(q)
    BY <2>3, <2>4, <2>7
  <2> QED
    BY <2>3, <2>9, <2>10 DEF q, gq
<1> HIDE DEF P
<1>3. Seq(S) \subseteq P
  BY <1>1, <1>2, SequenceInduction
<1>4. Gather(s, h) \in Seq(T)
  BY <1>0, GatherType
<1> QED
  BY <1>3, <1>4 DEF P, Image

\* Functions that agree on the elements of a sequence gather the same from it.
LEMMA GatherSame ==
  ASSUME NEW s, NEW f, NEW g, \A x \in ToSet(s) : f[x] = g[x]
  PROVE  Gather(s, f) = Gather(s, g)
<1>1. \A i \in DOMAIN s : f[s[i]] = g[s[i]]
  BY DEF ToSet
<1>2. [i \in DOMAIN s |-> f[s[i]]] = [i \in DOMAIN s |-> g[s[i]]]
  BY <1>1
<1> QED
  BY <1>2 DEF Gather

LEMMA GatherOne ==
  ASSUME NEW S, NEW T, NEW f \in [S -> Seq(T)], NEW x \in S
  PROVE  Gather(<<x>>, f) = f[x]
<1>1. << >> \in Seq(S) /\ Append(<< >>, x) = <<x>>
  OBVIOUS
<1>2. Gather(Append(<< >>, x), f) = Gather(<< >>, f) \o f[x]
  BY <1>1, GatherAppend
<1>3. f[x] \in Seq(T)
  OBVIOUS
<1>4. << >> \o f[x] = f[x]
  BY <1>3
<1> QED
  BY <1>1, <1>2, <1>4, GatherNone

LEMMA ElementsTyped ==
  ASSUME NEW S, NEW s \in Seq(S)
  PROVE  \A x \in ToSet(s) : x \in S
BY DEF ToSet

LEMMA NoElements ==
  ASSUME NEW S, NEW s \in Seq(S), \A x \in S : x \notin ToSet(s)
  PROVE  s = << >>
<1>1. Len(s) = 0
  <2> SUFFICES ASSUME Len(s) # 0 PROVE FALSE
    OBVIOUS
  <2>1. 1 \in DOMAIN s /\ s[1] \in S
    OBVIOUS
  <2> QED
    BY <2>1 DEF ToSet
<1> QED
  BY <1>1

\* All elements are gathered, or none is.
LEMMA GatherAll ==
  ASSUME NEW S, NEW f, NEW s \in Seq(S), \A x \in ToSet(s) : f[x] = <<x>>
  PROVE  Gather(s, f) = s
<1> DEFINE itself == [x \in S |-> x]
           each == [x \in S |-> <<x>>]
<1>1. \A x \in S : itself[x] = x
  OBVIOUS
<1>2. each \in [S -> Seq(S)] /\ \A x \in S : each[x] = <<x>>
  OBVIOUS
<1> HIDE DEF itself, each
<1>3. Each(each, itself, S, S)
  BY <1>1, <1>2 DEF Each
<1>4. Gather(s, each) \in Seq(S) /\ Image(Gather(s, each), itself, s)
  BY <1>3, GatherEach
<1>5. Gather(s, each) = s
  <2> DEFINE r == Gather(s, each)
  <2>1. r \in Seq(S) /\ Len(r) = Len(s) /\ \A i \in 1 .. Len(s) : r[i] = itself[s[i]]
    BY <1>4 DEF Image
  <2> HIDE DEF r
  <2>2. \A i \in 1 .. Len(s) : r[i] = s[i]
    BY <1>1, <2>1
  <2>3. r = s
    BY <2>1, <2>2
  <2> QED
    BY <2>3 DEF r
<1>6. \A x \in ToSet(s) : f[x] = each[x]
  BY <1>2, ElementsTyped
<1>7. Gather(s, f) = Gather(s, each)
  BY <1>6, GatherSame
<1> QED
  BY <1>5, <1>7

LEMMA GatherNothing ==
  ASSUME NEW S, NEW T, NEW f \in [S -> Seq(T)], NEW s \in Seq(S),
         \A x \in ToSet(s) : f[x] = << >>
  PROVE  Gather(s, f) = << >>
<1>1. Gather(s, f) \in Seq(T)
  BY GatherType
<1>2. \A y \in T : y \notin ToSet(Gather(s, f))
  <2> SUFFICES ASSUME NEW y \in T, y \in ToSet(Gather(s, f))
               PROVE  FALSE
    OBVIOUS
  <2>1. PICK x \in ToSet(s) : y \in ToSet(f[x])
    BY GatherElements
  <2>2. y \in ToSet(<< >>)
    BY <2>1
  <2> QED
    BY <2>2 DEF ToSet
<1> QED
  BY <1>1, <1>2, NoElements

\* The elements of s that are in K.
Keeping(S, K) == [x \in S |-> IF x \in K THEN <<x>> ELSE << >>]

LEMMA KeepingType ==
  ASSUME NEW S, NEW K
  PROVE  Keeping(S, K) \in [S -> Seq(S)]
BY DEF Keeping

LEMMA KeptElements ==
  ASSUME NEW S, NEW K, NEW s \in Seq(S), NEW y
  PROVE  y \in ToSet(Gather(s, Keeping(S, K))) <=> y \in ToSet(s) /\ y \in K
<1>1. y \in ToSet(Gather(s, Keeping(S, K)))
        <=> \E x \in ToSet(s) : y \in ToSet(Keeping(S, K)[x])
  BY KeepingType, GatherElements
<1>2. ASSUME NEW x \in ToSet(s)
      PROVE  y \in ToSet(Keeping(S, K)[x]) <=> y = x /\ x \in K
  <2>1. x \in S
    BY ElementsTyped
  <2>2. CASE x \in K
    <3>1. Keeping(S, K)[x] = <<x>>
      BY <2>1, <2>2 DEF Keeping
    <3>2. ToSet(<<x>>) = {x}
      BY DEF ToSet
    <3> QED
      BY <2>2, <3>1, <3>2
  <2>3. CASE x \notin K
    <3>1. Keeping(S, K)[x] = << >>
      BY <2>1, <2>3 DEF Keeping
    <3>2. ToSet(<< >>) = {}
      BY DEF ToSet
    <3> QED
      BY <2>3, <3>1, <3>2
  <2> QED
    BY <2>2, <2>3
<1> QED
  BY <1>1, <1>2
-----------------------------------------------------------------------------
(* Requests, as what is gathered of a history.                             *)

\* What is true of each message of a history: a tool's result is one text, only
\* an answer has calls, and its content is a string.
WellShaped(m) ==
  /\ m.array \/ IsString(m)
  /\ m.role = "assistant" => ~m.array
  /\ m.role = "tool" => Len(m.parts) = 1 /\ m.parts[1].type = "text"
  /\ m.role # "assistant" => m.calls = << >>
HistoryMessage == {m \in AnyMessage : WellShaped(m)}

LEMMA MessageFields ==
  ASSUME NEW m \in HistoryMessage
  PROVE  /\ m.role \in {"system", "user", "assistant", "tool"} /\ m.array \in BOOLEAN
         /\ m.parts \in Seq(Piece) /\ m.calls \in Seq(CallMade)
         /\ m.id \in Seq(Nat) /\ m.of \in Functions \cup {""}
         /\ WellShaped(m)
BY DEF HistoryMessage, AnyMessage

LEMMA PieceFields ==
  ASSUME NEW p \in Piece
  PROVE  p.type \in {"text", "inline", "remote"} /\ p.what \in Seq(Nat)
BY DEF Piece

LEMMA CallMadeFields ==
  ASSUME NEW c \in CallMade
  PROVE  c.id \in Seq(Nat) /\ c.name \in Functions /\ c.args \in Seq(0 .. 2)
BY DEF CallMade

LEMMA ArgumentsTyped ==
  ASSUME NEW args
  PROVE  Arguments(args) \in Seq(0 .. 2) /\ Arguments(Arguments(args)) = Arguments(args)
<1>1. Whole \in Seq(0 .. 2) /\ EmptyObject \in Seq(0 .. 2)
  BY DEF Whole, EmptyObject
<1> QED
  BY <1>1 DEF Arguments

LEMMA StringTextTyped ==
  ASSUME NEW m \in HistoryMessage
  PROVE  StringText(m) \in Seq(Nat)
<1>1. CASE m.array \/ m.parts = << >>
  BY <1>1 DEF StringText
<1>2. CASE ~(m.array \/ m.parts = << >>)
  <2>1. m.parts \in Seq(Piece) /\ m.parts # << >>
    BY <1>2, MessageFields
  <2>2. m.parts[1] \in Piece
    BY <2>1
  <2>3. m.parts[1].what \in Seq(Nat)
    BY <2>2, PieceFields
  <2> QED
    BY <1>2, <2>3 DEF StringText
<1> QED
  BY <1>1, <1>2

\* The parts that are not left out.
PartsKept(k) == Keeping(Piece, {p \in Piece : k # "gemini" \/ p.type # "remote"})

\* The block that a part becomes.
PieceBlock(p) == Block(p.type, p.what, << >>, "", << >>)

LEMMA ContentGathered ==
  ASSUME NEW k, NEW m \in HistoryMessage
  PROVE  LET ps == Gather(m.parts, PartsKept(k))
         IN  /\ ps \in Seq(Piece)
             /\ ContentBlocks(k, m) = [i \in DOMAIN ps |-> PieceBlock(ps[i])]
<1> DEFINE s == m.parts
<1>1. s \in Seq(Piece)
  BY MessageFields
<1> HIDE DEF s
<1>2. \A i \in DOMAIN s :
        (IF k # "gemini" \/ s[i].type # "remote" THEN <<s[i]>> ELSE << >>)
          = PartsKept(k)[s[i]]
  BY <1>1 DEF PartsKept, Keeping
<1>3. [i \in DOMAIN s |-> IF k # "gemini" \/ s[i].type # "remote" THEN <<s[i]>> ELSE << >>]
        = [i \in DOMAIN s |-> PartsKept(k)[s[i]]]
  BY <1>2
<1>4. FlattenSeq([i \in DOMAIN s |-> IF k # "gemini" \/ s[i].type # "remote"
                                     THEN <<s[i]>> ELSE << >>])
        = Gather(s, PartsKept(k))
  BY <1>3 DEF Gather
<1>5. Gather(s, PartsKept(k)) \in Seq(Piece)
  BY <1>1, KeepingType, GatherType DEF PartsKept
<1>6. ContentBlocks(k, m) = LET ps == Gather(s, PartsKept(k))
                            IN  [i \in DOMAIN ps |-> PieceBlock(ps[i])]
  BY <1>4 DEF ContentBlocks, Picked, PieceBlock, s
<1> QED
  BY <1>5, <1>6 DEF s

LEMMA BlockTyped ==
  ASSUME NEW type \in {"text", "inline", "remote", "call", "result"}, NEW what \in Seq(Nat),
         NEW id \in Seq(Nat), NEW name \in Functions \cup {""}, NEW args \in Seq(0 .. 2)
  PROVE  Block(type, what, id, name, args) \in AnyBlock
BY DEF Block, AnyBlock

LEMMA BlockFields ==
  ASSUME NEW type, NEW what, NEW id, NEW name, NEW args, NEW b,
         b = Block(type, what, id, name, args)
  PROVE  b.type = type /\ b.what = what /\ b.id = id /\ b.name = name /\ b.args = args
BY DEF Block

LEMMA PieceBlockTyped ==
  ASSUME NEW p \in Piece
  PROVE  PieceBlock(p) \in AnyBlock /\ PieceBlock(p).type = p.type
         /\ PieceBlock(p).what = p.what
BY PieceFields DEF PieceBlock, Block, AnyBlock

\* The block that a call becomes.
CallBlock(k, c) ==
  Block("call", << >>, IF k = "gemini" THEN << >> ELSE c.id, c.name,
        IF k = "openai" THEN c.args ELSE Arguments(c.args))

LEMMA CallBlockTyped ==
  ASSUME NEW k, NEW c \in CallMade
  PROVE  /\ CallBlock(k, c) \in AnyBlock /\ CallBlock(k, c).type = "call"
         /\ CallBlock(k, c).name = c.name
         /\ Arguments(CallBlock(k, c).args) = Arguments(c.args)
         /\ k # "gemini" => CallBlock(k, c).id = c.id
<1> DEFINE id == IF k = "gemini" THEN << >> ELSE c.id
           args == IF k = "openai" THEN c.args ELSE Arguments(c.args)
<1>1. c.id \in Seq(Nat) /\ c.name \in Functions /\ c.args \in Seq(0 .. 2)
  BY CallMadeFields
<1>2. id \in Seq(Nat)
  BY <1>1
<1>3. args \in Seq(0 .. 2) /\ Arguments(args) = Arguments(c.args)
  BY <1>1, ArgumentsTyped
<1>4. << >> \in Seq(Nat)
  OBVIOUS
<1> HIDE DEF id, args
<1>5. CallBlock(k, c) = [type |-> "call", what |-> << >>, id |-> id, name |-> c.name,
                         args |-> args]
  BY DEF CallBlock, Block, id, args
<1>6. CallBlock(k, c) \in AnyBlock
  <2>1. c.name \in Functions \cup {""}
    BY <1>1
  <2>2. CallBlock(k, c) = Block("call", << >>, id, c.name, args)
    BY DEF CallBlock, id, args
  <2> QED
    BY <1>2, <1>3, <1>4, <2>1, <2>2, BlockTyped
<1>7. k # "gemini" => id = c.id
  BY DEF id
<1> QED
  BY <1>3, <1>5, <1>6, <1>7

LEMMA ContentElements ==
  ASSUME NEW k, NEW m \in HistoryMessage
  PROVE  /\ ContentBlocks(k, m) \in Seq(AnyBlock)
         /\ \A b : b \in ToSet(ContentBlocks(k, m)) <=>
              \E p \in ToSet(m.parts) : /\ k # "gemini" \/ p.type # "remote"
                                        /\ b = PieceBlock(p)
<1> DEFINE ps == Gather(m.parts, PartsKept(k))
<1>1. ps \in Seq(Piece) /\ ContentBlocks(k, m) = [i \in DOMAIN ps |-> PieceBlock(ps[i])]
  BY ContentGathered
<1>2. m.parts \in Seq(Piece)
  BY MessageFields
<1>3. \A p : p \in ToSet(ps) <=>
        p \in ToSet(m.parts) /\ p \in {q \in Piece : k # "gemini" \/ q.type # "remote"}
  BY <1>2, KeptElements DEF PartsKept
<1>4. \A p \in ToSet(m.parts) : p \in Piece
  BY <1>2, ElementsTyped
<1> HIDE DEF ps
<1>5. [i \in DOMAIN ps |-> PieceBlock(ps[i])] \in Seq(AnyBlock)
  <2>1. \A i \in 1 .. Len(ps) : PieceBlock(ps[i]) \in AnyBlock
    BY <1>1, PieceBlockTyped
  <2>2. DOMAIN ps = 1 .. Len(ps) /\ Len(ps) \in Nat
    BY <1>1
  <2> QED
    BY <2>1, <2>2
<1>6. ASSUME NEW b
      PROVE  b \in ToSet(ContentBlocks(k, m)) <=> \E p \in ToSet(ps) : b = PieceBlock(p)
  BY <1>1 DEF ToSet
<1>7. ASSUME NEW b
      PROVE  b \in ToSet(ContentBlocks(k, m)) <=>
              \E p \in ToSet(m.parts) : /\ k # "gemini" \/ p.type # "remote"
                                        /\ b = PieceBlock(p)
  BY <1>3, <1>4, <1>6
<1> QED
  BY <1>1, <1>5, <1>7

LEMMA CallElements ==
  ASSUME NEW k, NEW m \in HistoryMessage
  PROVE  /\ CallBlocks(k, m) = [i \in DOMAIN m.calls |-> CallBlock(k, m.calls[i])]
         /\ CallBlocks(k, m) \in Seq(AnyBlock)
         /\ \A b : b \in ToSet(CallBlocks(k, m)) <=>
              \E c \in ToSet(m.calls) : b = CallBlock(k, c)
<1> DEFINE cs == m.calls
<1>1. cs \in Seq(CallMade)
  BY MessageFields
<1>2. CallBlocks(k, m) = [i \in DOMAIN cs |-> CallBlock(k, cs[i])]
  BY DEF CallBlocks, CallBlock
<1> HIDE DEF cs
<1>3. [i \in DOMAIN cs |-> CallBlock(k, cs[i])] \in Seq(AnyBlock)
  <2>1. \A i \in 1 .. Len(cs) : CallBlock(k, cs[i]) \in AnyBlock
    BY <1>1, CallBlockTyped
  <2>2. DOMAIN cs = 1 .. Len(cs) /\ Len(cs) \in Nat
    BY <1>1
  <2> QED
    BY <2>1, <2>2
<1>4. \A b : b \in ToSet(CallBlocks(k, m)) <=> \E c \in ToSet(cs) : b = CallBlock(k, c)
  BY <1>2 DEF ToSet
<1> QED
  BY <1>2, <1>3, <1>4 DEF cs

\* The calls of a history.
CallsOf == [m \in HistoryMessage |-> m.calls]
CallsIn(ms) == UNION {ToSet(m.calls) : m \in ToSet(ms)}

LEMMA CallsGathered ==
  ASSUME NEW ms \in Seq(HistoryMessage)
  PROVE  /\ FlattenSeq([i \in DOMAIN ms |-> ms[i].calls]) = Gather(ms, CallsOf)
         /\ Gather(ms, CallsOf) \in Seq(CallMade)
         /\ ToSet(Gather(ms, CallsOf)) = CallsIn(ms)
<1>1. CallsOf \in [HistoryMessage -> Seq(CallMade)]
  BY MessageFields DEF CallsOf
<1>2. Gather(ms, CallsOf) \in Seq(CallMade)
  BY <1>1, GatherType
<1>3. \A i \in DOMAIN ms : ms[i].calls = CallsOf[ms[i]]
  BY DEF CallsOf
<1>4. [i \in DOMAIN ms |-> ms[i].calls] = [i \in DOMAIN ms |-> CallsOf[ms[i]]]
  BY <1>3
<1>5. \A c : c \in ToSet(Gather(ms, CallsOf)) <=> c \in CallsIn(ms)
  <2>1. \A m \in ToSet(ms) : CallsOf[m] = m.calls
    BY ElementsTyped DEF CallsOf
  <2>2. ASSUME NEW c
        PROVE  c \in ToSet(Gather(ms, CallsOf)) <=> \E m \in ToSet(ms) : c \in ToSet(CallsOf[m])
    BY <1>1, GatherElements
  <2> QED
    BY <2>1, <2>2 DEF CallsIn
<1> QED
  BY <1>2, <1>4, <1>5 DEF Gather

LEMMA CallsTyped ==
  ASSUME NEW ms \in Seq(HistoryMessage), NEW c \in CallsIn(ms)
  PROVE  c \in CallMade
BY CallsGathered, ElementsTyped

\* A non-empty set of naturals up to n has a greatest element.
LEMMA GreatestUpTo ==
  ASSUME NEW n \in Nat, NEW H, H \subseteq 1 .. n, H # {}
  PROVE  \E i \in H : \A j \in H : j <= i
<1> DEFINE T == {d \in Nat : n - d \in H}
<1>1. T # {}
  <2>1. PICK i \in H : TRUE
    OBVIOUS
  <2>2. n - i \in Nat /\ n - (n - i) = i
    OBVIOUS
  <2> QED
    BY <2>1, <2>2
<1>2. PICK d \in T : \A e \in T : d <= e
  BY <1>1, LeastNat
<1>3. ASSUME NEW j \in H
      PROVE  j <= n - d
  <2>1. n - j \in Nat /\ n - (n - j) = j
    OBVIOUS
  <2>2. n - j \in T
    BY <2>1
  <2>3. d <= n - j
    BY <1>2, <2>2
  <2> QED
    BY <2>3
<1>4. n - d \in H
  BY <1>2
<1> QED
  BY <1>3, <1>4

\* The name found by an id is the name of a call with that id.
LEMMA NameFound ==
  ASSUME NEW ms \in Seq(HistoryMessage), NEW id
  PROVE  /\ ToolCallName(ms, id) \in Functions \cup {""}
         /\ \A c \in CallsIn(ms) : c.id = id =>
              \E d \in CallsIn(ms) : d.id = id /\ ToolCallName(ms, id) = d.name
<1> DEFINE cs   == Gather(ms, CallsOf)
           hits == {i \in DOMAIN cs : cs[i].id = id}
           last == CHOOSE i \in hits : \A j \in hits : j <= i
<1>1. ToolCallName(ms, id) = IF hits = {} THEN "" ELSE cs[last].name
  <2> DEFINE fs == FlattenSeq([i \in DOMAIN ms |-> ms[i].calls])
  <2>1. ToolCallName(ms, id) =
          LET found == {i \in DOMAIN fs : fs[i].id = id}
          IN  IF found = {} THEN "" ELSE fs[CHOOSE i \in found : \A j \in found : j <= i].name
    BY DEF ToolCallName
  <2>2. fs = cs
    BY CallsGathered
  <2> HIDE DEF fs, cs
  <2> QED
    BY <2>1, <2>2
<1>2. cs \in Seq(CallMade) /\ ToSet(cs) = CallsIn(ms)
  BY CallsGathered
<1> HIDE DEF cs
<1>3. ASSUME hits # {}
      PROVE  last \in hits
  <2>1. hits \subseteq 1 .. Len(cs) /\ Len(cs) \in Nat
    BY <1>2
  <2>2. \E i \in hits : \A j \in hits : j <= i
    BY <1>3, <2>1, GreatestUpTo
  <2> QED
    BY <2>2
<1> HIDE DEF last
<1>4. ASSUME hits # {}
      PROVE  /\ ToolCallName(ms, id) = cs[last].name /\ cs[last] \in CallsIn(ms)
             /\ cs[last].id = id
  BY <1>1, <1>2, <1>3, <1>4 DEF ToSet
<1>5. ASSUME NEW c \in CallsIn(ms), c.id = id
      PROVE  hits # {}
  BY <1>2, <1>5 DEF ToSet
<1>6. hits # {} => ToolCallName(ms, id) \in Functions
  BY <1>4, CallsTyped, CallMadeFields
<1>7. hits = {} => ToolCallName(ms, id) = ""
  BY <1>1
<1> QED
  BY <1>4, <1>5, <1>6, <1>7

LEMMA FirstOfOne ==
  ASSUME NEW S, NEW s \in Seq(S), Len(s) = 1
  PROVE  s[1] \in S /\ s # << >>
OBVIOUS

LEMMA ResultBlockTyped ==
  ASSUME NEW k, NEW ms \in Seq(HistoryMessage), NEW m \in HistoryMessage, m.role = "tool"
  PROVE  /\ ResultBlock(k, ms, m) \in AnyBlock /\ ResultBlock(k, ms, m).type = "result"
         /\ k = "gemini" => ResultBlock(k, ms, m).name = ToolCallName(ms, m.id)
         /\ k \in {"openai", "anthropic"} => ResultBlock(k, ms, m).id = m.id
         /\ ~m.array => ResultBlock(k, ms, m).what = m.parts[1].what
<1> DEFINE none == << >>
           nobody == ""
           id == m.id
           told == m.parts[1].what
           name == ToolCallName(ms, m.id)
<1>1. m.parts \in Seq(Piece) /\ Len(m.parts) = 1 /\ id \in Seq(Nat)
  BY MessageFields DEF WellShaped
<1>2. m.parts[1] \in Piece /\ m.parts # << >>
  BY <1>1, FirstOfOne
<1>3. told \in Seq(Nat) /\ told = m.parts[1].what /\ none \in Seq(Nat) /\ none \in Seq(0 .. 2)
  BY <1>2, PieceFields
<1>4. StringText(m) \in Seq(Nat) /\ (~m.array => StringText(m) = told)
  BY <1>2, StringTextTyped DEF StringText
<1>5. nobody \in Functions \cup {""} /\ name \in Functions \cup {""}
  BY NameFound
<1> HIDE DEF none, nobody, id, told, name
<1>6. CASE k = "openai"
  <2> DEFINE b == ResultBlock(k, ms, m)
  <2>1. b = Block("result", told, id, nobody, none)
    BY <1>6 DEF ResultBlock, none, nobody, told, id, name
  <2> HIDE DEF b
  <2>2. b \in AnyBlock
    BY <1>1, <1>3, <1>4, <1>5, <2>1, BlockTyped
  <2>3. b.type = "result" /\ b.what = told /\ b.id = id /\ b.name = nobody
    BY <2>1, BlockFields
  <2>4. /\ b \in AnyBlock /\ b.type = "result"
        /\ k = "gemini" => b.name = name
        /\ k \in {"openai", "anthropic"} => b.id = id
        /\ ~m.array => b.what = m.parts[1].what
    BY <1>3, <1>4, <1>6, <2>2, <2>3
  <2> QED
    BY <2>4 DEF b, id, name
<1>7. CASE k = "anthropic"
  <2> DEFINE b == ResultBlock(k, ms, m)
  <2>1. b = Block("result", StringText(m), id, nobody, none)
    BY <1>7 DEF ResultBlock, none, nobody, told, id, name
  <2> HIDE DEF b
  <2>2. b \in AnyBlock
    BY <1>1, <1>3, <1>4, <1>5, <2>1, BlockTyped
  <2>3. b.type = "result" /\ b.what = StringText(m) /\ b.id = id /\ b.name = nobody
    BY <2>1, BlockFields
  <2>4. /\ b \in AnyBlock /\ b.type = "result"
        /\ k = "gemini" => b.name = name
        /\ k \in {"openai", "anthropic"} => b.id = id
        /\ ~m.array => b.what = m.parts[1].what
    BY <1>3, <1>4, <1>7, <2>2, <2>3
  <2> QED
    BY <2>4 DEF b, id, name
<1>8. CASE k \notin {"openai", "anthropic"}
  <2> DEFINE b == ResultBlock(k, ms, m)
  <2>1. b = Block("result", StringText(m), none, name, none)
    BY <1>8 DEF ResultBlock, none, nobody, told, id, name
  <2> HIDE DEF b
  <2>2. b \in AnyBlock
    BY <1>1, <1>3, <1>4, <1>5, <2>1, BlockTyped
  <2>3. b.type = "result" /\ b.what = StringText(m) /\ b.id = none /\ b.name = name
    BY <2>1, BlockFields
  <2>4. /\ b \in AnyBlock /\ b.type = "result"
        /\ k = "gemini" => b.name = name
        /\ k \in {"openai", "anthropic"} => b.id = id
        /\ ~m.array => b.what = m.parts[1].what
    BY <1>3, <1>4, <1>8, <2>2, <2>3
  <2> QED
    BY <2>4 DEF b, id, name
<1> QED
  BY <1>6, <1>7, <1>8

LEMMA BlocksElements ==
  ASSUME NEW k, NEW m \in HistoryMessage
  PROVE  /\ Blocks(k, m) \in Seq(AnyBlock)
         /\ ToSet(Blocks(k, m)) = ToSet(ContentBlocks(k, m)) \cup ToSet(CallBlocks(k, m))
<1>1. ContentBlocks(k, m) \in Seq(AnyBlock) /\ CallBlocks(k, m) \in Seq(AnyBlock)
  BY ContentElements, CallElements
<1> QED
  BY <1>1, ElementsJoined DEF Blocks

\* The blocks that a message becomes.
MessageBlocks(k, ms, m) ==
  IF m.role = "tool" THEN <<ResultBlock(k, ms, m)>>
  ELSE IF k # "openai" /\ m.role = "system" THEN << >> ELSE Blocks(k, m)

TurnsOf(k, ms) == [m \in HistoryMessage |-> Turns(k, ms, m)]
BlocksOf == [t \in AnyTurn |-> t.blocks]
BlocksFor(k, ms) == [m \in HistoryMessage |-> MessageBlocks(k, ms, m)]

LEMMA TurnTyped ==
  ASSUME NEW role \in {"system", "user", "assistant"}, NEW bs \in Seq(AnyBlock)
  PROVE  /\ Turn(role, bs) \in AnyTurn /\ Turn(role, bs).role = role
         /\ Turn(role, bs).blocks = bs
BY DEF Turn, AnyTurn

\* A message becomes at most one turn, of its blocks.
LEMMA TurnsCases ==
  ASSUME NEW k, NEW ms \in Seq(HistoryMessage), NEW m \in HistoryMessage
  PROVE  /\ MessageBlocks(k, ms, m) \in Seq(AnyBlock)
         /\ \/ Turns(k, ms, m) = << >> /\ MessageBlocks(k, ms, m) = << >>
            \/ /\ m.role # "tool" /\ (m.role = "system" => k = "openai")
               /\ Turns(k, ms, m) = <<Turn(m.role, MessageBlocks(k, ms, m))>>
            \/ /\ m.role = "tool"
               /\ Turns(k, ms, m) = <<Turn("user", MessageBlocks(k, ms, m))>>
<1>1. Blocks(k, m) \in Seq(AnyBlock)
  BY BlocksElements
<1>2. CASE m.role = "tool"
  <2>1. ResultBlock(k, ms, m) \in AnyBlock
    BY <1>2, ResultBlockTyped
  <2>2. <<ResultBlock(k, ms, m)>> \in Seq(AnyBlock)
    BY <2>1
  <2>3. Turns(k, ms, m) = <<Turn("user", <<ResultBlock(k, ms, m)>>)>>
    BY <1>2 DEF Turns
  <2> QED
    BY <1>2, <2>2, <2>3 DEF MessageBlocks
<1>3. CASE m.role # "tool" /\ k # "openai" /\ m.role = "system"
  <2>1. Turns(k, ms, m) = << >> /\ MessageBlocks(k, ms, m) = << >>
    BY <1>3 DEF Turns, MessageBlocks
  <2>2. << >> \in Seq(AnyBlock)
    OBVIOUS
  <2> QED
    BY <2>1, <2>2
<1>4. CASE m.role # "tool" /\ ~(k # "openai" /\ m.role = "system")
  <2>1. MessageBlocks(k, ms, m) = Blocks(k, m)
    BY <1>4 DEF MessageBlocks
  <2>2. CASE k # "openai" /\ Blocks(k, m) = << >>
    <3>1. Turns(k, ms, m) = << >>
      BY <1>4, <2>2 DEF Turns
    <3> QED
      BY <1>1, <2>1, <2>2, <3>1
  <2>3. CASE ~(k # "openai" /\ Blocks(k, m) = << >>)
    <3>1. Turns(k, ms, m) = <<Turn(m.role, Blocks(k, m))>>
      BY <1>4, <2>3 DEF Turns
    <3> QED
      BY <1>1, <1>4, <2>1, <3>1
  <2> QED
    BY <2>2, <2>3
<1> QED
  BY <1>2, <1>3, <1>4

LEMMA TurnsTyped ==
  ASSUME NEW k, NEW ms \in Seq(HistoryMessage)
  PROVE  /\ TurnsOf(k, ms) \in [HistoryMessage -> Seq(AnyTurn)]
         /\ BlocksOf \in [AnyTurn -> Seq(AnyBlock)]
         /\ BlocksFor(k, ms) \in [HistoryMessage -> Seq(AnyBlock)]
         /\ \A m \in HistoryMessage :
              /\ TurnsOf(k, ms)[m] = Turns(k, ms, m)
              /\ BlocksFor(k, ms)[m] = MessageBlocks(k, ms, m)
              /\ \A t \in ToSet(Turns(k, ms, m)) :
                   t \in AnyTurn /\ (t.role = "system" => k = "openai")
<1>1. ASSUME NEW m \in HistoryMessage
      PROVE  /\ Turns(k, ms, m) \in Seq(AnyTurn)
             /\ MessageBlocks(k, ms, m) \in Seq(AnyBlock)
             /\ \A t \in ToSet(Turns(k, ms, m)) :
                  t \in AnyTurn /\ (t.role = "system" => k = "openai")
  <2> DEFINE bs == MessageBlocks(k, ms, m)
             ts == Turns(k, ms, m)
  <2>1. /\ bs \in Seq(AnyBlock)
        /\ \/ ts = << >>
           \/ /\ m.role # "tool" /\ (m.role = "system" => k = "openai")
              /\ ts = <<Turn(m.role, bs)>>
           \/ m.role = "tool" /\ ts = <<Turn("user", bs)>>
    BY TurnsCases
  <2>2. m.role \in {"system", "user", "assistant", "tool"}
    BY MessageFields
  <2> HIDE DEF bs, ts
  <2>3. CASE ts = << >>
    BY <2>1, <2>3 DEF ToSet, bs, ts
  <2>4. ASSUME NEW role \in {"system", "user", "assistant"}, ts = <<Turn(role, bs)>>,
               role = "system" => k = "openai"
        PROVE  /\ ts \in Seq(AnyTurn)
               /\ \A t \in ToSet(ts) : t \in AnyTurn /\ (t.role = "system" => k = "openai")
    <3> DEFINE u == Turn(role, bs)
    <3>1. u \in AnyTurn /\ u.role = role
      BY <2>1, TurnTyped
    <3> HIDE DEF u
    <3>2. ts = <<u>>
      BY <2>4 DEF u
    <3>3. ts \in Seq(AnyTurn) /\ ToSet(ts) = {u}
      BY <3>1, <3>2 DEF ToSet
    <3> QED
      BY <2>4, <3>1, <3>3
  <2>5. CASE m.role # "tool" /\ (m.role = "system" => k = "openai") /\ ts = <<Turn(m.role, bs)>>
    BY <2>1, <2>2, <2>4, <2>5 DEF bs, ts
  <2>6. CASE m.role = "tool" /\ ts = <<Turn("user", bs)>>
    BY <2>1, <2>4, <2>6 DEF bs, ts
  <2> QED
    BY <2>1, <2>3, <2>5, <2>6
<1>2. BlocksOf \in [AnyTurn -> Seq(AnyBlock)]
  BY DEF BlocksOf, AnyTurn
<1> QED
  BY <1>1, <1>2 DEF TurnsOf, BlocksFor

\* A request, message by message.
LEMMA RequestTurns ==
  ASSUME NEW k, NEW ms \in Seq(HistoryMessage), NEW o
  PROVE  /\ Request(k, ms, o).turns = Gather(ms, TurnsOf(k, ms))
         /\ Request(k, ms, o).turns \in Seq(AnyTurn)
         /\ \A t \in ToSet(Request(k, ms, o).turns) : t.role = "system" => k = "openai"
<1>1. \A i \in DOMAIN ms : Turns(k, ms, ms[i]) = TurnsOf(k, ms)[ms[i]]
  BY DEF TurnsOf
<1>2. [i \in DOMAIN ms |-> Turns(k, ms, ms[i])] = [i \in DOMAIN ms |-> TurnsOf(k, ms)[ms[i]]]
  BY <1>1
<1>3. Request(k, ms, o).turns = Gather(ms, TurnsOf(k, ms))
  BY <1>2 DEF Request, Gather
<1>4. Gather(ms, TurnsOf(k, ms)) \in Seq(AnyTurn)
  BY TurnsTyped, GatherType
<1>5. ASSUME NEW t \in ToSet(Gather(ms, TurnsOf(k, ms)))
      PROVE  t.role = "system" => k = "openai"
  <2>1. PICK m \in ToSet(ms) : t \in ToSet(TurnsOf(k, ms)[m])
    BY TurnsTyped, GatherElements
  <2>2. m \in HistoryMessage
    BY ElementsTyped
  <2> QED
    BY <2>1, <2>2, TurnsTyped
<1> QED
  BY <1>3, <1>4, <1>5

LEMMA BlocksOfMessage ==
  ASSUME NEW k, NEW ms \in Seq(HistoryMessage), NEW m \in HistoryMessage
  PROVE  BlocksFor(k, ms)[m] = Gather(TurnsOf(k, ms)[m], BlocksOf)
<1> DEFINE bs == MessageBlocks(k, ms, m)
           ts == Turns(k, ms, m)
<1>1. BlocksFor(k, ms)[m] = bs /\ TurnsOf(k, ms)[m] = ts
  BY DEF BlocksFor, TurnsOf
<1>2. BlocksOf \in [AnyTurn -> Seq(AnyBlock)]
  BY TurnsTyped
<1>3. /\ bs \in Seq(AnyBlock)
      /\ \/ ts = << >> /\ bs = << >>
         \/ m.role # "tool" /\ ts = <<Turn(m.role, bs)>>
         \/ ts = <<Turn("user", bs)>>
  BY TurnsCases
<1>4. m.role \in {"system", "user", "assistant", "tool"}
  BY MessageFields
<1> HIDE DEF bs, ts
<1>5. ASSUME NEW role \in {"system", "user", "assistant"}, ts = <<Turn(role, bs)>>
      PROVE  Gather(ts, BlocksOf) = bs
  <2> DEFINE u == Turn(role, bs)
  <2>1. u \in AnyTurn /\ BlocksOf[u] = bs
    BY <1>3, TurnTyped DEF BlocksOf
  <2> HIDE DEF u
  <2>2. Gather(<<u>>, BlocksOf) = BlocksOf[u]
    BY <1>2, <2>1, GatherOne
  <2> QED
    BY <1>5, <2>1, <2>2 DEF u
<1>6. CASE ts = << >> /\ bs = << >>
  BY <1>1, <1>6, GatherNone
<1>7. CASE m.role # "tool" /\ ts = <<Turn(m.role, bs)>>
  BY <1>1, <1>4, <1>5, <1>7
<1>8. CASE ts = <<Turn("user", bs)>>
  BY <1>1, <1>5, <1>8
<1> QED
  BY <1>3, <1>6, <1>7, <1>8

\* The blocks that have been sent, message by message.
LEMMA BlocksGathered ==
  ASSUME NEW k, NEW ms \in Seq(HistoryMessage), sent.turns = Gather(ms, TurnsOf(k, ms))
  PROVE  /\ BlocksSent = Gather(ms, BlocksFor(k, ms))
         /\ BlocksSent \in Seq(AnyBlock)
<1> DEFINE ts == sent.turns
<1>1. /\ TurnsOf(k, ms) \in [HistoryMessage -> Seq(AnyTurn)]
      /\ BlocksOf \in [AnyTurn -> Seq(AnyBlock)]
      /\ BlocksFor(k, ms) \in [HistoryMessage -> Seq(AnyBlock)]
  BY TurnsTyped
<1>2. ts \in Seq(AnyTurn)
  <2> DEFINE f == TurnsOf(k, ms)
  <2>1. f \in [HistoryMessage -> Seq(AnyTurn)]
    BY <1>1
  <2> HIDE DEF f
  <2>2. Gather(ms, f) \in Seq(AnyTurn)
    BY <2>1, GatherType
  <2> QED
    BY <2>2 DEF f
<1> HIDE DEF ts
<1>3. [i \in DOMAIN ts |-> ts[i].blocks] = [i \in DOMAIN ts |-> BlocksOf[ts[i]]]
  <2>1. \A i \in DOMAIN ts : ts[i].blocks = BlocksOf[ts[i]]
    BY <1>2 DEF BlocksOf
  <2> QED
    BY <2>1
<1>4. BlocksSent = Gather(ts, BlocksOf)
  BY <1>3 DEF BlocksSent, Gather, ts
<1>5. Gather(Gather(ms, TurnsOf(k, ms)), BlocksOf) = Gather(ms, BlocksFor(k, ms))
  <2>1. Through(BlocksFor(k, ms), TurnsOf(k, ms), BlocksOf,
                HistoryMessage, AnyTurn, AnyBlock)
    BY <1>1, BlocksOfMessage DEF Through
  <2> QED
    BY <2>1, GatherTwice
<1>6. Gather(ms, BlocksFor(k, ms)) \in Seq(AnyBlock)
  BY <1>1, GatherType
<1> QED
  BY <1>4, <1>5, <1>6 DEF ts

LEMMA BlocksSentElements ==
  ASSUME NEW k, NEW ms \in Seq(HistoryMessage), sent.turns = Gather(ms, TurnsOf(k, ms)),
         NEW b
  PROVE  b \in ToSet(BlocksSent) <=> \E m \in ToSet(ms) : b \in ToSet(MessageBlocks(k, ms, m))
<1>1. BlocksFor(k, ms) \in [HistoryMessage -> Seq(AnyBlock)]
  BY TurnsTyped
<1>2. b \in ToSet(Gather(ms, BlocksFor(k, ms)))
        <=> \E m \in ToSet(ms) : b \in ToSet(BlocksFor(k, ms)[m])
  BY <1>1, GatherElements
<1>3. \A m \in ToSet(ms) : BlocksFor(k, ms)[m] = MessageBlocks(k, ms, m)
  BY ElementsTyped, TurnsTyped
<1> QED
  BY <1>2, <1>3, BlocksGathered

\* The blocks of one kind.
OfKind(type) == Keeping(AnyBlock, {b \in AnyBlock : b.type = type})

LEMMA OfGathered ==
  ASSUME NEW type, NEW bs \in Seq(AnyBlock)
  PROVE  Of(type, bs) = Gather(bs, OfKind(type))
<1>1. \A i \in DOMAIN bs : (IF bs[i].type = type THEN <<bs[i]>> ELSE << >>)
                             = OfKind(type)[bs[i]]
  BY DEF OfKind, Keeping
<1>2. [i \in DOMAIN bs |-> IF bs[i].type = type THEN <<bs[i]>> ELSE << >>]
        = [i \in DOMAIN bs |-> OfKind(type)[bs[i]]]
  BY <1>1
<1> QED
  BY <1>2 DEF Of, Picked, Gather

LEMMA OfElements ==
  ASSUME NEW type, NEW bs \in Seq(AnyBlock), NEW b
  PROVE  /\ Of(type, bs) \in Seq(AnyBlock)
         /\ b \in ToSet(Of(type, bs)) <=> b \in ToSet(bs) /\ b.type = type
<1>1. Of(type, bs) = Gather(bs, OfKind(type))
  BY OfGathered
<1>2. Gather(bs, OfKind(type)) \in Seq(AnyBlock)
  BY KeepingType, GatherType DEF OfKind
<1>3. b \in ToSet(Gather(bs, OfKind(type)))
        <=> b \in ToSet(bs) /\ b \in {a \in AnyBlock : a.type = type}
  BY KeptElements DEF OfKind
<1>4. b \in ToSet(bs) => b \in AnyBlock
  BY ElementsTyped
<1> QED
  BY <1>1, <1>2, <1>3, <1>4

LEMMA SystemElements ==
  ASSUME NEW k, NEW ms \in Seq(HistoryMessage)
  PROVE  /\ System(k, ms) \in Seq(Seq(Nat))
         /\ k # "openai" =>
              \A m \in ToSet(ms) : m.role = "system" /\ StringText(m) # << >>
                                     => StringText(m) \in ToSet(System(k, ms))
<1> DEFINE K == {m \in HistoryMessage : m.role = "system" /\ StringText(m) # << >>}
           ss == Gather(ms, Keeping(HistoryMessage, K))
<1>1. CASE k = "openai"
  <2>1. System(k, ms) = << >>
    BY <1>1 DEF System
  <2>2. << >> \in Seq(Seq(Nat))
    OBVIOUS
  <2> QED
    BY <1>1, <2>1, <2>2
<1>2. CASE k # "openai"
  <2>1. \A i \in DOMAIN ms :
          (IF ms[i].role = "system" /\ StringText(ms[i]) # << >> THEN <<ms[i]>> ELSE << >>)
            = Keeping(HistoryMessage, K)[ms[i]]
    BY DEF Keeping
  <2>2. [i \in DOMAIN ms |-> IF ms[i].role = "system" /\ StringText(ms[i]) # << >>
                             THEN <<ms[i]>> ELSE << >>]
          = [i \in DOMAIN ms |-> Keeping(HistoryMessage, K)[ms[i]]]
    BY <2>1
  <2>3. System(k, ms) = [i \in DOMAIN ss |-> StringText(ss[i])]
    BY <1>2, <2>2 DEF System, Picked, Gather
  <2>4. ss \in Seq(HistoryMessage)
    BY KeepingType, GatherType
  <2>5. \A m : m \in ToSet(ss) <=> m \in ToSet(ms) /\ m \in K
    BY KeptElements
  <2>6. \A m \in ToSet(ms) : m \in HistoryMessage
    BY ElementsTyped
  <2> HIDE DEF ss
  <2>7. [i \in DOMAIN ss |-> StringText(ss[i])] \in Seq(Seq(Nat))
    <3>1. \A i \in 1 .. Len(ss) : StringText(ss[i]) \in Seq(Nat)
      BY <2>4, StringTextTyped
    <3>2. DOMAIN ss = 1 .. Len(ss) /\ Len(ss) \in Nat
      BY <2>4
    <3> QED
      BY <3>1, <3>2
  <2>8. ASSUME NEW m \in ToSet(ms), m.role = "system" /\ StringText(m) # << >>
        PROVE  StringText(m) \in ToSet(System(k, ms))
    <3>1. m \in ToSet(ss)
      BY <2>5, <2>6, <2>8
    <3> QED
      BY <2>3, <3>1 DEF ToSet
  <2> QED
    BY <2>3, <2>7, <2>8
<1> QED
  BY <1>1, <1>2

\* What is true when a provider has got a request.
Asked(ms) ==
  /\ kind \in {"openai", "anthropic", "gemini"} /\ ms \in Seq(HistoryMessage)
  /\ sent.turns = Gather(ms, TurnsOf(kind, ms)) /\ sent.system = System(kind, ms)

\* Texts are only lost from arrays of parts.
LEMMA TextsArrive ==
  ASSUME NEW ms, Asked(ms), NEW m \in ToSet(ms)
  PROVE  TextsOf(m) \subseteq TextsSent \/ (m.array /\ m.role \in {"system", "tool"})
<1> SUFFICES ASSUME NEW p \in ToSet(m.parts), p.type = "text",
                    ~(m.array /\ m.role \in {"system", "tool"})
             PROVE  p.what \in TextsSent
  BY DEF TextsOf
<1>1. ms \in Seq(HistoryMessage) /\ sent.turns = Gather(ms, TurnsOf(kind, ms))
  BY DEF Asked
<1>2. m \in HistoryMessage
  BY <1>1, ElementsTyped
<1>3. /\ m.parts \in Seq(Piece) /\ m.array \in BOOLEAN /\ WellShaped(m)
      /\ m.role \in {"system", "user", "assistant", "tool"}
  BY <1>2, MessageFields
<1>4. p \in Piece
  BY <1>3, ElementsTyped
<1>5. ASSUME NEW b \in ToSet(MessageBlocks(kind, ms, m)), b.what = p.what
      PROVE  p.what \in TextsSent
  <2>1. b \in ToSet(BlocksSent)
    BY <1>1, BlocksSentElements
  <2> QED
    BY <1>5, <2>1 DEF TextsSent
<1>6. ASSUME ~m.array
      PROVE  m.parts # << >> /\ p = m.parts[1] /\ p.what # << >> /\ StringText(m) = p.what
  <2> DEFINE ps == m.parts
  <2>1. ps \in Seq(Piece) /\ p \in ToSet(ps)
    BY <1>3
  <2>2. ps # << >> => Len(ps) = 1 /\ ps[1].type = "text" /\ ps[1].what # << >>
    BY <1>3, <1>6 DEF WellShaped, IsString
  <2>3. StringText(m) = IF m.array \/ ps = << >> THEN << >> ELSE ps[1].what
    BY DEF StringText
  <2> HIDE DEF ps
  <2>4. PICK i \in DOMAIN ps : p = ps[i]
    BY <2>1 DEF ToSet
  <2>5. ps # << >>
    BY <2>1, <2>4
  <2>6. i = 1
    BY <2>1, <2>2, <2>4, <2>5
  <2>7. p = ps[1]
    BY <2>4, <2>6
  <2>8. p.what # << >> /\ StringText(m) = p.what
    BY <1>6, <2>2, <2>3, <2>5, <2>7
  <2> QED
    BY <2>5, <2>7, <2>8 DEF ps
<1>7. CASE m.role = "tool"
  <2>1. ~m.array
    BY <1>7
  <2>2. ResultBlock(kind, ms, m).what = p.what
    BY <1>1, <1>2, <1>6, <1>7, <2>1, ResultBlockTyped
  <2>3. ResultBlock(kind, ms, m) \in ToSet(MessageBlocks(kind, ms, m))
    BY <1>7 DEF MessageBlocks, ToSet
  <2> QED
    BY <1>5, <2>2, <2>3
<1>8. CASE m.role = "system" /\ kind # "openai"
  <2>1. ~m.array
    BY <1>8
  <2>2. p.what \in ToSet(System(kind, ms))
    BY <1>1, <1>6, <1>8, <2>1, SystemElements
  <2> QED
    BY <2>2 DEF TextsSent, Asked
<1>9. CASE m.role # "tool" /\ ~(m.role = "system" /\ kind # "openai")
  <2>1. MessageBlocks(kind, ms, m) = Blocks(kind, m)
    BY <1>9 DEF MessageBlocks
  <2>2. PieceBlock(p) \in ToSet(ContentBlocks(kind, m))
    BY <1>2, ContentElements
  <2>3. PieceBlock(p) \in ToSet(MessageBlocks(kind, ms, m))
    BY <1>2, <2>1, <2>2, BlocksElements
  <2> QED
    BY <1>4, <1>5, <2>3, PieceBlockTyped
<1> QED
  BY <1>7, <1>8, <1>9
-----------------------------------------------------------------------------
(* Results and their calls.                                                *)

\* The calls that are sent.
LEMMA CallersAre ==
  ASSUME NEW ms, Asked(ms)
  PROVE  \A b : b \in ToSet(Of("call", BlocksSent))
                  <=> \E c \in CallsIn(ms) : b = CallBlock(kind, c)
<1>1. ms \in Seq(HistoryMessage) /\ sent.turns = Gather(ms, TurnsOf(kind, ms))
  BY DEF Asked
<1>2. BlocksSent \in Seq(AnyBlock)
  BY <1>1, BlocksGathered
<1>3. ASSUME NEW m \in ToSet(ms), NEW b
      PROVE  b \in ToSet(MessageBlocks(kind, ms, m)) /\ b.type = "call"
               <=> \E c \in ToSet(m.calls) : b = CallBlock(kind, c)
  <2>1. m \in HistoryMessage
    BY <1>1, ElementsTyped
  <2>2. m.calls \in Seq(CallMade) /\ (m.role # "assistant" => m.calls = << >>)
    BY <2>1, MessageFields DEF WellShaped
  <2>3. \A c \in ToSet(m.calls) : c \in CallMade /\ CallBlock(kind, c).type = "call"
    BY <2>2, ElementsTyped, CallBlockTyped
  <2>4. m.calls = << >> => ToSet(m.calls) = {}
    BY DEF ToSet
  <2>5. CASE m.role = "tool"
    <3>1. ToSet(MessageBlocks(kind, ms, m)) = {ResultBlock(kind, ms, m)}
      BY <2>5 DEF MessageBlocks, ToSet
    <3>2. ResultBlock(kind, ms, m).type = "result"
      BY <1>1, <2>1, <2>5, ResultBlockTyped
    <3> QED
      BY <2>2, <2>4, <2>5, <3>1, <3>2
  <2>6. CASE kind # "openai" /\ m.role = "system"
    <3>1. ToSet(MessageBlocks(kind, ms, m)) = {}
      BY <2>6 DEF MessageBlocks, ToSet
    <3> QED
      BY <2>2, <2>4, <2>6, <3>1
  <2>7. CASE m.role # "tool" /\ ~(kind # "openai" /\ m.role = "system")
    <3>1. MessageBlocks(kind, ms, m) = Blocks(kind, m)
      BY <2>7 DEF MessageBlocks
    <3>2. ToSet(Blocks(kind, m)) = ToSet(ContentBlocks(kind, m)) \cup ToSet(CallBlocks(kind, m))
      BY <2>1, BlocksElements
    <3>3. b \in ToSet(CallBlocks(kind, m)) <=> \E c \in ToSet(m.calls) : b = CallBlock(kind, c)
      BY <2>1, CallElements
    <3>4. b \in ToSet(ContentBlocks(kind, m)) => b.type # "call"
      <4> SUFFICES ASSUME b \in ToSet(ContentBlocks(kind, m)) PROVE b.type # "call"
        OBVIOUS
      <4>1. PICK p \in ToSet(m.parts) : b = PieceBlock(p)
        BY <2>1, ContentElements
      <4>2. p \in Piece
        BY <2>1, MessageFields, ElementsTyped
      <4> QED
        BY <4>1, <4>2, PieceBlockTyped, PieceFields
    <3> QED
      BY <2>3, <3>1, <3>2, <3>3, <3>4
  <2> QED
    BY <2>5, <2>6, <2>7
<1>4. ASSUME NEW b
      PROVE  b \in ToSet(Of("call", BlocksSent))
               <=> \E m \in ToSet(ms) : b \in ToSet(MessageBlocks(kind, ms, m)) /\ b.type = "call"
  <2>1. b \in ToSet(Of("call", BlocksSent)) <=> b \in ToSet(BlocksSent) /\ b.type = "call"
    BY <1>2, OfElements
  <2>2. b \in ToSet(BlocksSent) <=> \E m \in ToSet(ms) : b \in ToSet(MessageBlocks(kind, ms, m))
    BY <1>1, BlocksSentElements
  <2> QED
    BY <2>1, <2>2
<1> QED
  BY <1>3, <1>4 DEF CallsIn

LEMMA KeepingInto ==
  ASSUME NEW S, NEW K
  PROVE  Keeping(S, K) \in [S -> Seq(K)]
BY DEF Keeping

\* The results in a history, and the blocks that they become.
ToolMessage == {m \in HistoryMessage : m.role = "tool"}
Tools == Keeping(HistoryMessage, ToolMessage)
ResultOfEach(k, ms) == [m \in ToolMessage |-> ResultBlock(k, ms, m)]
ResultsOfEach(k, ms) == [m \in ToolMessage |-> <<ResultBlock(k, ms, m)>>]
ResultsFor(k, ms) ==
  [m \in HistoryMessage |-> IF m.role = "tool" THEN <<ResultBlock(k, ms, m)>> ELSE << >>]

LEMMA ResultsTyped ==
  ASSUME NEW k, NEW ms \in Seq(HistoryMessage)
  PROVE  /\ ResultsFor(k, ms) \in [HistoryMessage -> Seq(AnyBlock)]
         /\ ResultsOfEach(k, ms) \in [ToolMessage -> Seq(AnyBlock)]
         /\ Each(ResultsOfEach(k, ms), ResultOfEach(k, ms), ToolMessage, AnyBlock)
<1>1. \A m \in ToolMessage : m \in HistoryMessage /\ m.role = "tool"
  BY DEF ToolMessage
<1>2. \A m \in HistoryMessage : m.role = "tool" => ResultBlock(k, ms, m) \in AnyBlock
  BY ResultBlockTyped
<1>3. \A m \in HistoryMessage :
        (IF m.role = "tool" THEN <<ResultBlock(k, ms, m)>> ELSE << >>) \in Seq(AnyBlock)
  BY <1>2
<1>4. \A m \in ToolMessage : <<ResultBlock(k, ms, m)>> \in Seq(AnyBlock)
  BY <1>1, <1>2
<1>5. ResultsOfEach(k, ms) \in [ToolMessage -> Seq(AnyBlock)]
  BY <1>4 DEF ResultsOfEach
<1>6. \A m \in ToolMessage : /\ ResultOfEach(k, ms)[m] \in AnyBlock
                             /\ ResultsOfEach(k, ms)[m] = <<ResultOfEach(k, ms)[m]>>
  BY <1>1, <1>2 DEF ResultsOfEach, ResultOfEach
<1> QED
  BY <1>3, <1>5, <1>6 DEF ResultsFor, Each

\* Only a tool's message becomes a result.
LEMMA NoResults ==
  ASSUME NEW k, NEW ms \in Seq(HistoryMessage), NEW m \in HistoryMessage,
         m.role # "tool", NEW b \in ToSet(MessageBlocks(k, ms, m))
  PROVE  b.type # "result"
<1>1. b \in ToSet(Blocks(k, m))
  <2>1. ToSet(<< >>) = {}
    BY DEF ToSet
  <2> QED
    BY <2>1 DEF MessageBlocks
<1>2. CASE b \in ToSet(ContentBlocks(k, m))
  <2>1. PICK p \in ToSet(m.parts) : b = PieceBlock(p)
    BY <1>2, ContentElements
  <2>2. p \in Piece
    BY MessageFields, ElementsTyped
  <2> QED
    BY <2>1, <2>2, PieceBlockTyped, PieceFields
<1>3. CASE b \in ToSet(CallBlocks(k, m))
  <2>1. PICK c \in ToSet(m.calls) : b = CallBlock(k, c)
    BY <1>3, CallElements
  <2>2. c \in CallMade
    BY MessageFields, ElementsTyped
  <2> QED
    BY <2>1, <2>2, CallBlockTyped
<1> QED
  BY <1>1, <1>2, <1>3, BlocksElements

\* Of the blocks of a message, the result.
LEMMA ResultOfMessage ==
  ASSUME NEW k, NEW ms \in Seq(HistoryMessage), NEW m \in HistoryMessage
  PROVE  ResultsFor(k, ms)[m] = Gather(BlocksFor(k, ms)[m], OfKind("result"))
<1> DEFINE bs == MessageBlocks(k, ms, m)
<1>1. OfKind("result") \in [AnyBlock -> Seq(AnyBlock)]
  BY KeepingType DEF OfKind
<1>2. BlocksFor(k, ms)[m] = bs
  BY DEF BlocksFor
<1>3. bs \in Seq(AnyBlock)
  BY TurnsCases
<1>4. CASE m.role = "tool"
  <2> DEFINE r == ResultBlock(k, ms, m)
  <2>1. r \in AnyBlock /\ r.type = "result"
    BY <1>4, ResultBlockTyped
  <2>2. bs = <<r>> /\ ResultsFor(k, ms)[m] = <<r>>
    BY <1>4 DEF MessageBlocks, ResultsFor
  <2> HIDE DEF r, bs
  <2>3. OfKind("result")[r] = <<r>>
    BY <2>1 DEF OfKind, Keeping
  <2>4. Gather(<<r>>, OfKind("result")) = OfKind("result")[r]
    BY <1>1, <2>1, GatherOne
  <2> QED
    BY <1>2, <2>2, <2>3, <2>4
<1>5. CASE m.role # "tool"
  <2>1. \A b \in ToSet(bs) : b.type # "result"
    BY <1>5, NoResults
  <2>2. \A b \in ToSet(bs) : OfKind("result")[b] = << >>
    <3>1. \A b \in ToSet(bs) : b \in AnyBlock
      BY <1>3, ElementsTyped
    <3> HIDE DEF bs
    <3> QED
      BY <2>1, <3>1 DEF OfKind, Keeping
  <2>3. Gather(bs, OfKind("result")) = << >>
    BY <1>1, <1>3, <2>2, GatherNothing
  <2>4. ResultsFor(k, ms)[m] = << >>
    BY <1>5 DEF ResultsFor
  <2> QED
    BY <1>2, <2>3, <2>4
<1> QED
  BY <1>4, <1>5

LEMMA ResultOfTool ==
  ASSUME NEW k, NEW ms \in Seq(HistoryMessage), NEW m \in HistoryMessage
  PROVE  ResultsFor(k, ms)[m] = Gather(Tools[m], ResultsOfEach(k, ms))
<1>1. ResultsOfEach(k, ms) \in [ToolMessage -> Seq(AnyBlock)]
  BY ResultsTyped
<1>2. CASE m.role = "tool"
  <2>1. m \in ToolMessage /\ Tools[m] = <<m>>
    BY <1>2 DEF ToolMessage, Tools, Keeping
  <2>2. Gather(<<m>>, ResultsOfEach(k, ms)) = ResultsOfEach(k, ms)[m]
    BY <1>1, <2>1, GatherOne
  <2>3. ResultsOfEach(k, ms)[m] = ResultsFor(k, ms)[m]
    BY <1>2, <2>1 DEF ResultsOfEach, ResultsFor
  <2> QED
    BY <2>1, <2>2, <2>3
<1>3. CASE m.role # "tool"
  <2>1. Tools[m] = << >> /\ ResultsFor(k, ms)[m] = << >>
    BY <1>3 DEF ToolMessage, Tools, Keeping, ResultsFor
  <2> QED
    BY <2>1, GatherNone
<1> QED
  BY <1>2, <1>3

\* The results that are sent are those of the history, in its order.
LEMMA ResultsAre ==
  ASSUME NEW ms, Asked(ms)
  PROVE  LET answers == Picked(ms, LAMBDA m : m.role = "tool")
         IN  /\ answers \in Seq(ToolMessage) /\ ToSet(answers) \subseteq ToSet(ms)
             /\ Image(Of("result", BlocksSent), ResultOfEach(kind, ms), answers)
<1> DEFINE answers == Gather(ms, Tools)
           Result  == OfKind("result")
<1>1. ms \in Seq(HistoryMessage) /\ sent.turns = Gather(ms, TurnsOf(kind, ms))
  BY DEF Asked
<1>2. Picked(ms, LAMBDA m : m.role = "tool") = answers
  <2>1. \A i \in DOMAIN ms : (IF ms[i].role = "tool" THEN <<ms[i]>> ELSE << >>) = Tools[ms[i]]
    BY <1>1 DEF Tools, Keeping, ToolMessage
  <2>2. [i \in DOMAIN ms |-> IF ms[i].role = "tool" THEN <<ms[i]>> ELSE << >>]
          = [i \in DOMAIN ms |-> Tools[ms[i]]]
    BY <2>1
  <2> QED
    BY <2>2 DEF Picked, Gather
<1>3. Tools \in [HistoryMessage -> Seq(ToolMessage)]
  BY KeepingInto DEF Tools
<1>4. answers \in Seq(ToolMessage)
  BY <1>1, <1>3, GatherType
<1>5. \A m : m \in ToSet(answers) => m \in ToSet(ms)
  BY <1>1, KeptElements DEF Tools
<1>6. Of("result", BlocksSent) = Gather(Gather(ms, BlocksFor(kind, ms)), Result)
  BY <1>1, BlocksGathered, OfGathered
<1>7. Result \in [AnyBlock -> Seq(AnyBlock)]
  BY KeepingType DEF OfKind
<1> HIDE DEF Result
<1>8. Through(ResultsFor(kind, ms), BlocksFor(kind, ms), Result,
              HistoryMessage, AnyBlock, AnyBlock)
  BY <1>1, <1>7, TurnsTyped, ResultsTyped, ResultOfMessage DEF Through, Result
<1>9. Through(ResultsFor(kind, ms), Tools, ResultsOfEach(kind, ms),
              HistoryMessage, ToolMessage, AnyBlock)
  BY <1>1, <1>3, ResultsTyped, ResultOfTool DEF Through
<1>10. Gather(Gather(ms, BlocksFor(kind, ms)), Result) = Gather(ms, ResultsFor(kind, ms))
  BY <1>1, <1>8, GatherTwice
<1>11. Gather(answers, ResultsOfEach(kind, ms)) = Gather(ms, ResultsFor(kind, ms))
  BY <1>1, <1>9, GatherTwice
<1>12. Each(ResultsOfEach(kind, ms), ResultOfEach(kind, ms), ToolMessage, AnyBlock)
  BY <1>1, ResultsTyped
<1> HIDE DEF answers
<1>13. Image(Gather(answers, ResultsOfEach(kind, ms)), ResultOfEach(kind, ms), answers)
  BY <1>4, <1>12, GatherEach
<1> QED
  BY <1>2, <1>4, <1>5, <1>6, <1>10, <1>11, <1>13

\* The i-th message is a result of a call in an earlier one.
CallBefore(ms, i) ==
  \E j \in 1 .. i - 1 : \E c \in ToSet(ms[j].calls) : c.id = ms[i].id /\ c.name = ms[i].of

\* A call is known by its id, and a result is one of an earlier call.
CallsKnown(ms) ==
  /\ \A c, d \in CallsIn(ms) : c.id = d.id => c = d
  /\ \A i \in DOMAIN ms : ms[i].role = "tool" => CallBefore(ms, i)

LEMMA CallBeforeKept ==
  ASSUME NEW ms, NEW ts, NEW n \in Nat, NEW i \in 1 .. n, CallBefore(ms, i),
         \A j \in 1 .. n : ts[j] = ms[j]
  PROVE  CallBefore(ts, i)
<1>1. PICK j \in 1 .. i - 1 :
        \E c \in ToSet(ms[j].calls) : c.id = ms[i].id /\ c.name = ms[i].of
  BY DEF CallBefore
<1>2. j \in 1 .. n /\ ts[j] = ms[j] /\ ts[i] = ms[i]
  OBVIOUS
<1> QED
  BY <1>1, <1>2 DEF CallBefore

LEMMA CallOfResult ==
  ASSUME NEW ms \in Seq(HistoryMessage), CallsKnown(ms), NEW m \in ToSet(ms), m.role = "tool"
  PROVE  \E c \in CallsIn(ms) : c.id = m.id /\ c.name = m.of
<1>1. PICK i \in DOMAIN ms : ms[i] = m
  BY DEF ToSet
<1>2. CallBefore(ms, i)
  BY <1>1 DEF CallsKnown
<1>3. PICK j \in 1 .. i - 1 : \E c \in ToSet(ms[j].calls) : c.id = m.id /\ c.name = m.of
  BY <1>1, <1>2 DEF CallBefore
<1>4. j \in DOMAIN ms
  OBVIOUS
<1>5. ms[j] \in ToSet(ms)
  BY <1>4 DEF ToSet
<1> QED
  BY <1>3, <1>5 DEF CallsIn

\* The call that a result points at.
PointsAt(r, c) == IF kind = "gemini" THEN c.name = r.name ELSE c.id = r.id

\* A result points at a call with its id and, at gemini, at those of its name.
LEMMA ResultPoints ==
  ASSUME NEW ms \in Seq(HistoryMessage), CallsKnown(ms), kind \in {"openai", "anthropic", "gemini"},
         NEW m \in HistoryMessage, m.role = "tool",
         NEW c \in CallsIn(ms), c.id = m.id, c.name = m.of
  PROVE  /\ PointsAt(ResultBlock(kind, ms, m), CallBlock(kind, c))
         /\ kind = "gemini" => ResultBlock(kind, ms, m).name = m.of
<1> DEFINE b == CallBlock(kind, c)
           r == ResultBlock(kind, ms, m)
<1>1. c \in CallMade
  BY CallsTyped
<1>2. b.name = c.name /\ (kind # "gemini" => b.id = c.id)
  BY <1>1, CallBlockTyped
<1>3. /\ kind = "gemini" => r.name = ToolCallName(ms, m.id)
      /\ kind \in {"openai", "anthropic"} => r.id = m.id
  BY ResultBlockTyped
<1>4. PICK d \in CallsIn(ms) : d.id = m.id /\ ToolCallName(ms, m.id) = d.name
  BY NameFound
<1>5. d = c
  BY <1>4 DEF CallsKnown
<1> HIDE DEF b, r
<1>6. PointsAt(r, b) /\ (kind = "gemini" => r.name = m.of)
  BY <1>2, <1>3, <1>4, <1>5 DEF PointsAt
<1> QED
  BY <1>6 DEF b, r

\* A message with calls becomes a turn, which has them.
LEMMA CallsOfMessage ==
  ASSUME NEW k, NEW ms \in Seq(HistoryMessage), NEW m \in HistoryMessage,
         NEW c \in ToSet(m.calls)
  PROVE  \E t \in ToSet(TurnsOf(k, ms)[m]) : CallBlock(k, c) \in ToSet(t.blocks)
<1> DEFINE bs == MessageBlocks(k, ms, m)
           ts == Turns(k, ms, m)
           t  == Turn(m.role, bs)
<1>1. m.role = "assistant"
  <2>1. ToSet(<< >>) = {}
    BY DEF ToSet
  <2> QED
    BY <2>1, MessageFields DEF WellShaped
<1>2. CallBlock(k, c) \in ToSet(bs)
  <2>1. CallBlock(k, c) \in ToSet(CallBlocks(k, m))
    BY CallElements
  <2>2. bs = Blocks(k, m)
    BY <1>1 DEF MessageBlocks
  <2> QED
    BY <2>1, <2>2, BlocksElements
<1>3. bs # << >>
  <2>1. ToSet(<< >>) = {}
    BY DEF ToSet
  <2> QED
    BY <1>2, <2>1
<1>4. bs \in Seq(AnyBlock) /\ ts = <<t>>
  BY <1>1, <1>3, TurnsCases
<1>5. t.blocks = bs
  BY <1>1, <1>4, TurnTyped
<1>6. TurnsOf(k, ms)[m] = ts
  BY DEF TurnsOf
<1> HIDE DEF bs, ts, t
<1>7. t \in ToSet(ts)
  BY <1>4 DEF ToSet
<1> QED
  BY <1>2, <1>5, <1>6, <1>7

\* The blocks of the turns of a message.
LEMMA BlocksOfTurn ==
  ASSUME NEW k, NEW ms \in Seq(HistoryMessage), NEW m \in HistoryMessage,
         NEW t \in ToSet(TurnsOf(k, ms)[m])
  PROVE  t.blocks = MessageBlocks(k, ms, m)
<1> DEFINE bs == MessageBlocks(k, ms, m)
           ts == Turns(k, ms, m)
<1>1. TurnsOf(k, ms)[m] = ts
  BY DEF TurnsOf
<1>2. /\ bs \in Seq(AnyBlock)
      /\ \/ ts = << >>
         \/ m.role # "tool" /\ ts = <<Turn(m.role, bs)>>
         \/ ts = <<Turn("user", bs)>>
  BY TurnsCases
<1>3. m.role \in {"system", "user", "assistant", "tool"}
  BY MessageFields
<1> HIDE DEF bs, ts
<1>4. PICK role \in {"system", "user", "assistant"} : ts = <<Turn(role, bs)>>
  <2>1. ToSet(<< >>) = {}
    BY DEF ToSet
  <2> QED
    BY <1>1, <1>2, <1>3, <2>1
<1>5. t = Turn(role, bs)
  BY <1>1, <1>4 DEF ToSet
<1> QED
  BY <1>2, <1>5, TurnTyped DEF bs

\* A result follows a turn with a call that it points at.
ResultFollows(t) ==
  \A r \in ToSet(sent.turns[t].blocks) :
    r.type = "result" =>
      \E u \in 1 .. t - 1 : \E c \in ToSet(sent.turns[u].blocks) :
        c.type = "call" /\ PointsAt(r, c)

LEMMA ResultsInOrder ==
  ASSUME Asked(messages), CallsKnown(messages)
  PROVE  \A t \in DOMAIN sent.turns : ResultFollows(t)
<1> DEFINE f == TurnsOf(kind, messages)
           ts == sent.turns
<1>1. /\ messages \in Seq(HistoryMessage) /\ kind \in {"openai", "anthropic", "gemini"}
      /\ ts = Gather(messages, f)
  BY DEF Asked
<1>2. f \in [HistoryMessage -> Seq(AnyTurn)]
  BY <1>1, TurnsTyped
<1>3. /\ \A m \in HistoryMessage : \A x \in ToSet(f[m]) : x.blocks = MessageBlocks(kind, messages, m)
      /\ \A m \in HistoryMessage : \A c \in ToSet(m.calls) :
           \E x \in ToSet(f[m]) : CallBlock(kind, c) \in ToSet(x.blocks)
  BY <1>1, BlocksOfTurn, CallsOfMessage
<1> HIDE DEF f
<1> HIDE DEF ts
<1>4. InPlace(messages, f, ts) /\ ts \in Seq(AnyTurn)
  <2>1. InPlace(messages, f, Gather(messages, f))
    BY <1>1, <1>2, GatherPlaces
  <2>2. Gather(messages, f) \in Seq(AnyTurn)
    BY <1>1, <1>2, GatherType
  <2> QED
    BY <1>1, <2>1, <2>2
<1>5. ASSUME NEW t \in DOMAIN ts, NEW r \in ToSet(ts[t].blocks), r.type = "result"
      PROVE  \E u \in 1 .. t - 1 : \E c \in ToSet(ts[u].blocks) :
               c.type = "call" /\ PointsAt(r, c)
  <2>0. t \in 1 .. Len(ts)
    BY <1>4
  <2>1. PICK i \in 1 .. Len(messages) :
          /\ ts[t] \in ToSet(f[messages[i]])
          /\ \A j \in 1 .. i - 1 : \A x \in ToSet(f[messages[j]]) :
               \E u \in 1 .. t - 1 : ts[u] = x
    BY <1>4, <2>0 DEF InPlace
  <2> DEFINE m == messages[i]
  <2>2. m \in HistoryMessage /\ i \in DOMAIN messages
    BY <1>1
  <2>3. r \in ToSet(MessageBlocks(kind, messages, m))
    BY <1>3, <1>5, <2>1, <2>2
  <2>4. m.role = "tool"
    BY <1>1, <1>5, <2>2, <2>3, NoResults
  <2>5. r = ResultBlock(kind, messages, m)
    BY <2>3, <2>4 DEF MessageBlocks, ToSet
  <2>6. CallBefore(messages, i)
    BY <2>2, <2>4 DEF CallsKnown
  <2>7. PICK j \in 1 .. i - 1 :
          \E c \in ToSet(messages[j].calls) : c.id = m.id /\ c.name = m.of
    BY <2>6 DEF CallBefore
  <2>8. PICK c \in ToSet(messages[j].calls) : c.id = m.id /\ c.name = m.of
    BY <2>7
  <2>9. j \in DOMAIN messages /\ messages[j] \in HistoryMessage
    BY <1>1, <2>1
  <2>10. c \in CallsIn(messages)
    BY <2>8, <2>9 DEF CallsIn, ToSet
  <2> DEFINE b == CallBlock(kind, c)
  <2>11. b.type = "call"
    BY <1>1, <2>10, CallsTyped, CallBlockTyped
  <2>12. PointsAt(r, b)
    BY <1>1, <2>2, <2>4, <2>5, <2>8, <2>10, ResultPoints
  <2>13. PICK x \in ToSet(f[messages[j]]) : b \in ToSet(x.blocks)
    BY <1>3, <2>8, <2>9
  <2> HIDE DEF b, m
  <2>14. PICK u \in 1 .. t - 1 : ts[u] = x
    BY <2>1, <2>7, <2>13
  <2> QED
    BY <2>11, <2>12, <2>13, <2>14
<1> QED
  BY <1>5 DEF ResultFollows, ts

LEMMA ResultsFound ==
  ASSUME Asked(messages), CallsKnown(messages)
  PROVE  ResultsFindTheirCalls
<1> DEFINE results == Of("result", BlocksSent)
           answers == Picked(messages, LAMBDA m : m.role = "tool")
           callers == ToSet(Of("call", BlocksSent))
<1>1. /\ answers \in Seq(ToolMessage) /\ ToSet(answers) \subseteq ToSet(messages)
      /\ Image(results, ResultOfEach(kind, messages), answers)
  BY ResultsAre
<1>2. \A b : b \in callers <=> \E c \in CallsIn(messages) : b = CallBlock(kind, c)
  BY CallersAre
<1>3. messages \in Seq(HistoryMessage) /\ kind \in {"openai", "anthropic", "gemini"}
  BY DEF Asked
<1>4. BlocksSent \in Seq(AnyBlock)
  BY <1>3, BlocksGathered DEF Asked
<1>5. results \in Seq(AnyBlock)
  BY <1>4, OfElements
<1> SUFFICES /\ Len(results) = Len(answers)
             /\ \A i \in DOMAIN results :
                  IF kind = "gemini" THEN results[i].name = answers[i].of
                  ELSE \E b \in callers :
                         /\ b.name = answers[i].of
                         /\ {c \in callers : PointsAt(results[i], c)} = {b}
             /\ \A t \in DOMAIN sent.turns : ResultFollows(t)
  BY DEF ResultsFindTheirCalls, ResultFollows, PointsAt
<1> HIDE DEF results, answers, callers
<1>6. /\ Len(results) = Len(answers) /\ DOMAIN results = 1 .. Len(answers)
      /\ \A i \in 1 .. Len(answers) : results[i] = ResultOfEach(kind, messages)[answers[i]]
  BY <1>1, <1>5 DEF Image
<1>7. ASSUME NEW i \in DOMAIN results
      PROVE  IF kind = "gemini" THEN results[i].name = answers[i].of
             ELSE \E b \in callers :
                    /\ b.name = answers[i].of
                    /\ {c \in callers : PointsAt(results[i], c)} = {b}
  <2>1. PICK m \in ToolMessage : m = answers[i] /\ m \in ToSet(messages)
    <3>1. answers[i] \in ToolMessage /\ answers[i] \in ToSet(answers)
      BY <1>1, <1>6 DEF ToSet
    <3> QED
      BY <1>1, <3>1
  <2>2. m \in HistoryMessage /\ m.role = "tool"
    BY DEF ToolMessage
  <2>3. results[i] = ResultBlock(kind, messages, m)
    BY <1>6, <2>1 DEF ResultOfEach
  <2>4. PICK c \in CallsIn(messages) : c.id = m.id /\ c.name = m.of
    BY <1>3, <2>1, <2>2, CallOfResult
  <2>5. c \in CallMade
    BY <1>3, CallsTyped
  <2> DEFINE b == CallBlock(kind, c)
             r == ResultBlock(kind, messages, m)
  <2>6. b \in callers /\ b.name = c.name
    BY <1>2, <2>5, CallBlockTyped
  <2>7. PointsAt(r, b) /\ (kind = "gemini" => r.name = m.of)
    BY <1>3, <2>2, <2>4, ResultPoints
  <2>8. CASE kind = "gemini"
    BY <2>1, <2>3, <2>7, <2>8
  <2>9. CASE kind # "gemini"
    <3>1. r.id = m.id
      BY <1>3, <2>2, <2>9, ResultBlockTyped
    <3>2. ASSUME NEW a \in callers, PointsAt(r, a)
          PROVE  a = b
      <4>1. PICK d \in CallsIn(messages) : a = CallBlock(kind, d)
        BY <1>2
      <4>2. d \in CallMade
        BY <1>3, CallsTyped
      <4>3. a.id = d.id
        BY <2>9, <4>1, <4>2, CallBlockTyped
      <4>4. a.id = m.id
        BY <2>9, <3>1, <3>2 DEF PointsAt
      <4>5. d = c
        BY <2>4, <4>3, <4>4 DEF CallsKnown
      <4> QED
        BY <4>1, <4>5
    <3> HIDE DEF b, r
    <3>3. results[i] = r
      BY <2>3 DEF r
    <3>4. {a \in callers : PointsAt(results[i], a)} = {b}
      BY <2>6, <2>7, <3>2, <3>3
    <3> QED
      BY <2>1, <2>4, <2>6, <2>9, <3>4
  <2> QED
    BY <2>8, <2>9
<1>8. \A t \in DOMAIN sent.turns : ResultFollows(t)
  BY ResultsInOrder
<1> QED
  BY <1>6, <1>7, <1>8
-----------------------------------------------------------------------------
(* What has been said, told again.                                         *)

\* What an answer said.
MadeCall(c) == [name |-> c.name, args |-> Arguments(c.args)]
UtteranceOf(m) ==
  Utterance(StringText(m), [i \in DOMAIN m.calls |-> MadeCall(m.calls[i])])
Uttered ==
  [m \in HistoryMessage |-> IF m.role = "assistant" THEN <<UtteranceOf(m)>> ELSE << >>]

LEMMA UtteranceTyped ==
  ASSUME NEW text_ \in Seq(Nat), NEW calls_ \in Seq([name : Functions, args : Seq(0 .. 2)])
  PROVE  Utterance(text_, calls_) \in AnyUtterance
BY DEF Utterance, AnyUtterance

LEMMA UtteranceOfTyped ==
  ASSUME NEW m \in HistoryMessage
  PROVE  UtteranceOf(m) \in AnyUtterance
<1> DEFINE cs == m.calls
           made == [i \in DOMAIN cs |-> MadeCall(cs[i])]
<1>1. cs \in Seq(CallMade)
  BY MessageFields
<1> HIDE DEF cs
<1>2. made \in Seq([name : Functions, args : Seq(0 .. 2)])
  <2>1. \A c \in CallMade : MadeCall(c) \in [name : Functions, args : Seq(0 .. 2)]
    BY CallMadeFields, ArgumentsTyped DEF MadeCall
  <2>2. \A i \in 1 .. Len(cs) : MadeCall(cs[i]) \in [name : Functions, args : Seq(0 .. 2)]
    BY <1>1, <2>1
  <2>3. DOMAIN cs = 1 .. Len(cs) /\ Len(cs) \in Nat
    BY <1>1
  <2> QED
    BY <2>2, <2>3
<1>3. UtteranceOf(m) = Utterance(StringText(m), made)
  BY DEF UtteranceOf, cs
<1> HIDE DEF made
<1> QED
  BY <1>2, <1>3, StringTextTyped, UtteranceTyped

LEMMA UtteredTyped == Uttered \in [HistoryMessage -> Seq(AnyUtterance)]
<1>1. \A m \in HistoryMessage :
        (IF m.role = "assistant" THEN <<UtteranceOf(m)>> ELSE << >>) \in Seq(AnyUtterance)
  BY UtteranceOfTyped
<1> QED
  BY <1>1 DEF Uttered

LEMMA JoinedType ==
  ASSUME NEW S, NEW s \in Seq(S), NEW t \in Seq(S)
  PROVE  s \o t \in Seq(S)
OBVIOUS

LEMMA OfJoined ==
  ASSUME NEW type, NEW as \in Seq(AnyBlock), NEW bs \in Seq(AnyBlock)
  PROVE  Of(type, as \o bs) = Of(type, as) \o Of(type, bs)
<1>1. as \o bs \in Seq(AnyBlock)
  BY JoinedType
<1>2. OfKind(type) \in [AnyBlock -> Seq(AnyBlock)]
  BY KeepingType DEF OfKind
<1>3. Gather(as \o bs, OfKind(type)) = Gather(as, OfKind(type)) \o Gather(bs, OfKind(type))
  <2> DEFINE f == OfKind(type)
  <2>1. f \in [AnyBlock -> Seq(AnyBlock)]
    BY <1>2
  <2> HIDE DEF f
  <2>2. Gather(as \o bs, f) = Gather(as, f) \o Gather(bs, f)
    BY <2>1, GatherJoined
  <2> QED
    BY <2>2 DEF f
<1> QED
  BY <1>1, <1>3, OfGathered

LEMMA OfAll ==
  ASSUME NEW type, NEW bs \in Seq(AnyBlock), \A b \in ToSet(bs) : b.type = type
  PROVE  Of(type, bs) = bs
<1>1. \A b \in ToSet(bs) : b \in AnyBlock
  BY ElementsTyped
<1>2. \A b \in ToSet(bs) : OfKind(type)[b] = <<b>>
  BY <1>1 DEF OfKind, Keeping
<1> QED
  BY <1>2, OfGathered, GatherAll

LEMMA OfNone ==
  ASSUME NEW type, NEW bs \in Seq(AnyBlock), \A b \in ToSet(bs) : b.type # type
  PROVE  Of(type, bs) = << >>
<1>1. \A b \in ToSet(bs) : b \in AnyBlock
  BY ElementsTyped
<1>2. \A b \in ToSet(bs) : OfKind(type)[b] = << >>
  BY <1>1 DEF OfKind, Keeping
<1>3. OfKind(type) \in [AnyBlock -> Seq(AnyBlock)]
  BY KeepingType DEF OfKind
<1>4. Gather(bs, OfKind(type)) = << >>
  BY <1>2, <1>3, GatherNothing
<1> QED
  BY <1>4, OfGathered

\* What a turn says.
TextIn(t) ==
  FlattenSeq([i \in DOMAIN Of("text", t.blocks) |-> Of("text", t.blocks)[i].what])
CallsOfTurn(t) ==
  [i \in DOMAIN Of("call", t.blocks) |->
     [name |-> Of("call", t.blocks)[i].name,
      args |-> Arguments(Of("call", t.blocks)[i].args)]]
RetoldOf(t) == Utterance(TextIn(t), CallsOfTurn(t))

LEMMA AnswerString ==
  ASSUME NEW m \in HistoryMessage, m.role = "assistant"
  PROVE  \/ m.parts = << >> /\ StringText(m) = << >>
         \/ \E p \in Piece : /\ m.parts = <<p>> /\ p.type = "text" /\ p.what # << >>
                             /\ StringText(m) = p.what
<1> DEFINE ps == m.parts
<1>1. ps \in Seq(Piece) /\ ~m.array
      /\ (ps # << >> => Len(ps) = 1 /\ ps[1].type = "text" /\ ps[1].what # << >>)
  BY MessageFields DEF WellShaped, IsString
<1>2. StringText(m) = IF ps = << >> THEN << >> ELSE ps[1].what
  BY <1>1 DEF StringText
<1> HIDE DEF ps
<1>3. CASE ps = << >>
  BY <1>2, <1>3 DEF ps
<1>4. CASE ps # << >>
  <2>1. ps[1] \in Piece
    BY <1>1, <1>4, FirstOfOne
  <2>2. ps = <<ps[1]>>
    BY <1>1, <1>4
  <2> QED
    BY <1>1, <1>2, <1>4, <2>1, <2>2 DEF ps
<1> QED
  BY <1>3, <1>4

LEMMA FlattenOne ==
  ASSUME NEW S, NEW s \in Seq(S)
  PROVE  FlattenSeq(<<s>>) = s
<1>1. << >> \in Seq(Seq(S)) /\ Append(<< >>, s) = <<s>>
  OBVIOUS
<1>2. FlattenSeq(Append(<< >>, s)) = FlattenSeq(<< >>) \o s
  BY <1>1, FlattenAppend
<1>3. FlattenSeq(<<s>>) = << >> \o s
  BY <1>1, <1>2, FlattenNone, Zenon
<1>4. << >> \o s = s
  OBVIOUS
<1> QED
  BY <1>3, <1>4

\* The text of an answer is its only content, its calls come after it.
LEMMA AnswerContent ==
  ASSUME NEW k, NEW m \in HistoryMessage, m.role = "assistant"
  PROVE  /\ \A b \in ToSet(ContentBlocks(k, m)) : b.type = "text"
         /\ FlattenSeq([i \in DOMAIN ContentBlocks(k, m) |-> ContentBlocks(k, m)[i].what])
              = StringText(m)
<1> DEFINE C == ContentBlocks(k, m)
           ps == Gather(m.parts, PartsKept(k))
<1>1. ps \in Seq(Piece) /\ C = [i \in DOMAIN ps |-> PieceBlock(ps[i])]
  BY ContentGathered
<1>2. \A p \in ToSet(m.parts) : p.type = "text" /\ p \in Piece
  <2>1. CASE m.parts = << >>
    <3>1. ToSet(<< >>) = {}
      BY DEF ToSet
    <3> QED
      BY <2>1, <3>1
  <2>2. ASSUME NEW q \in Piece, m.parts = <<q>>, q.type = "text"
        PROVE  \A p \in ToSet(m.parts) : p.type = "text" /\ p \in Piece
    <3>1. ToSet(<<q>>) = {q}
      BY DEF ToSet
    <3> QED
      BY <2>2, <3>1
  <2> QED
    BY <2>1, <2>2, AnswerString
<1>3. ps = m.parts
  <2>1. m.parts \in Seq(Piece)
    BY MessageFields
  <2>2. \A p \in ToSet(m.parts) : PartsKept(k)[p] = <<p>>
    BY <1>2 DEF PartsKept, Keeping
  <2> QED
    BY <2>1, <2>2, GatherAll
<1>4. \A b \in ToSet(C) : b.type = "text"
  <2> SUFFICES ASSUME NEW b \in ToSet(C) PROVE b.type = "text"
    OBVIOUS
  <2>1. PICK p \in ToSet(m.parts) : b = PieceBlock(p)
    BY ContentElements
  <2> QED
    BY <1>2, <2>1, PieceBlockTyped
<1> HIDE DEF C, ps
<1>5. [i \in DOMAIN C |-> C[i].what] = [i \in DOMAIN ps |-> ps[i].what]
  <2>1. DOMAIN C = DOMAIN ps /\ \A i \in DOMAIN ps : C[i].what = ps[i].what
    BY <1>1, PieceBlockTyped
  <2> QED
    BY <2>1
<1>6. FlattenSeq([i \in DOMAIN ps |-> ps[i].what]) = StringText(m)
  <2>1. CASE ps = << >> /\ StringText(m) = << >>
    <3>1. [i \in DOMAIN ps |-> ps[i].what] = << >>
      BY <2>1
    <3> QED
      BY <2>1, <3>1, FlattenNone
  <2>2. ASSUME NEW p \in Piece, ps = <<p>>, StringText(m) = p.what
        PROVE  FlattenSeq([i \in DOMAIN ps |-> ps[i].what]) = StringText(m)
    <3>1. [i \in DOMAIN ps |-> ps[i].what] = <<p.what>>
      BY <2>2
    <3>2. p.what \in Seq(Nat)
      BY PieceFields
    <3> QED
      BY <2>2, <3>1, <3>2, FlattenOne
  <2> QED
    BY <1>3, <2>1, <2>2, AnswerString
<1> QED
  BY <1>4, <1>5, <1>6 DEF C

\* An answer is told again as it was.
LEMMA AnswerRetold ==
  ASSUME NEW k, NEW m \in HistoryMessage, m.role = "assistant"
  PROVE  RetoldOf(Turn("assistant", Blocks(k, m))) = UtteranceOf(m)
<1> DEFINE C == ContentBlocks(k, m)
           D == CallBlocks(k, m)
           cs == m.calls
           t == Turn("assistant", Blocks(k, m))
<1>1. /\ C \in Seq(AnyBlock) /\ D \in Seq(AnyBlock)
      /\ D = [i \in DOMAIN cs |-> CallBlock(k, cs[i])] /\ cs \in Seq(CallMade)
  BY ContentElements, CallElements, MessageFields
<1>2. t.blocks = C \o D
  BY DEF Turn, Blocks
<1>3. \A b \in ToSet(C) : b.type = "text"
  BY AnswerContent
<1>4. \A b \in ToSet(D) : b.type = "call"
  <2> SUFFICES ASSUME NEW b \in ToSet(D) PROVE b.type = "call"
    OBVIOUS
  <2>1. PICK c \in ToSet(m.calls) : b = CallBlock(k, c)
    BY CallElements
  <2>2. c \in CallMade
    BY <1>1, ElementsTyped
  <2> QED
    BY <2>1, <2>2, CallBlockTyped
<1>5. FlattenSeq([i \in DOMAIN C |-> C[i].what]) = StringText(m)
  BY AnswerContent
<1> HIDE DEF C, D, t, cs
<1>6. Of("text", C) = C /\ Of("call", D) = D
  BY <1>1, <1>3, <1>4, OfAll
<1>7. Of("text", D) = << >> /\ Of("call", C) = << >>
  BY <1>1, <1>3, <1>4, OfNone
<1>8. Of("text", C \o D) = C \o << >> /\ Of("call", C \o D) = << >> \o D
  <2>1. /\ Of("text", C \o D) = Of("text", C) \o Of("text", D)
        /\ Of("call", C \o D) = Of("call", C) \o Of("call", D)
    BY <1>1, OfJoined
  <2> QED
    BY <1>6, <1>7, <2>1
<1>9. C \o << >> = C /\ << >> \o D = D
  BY <1>1
<1>10. TextIn(t) = StringText(m)
  BY <1>2, <1>5, <1>8, <1>9 DEF TextIn
<1>11. CallsOfTurn(t) = [i \in DOMAIN D |-> MadeCall(D[i])]
  BY <1>2, <1>8, <1>9 DEF CallsOfTurn, MadeCall
<1>12. [i \in DOMAIN D |-> MadeCall(D[i])] = [i \in DOMAIN cs |-> MadeCall(cs[i])]
  <2>1. DOMAIN D = DOMAIN cs
    BY <1>1
  <2>2. \A i \in DOMAIN cs : MadeCall(D[i]) = MadeCall(cs[i])
    BY <1>1, CallBlockTyped DEF MadeCall
  <2> QED
    BY <2>1, <2>2
<1> QED
  BY <1>10, <1>11, <1>12 DEF RetoldOf, UtteranceOf, t, cs

\* What may be told, and what says nothing.
Telling == AnyUtterance \cup {RetoldOf(t) : t \in AnyTurn}
Silent == Utterance(<< >>, << >>)
Told == Keeping(Telling, {u \in Telling : u # Silent})

\* The turns that answers become, and what they tell.
Answering == Keeping(AnyTurn, {t \in AnyTurn : t.role = "assistant"})
AnswerTurns(k, ms) ==
  [m \in HistoryMessage |-> IF m.role = "assistant" THEN Turns(k, ms, m) ELSE << >>]
Retell == [t \in AnyTurn |-> RetoldOf(t)]
RetellEach == [t \in AnyTurn |-> <<RetoldOf(t)>>]
Retold_(k, ms) ==
  [m \in HistoryMessage |-> IF m.role = "assistant" /\ Turns(k, ms, m) # << >>
                            THEN <<UtteranceOf(m)>> ELSE << >>]
Tells ==
  [m \in HistoryMessage |-> IF m.role = "assistant" /\ UtteranceOf(m) # Silent
                            THEN <<UtteranceOf(m)>> ELSE << >>]

LEMMA TellingsTyped ==
  ASSUME NEW k, NEW ms \in Seq(HistoryMessage)
  PROVE  /\ Told \in [Telling -> Seq(Telling)]
         /\ Answering \in [AnyTurn -> Seq(AnyTurn)]
         /\ AnswerTurns(k, ms) \in [HistoryMessage -> Seq(AnyTurn)]
         /\ RetellEach \in [AnyTurn -> Seq(Telling)]
         /\ Each(RetellEach, Retell, AnyTurn, Telling)
         /\ Retold_(k, ms) \in [HistoryMessage -> Seq(Telling)]
         /\ Uttered \in [HistoryMessage -> Seq(Telling)]
         /\ Tells \in [HistoryMessage -> Seq(Telling)]
<1>1. Told \in [Telling -> Seq(Telling)] /\ Answering \in [AnyTurn -> Seq(AnyTurn)]
  BY KeepingType DEF Told, Answering
<1>2. AnswerTurns(k, ms) \in [HistoryMessage -> Seq(AnyTurn)]
  <2>1. \A m \in HistoryMessage : Turns(k, ms, m) \in Seq(AnyTurn)
    <3> SUFFICES ASSUME NEW m \in HistoryMessage PROVE Turns(k, ms, m) \in Seq(AnyTurn)
      OBVIOUS
    <3>1. TurnsOf(k, ms) \in [HistoryMessage -> Seq(AnyTurn)]
          /\ TurnsOf(k, ms)[m] = Turns(k, ms, m)
      BY TurnsTyped
    <3> QED
      BY <3>1
  <2>2. \A m \in HistoryMessage :
          (IF m.role = "assistant" THEN Turns(k, ms, m) ELSE << >>) \in Seq(AnyTurn)
    BY <2>1
  <2> QED
    BY <2>2 DEF AnswerTurns
<1>3. \A t \in AnyTurn : RetoldOf(t) \in Telling
  BY DEF Telling
<1>4. \A t \in AnyTurn : <<RetoldOf(t)>> \in Seq(Telling)
  BY <1>3
<1>5. RetellEach \in [AnyTurn -> Seq(Telling)]
  BY <1>4 DEF RetellEach
<1>6. Each(RetellEach, Retell, AnyTurn, Telling)
  BY <1>3, <1>5 DEF Each, RetellEach, Retell
<1>7. \A m \in HistoryMessage : UtteranceOf(m) \in Telling
  BY UtteranceOfTyped DEF Telling
<1>8. \A m \in HistoryMessage : <<UtteranceOf(m)>> \in Seq(Telling) /\ << >> \in Seq(Telling)
  BY <1>7
<1>9. /\ Retold_(k, ms) \in [HistoryMessage -> Seq(Telling)]
      /\ Uttered \in [HistoryMessage -> Seq(Telling)]
      /\ Tells \in [HistoryMessage -> Seq(Telling)]
  BY <1>8 DEF Retold_, Uttered, Tells
<1> QED
  BY <1>1, <1>2, <1>5, <1>6, <1>9

LEMMA AnswerTurnsAre ==
  ASSUME NEW k, NEW ms \in Seq(HistoryMessage), NEW m \in HistoryMessage
  PROVE  AnswerTurns(k, ms)[m] = Gather(TurnsOf(k, ms)[m], Answering)
<1> DEFINE bs == MessageBlocks(k, ms, m)
           ts == Turns(k, ms, m)
<1>1. /\ bs \in Seq(AnyBlock)
      /\ \/ ts = << >>
         \/ m.role # "tool" /\ ts = <<Turn(m.role, bs)>>
         \/ m.role = "tool" /\ ts = <<Turn("user", bs)>>
  BY TurnsCases
<1>2. TurnsOf(k, ms)[m] = ts
      /\ AnswerTurns(k, ms)[m] = IF m.role = "assistant" THEN ts ELSE << >>
  BY DEF TurnsOf, AnswerTurns
<1>3. m.role \in {"system", "user", "assistant", "tool"}
  BY MessageFields
<1> HIDE DEF bs, ts
<1>4. ASSUME NEW role \in {"system", "user", "assistant"}, ts = <<Turn(role, bs)>>
      PROVE  Gather(ts, Answering) = IF role = "assistant" THEN ts ELSE << >>
  <2> DEFINE u == Turn(role, bs)
  <2>1. u \in AnyTurn /\ u.role = role
    BY <1>1, TurnTyped
  <2> HIDE DEF u
  <2>2. Answering[u] = IF role = "assistant" THEN <<u>> ELSE << >>
    BY <2>1 DEF Answering, Keeping
  <2>3. Answering \in [AnyTurn -> Seq(AnyTurn)]
    BY KeepingType DEF Answering
  <2>4. Gather(<<u>>, Answering) = Answering[u]
    BY <2>1, <2>3, GatherOne
  <2>5. ts = <<u>>
    BY <1>4 DEF u
  <2> QED
    BY <2>2, <2>4, <2>5
<1>5. CASE ts = << >>
  BY <1>2, <1>5, GatherNone
<1>6. CASE m.role # "tool" /\ ts = <<Turn(m.role, bs)>>
  BY <1>2, <1>3, <1>4, <1>6
<1>7. CASE m.role = "tool" /\ ts = <<Turn("user", bs)>>
  <2>1. Gather(ts, Answering) = << >>
    BY <1>4, <1>7
  <2> QED
    BY <1>2, <1>7, <2>1
<1> QED
  BY <1>1, <1>5, <1>6, <1>7

LEMMA AnswersRetold ==
  ASSUME NEW k, NEW ms \in Seq(HistoryMessage), NEW m \in HistoryMessage
  PROVE  Retold_(k, ms)[m] = Gather(AnswerTurns(k, ms)[m], RetellEach)
<1>1. CASE m.role # "assistant"
  BY <1>1, GatherNone DEF Retold_, AnswerTurns
<1>2. CASE m.role = "assistant" /\ Turns(k, ms, m) = << >>
  BY <1>2, GatherNone DEF Retold_, AnswerTurns
<1>3. CASE m.role = "assistant" /\ Turns(k, ms, m) # << >>
  <2> DEFINE t == Turn("assistant", Blocks(k, m))
  <2>1. Turns(k, ms, m) = <<t>>
    BY <1>3 DEF Turns
  <2>2. t \in AnyTurn
    BY BlocksElements, TurnTyped
  <2>3. RetoldOf(t) = UtteranceOf(m)
    BY <1>3, AnswerRetold
  <2> HIDE DEF t
  <2>4. RetellEach[t] = <<UtteranceOf(m)>>
    BY <2>2, <2>3 DEF RetellEach
  <2>5. Gather(<<t>>, RetellEach) = RetellEach[t]
    BY <2>2, TellingsTyped, GatherOne
  <2>6. AnswerTurns(k, ms)[m] = <<t>> /\ Retold_(k, ms)[m] = <<UtteranceOf(m)>>
    BY <1>3, <2>1 DEF AnswerTurns, Retold_
  <2> QED
    BY <2>4, <2>5, <2>6
<1> QED
  BY <1>1, <1>2, <1>3

\* What does not become a turn said nothing.
LEMMA NoTurnSilent ==
  ASSUME NEW k, NEW ms \in Seq(HistoryMessage), NEW m \in HistoryMessage,
         m.role = "assistant", Turns(k, ms, m) = << >>
  PROVE  UtteranceOf(m) = Silent
<1>1. Blocks(k, m) = << >>
  BY DEF Turns
<1>2. RetoldOf(Turn("assistant", Blocks(k, m))) = UtteranceOf(m)
  BY AnswerRetold
<1> DEFINE t == Turn("assistant", << >>)
<1>3. t.blocks = << >> /\ << >> \in Seq(AnyBlock)
  BY DEF Turn
<1> HIDE DEF t
<1>4. ToSet(<< >>) = {}
  BY DEF ToSet
<1>5. Of("text", << >>) = << >> /\ Of("call", << >>) = << >>
  BY <1>3, <1>4, OfAll
<1>6. Of("text", t.blocks) = << >> /\ Of("call", t.blocks) = << >>
  BY <1>3, <1>5
<1>7. TextIn(t) = << >>
  <2>1. [i \in DOMAIN << >> |-> << >>[i].what] = << >>
    OBVIOUS
  <2>2. TextIn(t) = FlattenSeq([i \in DOMAIN << >> |-> << >>[i].what])
    BY <1>6 DEF TextIn
  <2> QED
    BY <2>1, <2>2, FlattenNone
<1>8. CallsOfTurn(t) = << >>
  BY <1>6 DEF CallsOfTurn
<1>9. RetoldOf(t) = Silent
  BY <1>7, <1>8 DEF RetoldOf, Silent
<1> QED
  BY <1>1, <1>2, <1>9 DEF t

LEMMA ToldOfAnswer ==
  ASSUME NEW m \in HistoryMessage
  PROVE  /\ m.role = "assistant" => Gather(<<UtteranceOf(m)>>, Told) = Tells[m]
         /\ m.role = "assistant" /\ UtteranceOf(m) = Silent => Tells[m] = << >>
         /\ m.role # "assistant" => Tells[m] = << >>
<1> DEFINE u == UtteranceOf(m)
<1>1. u \in Telling
  BY UtteranceOfTyped DEF Telling
<1>2. Tells[m] = IF m.role = "assistant" /\ u # Silent THEN <<u>> ELSE << >>
  BY DEF Tells
<1> HIDE DEF u
<1>3. Told[u] = IF u # Silent THEN <<u>> ELSE << >>
  BY <1>1 DEF Told, Keeping
<1>4. Told \in [Telling -> Seq(Telling)]
  BY KeepingType DEF Told
<1>5. Gather(<<u>>, Told) = Told[u]
  BY <1>1, <1>4, GatherOne
<1> QED
  BY <1>2, <1>3, <1>5 DEF u

LEMMA TellsRetold ==
  ASSUME NEW k, NEW ms \in Seq(HistoryMessage), NEW m \in HistoryMessage
  PROVE  Tells[m] = Gather(Retold_(k, ms)[m], Told)
<1>1. CASE m.role # "assistant"
  BY <1>1, ToldOfAnswer, GatherNone DEF Retold_
<1>2. CASE m.role = "assistant" /\ Turns(k, ms, m) = << >>
  <2>1. Tells[m] = << >>
    BY <1>2, NoTurnSilent, ToldOfAnswer
  <2> QED
    BY <1>2, <2>1, GatherNone DEF Retold_
<1>3. CASE m.role = "assistant" /\ Turns(k, ms, m) # << >>
  BY <1>3, ToldOfAnswer DEF Retold_
<1> QED
  BY <1>1, <1>2, <1>3

LEMMA TellsUttered ==
  ASSUME NEW m \in HistoryMessage
  PROVE  Tells[m] = Gather(Uttered[m], Told)
<1>1. CASE m.role # "assistant"
  BY <1>1, ToldOfAnswer, GatherNone DEF Uttered
<1>2. CASE m.role = "assistant"
  BY <1>2, ToldOfAnswer DEF Uttered
<1> QED
  BY <1>1, <1>2

LEMMA ToldIs ==
  ASSUME NEW us \in Seq(Telling)
  PROVE  Picked(us, LAMBDA u : u # Silent) = Gather(us, Told)
<1>1. \A i \in DOMAIN us : us[i] \in Telling
  OBVIOUS
<1>2. \A i \in DOMAIN us : (IF us[i] # Silent THEN <<us[i]>> ELSE << >>) = Told[us[i]]
  BY <1>1 DEF Told, Keeping
<1>3. [i \in DOMAIN us |-> IF us[i] # Silent THEN <<us[i]>> ELSE << >>]
        = [i \in DOMAIN us |-> Told[us[i]]]
  BY <1>2
<1> QED
  BY <1>3 DEF Picked, Gather

LEMMA AnsweringIs ==
  ASSUME NEW ts \in Seq(AnyTurn)
  PROVE  Picked(ts, LAMBDA t : t.role = "assistant") = Gather(ts, Answering)
<1>1. \A i \in DOMAIN ts : ts[i] \in AnyTurn
  OBVIOUS
<1>2. \A i \in DOMAIN ts :
        (IF ts[i].role = "assistant" THEN <<ts[i]>> ELSE << >>) = Answering[ts[i]]
  BY <1>1 DEF Answering, Keeping
<1>3. [i \in DOMAIN ts |-> IF ts[i].role = "assistant" THEN <<ts[i]>> ELSE << >>]
        = [i \in DOMAIN ts |-> Answering[ts[i]]]
  BY <1>2
<1> QED
  BY <1>3 DEF Picked, Gather

LEMMA RetoldIs ==
  ASSUME NEW ts \in Seq(AnyTurn)
  PROVE  /\ [i \in DOMAIN ts |-> RetoldOf(ts[i])] = Gather(ts, RetellEach)
         /\ Gather(ts, RetellEach) \in Seq(Telling)
<1> DEFINE r == Gather(ts, RetellEach)
<1>0. << >> \in Seq(HistoryMessage)
  OBVIOUS
<1>1. Each(RetellEach, Retell, AnyTurn, Telling)
  BY <1>0, TellingsTyped
<1>2. r \in Seq(Telling) /\ Image(r, Retell, ts)
  BY <1>1, GatherEach
<1>3. \A i \in DOMAIN ts : ts[i] \in AnyTurn
  OBVIOUS
<1>4. Len(r) = Len(ts) /\ \A i \in 1 .. Len(ts) : r[i] = Retell[ts[i]]
  BY <1>2 DEF Image
<1> HIDE DEF r
<1>5. DOMAIN ts = 1 .. Len(ts) /\ DOMAIN r = 1 .. Len(ts)
  BY <1>2, <1>4
<1>6. \A i \in DOMAIN ts : RetoldOf(ts[i]) = r[i]
  BY <1>3, <1>4, <1>5 DEF Retell
<1>7. r = [i \in DOMAIN r |-> r[i]]
  BY <1>2
<1>8. r = [i \in DOMAIN ts |-> RetoldOf(ts[i])]
  BY <1>5, <1>6, <1>7
<1> QED
  BY <1>2, <1>8 DEF r

\* A request tells what was said.
LEMMA HistoryTold ==
  ASSUME Asked(messages), spoken = Gather(messages, Uttered), spoken \in Seq(AnyUtterance)
  PROVE  HistoryKept
<1> DEFINE ms == messages
           ts == sent.turns
           turns == Picked(ts, LAMBDA t : t.role = "assistant")
           told == [i \in DOMAIN turns |-> RetoldOf(turns[i])]
           Kept_(us) == Picked(us, LAMBDA u : u # Silent)
<1>1. ms \in Seq(HistoryMessage) /\ ts = Gather(ms, TurnsOf(kind, ms))
  BY DEF Asked
<1>2. SUFFICES Kept_(told) = Kept_(spoken)
  BY DEF HistoryKept, RetoldOf, TextIn, CallsOfTurn, Silent
<1>3. TurnsOf(kind, ms) \in [HistoryMessage -> Seq(AnyTurn)]
  BY <1>1, TurnsTyped
<1>4. /\ ts \in Seq(AnyTurn)
      /\ turns = Gather(ts, Answering) /\ turns \in Seq(AnyTurn)
  <2> HIDE DEF ms, ts
  <2>1. ts \in Seq(AnyTurn)
    BY <1>1, <1>3, GatherType
  <2>2. Answering \in [AnyTurn -> Seq(AnyTurn)]
    BY KeepingType DEF Answering
  <2>3. turns = Gather(ts, Answering)
    BY <2>1, AnsweringIs
  <2>4. Gather(ts, Answering) \in Seq(AnyTurn)
    BY <2>1, <2>2, GatherType
  <2> QED
    BY <2>1, <2>3, <2>4
<1> HIDE DEF turns
<1>6. told = Gather(turns, RetellEach) /\ told \in Seq(Telling)
  BY <1>4, RetoldIs
<1>7. spoken \in Seq(Telling)
  BY DEF Telling
<1> HIDE DEF told, ts
<1>8. Kept_(told) = Gather(told, Told) /\ Kept_(spoken) = Gather(spoken, Told)
  BY <1>6, <1>7, ToldIs
<1> HIDE DEF ms
<1>9. /\ Through(AnswerTurns(kind, ms), TurnsOf(kind, ms), Answering,
                 HistoryMessage, AnyTurn, AnyTurn)
      /\ Through(Retold_(kind, ms), AnswerTurns(kind, ms), RetellEach,
                 HistoryMessage, AnyTurn, Telling)
      /\ Through(Tells, Retold_(kind, ms), Told, HistoryMessage, Telling, Telling)
      /\ Through(Tells, Uttered, Told, HistoryMessage, Telling, Telling)
  BY <1>1, <1>3, TellingsTyped, AnswerTurnsAre, AnswersRetold, TellsRetold, TellsUttered
     DEF Through
<1>10. turns = Gather(ms, AnswerTurns(kind, ms))
  BY <1>1, <1>4, <1>9, GatherTwice
<1>11. told = Gather(ms, Retold_(kind, ms))
  BY <1>1, <1>6, <1>9, <1>10, GatherTwice
<1>12. Gather(told, Told) = Gather(ms, Tells)
  BY <1>1, <1>9, <1>11, GatherTwice
<1>13. Gather(spoken, Told) = Gather(ms, Tells)
  <2>1. spoken = Gather(ms, Uttered)
    BY DEF ms
  <2> QED
    BY <1>1, <1>9, <2>1, GatherTwice
<1> QED
  BY <1>8, <1>12, <1>13
-----------------------------------------------------------------------------
(* Answers.                                                                *)

\* m is the message of the n-th answer, which says u: its calls have ids of
\* their own.
AnswerOf(m, u, n) ==
  /\ m \in HistoryMessage /\ m.role = "assistant"
  /\ u \in AnyUtterance /\ UtteranceOf(m) = u
  /\ \A c \in ToSet(m.calls) : c.id[1] = n
  /\ \A c, d \in ToSet(m.calls) : c.id = d.id => c = d

\* m is a message with these fields.
Written(m, role, array, parts, calls_, id, name) ==
  /\ role \in {"system", "user", "assistant", "tool"} /\ array \in BOOLEAN
  /\ parts \in Seq(Piece) /\ calls_ \in Seq(CallMade) /\ id \in Seq(Nat)
  /\ name \in Functions \cup {""}
  /\ m = [role |-> role, array |-> array, parts |-> parts, calls |-> calls_,
          id |-> id, of |-> name]

LEMMA MessageTyped ==
  ASSUME NEW m, NEW role, NEW array, NEW parts, NEW calls_, NEW id, NEW name,
         Written(m, role, array, parts, calls_, id, name)
  PROVE  /\ m \in AnyMessage /\ m.role = role /\ m.parts = parts /\ m.calls = calls_
         /\ m.array = array /\ m.id = id /\ m.of = name
<1>1. /\ m \in AnyMessage /\ m.role = role /\ m.parts = parts /\ m.calls = calls_
      /\ m.id = id /\ m.of = name
  BY DEF Written, AnyMessage
<1>2. m.array = array
  BY Zenon DEF Written
<1> QED
  BY <1>1, <1>2

LEMMA AssistantMessage ==
  ASSUME NEW text_ \in Seq(Nat), NEW calls_ \in Seq(CallMade), NEW m,
         m = Assistant(text_, calls_)
  PROVE  /\ m \in HistoryMessage /\ m.role = "assistant" /\ m.calls = calls_
         /\ StringText(m) = text_
         /\ m.parts = << >> => text_ = << >>
         /\ m.parts # << >> => m.parts[1].what = text_
<1> DEFINE parts == IF text_ = << >> THEN << >> ELSE <<TextOf(text_)>>
<1>1. TextOf(text_) \in Piece /\ TextOf(text_).type = "text" /\ TextOf(text_).what = text_
  BY DEF TextOf, Piece
<1>2. << >> \in Seq(Nat) /\ << >> \in Seq(Piece)
  OBVIOUS
<1>3. parts \in Seq(Piece)
  BY <1>1, <1>2
<1>4. /\ parts = << >> => text_ = << >>
      /\ parts # << >> => Len(parts) = 1 /\ parts[1].type = "text"
                            /\ parts[1].what = text_ /\ text_ # << >>
  BY <1>1
<1>5. m = [role |-> "assistant", array |-> FALSE, parts |-> parts, calls |-> calls_,
           id |-> << >>, of |-> ""]
  BY DEF Assistant, Message
<1> HIDE DEF parts
<1>6. /\ m.role = "assistant" /\ m.array = FALSE /\ m.parts = parts /\ m.calls = calls_
      /\ m \in AnyMessage
  <2> DEFINE none == ""
             id == << >>
             role == "assistant"
             array == FALSE
  <2>1. /\ none \in Functions \cup {""} /\ id \in Seq(Nat) /\ array \in BOOLEAN
        /\ role \in {"system", "user", "assistant", "tool"}
    OBVIOUS
  <2>2. Written(m, role, array, parts, calls_, id, none)
    BY <1>3, <1>5, <2>1 DEF Written
  <2> HIDE DEF none, id, role, array
  <2>3. /\ m \in AnyMessage /\ m.role = role /\ m.parts = parts /\ m.calls = calls_
        /\ m.array = array
    BY <2>2, MessageTyped
  <2> QED
    BY <2>3 DEF role, array
<1>7. WellShaped(m)
  BY <1>4, <1>6 DEF WellShaped, IsString
<1>8. StringText(m) = text_
  BY <1>4, <1>6 DEF StringText
<1> QED
  BY <1>4, <1>6, <1>7, <1>8 DEF HistoryMessage

\* The positions of the blocks of an answer that are in S.
At(a, j, S) == Gather([i \in 1 .. j |-> i], Keeping(1 .. j, {i \in 1 .. j : a[i] \in S}))

LEMMA AtIs ==
  ASSUME NEW j \in Nat, NEW a, DOMAIN a = 1 .. j, NEW S
  PROVE  /\ Picked([i \in DOMAIN a |-> i], LAMBDA i : a[i] \in S) = At(a, j, S)
         /\ At(a, j, S) \in Seq(1 .. j)
         /\ \A i : i \in ToSet(At(a, j, S)) <=> i \in 1 .. j /\ a[i] \in S
<1> DEFINE is == [i \in 1 .. j |-> i]
           K == {i \in 1 .. j : a[i] \in S}
<1>1. is \in Seq(1 .. j) /\ DOMAIN is = 1 .. j /\ \A i \in 1 .. j : is[i] = i
  OBVIOUS
<1>2. ToSet(is) = 1 .. j
  BY <1>1 DEF ToSet
<1>3. [i \in DOMAIN a |-> i] = is
  OBVIOUS
<1> HIDE DEF is
<1>4. \A i \in 1 .. j : (IF a[is[i]] \in S THEN <<is[i]>> ELSE << >>)
                          = Keeping(1 .. j, K)[is[i]]
  BY <1>1 DEF Keeping
<1>5. [i \in DOMAIN is |-> IF a[is[i]] \in S THEN <<is[i]>> ELSE << >>]
        = [i \in DOMAIN is |-> Keeping(1 .. j, K)[is[i]]]
  BY <1>1, <1>4
<1>6. Picked(is, LAMBDA i : a[i] \in S) = Gather(is, Keeping(1 .. j, K))
  BY <1>5 DEF Picked, Gather
<1>7. Gather(is, Keeping(1 .. j, K)) \in Seq(1 .. j)
  BY <1>1, KeepingType, GatherType
<1>8. \A i : i \in ToSet(Gather(is, Keeping(1 .. j, K))) <=> i \in ToSet(is) /\ i \in K
  BY <1>1, KeptElements
<1> QED
  BY <1>2, <1>3, <1>6, <1>7, <1>8 DEF At, is

\* The call at a position of the n-th answer.
PlainCall(n, a, i) == [id |-> <<n, i>>, name |-> a[i], args |-> Whole]
PlainCalls(n, a, j) ==
  [c \in DOMAIN At(a, j, Functions) |-> PlainCall(n, a, At(a, j, Functions)[c])]
PlainText(n, a, j) ==
  IF At(a, j, {"text"}) = << >> THEN << >> ELSE <<n>> \o At(a, j, {"text"})

LEMMA PlainCallsAre ==
  ASSUME NEW n \in Nat, NEW j \in Nat, NEW a \in [1 .. j -> {"text"} \cup Functions]
  PROVE  /\ PlainCalls(n, a, j) \in Seq(CallMade)
         /\ \A c : c \in ToSet(PlainCalls(n, a, j))
                     <=> \E i \in 1 .. j : a[i] \in Functions /\ c = PlainCall(n, a, i)
<1> DEFINE cs == At(a, j, Functions)
           made == [c \in DOMAIN cs |-> PlainCall(n, a, cs[c])]
<1>1. cs \in Seq(1 .. j) /\ \A i : i \in ToSet(cs) <=> i \in 1 .. j /\ a[i] \in Functions
  BY AtIs
<1>2. PlainCalls(n, a, j) = made
  BY DEF PlainCalls
<1> HIDE DEF cs
<1>3. DOMAIN cs = 1 .. Len(cs) /\ Len(cs) \in Nat
  BY <1>1
<1>4. \A c \in 1 .. Len(cs) : PlainCall(n, a, cs[c]) \in CallMade
  <2> SUFFICES ASSUME NEW c \in 1 .. Len(cs) PROVE PlainCall(n, a, cs[c]) \in CallMade
    OBVIOUS
  <2>1. cs[c] \in 1 .. j /\ a[cs[c]] \in Functions
    BY <1>1, <1>3 DEF ToSet
  <2>2. <<n, cs[c]>> \in Seq(Nat) /\ Whole \in Seq(0 .. 2)
    BY <2>1 DEF Whole
  <2> QED
    BY <2>1, <2>2 DEF PlainCall, CallMade
<1>5. made \in Seq(CallMade)
  BY <1>3, <1>4
<1>6. \A c : c \in ToSet(made) <=> \E i \in ToSet(cs) : c = PlainCall(n, a, i)
  BY DEF ToSet
<1> QED
  BY <1>1, <1>2, <1>5, <1>6

LEMMA PlainTextTyped ==
  ASSUME NEW n \in Nat, NEW j \in Nat, NEW a \in [1 .. j -> {"text"} \cup Functions]
  PROVE  PlainText(n, a, j) \in Seq(Nat)
<1> DEFINE ts == At(a, j, {"text"})
<1>1. ts \in Seq(1 .. j)
  BY AtIs
<1>2. ts \in Seq(Nat)
  BY <1>1
<1> HIDE DEF ts
<1>3. <<n>> \in Seq(Nat) /\ << >> \in Seq(Nat)
  OBVIOUS
<1>4. <<n>> \o ts \in Seq(Nat)
  BY <1>2, <1>3, JoinedType
<1> QED
  BY <1>3, <1>4 DEF PlainText, ts

\* An answer that is not streamed.
LEMMA ShapedIs ==
  ASSUME NEW k, NEW n \in Nat, NEW j \in Nat,
         NEW a \in [1 .. j -> {"text"} \cup Functions]
  PROVE  Shaped(k, n, a) = Assistant(PlainText(n, a, j), PlainCalls(n, a, j))
<1>1. DOMAIN a = 1 .. j
  OBVIOUS
<1> DEFINE texts == Picked([i \in DOMAIN a |-> i], LAMBDA i : a[i] \in {"text"})
           cs == Picked([i \in DOMAIN a |-> i], LAMBDA i : a[i] \in Functions)
<1>2. texts = At(a, j, {"text"}) /\ cs = At(a, j, Functions)
  BY <1>1, AtIs
<1>3. Shaped(k, n, a) =
        Assistant(IF texts = << >> THEN << >> ELSE <<n>> \o texts,
                  [c \in DOMAIN cs |-> PlainCall(n, a, cs[c])])
  BY DEF Shaped, PlainCall, CallId
<1> HIDE DEF texts, cs
<1> QED
  BY <1>2, <1>3 DEF PlainText, PlainCalls

LEMMA MadeWhole == Arguments(Whole) = Whole
BY DEF Arguments

LEMMA PlainAnswer ==
  ASSUME NEW k, NEW n \in Nat, NEW j \in Nat,
         NEW a \in [1 .. j -> {"text"} \cup Functions]
  PROVE  /\ AnswerOf(Shaped(k, n, a), SpokenPlain(n, a), n)
         /\ Shaped(k, n, a).calls # << >> <=> \E i \in DOMAIN a : a[i] \in Functions
<1> DEFINE text_ == PlainText(n, a, j)
           cs == PlainCalls(n, a, j)
           m == Shaped(k, n, a)
           u == SpokenPlain(n, a)
<1>1. text_ \in Seq(Nat) /\ cs \in Seq(CallMade)
  BY PlainTextTyped, PlainCallsAre
<1>2. m = Assistant(text_, cs) /\ Shaped("openai", n, a) = Assistant(text_, cs)
  BY ShapedIs
<1>3. Shaped("openai", n, a) = m
  BY <1>2
<1>4. \A c : c \in ToSet(cs)
               <=> \E i \in 1 .. j : a[i] \in Functions /\ c = PlainCall(n, a, i)
  BY PlainCallsAre
<1>5. u = Utterance(IF m.parts = << >> THEN << >> ELSE m.parts[1].what,
                    [c \in DOMAIN m.calls |-> [name |-> m.calls[c].name, args |-> Whole]])
  BY <1>3 DEF SpokenPlain
<1> HIDE DEF text_, cs, m, u
<1>6. /\ m \in HistoryMessage /\ m.role = "assistant" /\ m.calls = cs /\ StringText(m) = text_
      /\ (IF m.parts = << >> THEN << >> ELSE m.parts[1].what) = text_
  BY <1>1, <1>2, AssistantMessage
<1>7. \A c \in ToSet(cs) : c.args = Whole /\ c.id[1] = n
  BY <1>4 DEF PlainCall
<1>8. \A c \in DOMAIN cs : cs[c].args = Whole
  BY <1>7 DEF ToSet
<1>9. [c \in DOMAIN cs |-> [name |-> cs[c].name, args |-> Whole]]
        = [c \in DOMAIN cs |-> MadeCall(cs[c])]
  <2>1. \A c \in DOMAIN cs : MadeCall(cs[c]) = [name |-> cs[c].name, args |-> Whole]
    BY <1>8, MadeWhole DEF MadeCall
  <2> QED
    BY <2>1
<1>10. UtteranceOf(m) = u
  BY <1>5, <1>6, <1>9 DEF UtteranceOf
<1>11. \A c, d \in ToSet(cs) : c.id = d.id => c = d
  <2> SUFFICES ASSUME NEW c \in ToSet(cs), NEW d \in ToSet(cs), c.id = d.id
               PROVE  c = d
    OBVIOUS
  <2>1. PICK i \in 1 .. j : c = PlainCall(n, a, i)
    BY <1>4
  <2>2. PICK i_2 \in 1 .. j : d = PlainCall(n, a, i_2)
    BY <1>4
  <2>3. i = i_2
    BY <2>1, <2>2 DEF PlainCall
  <2> QED
    BY <2>1, <2>2, <2>3
<1>12. u \in AnyUtterance
  BY <1>6, <1>10, UtteranceOfTyped
<1>13. cs # << >> <=> \E i \in DOMAIN a : a[i] \in Functions
  <2>1. DOMAIN a = 1 .. j
    OBVIOUS
  <2>2. cs # << >> => \E c \in CallMade : c \in ToSet(cs)
    BY <1>1, NoElements
  <2>3. cs = << >> => ToSet(cs) = {}
    BY DEF ToSet
  <2> QED
    BY <1>4, <2>1, <2>2, <2>3
<1>14. AnswerOf(m, u, n)
  BY <1>6, <1>7, <1>10, <1>11, <1>12 DEF AnswerOf
<1>15. m.calls # << >> <=> \E i \in DOMAIN a : a[i] \in Functions
  BY <1>6, <1>13
<1> QED
  BY <1>14, <1>15 DEF m, u

\* The calls of an answer that is streamed.
StreamCall(n, c) ==
  [id |-> <<n, said.calls[c].index>>, name |-> Called[said.calls[c].index],
   args |-> ArgsOf(said.calls[c].sent)]
StreamCalls(n) == [c \in 1 .. Len(said.calls) |-> StreamCall(n, c)]
StreamText(n) == IF said.text = 0 THEN << >> ELSE <<n>> \o UpTo(said.text)

LEMMA StreamCallTyped ==
  ASSUME NEW n \in Nat, WellSaid(said), NEW c \in 1 .. Len(said.calls)
  PROVE  /\ StreamCall(n, c) \in CallMade
         /\ said.calls[c].sent \in 0 .. 2 /\ said.calls[c].index \in Indices
<1>1. said.calls[c] \in CallSaid
  BY SaidFields DEF WellSaid
<1>2. said.calls[c].sent \in 0 .. 2 /\ said.calls[c].index \in Indices
  BY <1>1 DEF CallSaid
<1>3. Called[said.calls[c].index] \in Functions
  BY <1>2, ConversationAssumption
<1>4. ArgsOf(said.calls[c].sent) \in Seq(0 .. 2)
  BY <1>2, ArgsOfTyped
<1>5. <<n, said.calls[c].index>> \in Seq(Nat)
  BY <1>2 DEF Indices
<1> QED
  BY <1>2, <1>3, <1>4, <1>5 DEF StreamCall, CallMade

LEMMA StreamedIs ==
  ASSUME NEW n \in Nat, WellSaid(said), HeardAs(said)
  PROVE  Streamed(n) = Assistant(StreamText(n), StreamCalls(n))
<1>1. said.text \in Nat /\ Len(said.calls) \in Nat /\ Len(said.calls) <= MaxCalls
      /\ MaxCalls \in Nat
  BY SaidFields, StreamRelayAssumption DEF WellSaid, InOrder
<1>2. client.text = UpTo(said.text) /\ Len(UpTo(said.text)) = said.text
      /\ UpTo(said.text) \in Seq(Nat)
  BY <1>1, UpToIs DEF HeardAs
<1>3. (IF client.text = << >> THEN << >> ELSE <<n>> \o client.text) = StreamText(n)
  BY <1>1, <1>2 DEF StreamText
<1>4. \A c \in 1 .. Len(said.calls) :
        [id |-> CallId(kind, n, client.calls[c - 1].id), name |-> Called[client.calls[c - 1].id],
         args |-> client.calls[c - 1].args] = StreamCall(n, c)
  <2> SUFFICES ASSUME NEW c \in 1 .. Len(said.calls)
               PROVE  /\ client.calls[c - 1].id = said.calls[c].index
                      /\ client.calls[c - 1].args = ArgsOf(said.calls[c].sent)
    BY DEF StreamCall, CallId
  <2>1. c - 1 \in Indices /\ c - 1 < Len(said.calls) /\ (c - 1) + 1 = c
    BY <1>1 DEF Indices
  <2> QED
    BY <2>1, SeenCalls
<1>5. [c \in 1 .. Len(said.calls) |->
         [id |-> CallId(kind, n, client.calls[c - 1].id), name |-> Called[client.calls[c - 1].id],
          args |-> client.calls[c - 1].args]] = StreamCalls(n)
  BY <1>4 DEF StreamCalls
<1> QED
  BY <1>3, <1>5 DEF Streamed

LEMMA StreamAnswer ==
  ASSUME NEW n \in Nat, WellSaid(said), HeardAs(said)
  PROVE  AnswerOf(Streamed(n), SpokenStream(n), n)
<1> DEFINE text_ == StreamText(n)
           cs == StreamCalls(n)
           m == Streamed(n)
           u == SpokenStream(n)
<1>1. Len(said.calls) \in Nat /\ said.text \in Nat
  BY SaidFields DEF WellSaid
<1>2. text_ \in Seq(Nat)
  <2>1. <<n>> \in Seq(Nat) /\ << >> \in Seq(Nat) /\ UpTo(said.text) \in Seq(Nat)
    BY <1>1, UpToIs
  <2> QED
    BY <2>1, JoinedType DEF StreamText
<1>3. cs \in Seq(CallMade)
  BY <1>1, StreamCallTyped DEF StreamCalls
<1>4. DOMAIN cs = 1 .. Len(said.calls) /\ \A c \in 1 .. Len(said.calls) : cs[c] = StreamCall(n, c)
  BY DEF StreamCalls
<1>5. m = Assistant(text_, cs)
  BY StreamedIs
<1>6. u = Utterance(text_, [c \in DOMAIN said.calls |->
                              [name |-> Called[said.calls[c].index],
                               args |-> IF said.calls[c].sent = 2 THEN Whole ELSE EmptyObject]])
  BY DEF SpokenStream, StreamText, UpTo
<1> HIDE DEF text_, cs, m, u
<1>7. /\ m \in HistoryMessage /\ m.role = "assistant" /\ m.calls = cs /\ StringText(m) = text_
  BY <1>2, <1>3, <1>5, AssistantMessage
<1>8. [c \in DOMAIN said.calls |->
         [name |-> Called[said.calls[c].index],
          args |-> IF said.calls[c].sent = 2 THEN Whole ELSE EmptyObject]]
        = [c \in DOMAIN cs |-> MadeCall(cs[c])]
  <2>1. DOMAIN said.calls = DOMAIN cs
    BY <1>4, SaidFields DEF WellSaid
  <2>2. ASSUME NEW c \in DOMAIN cs
        PROVE  MadeCall(cs[c]) = [name |-> Called[said.calls[c].index],
                                  args |-> IF said.calls[c].sent = 2 THEN Whole ELSE EmptyObject]
    <3>1. said.calls[c].sent \in 0 .. 2
      BY <1>4, StreamCallTyped
    <3>2. cs[c] = StreamCall(n, c)
      BY <1>4
    <3> QED
      BY <3>1, <3>2, WholeAtTwo DEF MadeCall, StreamCall
  <2> QED
    BY <2>1, <2>2
<1>9. UtteranceOf(m) = u
  BY <1>6, <1>7, <1>8 DEF UtteranceOf
<1>10. \A x \in ToSet(cs) : \E c \in 1 .. Len(said.calls) : x = StreamCall(n, c)
  BY <1>4 DEF ToSet
<1>11. \A c \in ToSet(cs) : c.id[1] = n
  BY <1>10 DEF StreamCall
<1>12. \A x, y \in ToSet(cs) : x.id = y.id => x = y
  <2> SUFFICES ASSUME NEW x \in ToSet(cs), NEW y \in ToSet(cs), x.id = y.id
               PROVE  x = y
    OBVIOUS
  <2>1. PICK c \in 1 .. Len(said.calls) : x = StreamCall(n, c)
    BY <1>10
  <2>2. PICK d \in 1 .. Len(said.calls) : y = StreamCall(n, d)
    BY <1>10
  <2>3. said.calls[c].index = said.calls[d].index
    BY <2>1, <2>2 DEF StreamCall
  <2>4. c = d
    BY <2>3, DistinctIndices
  <2> QED
    BY <2>1, <2>2, <2>4
<1>13. u \in AnyUtterance
  BY <1>7, <1>9, UtteranceOfTyped
<1>14. AnswerOf(m, u, n)
  BY <1>7, <1>9, <1>11, <1>12, <1>13 DEF AnswerOf
<1> QED
  BY <1>14 DEF m, u
-----------------------------------------------------------------------------
(* Histories.                                                              *)

\* ms is a history of these utterances: each is an answer's, which has the
\* calls with its number; and each result is one of a call.
History(ms, sp) ==
  /\ ms \in Seq(HistoryMessage) /\ sp \in Seq(AnyUtterance)
  /\ sp = Gather(ms, Uttered)
  /\ \A c \in CallsIn(ms) : c.id[1] \in 1 .. Len(sp)
  /\ CallsKnown(ms)

\* r says nothing of its own but results of calls in ms.
Replied(ms, r) ==
  /\ r \in Seq(HistoryMessage)
  /\ \A m \in ToSet(r) :
       /\ m.role # "assistant"
       /\ m.role = "tool" => \E c \in CallsIn(ms) : c.id = m.id /\ c.name = m.of

LEMMA RepliedSilent ==
  ASSUME NEW ms, NEW r, Replied(ms, r)
  PROVE  Gather(r, Uttered) = << >> /\ CallsIn(r) = {}
<1>1. r \in Seq(HistoryMessage) /\ \A m \in ToSet(r) : m.role # "assistant"
  BY DEF Replied
<1>2. \A m \in ToSet(r) : m \in HistoryMessage
  BY <1>1, ElementsTyped
<1>3. \A m \in ToSet(r) : Uttered[m] = << >>
  BY <1>1, <1>2 DEF Uttered
<1>4. Gather(r, Uttered) = << >>
  BY <1>1, <1>3, UtteredTyped, GatherNothing
<1>5. \A m \in ToSet(r) : m.calls = << >>
  BY <1>1, <1>2, MessageFields DEF WellShaped
<1>6. ToSet(<< >>) = {}
  BY DEF ToSet
<1> QED
  BY <1>4, <1>5, <1>6 DEF CallsIn

LEMMA HistoryReplied ==
  ASSUME NEW ms, NEW sp, NEW r, History(ms, sp), Replied(ms, r)
  PROVE  History(ms \o r, sp)
<1>1. ms \in Seq(HistoryMessage) /\ r \in Seq(HistoryMessage) /\ sp \in Seq(AnyUtterance)
  BY DEF History, Replied
<1>2. ms \o r \in Seq(HistoryMessage)
  BY <1>1, JoinedType
<1>3. ToSet(ms \o r) = ToSet(ms) \cup ToSet(r)
  BY <1>1, ElementsJoined
<1>4. CallsIn(ms \o r) = CallsIn(ms)
  <2>1. CallsIn(r) = {}
    BY RepliedSilent
  <2> QED
    BY <1>3, <2>1 DEF CallsIn
<1>5. Gather(ms \o r, Uttered) = sp
  <2>1. Gather(ms \o r, Uttered) = Gather(ms, Uttered) \o Gather(r, Uttered)
    BY <1>1, UtteredTyped, GatherJoined
  <2>2. Gather(ms, Uttered) = sp /\ Gather(r, Uttered) = << >>
    BY RepliedSilent DEF History
  <2>3. sp \o << >> = sp
    BY <1>1
  <2> QED
    BY <2>1, <2>2, <2>3
<1>6. CallsKnown(ms \o r)
  <2> DEFINE t == ms \o r
  <2>1. /\ DOMAIN t = 1 .. Len(ms) + Len(r) /\ Len(ms) \in Nat /\ Len(r) \in Nat
        /\ \A i \in 1 .. Len(ms) : t[i] = ms[i]
        /\ \A i \in 1 .. Len(t) : i > Len(ms) => i - Len(ms) \in 1 .. Len(r)
                                                 /\ t[i] = r[i - Len(ms)]
    BY <1>1
  <2>2. CallsKnown(ms)
    BY DEF History
  <2>3. ToSet(t) = ToSet(ms) \cup ToSet(r) /\ CallsIn(t) = CallsIn(ms) /\ Len(t) = Len(ms) + Len(r)
    BY <1>1, <1>3, <1>4
  <2> HIDE DEF t
  <2>4. ASSUME NEW i \in DOMAIN t, t[i].role = "tool"
        PROVE  CallBefore(t, i)
    <3>1. CASE i \in 1 .. Len(ms)
      <4>1. t[i] = ms[i] /\ i \in DOMAIN ms
        BY <1>1, <2>1, <3>1
      <4>2. CallBefore(ms, i)
        BY <2>2, <2>4, <4>1 DEF CallsKnown
      <4> QED
        BY <2>1, <3>1, <4>1, <4>2, CallBeforeKept
    <3>2. CASE i > Len(ms)
      <4> DEFINE m == r[i - Len(ms)]
      <4>1. i - Len(ms) \in 1 .. Len(r) /\ t[i] = m
        BY <2>1, <2>3, <3>2
      <4>2. m \in ToSet(r)
        BY <1>1, <4>1 DEF ToSet
      <4> HIDE DEF m
      <4>3. PICK c \in CallsIn(ms) : c.id = m.id /\ c.name = m.of
        BY <2>4, <4>1, <4>2 DEF Replied
      <4>4. PICK j \in 1 .. Len(ms) : c \in ToSet(ms[j].calls)
        BY <1>1, <4>3 DEF CallsIn, ToSet
      <4>5. j \in 1 .. i - 1 /\ t[j] = ms[j]
        BY <2>1, <3>2
      <4> QED
        BY <4>1, <4>3, <4>4, <4>5 DEF CallBefore
    <3> QED
      BY <2>1, <3>1, <3>2
  <2>5. CallsKnown(t)
    BY <2>2, <2>3, <2>4 DEF CallsKnown
  <2> QED
    BY <2>5 DEF t
<1> QED
  BY <1>1, <1>2, <1>4, <1>5, <1>6 DEF History

LEMMA HistoryAnswered ==
  ASSUME NEW ms, NEW sp, NEW m, NEW u, History(ms, sp), AnswerOf(m, u, Len(sp) + 1)
  PROVE  History(Append(ms, m), Append(sp, u))
<1> DEFINE n == Len(sp) + 1
           ms2 == Append(ms, m)
           sp2 == Append(sp, u)
<1>1. /\ ms \in Seq(HistoryMessage) /\ sp \in Seq(AnyUtterance)
      /\ m \in HistoryMessage /\ u \in AnyUtterance
      /\ m.role = "assistant" /\ UtteranceOf(m) = u
  BY DEF History, AnswerOf
<1>2. /\ ms2 \in Seq(HistoryMessage) /\ sp2 \in Seq(AnyUtterance)
      /\ Len(sp) \in Nat /\ Len(sp2) = Len(sp) + 1
      /\ sp2 = sp \o <<u>>
  BY <1>1
<1>3. ToSet(ms2) = ToSet(ms) \cup {m}
  BY <1>1, ElementsAppended
<1>4. Gather(ms2, Uttered) = Gather(ms, Uttered) \o Uttered[m]
  BY <1>1, UtteredTyped, GatherAppend
<1>5. Uttered[m] = <<u>>
  BY <1>1 DEF Uttered
<1>6. Gather(ms, Uttered) = sp /\ CallsKnown(ms)
      /\ \A c \in CallsIn(ms) : c.id[1] \in 1 .. Len(sp)
  BY DEF History
<1>7. /\ \A c \in ToSet(m.calls) : c.id[1] = n
      /\ \A c, d \in ToSet(m.calls) : c.id = d.id => c = d
  BY DEF AnswerOf
<1> HIDE DEF ms2, sp2
<1>8. sp2 = Gather(ms2, Uttered)
  BY <1>2, <1>4, <1>5, <1>6
<1>9. CallsIn(ms2) = CallsIn(ms) \cup ToSet(m.calls)
  BY <1>3 DEF CallsIn
<1>10. \A c \in CallsIn(ms2) : c.id[1] \in 1 .. Len(sp2)
  <2>1. n \in 1 .. Len(sp2) /\ \A i \in 1 .. Len(sp) : i \in 1 .. Len(sp2)
    BY <1>2
  <2> QED
    BY <1>6, <1>7, <1>9, <2>1
<1>11. CallsKnown(ms2)
  <2>1. n \notin 1 .. Len(sp)
    BY <1>2
  <2>2. \A c, d \in CallsIn(ms2) : c.id = d.id => c = d
    <3> SUFFICES ASSUME NEW c \in CallsIn(ms2), NEW d \in CallsIn(ms2), c.id = d.id
                 PROVE  c = d
      OBVIOUS
    <3>1. CASE c \in CallsIn(ms) /\ d \in CallsIn(ms)
      BY <1>6, <3>1 DEF CallsKnown
    <3>2. CASE c \in ToSet(m.calls) /\ d \in ToSet(m.calls)
      BY <1>7, <3>2
    <3>3. CASE c \in CallsIn(ms) /\ d \in ToSet(m.calls)
      BY <1>6, <1>7, <2>1, <3>3
    <3>4. CASE d \in CallsIn(ms) /\ c \in ToSet(m.calls)
      BY <1>6, <1>7, <2>1, <3>4
    <3> QED
      BY <1>9, <3>1, <3>2, <3>3, <3>4
  <2>3. ASSUME NEW i \in DOMAIN ms2, ms2[i].role = "tool"
        PROVE  CallBefore(ms2, i)
    <3>1. /\ DOMAIN ms2 = 1 .. Len(ms) + 1 /\ Len(ms) \in Nat /\ ms2[Len(ms) + 1] = m
          /\ \A j \in 1 .. Len(ms) : ms2[j] = ms[j]
      BY <1>1 DEF ms2
    <3>2. i \in 1 .. Len(ms)
      BY <1>1, <2>3, <3>1
    <3>3. CallBefore(ms, i)
      BY <1>1, <1>6, <2>3, <3>1, <3>2 DEF CallsKnown
    <3> QED
      BY <3>1, <3>2, <3>3, CallBeforeKept
  <2> QED
    BY <2>2, <2>3 DEF CallsKnown
<1>12. History(ms2, sp2)
  BY <1>2, <1>8, <1>10, <1>11 DEF History
<1> QED
  BY <1>12 DEF ms2, sp2

\* A history holds every answer.
LEMMA AnswersCounted ==
  ASSUME NEW ms, NEW sp, History(ms, sp)
  PROVE  Len(Picked(ms, LAMBDA m : m.role = "assistant")) = Len(sp)
<1> DEFINE K == {m \in HistoryMessage : m.role = "assistant"}
           keep == Keeping(HistoryMessage, K)
           say == [m \in HistoryMessage |-> <<UtteranceOf(m)>>]
           says == [m \in HistoryMessage |-> UtteranceOf(m)]
           as == Gather(ms, keep)
<1>1. ms \in Seq(HistoryMessage) /\ sp = Gather(ms, Uttered)
  BY DEF History
<1>2. \A i \in DOMAIN ms : ms[i] \in HistoryMessage
  BY <1>1
<1>3. \A i \in DOMAIN ms :
        (IF ms[i].role = "assistant" THEN <<ms[i]>> ELSE << >>) = keep[ms[i]]
  BY <1>2 DEF Keeping
<1>4. [i \in DOMAIN ms |-> IF ms[i].role = "assistant" THEN <<ms[i]>> ELSE << >>]
        = [i \in DOMAIN ms |-> keep[ms[i]]]
  BY <1>3
<1>5. Picked(ms, LAMBDA m : m.role = "assistant") = as
  BY <1>4 DEF Picked, Gather
<1>6. keep \in [HistoryMessage -> Seq(HistoryMessage)]
      /\ \A m \in HistoryMessage : keep[m] = IF m.role = "assistant" THEN <<m>> ELSE << >>
  BY KeepingType DEF Keeping
<1>7. /\ say \in [HistoryMessage -> Seq(AnyUtterance)]
      /\ \A m \in HistoryMessage : say[m] = <<UtteranceOf(m)>> /\ says[m] = UtteranceOf(m)
                                   /\ UtteranceOf(m) \in AnyUtterance
  BY UtteranceOfTyped
<1> HIDE DEF keep, say, says
<1>8. as \in Seq(HistoryMessage)
  BY <1>1, <1>6, GatherType
<1>9. Each(say, says, HistoryMessage, AnyUtterance)
  BY <1>7 DEF Each
<1>10. \A m \in HistoryMessage : Uttered[m] = Gather(keep[m], say)
  <2> SUFFICES ASSUME NEW m \in HistoryMessage PROVE Uttered[m] = Gather(keep[m], say)
    OBVIOUS
  <2>1. Gather(<<m>>, say) = <<UtteranceOf(m)>>
    BY <1>7, GatherOne
  <2>2. Gather(<< >>, say) = << >>
    BY GatherNone
  <2> QED
    BY <1>6, <2>1, <2>2 DEF Uttered
<1>11. Through(Uttered, keep, say, HistoryMessage, HistoryMessage, AnyUtterance)
  BY <1>6, <1>7, <1>10, UtteredTyped DEF Through
<1>12. Gather(as, say) = sp
  BY <1>1, <1>11, GatherTwice
<1> HIDE DEF as
<1>13. Len(Gather(as, say)) = Len(as)
  <2>1. Image(Gather(as, say), says, as)
    BY <1>8, <1>9, GatherEach
  <2> QED
    BY <2>1 DEF Image
<1> QED
  BY <1>5, <1>12, <1>13

LEMMA HistoryBegun ==
  ASSUME NEW o \in Chats
  PROVE  History(o.messages, << >>)
<1> DEFINE ms == o.messages
<1>1. ms \in Seq(AnyMessage) /\ \A m \in ToSet(ms) : Begun(m)
  BY ConversationAssumption
<1> HIDE DEF ms
<1>2. \A m \in ToSet(ms) : m \in HistoryMessage /\ m.role # "assistant" /\ m.role # "tool"
  BY <1>1, ElementsTyped DEF Begun, HistoryMessage, WellShaped
<1>3. ms \in Seq(HistoryMessage)
  <2>1. \A i \in 1 .. Len(ms) : ms[i] \in HistoryMessage
    BY <1>1, <1>2 DEF ToSet
  <2>2. ms \in [1 .. Len(ms) -> AnyMessage] /\ Len(ms) \in Nat
    BY <1>1
  <2> QED
    BY <2>1, <2>2
<1>4. Replied(ms, ms)
  BY <1>2, <1>3 DEF Replied
<1>5. Gather(ms, Uttered) = << >> /\ CallsIn(ms) = {}
  BY <1>4, RepliedSilent
<1>6. << >> \in Seq(AnyUtterance)
  OBVIOUS
<1>7. CallsKnown(ms)
  <2>1. \A i \in DOMAIN ms : ms[i].role # "tool"
    BY <1>2 DEF ToSet
  <2> QED
    BY <1>5, <2>1 DEF CallsKnown
<1>8. History(ms, << >>)
  BY <1>3, <1>5, <1>6, <1>7 DEF History
<1> QED
  BY <1>8 DEF ms

\* A text that is not empty is a message's only part.
LEMMA OneText ==
  ASSUME NEW what \in Seq(Nat), what # << >>
  PROVE  LET parts == <<TextOf(what)>>
         IN  /\ parts \in Seq(Piece) /\ parts # << >> /\ Len(parts) = 1
             /\ parts[1].type = "text" /\ parts[1].what # << >>
<1> DEFINE p == TextOf(what)
<1>1. p \in Piece /\ p.type = "text" /\ p.what # << >>
  BY DEF TextOf, Piece
<1> HIDE DEF p
<1>2. <<p>> \in Seq(Piece) /\ <<p>> # << >> /\ Len(<<p>>) = 1 /\ <<p>>[1] = p
  BY <1>1
<1> QED
  BY <1>1, <1>2 DEF p

LEMMA OneElement ==
  ASSUME NEW S, NEW x \in S
  PROVE  <<x>> \in Seq(S) /\ ToSet(<<x>>) = {x}
BY DEF ToSet

\* What a client writes.
LEMMA WrittenByClient ==
  ASSUME NEW m, NEW role \in {"user", "tool"}, NEW array, NEW parts, NEW calls_,
         NEW id, NEW name, Written(m, role, array, parts, calls_, id, name),
         calls_ = << >>, Len(parts) = 1, parts[1].type = "text", parts[1].what # << >>
  PROVE  m \in HistoryMessage /\ m.role = role /\ m.id = id /\ m.of = name
<1>1. /\ m \in AnyMessage /\ m.role = role /\ m.parts = parts /\ m.calls = calls_
      /\ m.array = array /\ m.id = id /\ m.of = name
  BY MessageTyped
<1>2. m.array \in BOOLEAN /\ m.calls = << >>
  BY <1>1 DEF Written
<1>3. WellShaped(m)
  BY <1>1, <1>2 DEF WellShaped, IsString
<1> QED
  BY <1>1, <1>3 DEF HistoryMessage

LEMMA UserWord ==
  ASSUME NEW n \in Nat, NEW array \in BOOLEAN,
         NEW m, m = Message("user", array, <<TextOf(<<0, n>>)>>)
  PROVE  m \in HistoryMessage /\ m.role = "user"
<1> DEFINE what == <<0, n>>
           parts == <<TextOf(what)>>
           none == ""
           id == << >>
           role == "user"
           nothing == << >>
<1>1. what \in Seq(Nat) /\ what # << >>
  OBVIOUS
<1>2. parts \in Seq(Piece) /\ Len(parts) = 1 /\ parts[1].type = "text"
      /\ parts[1].what # << >>
  BY <1>1, OneText
<1>3. m = [role |-> role, array |-> array, parts |-> parts, calls |-> nothing,
           id |-> id, of |-> none]
  BY <1>1 DEF Message
<1>4. /\ none \in Functions \cup {""} /\ id \in Seq(Nat)
      /\ role \in {"user", "tool"} /\ nothing \in Seq(CallMade) /\ nothing = << >>
      /\ role \in {"system", "user", "assistant", "tool"}
  OBVIOUS
<1> HIDE DEF what, parts, none, id, role, nothing
<1>5. Written(m, role, array, parts, nothing, id, none)
  BY <1>2, <1>3, <1>4 DEF Written
<1>6. Len(parts) = 1 /\ parts[1].type = "text" /\ parts[1].what # << >>
      /\ role \in {"user", "tool"} /\ nothing = << >>
  BY <1>2, <1>4
<1>7. m \in HistoryMessage /\ m.role = role
  BY <1>5, <1>6, WrittenByClient
<1> QED
  BY <1>7 DEF role

LEMMA ResultWritten ==
  ASSUME NEW c \in CallMade, NEW array \in BOOLEAN, NEW m, m = ResultOf(c, array)
  PROVE  m \in HistoryMessage /\ m.role = "tool" /\ m.id = c.id /\ m.of = c.name
<1> DEFINE what == <<0>> \o c.id
           parts == <<TextOf(what)>>
           id == c.id
           name == c.name
           role == "tool"
           nothing == << >>
<1>1. id \in Seq(Nat) /\ name \in Functions \cup {""}
      /\ what \in Seq(Nat) /\ what # << >>
  <2>1. c.id \in Seq(Nat) /\ c.name \in Functions
    BY CallMadeFields
  <2>2. ASSUME NEW w \in Seq(Nat)
        PROVE  <<0>> \o w \in Seq(Nat) /\ <<0>> \o w # << >>
    OBVIOUS
  <2> QED
    BY <2>1, <2>2
<1>2. parts \in Seq(Piece) /\ Len(parts) = 1 /\ parts[1].type = "text"
      /\ parts[1].what # << >>
  BY <1>1, OneText
<1>3. m = [role |-> role, array |-> array, parts |-> parts, calls |-> nothing,
           id |-> id, of |-> name]
  BY DEF ResultOf, Message
<1>4. /\ role \in {"user", "tool"} /\ nothing \in Seq(CallMade) /\ nothing = << >>
      /\ role \in {"system", "user", "assistant", "tool"}
  OBVIOUS
<1> HIDE DEF what, parts, id, name, role, nothing
<1>5. Written(m, role, array, parts, nothing, id, name)
  BY <1>1, <1>2, <1>3, <1>4 DEF Written
<1>6. m \in HistoryMessage /\ m.role = role /\ m.id = id /\ m.of = name
  BY <1>2, <1>4, <1>5, WrittenByClient
<1> QED
  BY <1>6 DEF role, id, name

\* The results of the last calls, in either order.
LEMMA ResultsReplied ==
  ASSUME NEW ms, NEW cs \in Seq(CallMade), ToSet(cs) \subseteq CallsIn(ms),
         NEW array \in BOOLEAN, NEW r,
         r = [i \in DOMAIN cs |-> ResultOf(cs[i], array)]
           \/ r = Reverse([i \in DOMAIN cs |-> ResultOf(cs[i], array)])
  PROVE  Replied(ms, r)
<1> DEFINE s == [i \in DOMAIN cs |-> ResultOf(cs[i], array)]
<1>1. \A c \in CallMade : /\ ResultOf(c, array) \in HistoryMessage
                          /\ ResultOf(c, array).role = "tool"
                          /\ ResultOf(c, array).id = c.id /\ ResultOf(c, array).of = c.name
  BY ResultWritten
<1>2. DOMAIN cs = 1 .. Len(cs) /\ Len(cs) \in Nat /\ \A i \in 1 .. Len(cs) : cs[i] \in CallMade
  OBVIOUS
<1>3. s \in Seq(HistoryMessage) /\ Len(s) = Len(cs)
  BY <1>1, <1>2
<1>4. \A i \in 1 .. Len(cs) : s[i] = ResultOf(cs[i], array)
  BY <1>2
<1> HIDE DEF s
<1>5. ASSUME NEW i \in 1 .. Len(cs)
      PROVE  /\ s[i] \in HistoryMessage /\ s[i].role = "tool"
             /\ \E c \in CallsIn(ms) : c.id = s[i].id /\ c.name = s[i].of
  <2>1. cs[i] \in ToSet(cs)
    BY <1>2 DEF ToSet
  <2> QED
    BY <1>1, <1>2, <1>4, <2>1
<1>6. /\ r \in Seq(HistoryMessage)
      /\ \A m \in ToSet(r) : \E i \in 1 .. Len(cs) : m = s[i]
  <2>1. CASE r = s
    BY <1>3, <2>1 DEF ToSet
  <2>2. CASE r = Reverse(s)
    <3>1. r = [i \in 1 .. Len(cs) |-> s[(Len(cs) - i) + 1]]
      BY <1>3, <2>2 DEF Reverse
    <3>2. \A i \in 1 .. Len(cs) : (Len(cs) - i) + 1 \in 1 .. Len(cs)
      BY <1>2
    <3>3. \A i \in 1 .. Len(cs) : s[(Len(cs) - i) + 1] \in HistoryMessage
      BY <1>5, <3>2
    <3>4. r \in Seq(HistoryMessage)
      BY <1>2, <3>1, <3>3
    <3>5. \A m \in ToSet(r) : \E i \in 1 .. Len(cs) : m = s[i]
      BY <3>1, <3>2 DEF ToSet
    <3> QED
      BY <3>4, <3>5
  <2> QED
    BY <2>1, <2>2 DEF s
<1>7. \A m \in ToSet(r) : m.role = "tool" /\ \E c \in CallsIn(ms) : c.id = m.id /\ c.name = m.of
  BY <1>5, <1>6
<1> QED
  BY <1>6, <1>7 DEF Replied

LEMMA RepliesReplied ==
  ASSUME History(messages, spoken), messages # << >>, NEW r \in Replies
  PROVE  Replied(messages, r)
<1> DEFINE cs == Last(messages).calls
<1>1. messages \in Seq(HistoryMessage) /\ Len(spoken) \in Nat
  BY DEF History
<1>2. Last(messages) \in ToSet(messages) /\ Last(messages) \in HistoryMessage
  BY <1>1 DEF Last, ToSet
<1>3. cs \in Seq(CallMade) /\ ToSet(cs) \subseteq CallsIn(messages)
  BY <1>2, MessageFields DEF CallsIn
<1>4. \/ \E array \in BOOLEAN : r = <<Message("user", array, <<TextOf(<<0, Len(spoken)>>)>>)>>
      \/ \E array \in BOOLEAN :
           \/ r = [i \in DOMAIN cs |-> ResultOf(cs[i], array)]
           \/ r = Reverse([i \in DOMAIN cs |-> ResultOf(cs[i], array)])
  BY DEF Replies
<1>5. ASSUME NEW array \in BOOLEAN, NEW m, r = <<m>>,
             m = Message("user", array, <<TextOf(<<0, Len(spoken)>>)>>)
      PROVE  Replied(messages, r)
  <2>1. m \in HistoryMessage /\ m.role = "user"
    BY <1>1, <1>5, UserWord
  <2>2. r \in Seq(HistoryMessage) /\ ToSet(r) = {m}
    BY <1>5, <2>1, OneElement
  <2> QED
    BY <2>1, <2>2 DEF Replied
<1>6. ASSUME NEW array \in BOOLEAN,
             r = [i \in DOMAIN cs |-> ResultOf(cs[i], array)]
               \/ r = Reverse([i \in DOMAIN cs |-> ResultOf(cs[i], array)])
      PROVE  Replied(messages, r)
  BY <1>3, <1>6, ResultsReplied
<1> QED
  BY <1>4, <1>5, <1>6
-----------------------------------------------------------------------------
(* The streams of a conversation.                                          *)

\* A relay is as it starts until its stream opens, and a conversation that goes
\* on has another.
RelayInTurn ==
  /\ stage \in {"client", "handler", "provider", "relay"}
  /\ stage = "relay" => StreamInv
  /\ stage # "relay" => Init

LEMMA RelayInTurnInit ==
  ConversationInit => RelayInTurn
BY DEF ConversationInit, RelayInTurn

LEMMA InitUnchanged ==
  ASSUME Init, UNCHANGED vars
  PROVE  Init'
BY DEF Init, vars

LEMMA RelayInTurnStep ==
  ASSUME RelayInTurn, [ConversationNext]_<<vars, conversation>>
  PROVE  RelayInTurn'
<1>1. CASE UNCHANGED <<vars, conversation>>
  <2>1. UNCHANGED vars /\ stage' = stage
    BY <1>1 DEF conversation
  <2>2. stage = "relay" => StreamInv'
    BY <2>1, StreamUnchanged DEF RelayInTurn
  <2>3. stage # "relay" => Init'
    BY <2>1, InitUnchanged DEF RelayInTurn
  <2> QED
    BY <2>1, <2>2, <2>3 DEF RelayInTurn
<1>2. CASE ClientSpeaks
  <2>1. UNCHANGED vars /\ stage' = "handler" /\ Init
    BY <1>2 DEF ClientSpeaks, RelayInTurn
  <2> QED
    BY <2>1, InitUnchanged DEF RelayInTurn
<1>3. ASSUME NEW k \in Kinds, Asks(k)
      PROVE  RelayInTurn'
  <2>1. stage' = "provider" /\ Init
    BY <1>3 DEF Asks, RelayInTurn
  <2>2. Init'
    BY <1>3, <2>1 DEF Asks, Init, kept
  <2> QED
    BY <2>1, <2>2 DEF RelayInTurn
<1>4. ASSUME NEW a, AnswersPlain(a)
      PROVE  RelayInTurn'
  <2>1. UNCHANGED vars /\ stage' = "client" /\ Init
    BY <1>4 DEF AnswersPlain, RelayInTurn
  <2> QED
    BY <2>1, InitUnchanged DEF RelayInTurn
<1>5. CASE StreamOpens
  <2>1. UNCHANGED vars /\ stage' = "relay" /\ Init
    BY <1>5 DEF StreamOpens, RelayInTurn
  <2>2. StreamInv'
    BY <2>1, StreamInit, StreamUnchanged
  <2> QED
    BY <2>1, <2>2 DEF RelayInTurn
<1>6. CASE Relays
  <2>1. StreamInv /\ Next /\ stage' = "relay"
    BY <1>6 DEF Relays, RelayInTurn, conversation
  <2>2. StreamInv'
    BY <2>1, StreamStep
  <2> QED
    BY <2>1, <2>2 DEF RelayInTurn
<1>7. CASE StreamDone
  <2>1. stage' = "client" /\ StreamInv /\ pc = "returned"
    BY <1>7 DEF StreamDone, RelayInTurn
  <2>2. pending = << >> /\ kind \in Kinds /\ failed \in BOOLEAN
    BY <2>1 DEF StreamInv, RelayTypes
  <2>3. Init'
    BY <1>7, <2>2 DEF StreamDone, Init
  <2> QED
    BY <2>1, <2>3 DEF RelayInTurn
<1> QED
  BY <1>1, <1>2, <1>3, <1>4, <1>5, <1>6, <1>7 DEF ConversationNext

LEMMA RelayInTurnProperties ==
  RelayInTurn => TypeOK /\ RebuiltAsSaid /\ ReplayAsStreamed /\ UsageAsReported
                   /\ DeliveredIsKept
BY StreamInit, StreamProperties DEF RelayInTurn

LEMMA ConversationRelays == ConversationSpec => []RelayInTurn
<1>1. RelayInTurn /\ [ConversationNext]_<<vars, conversation>> => RelayInTurn'
  BY RelayInTurnStep
<1> QED
  BY <1>1, RelayInTurnInit, PTL DEF ConversationSpec

\* Every variable of a relay has its type.
THEOREM RelayTypeOK == ConversationSpec => []TypeOK
BY ConversationRelays, RelayInTurnProperties, PTL

\* What is rebuilt for the cache from a stream that ended is what the provider
\* said, however its calls were interleaved and its lines cut.
THEOREM StreamsRebuilt == ConversationSpec => []RebuiltAsSaid
BY ConversationRelays, RelayInTurnProperties, PTL

\* A client of the cached response has the message of the client of the stream,
\* with {} where the stream left a call's arguments out or broke them off, and
\* "stop" where it gave no finish reason.
THEOREM CachedAsStreamed == ConversationSpec => []ReplayAsStreamed
BY ConversationRelays, RelayInTurnProperties, PTL

\* A stream is billed as the provider last reported, or else as estimated.
THEOREM StreamsBilled == ConversationSpec => []UsageAsReported
BY ConversationRelays, RelayInTurnProperties, PTL

\* However a relay ends, what it returns has all the text and all the calls that
\* its client got; arguments that are not valid JSON by then are {} in it.
THEOREM DeliveredTextKept == ConversationSpec => []DeliveredIsKept
BY ConversationRelays, RelayInTurnProperties, PTL
-----------------------------------------------------------------------------
(* Conversations.                                                          *)

AnyOpening ==
  [tools : BOOLEAN, choice : {"auto", "none", "required"}, stream : BOOLEAN]
AnyRequest == [system : Seq(Seq(Nat)), turns : Seq(AnyTurn), offer : AnyOffer]

\* What is sent is a request, in which openai's alone has system turns.
SentTyped ==
  /\ sent \in AnyRequest
  /\ \A t \in ToSet(sent.turns) : t.role = "system" => kind = "openai"

\* A conversation: its history, and what it opened with; the request that the
\* provider has is that of the history.
ConversationInv ==
  /\ History(messages, spoken)
  /\ opening \in AnyOpening /\ (opening.stream => opening.choice = "auto")
  /\ SentTyped
  /\ stage = "provider" => sent = Request(kind, messages, opening)
  /\ stage = "relay" => opening.stream = TRUE
  /\ stage = "client" => messages # << >>
  /\ ChoiceObeyed

LEMMA OpeningFields ==
  ASSUME opening \in AnyOpening
  PROVE  /\ opening.tools \in BOOLEAN /\ opening.choice \in {"auto", "none", "required"}
         /\ opening.stream \in BOOLEAN
BY DEF AnyOpening

LEMMA OfferTyped ==
  ASSUME NEW k, NEW tools \in BOOLEAN, NEW choice \in {"auto", "none", "required"}, NEW o,
         o.tools = tools, o.choice = choice
  PROVE  Offer(k, o) \in AnyOffer
<1>1. CASE k = "openai"
  BY <1>1 DEF Offer, AnyOffer
<1>2. CASE k = "anthropic"
  BY <1>2 DEF Offer, AnyOffer
<1>3. CASE k # "openai" /\ k # "anthropic"
  BY <1>3 DEF Offer, AnyOffer
<1> QED
  BY <1>1, <1>2, <1>3

LEMMA RequestTyped ==
  ASSUME NEW k, NEW ms \in Seq(HistoryMessage), opening \in AnyOpening
  PROVE  /\ Request(k, ms, opening) \in AnyRequest
         /\ \A t \in ToSet(Request(k, ms, opening).turns) : t.role = "system" => k = "openai"
<1> DEFINE r == Request(k, ms, opening)
<1>1. /\ r.turns \in Seq(AnyTurn)
      /\ \A t \in ToSet(r.turns) : t.role = "system" => k = "openai"
  BY RequestTurns
<1>2. System(k, ms) \in Seq(Seq(Nat))
  BY SystemElements
<1>3. Offer(k, opening) \in AnyOffer
  BY OpeningFields, OfferTyped
<1>4. r = [system |-> System(k, ms), turns |-> r.turns, offer |-> Offer(k, opening)]
  BY DEF Request
<1> HIDE DEF r
<1>5. r \in AnyRequest
  BY <1>1, <1>2, <1>3, <1>4 DEF AnyRequest
<1> QED
  BY <1>1, <1>5 DEF r

\* A request of the history that has been sent.
LEMMA RequestAsked ==
  ASSUME NEW o, messages \in Seq(HistoryMessage), kind \in Kinds,
         sent = Request(kind, messages, o)
  PROVE  Asked(messages)
<1>1. kind \in {"openai", "anthropic", "gemini"}
  BY StreamRelayAssumption
<1>2. sent.turns = Gather(messages, TurnsOf(kind, messages))
  BY RequestTurns
<1>3. sent.system = System(kind, messages)
  BY DEF Request
<1> QED
  BY <1>1, <1>2, <1>3 DEF Asked

LEMMA ConversationInvInit ==
  ASSUME ConversationInit
  PROVE  ConversationInv
<1>1. PICK o \in Chats :
        /\ opening = [tools |-> o.tools, choice |-> o.choice, stream |-> o.stream]
        /\ messages = o.messages
  BY DEF ConversationInit
<1>2. /\ o.tools \in BOOLEAN /\ o.stream \in BOOLEAN
      /\ o.choice \in {"auto", "none", "required"} /\ (o.stream => o.choice = "auto")
  BY ConversationAssumption
<1>3. opening \in AnyOpening /\ (opening.stream => opening.choice = "auto")
  <2>1. opening \in AnyOpening
    BY <1>1, <1>2 DEF AnyOpening
  <2>2. opening.stream = o.stream /\ opening.choice = o.choice
    BY <1>1
  <2> QED
    BY <1>2, <2>1, <2>2
<1>4. History(messages, spoken)
  <2>1. History(o.messages, << >>)
    BY HistoryBegun
  <2> QED
    BY <1>1, <2>1 DEF ConversationInit
<1>5. SentTyped
  <2>1. sent.turns = << >>
    BY DEF ConversationInit, NothingSent
  <2>2. ToSet(<< >>) = {}
    BY DEF ToSet
  <2>3. NothingSent \in AnyRequest
    <3>1. << >> \in Seq(Seq(Nat)) /\ << >> \in Seq(AnyTurn)
      OBVIOUS
    <3>2. [tools |-> FALSE, choice |-> "auto"] \in AnyOffer
      BY DEF AnyOffer
    <3> QED
      BY <3>1, <3>2 DEF NothingSent, AnyRequest
  <2> QED
    BY <2>1, <2>2, <2>3 DEF SentTyped, ConversationInit
<1>6. stage = "handler"
  BY DEF ConversationInit
<1> QED
  BY <1>3, <1>4, <1>5, <1>6 DEF ConversationInv, ChoiceObeyed

LEMMA SentUnchanged ==
  ASSUME SentTyped, sent' = sent, kind' = kind
  PROVE  SentTyped'
BY DEF SentTyped

LEMMA InvUnchanged ==
  ASSUME ConversationInv, kind' = kind, UNCHANGED conversation
  PROVE  ConversationInv'
<1>1. /\ stage' = stage /\ opening' = opening /\ messages' = messages
      /\ spoken' = spoken /\ sent' = sent
  BY DEF conversation
<1>2. SentTyped'
  BY <1>1, SentUnchanged DEF ConversationInv
<1>3. ChoiceObeyed'
  BY <1>1 DEF ConversationInv, ChoiceObeyed
<1> QED
  BY <1>1, <1>2, <1>3 DEF ConversationInv

\* A relay is of one kind.
LEMMA KindKept ==
  ASSUME Next
  PROVE  kind' = kind
BY DEF Next, ReadLine, LineUndelivered, TakePart, PartUndelivered, StreamBreaks, StreamEnds

LEMMA InvClientSpeaks ==
  ASSUME ConversationInv, ClientSpeaks
  PROVE  ConversationInv'
<1>1. /\ stage = "client" /\ stage' = "handler" /\ kind' = kind
      /\ opening' = opening /\ spoken' = spoken /\ sent' = sent
  BY DEF ClientSpeaks, vars
<1>2. PICK r \in Replies : messages' = messages \o r
  BY DEF ClientSpeaks
<1>3. History(messages, spoken) /\ messages # << >>
  BY <1>1 DEF ConversationInv
<1>4. History(messages \o r, spoken)
  BY <1>3, RepliesReplied, HistoryReplied
<1>5. History(messages, spoken)'
  BY <1>1, <1>2, <1>4
<1>6. SentTyped'
  BY <1>1, SentUnchanged DEF ConversationInv
<1> QED
  BY <1>1, <1>5, <1>6 DEF ConversationInv, ChoiceObeyed

LEMMA InvAsks ==
  ASSUME ConversationInv, NEW k \in Kinds, Asks(k)
  PROVE  ConversationInv'
<1>1. /\ stage' = "provider" /\ kind' = k /\ sent' = Request(k, messages, opening)
      /\ opening' = opening /\ messages' = messages /\ spoken' = spoken
  BY DEF Asks
<1>2. History(messages, spoken) /\ opening \in AnyOpening
  BY DEF ConversationInv
<1>3. messages \in Seq(HistoryMessage)
  BY <1>2 DEF History
<1>4. SentTyped'
  <2>1. /\ Request(k, messages, opening) \in AnyRequest
        /\ \A t \in ToSet(Request(k, messages, opening).turns) : t.role = "system" => k = "openai"
    BY <1>2, <1>3, RequestTyped
  <2> QED
    BY <1>1, <2>1 DEF SentTyped
<1>5. sent' = Request(kind, messages, opening)'
  BY <1>1
<1> QED
  BY <1>1, <1>2, <1>4, <1>5 DEF ConversationInv, ChoiceObeyed

\* The choice of a request is obeyed by the answer.
LEMMA AnswerObeys ==
  ASSUME NEW k \in Kinds, NEW o, NEW a \in Answers(Offer(k, o)), k # "gemini"
  PROVE  /\ o.choice = "none" => ~ \E i \in DOMAIN a : a[i] \in Functions
         /\ o.choice = "required" => \E i \in DOMAIN a : a[i] \in Functions
<1> DEFINE offer == Offer(k, o)
           called == \E i \in DOMAIN a : a[i] \in Functions
<1>1. /\ called => offer.tools /\ offer.choice # "none"
      /\ offer.choice = "required" => called
  BY DEF Answers
<1>2. k \in {"openai", "anthropic"}
  BY StreamRelayAssumption
<1>3. CASE k = "openai"
  <2>1. offer.choice = o.choice
    BY <1>3 DEF Offer
  <2> QED
    BY <1>1, <2>1
<1>4. CASE k = "anthropic"
  <2>1. o.choice = "none" => offer.tools = FALSE
    BY <1>4 DEF Offer
  <2>2. o.choice = "required" => offer.choice = o.choice
    BY <1>4 DEF Offer
  <2> QED
    BY <1>1, <2>1, <2>2
<1> QED
  BY <1>2, <1>3, <1>4

LEMMA LastAppended ==
  ASSUME NEW S, NEW s \in Seq(S), NEW x \in S
  PROVE  Last(Append(s, x)) = x /\ Append(s, x) # << >>
BY DEF Last

LEMMA InvAnswersPlain ==
  ASSUME ConversationInv, RelayInTurn, NEW a \in Answers(sent.offer), AnswersPlain(a)
  PROVE  ConversationInv'
<1> DEFINE n == Len(spoken) + 1
           m == Shaped(kind, n, a)
           u == SpokenPlain(n, a)
<1>1. /\ stage = "provider" /\ stage' = "client" /\ kind' = kind
      /\ messages' = Append(messages, m) /\ spoken' = Append(spoken, u)
      /\ opening' = opening /\ sent' = sent
  BY DEF AnswersPlain, vars
<1>2. History(messages, spoken) /\ sent = Request(kind, messages, opening)
  BY <1>1 DEF ConversationInv
<1>3. messages \in Seq(HistoryMessage) /\ Len(spoken) \in Nat
  BY <1>2 DEF History
<1>4. n \in Nat
  BY <1>3
<1>5. PICK j \in Nat : a \in [1 .. j -> {"text"} \cup Functions]
  <2>1. MaxBlocks \in Nat
    BY ConversationAssumption
  <2> QED
    BY <2>1 DEF Answers
<1>6. AnswerOf(m, u, n) /\ (m.calls # << >> <=> \E i \in DOMAIN a : a[i] \in Functions)
  BY <1>4, <1>5, PlainAnswer
<1>7. kind \in Kinds
  BY <1>1 DEF RelayInTurn, Init
<1>8. sent.offer = Offer(kind, opening)
  BY <1>2 DEF Request
<1>9. kind # "gemini" =>
        /\ opening.choice = "none" => ~ \E i \in DOMAIN a : a[i] \in Functions
        /\ opening.choice = "required" => \E i \in DOMAIN a : a[i] \in Functions
  BY <1>7, <1>8, AnswerObeys
<1> HIDE DEF m, u
<1>10. History(Append(messages, m), Append(spoken, u))
  BY <1>2, <1>6, HistoryAnswered
<1>11. Last(messages') = m /\ messages' # << >>
  <2>1. m \in HistoryMessage
    BY <1>6 DEF AnswerOf
  <2> QED
    BY <1>1, <1>3, <2>1, LastAppended
<1>12. ChoiceObeyed'
  BY <1>1, <1>6, <1>9, <1>11 DEF ChoiceObeyed
<1>13. History(messages, spoken)'
  BY <1>1, <1>10
<1>14. SentTyped'
  BY <1>1, SentUnchanged DEF ConversationInv
<1> QED
  BY <1>1, <1>11, <1>12, <1>13, <1>14 DEF ConversationInv

LEMMA InvStreamOpens ==
  ASSUME ConversationInv, StreamOpens
  PROVE  ConversationInv'
<1>1. /\ stage' = "relay" /\ kind' = kind /\ opening.stream /\ opening' = opening
      /\ messages' = messages /\ spoken' = spoken /\ sent' = sent
  BY DEF StreamOpens, vars
<1>2. opening.stream = TRUE
  <2>1. opening.stream \in BOOLEAN
    BY OpeningFields DEF ConversationInv
  <2> QED
    BY <1>1, <2>1
<1>3. SentTyped'
  BY <1>1, SentUnchanged DEF ConversationInv
<1> QED
  BY <1>1, <1>2, <1>3 DEF ConversationInv, ChoiceObeyed

LEMMA InvStreamDone ==
  ASSUME ConversationInv, RelayInTurn, StreamDone
  PROVE  ConversationInv'
<1> DEFINE n == Len(spoken) + 1
           m == Streamed(n)
           u == SpokenStream(n)
<1>1. /\ stage = "relay" /\ stage' = "client" /\ kind' = kind
      /\ messages' = Append(messages, m) /\ spoken' = Append(spoken, u)
      /\ opening' = opening /\ sent' = sent
      /\ Ended
  BY DEF StreamDone, Ended
<1>2. History(messages, spoken) /\ opening.stream = TRUE /\ opening.choice = "auto"
  BY <1>1 DEF ConversationInv
<1>3. messages \in Seq(HistoryMessage) /\ Len(spoken) \in Nat
  BY <1>2 DEF History
<1>4. n \in Nat
  BY <1>3
<1>5. StreamInv
  BY <1>1 DEF RelayInTurn
<1>6. WellSaid(said) /\ HeardAs(said)
  BY <1>1, <1>5, WhenEnded DEF StreamInv
<1>7. AnswerOf(m, u, n)
  BY <1>4, <1>6, StreamAnswer
<1> HIDE DEF m, u
<1>8. History(Append(messages, m), Append(spoken, u))
  BY <1>2, <1>7, HistoryAnswered
<1>9. messages' # << >>
  <2>1. m \in HistoryMessage
    BY <1>7 DEF AnswerOf
  <2> QED
    BY <1>1, <1>3, <2>1, LastAppended
<1>10. ChoiceObeyed'
  BY <1>1, <1>2 DEF ChoiceObeyed
<1>11. History(messages, spoken)'
  BY <1>1, <1>8
<1>12. SentTyped'
  BY <1>1, SentUnchanged DEF ConversationInv
<1> QED
  BY <1>1, <1>9, <1>10, <1>11, <1>12 DEF ConversationInv

LEMMA ConversationInvStep ==
  ASSUME ConversationInv, RelayInTurn, [ConversationNext]_<<vars, conversation>>
  PROVE  ConversationInv'
<1>1. CASE UNCHANGED <<vars, conversation>>
  <2>1. kind' = kind /\ UNCHANGED conversation
    BY <1>1 DEF vars
  <2> QED
    BY <2>1, InvUnchanged
<1>2. CASE ClientSpeaks
  BY <1>2, InvClientSpeaks
<1>3. CASE \E k \in Kinds : Asks(k)
  BY <1>3, InvAsks
<1>4. CASE \E a \in Answers(sent.offer) : AnswersPlain(a)
  BY <1>4, InvAnswersPlain
<1>5. CASE StreamOpens
  BY <1>5, InvStreamOpens
<1>6. CASE Relays
  BY <1>6, KindKept, InvUnchanged DEF Relays
<1>7. CASE StreamDone
  BY <1>7, InvStreamDone
<1> QED
  BY <1>1, <1>2, <1>3, <1>4, <1>5, <1>6, <1>7 DEF ConversationNext

LEMMA ConversationKept == ConversationSpec => [](ConversationInv /\ RelayInTurn)
<1>1. ConversationInit => ConversationInv /\ RelayInTurn
  BY ConversationInvInit, RelayInTurnInit
<1>2. ConversationInv /\ RelayInTurn /\ [ConversationNext]_<<vars, conversation>>
        => (ConversationInv /\ RelayInTurn)'
  BY ConversationInvStep, RelayInTurnStep
<1> QED
  BY <1>1, <1>2, PTL DEF ConversationSpec

\* What follows from the invariant.
LEMMA ConversationTyped ==
  ASSUME ConversationInv, RelayInTurn
  PROVE  ConversationTypeOK
<1>1. stage \in {"client", "handler", "provider", "relay"}
  BY DEF RelayInTurn
<1>2. /\ opening \in AnyOpening /\ SentTyped /\ History(messages, spoken)
  BY DEF ConversationInv
<1>3. messages \in Seq(AnyMessage) /\ spoken \in Seq(AnyUtterance)
  <2>1. messages \in Seq(HistoryMessage) /\ spoken \in Seq(AnyUtterance)
    BY <1>2 DEF History
  <2>2. HistoryMessage \subseteq AnyMessage
    BY DEF HistoryMessage
  <2> QED
    BY <2>1, <2>2
<1>4. Len(Picked(messages, LAMBDA m : m.role = "assistant")) = Len(spoken)
  BY <1>2, AnswersCounted
<1> QED
  BY <1>1, <1>2, <1>3, <1>4 DEF ConversationTypeOK, SentTyped, AnyOpening, AnyRequest

LEMMA WhenAsked ==
  ASSUME ConversationInv, RelayInTurn, stage = "provider"
  PROVE  Asked(messages)
<1>1. sent = Request(kind, messages, opening) /\ messages \in Seq(HistoryMessage)
  BY DEF ConversationInv, History
<1>2. kind \in Kinds
  BY DEF RelayInTurn, Init
<1> QED
  BY <1>1, <1>2, RequestAsked

LEMMA ConversationProperties ==
  ASSUME ConversationInv, RelayInTurn
  PROVE  ResultsFindTheirCalls /\ HistoryKept /\ OnlyArraysLost /\ ChoiceObeyed
<1>1. CallsKnown(messages) /\ spoken = Gather(messages, Uttered) /\ spoken \in Seq(AnyUtterance)
  BY DEF ConversationInv, History
<1>2. ResultsFindTheirCalls
  <2>1. stage # "provider" => ResultsFindTheirCalls
    BY DEF ResultsFindTheirCalls
  <2> QED
    BY <1>1, <2>1, WhenAsked, ResultsFound
<1>3. HistoryKept
  <2>1. stage # "provider" => HistoryKept
    BY DEF HistoryKept
  <2> QED
    BY <1>1, <2>1, WhenAsked, HistoryTold
<1>4. OnlyArraysLost
  BY WhenAsked, TextsArrive DEF OnlyArraysLost
<1> QED
  BY <1>2, <1>3, <1>4 DEF ConversationInv

\* Every variable of a conversation has its type, and its history holds every
\* answer.
THEOREM ConversationTypeCorrect == ConversationSpec => []ConversationTypeOK
BY ConversationKept, ConversationTyped, PTL

\* Whichever providers made the calls and whichever gets the results: at openai
\* and anthropic each result that is sent has the id of one call only, the one
\* it is of; at gemini it has that call's function, which is all that gemini's
\* request says of it; and a call that it points at is in an earlier turn.
THEOREM ResultsMatched == ConversationSpec => []ResultsFindTheirCalls
BY ConversationKept, ConversationProperties, PTL

\* The next provider is told, in full, what the earlier ones said.
THEOREM HistoryRetold == ConversationSpec => []HistoryKept
BY ConversationKept, ConversationProperties, PTL

\* Texts of the client are only lost from arrays of parts in system and tool
\* messages.
THEOREM TextsOnlyLostFromArrays == ConversationSpec => []OnlyArraysLost
BY ConversationKept, ConversationProperties, PTL

\* The choice of tools is obeyed, whichever provider but gemini's answers.
THEOREM ChoicesObeyed == ConversationSpec => []ChoiceObeyed
BY ConversationKept, ConversationProperties, PTL
=============================================================================
