-------------------------- MODULE TransactionsProofs --------------------------
(***************************************************************************)
(* What is proved of the path of payments, for every set of shards,        *)
(* accounts, payments and moves and every block size.                      *)
(*                                                                         *)
(*   TypeCorrect             nobody relays nothing, all has its type       *)
(*   PayersAlwaysWaitAtHome  a payment only waits where its payer is       *)
(* and, for the workloads of MoversApart,                                  *)
(*   AlwaysCreditedOnce, NothingEverLost, CommittedAlwaysPaid              *)
(*                                                                         *)
(* The first two follow from IndInv: where the moves have got to (an       *)
(* announcement implies that the account has arrived) and that only        *)
(* receipts are relayed.  The others need two things more.  Shapes says    *)
(* which transactions merging can make: payments of one payer that moves,  *)
(* or receipts of one payee that has arrived.  Tracked says where a        *)
(* payment is: in one place (the client, a message, a queue, a block, a    *)
(* running relay), once, debited or not according to the place; and when   *)
(* it is nowhere any more, that it was debited and credited once.          *)
(***************************************************************************)
EXTENDS Transactions, FiniteSetTheorems, SequenceTheorems, TLAPS

-----------------------------------------------------------------------------
(* Flattened sequences *)

\* Induction, as the library's operators allow it: the intervals 1..n of a set
\* of numbers have a least one under inclusion.
LEMMA LeastNumber ==
    ASSUME NEW T \in SUBSET Nat, T # {}
    PROVE  \E x \in T : \A y \in T : x <= y
<1> DEFINE R == StrictSubsetOrdering(Nat)
           U == {1..n : n \in T}
<1>1. IsWellFoundedOn(R, FiniteSubsetsOf(Nat))
  BY FS_StrictSubsetOrderingWellFounded
<1>2. \A n \in T : IsFiniteSet(1..n) /\ 1..n \in SUBSET Nat
  BY FS_Interval
<1>3. U \subseteq FiniteSubsetsOf(Nat) /\ U # {}
  BY <1>2 DEF FiniteSubsetsOf
<1> HIDE DEF U
<1>4. \E u \in U : \A v \in U : ~ (<<v, u>> \in R)
  BY <1>1, <1>3, WFMin
<1>5. PICK n \in T : \A v \in U : ~ (<<v, 1..n>> \in R)
  BY <1>4 DEF U
<1>6. ASSUME NEW y \in T, y < n
      PROVE  FALSE
  <2>1. 1..y \in U
    BY DEF U
  <2>2. 1..y \subseteq 1..n /\ 1..y # 1..n /\ 1..n \subseteq Nat
    BY <1>6
  <2>3. <<1..y, 1..n>> \in R
    BY <2>2 DEF StrictSubsetOrdering
  <2> QED BY <2>1, <2>3, <1>5
<1> QED BY <1>6

\* A set of numbers that has 1 and with a number below n the next one.
LEMMA Upwards ==
    ASSUME NEW n \in Nat, NEW P, 1 \in P, \A k \in 1..n : k \in P /\ k < n => k + 1 \in P
    PROVE  \A k \in 1..n : k \in P
<1> SUFFICES ASSUME NEW m \in 1..n, m \notin P PROVE FALSE
  OBVIOUS
<1> DEFINE T == {k \in 1..n : k \notin P}
<1>1. T \in SUBSET Nat /\ T # {}
  OBVIOUS
<1>2. PICK x \in T : \A y \in T : x <= y
  BY <1>1, LeastNumber
<1>3. x - 1 \in 1..n /\ x - 1 < n /\ (x - 1) + 1 = x
  BY <1>2
<1>4. x - 1 \in P
  BY <1>2, <1>3
<1> QED BY <1>2, <1>3, <1>4

\* The first i sequences of ss, one after the other: place j of the result is
\* place b[j] of sequence a[j].
Laid(ss, i, F, a, b) ==
    /\ a \in [1..Len(F) -> 1..i] /\ b \in [1..Len(F) -> Nat]
    /\ \A j \in 1..Len(F) : b[j] \in 1..Len(ss[a[j]]) /\ F[j] = ss[a[j]][b[j]]
    /\ \A j, k \in 1..Len(F) : a[j] = a[k] /\ b[j] = b[k] => j = k
    /\ \A k \in 1..i : \A q \in 1..Len(ss[k]) : \E j \in 1..Len(F) : a[j] = k /\ b[j] = q

IsLaid(ss, i, F) == \E a, b : Laid(ss, i, F, a, b)

LEMMA LayNext ==
    ASSUME NEW X, NEW ss \in Seq(Seq(X)), NEW i \in 1..Len(ss), i + 1 <= Len(ss),
           NEW F \in Seq(X), IsLaid(ss, i, F)
    PROVE  IsLaid(ss, i + 1, F \o ss[i + 1])
<1> DEFINE t == ss[i + 1]
           G == F \o t
<1>1. t \in Seq(X) /\ Len(t) \in Nat /\ Len(F) \in Nat /\ i \in Nat /\ Len(ss) \in Nat
  OBVIOUS
<1>2. /\ Len(G) = Len(F) + Len(t)
      /\ \A j \in 1..(Len(F) + Len(t)) : G[j] = IF j <= Len(F) THEN F[j] ELSE t[j - Len(F)]
  BY <1>1, ConcatProperties
<1>3. PICK a, b : Laid(ss, i, F, a, b)
  BY DEF IsLaid
<1> DEFINE a1 == [j \in 1..Len(G) |-> IF j <= Len(F) THEN a[j] ELSE i + 1]
           b1 == [j \in 1..Len(G) |-> IF j <= Len(F) THEN b[j] ELSE j - Len(F)]
<1> HIDE DEF G
<1>4. /\ a \in [1..Len(F) -> 1..i] /\ b \in [1..Len(F) -> Nat]
      /\ \A j \in 1..Len(F) : b[j] \in 1..Len(ss[a[j]]) /\ F[j] = ss[a[j]][b[j]]
      /\ \A j, k \in 1..Len(F) : a[j] = a[k] /\ b[j] = b[k] => j = k
      /\ \A k \in 1..i : \A q \in 1..Len(ss[k]) : \E j \in 1..Len(F) : a[j] = k /\ b[j] = q
  BY <1>3 DEF Laid
<1>5. \A j \in 1..Len(G) : IF j <= Len(F) THEN j \in 1..Len(F) ELSE j - Len(F) \in 1..Len(t)
  BY <1>1, <1>2
<1>6. \A j \in 1..Len(F) : j \in 1..Len(G) /\ a[j] \in 1..i /\ b[j] \in Nat
  BY <1>1, <1>2, <1>4
<1>7. a1 \in [1..Len(G) -> 1..(i + 1)] /\ b1 \in [1..Len(G) -> Nat]
  BY <1>1, <1>5, <1>6
<1>8. ASSUME NEW j \in 1..Len(G)
      PROVE  b1[j] \in 1..Len(ss[a1[j]]) /\ G[j] = ss[a1[j]][b1[j]]
  <2>1. CASE j <= Len(F)
    <3>1. j \in 1..Len(F) /\ a1[j] = a[j] /\ b1[j] = b[j] /\ G[j] = F[j]
      BY <1>2, <1>5, <2>1
    <3> QED BY <1>4, <3>1
  <2>2. CASE ~(j <= Len(F))
    <3>1. /\ j - Len(F) \in 1..Len(t) /\ a1[j] = i + 1 /\ b1[j] = j - Len(F)
          /\ G[j] = t[j - Len(F)]
      BY <1>2, <1>5, <2>2
    <3> QED BY <3>1
  <2> QED BY <2>1, <2>2
<1>9. ASSUME NEW j \in 1..Len(G), NEW k \in 1..Len(G), a1[j] = a1[k], b1[j] = b1[k]
      PROVE  j = k
  <2>1. CASE j <= Len(F) /\ k <= Len(F)
    BY <1>4, <1>5, <1>9, <2>1
  <2>2. CASE ~(j <= Len(F)) /\ ~(k <= Len(F))
    BY <1>1, <1>9, <2>2
  <2>3. CASE j <= Len(F) /\ ~(k <= Len(F))
    <3>1. a1[j] \in 1..i /\ a1[k] = i + 1
      BY <1>5, <1>6, <2>3
    <3> QED BY <1>1, <1>9, <3>1
  <2>4. CASE ~(j <= Len(F)) /\ k <= Len(F)
    <3>1. a1[k] \in 1..i /\ a1[j] = i + 1
      BY <1>5, <1>6, <2>4
    <3> QED BY <1>1, <1>9, <3>1
  <2> QED BY <2>1, <2>2, <2>3, <2>4
<1>10. ASSUME NEW k \in 1..(i + 1), NEW q \in 1..Len(ss[k])
       PROVE  \E j \in 1..Len(G) : a1[j] = k /\ b1[j] = q
  <2>1. CASE k \in 1..i
    <3>1. PICK j \in 1..Len(F) : a[j] = k /\ b[j] = q
      BY <1>4, <2>1
    <3>2. j \in 1..Len(G) /\ j <= Len(F)
      BY <1>6
    <3> QED BY <3>1, <3>2
  <2>2. CASE k = i + 1
    <3>1. /\ Len(F) + q \in 1..Len(G) /\ ~(Len(F) + q <= Len(F))
          /\ (Len(F) + q) - Len(F) = q
      BY <1>1, <1>2, <2>2
    <3>2. a1[Len(F) + q] = k /\ b1[Len(F) + q] = q
      BY <2>2, <3>1
    <3> QED BY <3>1, <3>2
  <2>3. k \in 1..i \/ k = i + 1
    BY <1>1
  <2> QED BY <2>1, <2>2, <2>3
<1> HIDE DEF a1, b1
<1>11. Laid(ss, i + 1, G, a1, b1)
  BY <1>7, <1>8, <1>9, <1>10 DEF Laid
<1> QED BY <1>11 DEF IsLaid, G

LEMMA FlattenLays ==
    ASSUME NEW X, NEW ss \in Seq(Seq(X))
    PROVE  FlattenSeq(ss) \in Seq(X) /\ IsLaid(ss, Len(ss), FlattenSeq(ss))
<1> DEFINE n == Len(ss)
           step(g, k) == [i \in 1..k |-> IF i = 1 THEN ss[i] ELSE g[i - 1] \o ss[i]]
<1>n. n \in Nat
  OBVIOUS
<1>1. CASE n = 0
  <2>1. ss = <<>> /\ FlattenSeq(ss) = <<>>
    BY <1>1 DEF FlattenSeq
  <2> DEFINE e == [j \in 1..0 |-> 0]
  <2>2. Laid(ss, 0, <<>>, e, e)
    BY DEF Laid
  <2>3. IsLaid(ss, 0, <<>>)
    <3> HIDE DEF e
    <3> QED BY <2>2 DEF IsLaid
  <2>4. Len(ss) = 0 /\ <<>> \in Seq(X)
    BY <1>1, EmptySeq
  <2> QED BY <2>1, <2>3, <2>4
<1>2. CASE n # 0
  <2> DEFINE P == {k \in 1..n : \E g : g = step(g, k)}
  <2>1. 1 \in P
    <3> DEFINE g == [i \in 1..1 |-> ss[i]]
    <3>1. g = step(g, 1)
      OBVIOUS
    <3>2. 1 \in 1..n
      BY <1>n, <1>2
    <3> HIDE DEF g, n
    <3> QED BY <3>1, <3>2
  <2>2. ASSUME NEW k \in 1..n, k \in P, k < n PROVE k + 1 \in P
    <3>1. PICK g : g = step(g, k)
      BY <2>2
    <3> DEFINE h == [i \in 1..(k + 1) |-> IF i <= k THEN g[i] ELSE g[k] \o ss[k + 1]]
    <3>2. ASSUME NEW i \in 1..(k + 1)
          PROVE  h[i] = IF i = 1 THEN ss[i] ELSE h[i - 1] \o ss[i]
      <4>1. CASE i = 1
        <5>1. 1 \in 1..k /\ 1 <= k
          BY <1>n
        <5>2. g[1] = ss[1]
          BY <3>1, <5>1
        <5> QED BY <4>1, <5>1, <5>2
      <4>2. CASE i # 1 /\ i <= k
        <5>1. i \in 1..k /\ i - 1 \in 1..(k + 1) /\ i - 1 <= k
          BY <4>2
        <5>2. g[i] = g[i - 1] \o ss[i]
          BY <3>1, <4>2, <5>1
        <5> QED BY <4>2, <5>1, <5>2
      <4>3. CASE i # 1 /\ ~(i <= k)
        <5>1. i = k + 1 /\ i - 1 = k /\ k \in 1..(k + 1) /\ k <= k /\ i - 1 \in 1..(k + 1)
          BY <4>3
        <5>2. h[k] = g[k] /\ h[k + 1] = g[k] \o ss[k + 1]
          BY <4>3, <5>1
        <5> HIDE DEF h
        <5> QED BY <4>3, <5>1, <5>2
      <4> QED BY <4>1, <4>2, <4>3
    <3>3. h = step(h, k + 1)
      <4>1. h = [i \in 1..(k + 1) |-> h[i]]
        OBVIOUS
      <4> HIDE DEF h
      <4> QED BY <3>2, <4>1
    <3>4. k + 1 \in 1..n
      BY <1>n, <2>2
    <3> QED BY <3>3, <3>4
  <2>3. n \in P
    <3> HIDE DEF P, n
    <3>1. \A k \in 1..n : k \in P
      BY <1>n, <2>1, <2>2, Upwards
    <3> QED BY <1>n, <1>2, <3>1
  <2> DEFINE fl == CHOOSE g : g = step(g, n)
  <2>4. fl = step(fl, n)
    BY <2>3
  <2>5. FlattenSeq(ss) = fl[n]
    BY <1>2 DEF FlattenSeq
  <2> HIDE DEF fl
  <2>6. /\ fl[1] = ss[1]
        /\ \A k \in 1..n : k < n => fl[k + 1] = fl[k] \o ss[k + 1]
    <3>1. \A i \in 1..n : fl[i] = IF i = 1 THEN ss[i] ELSE fl[i - 1] \o ss[i]
      BY <2>4
    <3>2. 1 \in 1..n
      BY <1>n, <1>2
    <3>3. ASSUME NEW k \in 1..n, k < n PROVE fl[k + 1] = fl[k] \o ss[k + 1]
      <4>1. k + 1 \in 1..n /\ k + 1 # 1 /\ (k + 1) - 1 = k
        BY <1>n, <3>3
      <4> QED BY <3>1, <4>1
    <3> QED BY <3>1, <3>2, <3>3
  <2> DEFINE Q == {k \in 1..n : fl[k] \in Seq(X) /\ IsLaid(ss, k, fl[k])}
  <2>7. 1 \in Q
    <3>1. 1 \in 1..n /\ fl[1] \in Seq(X)
      BY <1>n, <1>2, <2>6
    <3> DEFINE s1 == ss[1]
               a == [j \in 1..Len(s1) |-> 1]
               b == [j \in 1..Len(s1) |-> j]
    <3>2. Laid(ss, 1, s1, a, b)
      <4>1. s1 \in Seq(X) /\ Len(s1) \in Nat
        BY <2>6, <3>1
      <4>2. a \in [1..Len(s1) -> 1..1] /\ b \in [1..Len(s1) -> Nat]
        BY <4>1
      <4>3. \A k \in 1..1 : k = 1
        OBVIOUS
      <4> QED BY <4>1, <4>2, <4>3 DEF Laid
    <3> QED BY <2>6, <3>1, <3>2 DEF IsLaid
  <2>8. ASSUME NEW k \in 1..n, k \in Q, k < n PROVE k + 1 \in Q
    <3>1. k + 1 \in 1..n /\ k + 1 <= Len(ss) /\ fl[k] \in Seq(X) /\ IsLaid(ss, k, fl[k])
      BY <1>n, <2>8
    <3>2. fl[k + 1] = fl[k] \o ss[k + 1]
      BY <2>6, <2>8
    <3>5. ss[k + 1] \in Seq(X)
      BY <3>1
    <3>3. IsLaid(ss, k + 1, fl[k + 1])
      BY <3>1, <3>2, LayNext
    <3>4. fl[k + 1] \in Seq(X)
      BY <3>1, <3>2, <3>5, ConcatProperties
    <3> QED BY <3>1, <3>3, <3>4
  <2>9. n \in Q
    <3> HIDE DEF Q, n
    <3>1. \A k \in 1..n : k \in Q
      BY <1>n, <2>7, <2>8, Upwards
    <3> QED BY <1>n, <1>2, <3>1
  <2> QED BY <2>5, <2>9
<1> QED BY <1>1, <1>2

-----------------------------------------------------------------------------
(* The elements of sequences *)

LEMMA ElementsOf ==
    ASSUME NEW X, NEW s \in Seq(X)
    PROVE  /\ DOMAIN s = 1..Len(s) /\ Len(s) \in Nat
           /\ ToSet(s) \subseteq X
           /\ \A x : x \in ToSet(s) <=> \E i \in 1..Len(s) : s[i] = x
  BY DEF ToSet

LEMMA NoElements ==
    ToSet(<<>>) = {}
  BY DEF ToSet

LEMMA AppendElements ==
    ASSUME NEW X, NEW s \in Seq(X), NEW x \in X
    PROVE  Append(s, x) \in Seq(X) /\ ToSet(Append(s, x)) = ToSet(s) \cup {x}
<1>1. /\ Append(s, x) \in Seq(X) /\ Len(Append(s, x)) = Len(s) + 1 /\ Len(s) \in Nat
      /\ \A i \in 1..Len(s) : Append(s, x)[i] = s[i]
      /\ Append(s, x)[Len(s) + 1] = x
  BY AppendProperties
<1>2. ASSUME NEW y \in ToSet(Append(s, x)) PROVE y \in ToSet(s) \cup {x}
  <2> DEFINE g == Append(s, x)
  <2>0. g \in Seq(X) /\ y \in ToSet(g) /\ Len(g) = Len(s) + 1
    BY <1>1, <1>2
  <2>1. PICK i \in 1..(Len(s) + 1) : Append(s, x)[i] = y
    <3> HIDE DEF g
    <3>1. \E i \in 1..Len(g) : g[i] = y
      BY <2>0, ElementsOf
    <3> QED BY <2>0, <3>1 DEF g
  <2>2. i \in 1..Len(s) \/ i = Len(s) + 1
    BY <1>1
  <2> QED BY <1>1, <2>1, <2>2, ElementsOf
<1>3. ASSUME NEW y \in ToSet(s) \cup {x} PROVE y \in ToSet(Append(s, x))
  <2>1. CASE y \in ToSet(s)
    <3>1. PICK i \in 1..Len(s) : s[i] = y
      BY <2>1, ElementsOf
    <3>2. i \in 1..(Len(s) + 1)
      BY <1>1
    <3> QED BY <1>1, <3>1, <3>2, ElementsOf
  <2>2. CASE y = x
    <3>1. Len(s) + 1 \in 1..(Len(s) + 1)
      BY <1>1
    <3> QED BY <1>1, <2>2, <3>1, ElementsOf
  <2> QED BY <1>3, <2>1, <2>2
<1> QED BY <1>1, <1>2, <1>3

LEMMA ConcatElements ==
    ASSUME NEW X, NEW s \in Seq(X), NEW t \in Seq(X)
    PROVE  s \o t \in Seq(X) /\ ToSet(s \o t) = ToSet(s) \cup ToSet(t)
<1>1. /\ s \o t \in Seq(X) /\ Len(s \o t) = Len(s) + Len(t) /\ Len(s) \in Nat /\ Len(t) \in Nat
      /\ \A i \in 1..(Len(s) + Len(t)) :
            (s \o t)[i] = IF i <= Len(s) THEN s[i] ELSE t[i - Len(s)]
  BY ConcatProperties
<1>2. ASSUME NEW y \in ToSet(s \o t) PROVE y \in ToSet(s) \cup ToSet(t)
  <2>0. \E i \in 1..Len(s \o t) : (s \o t)[i] = y
    <3> DEFINE g == s \o t
    <3>1. g \in Seq(X) /\ y \in ToSet(g)
      BY <1>1, <1>2
    <3> HIDE DEF g
    <3>2. \E i \in 1..Len(g) : g[i] = y
      BY <3>1, ElementsOf
    <3> QED BY <3>2 DEF g
  <2>1. PICK i \in 1..(Len(s) + Len(t)) : (s \o t)[i] = y
    BY <1>1, <2>0
  <2>2. CASE i <= Len(s)
    <3>1. i \in 1..Len(s) /\ s[i] = y
      BY <1>1, <2>1, <2>2
    <3> QED BY <3>1, ElementsOf
  <2>3. CASE ~(i <= Len(s))
    <3>1. i - Len(s) \in 1..Len(t) /\ t[i - Len(s)] = y
      BY <1>1, <2>1, <2>3
    <3> QED BY <3>1, ElementsOf
  <2> QED BY <2>2, <2>3
<1>3. ASSUME NEW y \in ToSet(s) PROVE y \in ToSet(s \o t)
  <2>1. PICK i \in 1..Len(s) : s[i] = y
    BY <1>3, ElementsOf
  <2>2. i \in 1..(Len(s) + Len(t)) /\ (s \o t)[i] = y
    BY <1>1, <2>1
  <2> QED BY <1>1, <2>2, ElementsOf
<1>4. ASSUME NEW y \in ToSet(t) PROVE y \in ToSet(s \o t)
  <2>1. PICK i \in 1..Len(t) : t[i] = y
    BY <1>4, ElementsOf
  <2>2. /\ Len(s) + i \in 1..(Len(s) + Len(t)) /\ ~(Len(s) + i <= Len(s))
        /\ (Len(s) + i) - Len(s) = i
    BY <1>1
  <2>3. (s \o t)[Len(s) + i] = y
    BY <1>1, <2>1, <2>2
  <2> QED BY <1>1, <2>2, <2>3, ElementsOf
<1> QED BY <1>1, <1>2, <1>3, <1>4

\* What FetchTxs2Pack takes from the queue and what it leaves.
LEMMA SplitElements ==
    ASSUME NEW X, NEW s \in Seq(X), NEW n \in 0..Len(s)
    PROVE  /\ SubSeq(s, 1, n) \in Seq(X) /\ SubSeq(s, n + 1, Len(s)) \in Seq(X)
           /\ Len(SubSeq(s, 1, n)) = n /\ \A i \in 1..n : SubSeq(s, 1, n)[i] = s[i]
           /\ Len(SubSeq(s, n + 1, Len(s))) = Len(s) - n
           /\ \A i \in 1..(Len(s) - n) : SubSeq(s, n + 1, Len(s))[i] = s[n + i]
           /\ ToSet(SubSeq(s, 1, n)) \subseteq ToSet(s)
           /\ ToSet(SubSeq(s, n + 1, Len(s))) \subseteq ToSet(s)
<1>0. Len(s) \in Nat /\ n \in Nat /\ n <= Len(s)
  BY ElementsOf
<1>1. /\ SubSeq(s, 1, n) \in Seq(X) /\ Len(SubSeq(s, 1, n)) = n
      /\ \A i \in 1..n : SubSeq(s, 1, n)[i] = s[i]
  <2>1. \A i \in 1..n : s[i] \in X
    BY <1>0
  <2> QED BY <1>0, <2>1
<1>2. /\ SubSeq(s, n + 1, Len(s)) \in Seq(X) /\ Len(SubSeq(s, n + 1, Len(s))) = Len(s) - n
      /\ \A i \in 1..(Len(s) - n) : SubSeq(s, n + 1, Len(s))[i] = s[n + i]
  <2>1. \A i \in (n + 1)..Len(s) : s[i] \in X
    BY <1>0
  <2>2. (n + 1)..Len(s) \subseteq 1..Len(s)
    BY <1>0
  <2> QED BY <1>0, <2>1, <2>2
<1>3. ToSet(SubSeq(s, 1, n)) \subseteq ToSet(s)
  <2> SUFFICES ASSUME NEW y \in ToSet(SubSeq(s, 1, n)) PROVE y \in ToSet(s)
    OBVIOUS
  <2> DEFINE g == SubSeq(s, 1, n)
  <2>0. g \in Seq(X) /\ Len(g) = n /\ y \in ToSet(g)
    BY <1>1
  <2>1. PICK i \in 1..n : SubSeq(s, 1, n)[i] = y
    <3> HIDE DEF g
    <3>1. \E i \in 1..n : g[i] = y
      BY <2>0, ElementsOf
    <3> QED BY <3>1 DEF g
  <2>2. i \in 1..Len(s) /\ s[i] = y
    BY <1>0, <1>1, <2>1
  <2> QED BY <2>2, ElementsOf
<1>4. ToSet(SubSeq(s, n + 1, Len(s))) \subseteq ToSet(s)
  <2> SUFFICES ASSUME NEW y \in ToSet(SubSeq(s, n + 1, Len(s))) PROVE y \in ToSet(s)
    OBVIOUS
  <2> DEFINE g == SubSeq(s, n + 1, Len(s))
  <2>3. g \in Seq(X) /\ y \in ToSet(g) /\ Len(g) = Len(s) - n
    BY <1>2
  <2>1. PICK i \in 1..(Len(s) - n) : SubSeq(s, n + 1, Len(s))[i] = y
    <3> HIDE DEF g
    <3>1. \E i \in 1..Len(g) : g[i] = y
      BY <2>3, ElementsOf
    <3> QED BY <2>3, <3>1 DEF g
  <2>2. n + i \in 1..Len(s) /\ s[n + i] = y
    BY <1>0, <1>2, <2>1
  <2> QED BY <2>2, ElementsOf
<1> QED BY <1>1, <1>2, <1>3, <1>4

LEMMA FlattenElements ==
    ASSUME NEW X, NEW ss \in Seq(Seq(X))
    PROVE  /\ FlattenSeq(ss) \in Seq(X)
           /\ \A x : x \in ToSet(FlattenSeq(ss)) <=> \E k \in 1..Len(ss) : x \in ToSet(ss[k])
<1> DEFINE F == FlattenSeq(ss)
<1>1. F \in Seq(X) /\ IsLaid(ss, Len(ss), F)
  BY FlattenLays
<1> HIDE DEF F
<1>2. PICK a, b : Laid(ss, Len(ss), F, a, b)
  BY <1>1 DEF IsLaid
<1>3. /\ a \in [1..Len(F) -> 1..Len(ss)]
      /\ \A j \in 1..Len(F) : b[j] \in 1..Len(ss[a[j]]) /\ F[j] = ss[a[j]][b[j]]
      /\ \A k \in 1..Len(ss) : \A q \in 1..Len(ss[k]) : \E j \in 1..Len(F) : a[j] = k /\ b[j] = q
  BY <1>2 DEF Laid
<1>4. \A k \in 1..Len(ss) : ss[k] \in Seq(X)
  OBVIOUS
<1>5. ASSUME NEW x \in ToSet(F) PROVE \E k \in 1..Len(ss) : x \in ToSet(ss[k])
  <2>1. PICK j \in 1..Len(F) : F[j] = x
    BY <1>1, <1>5, ElementsOf
  <2>2. a[j] \in 1..Len(ss) /\ b[j] \in 1..Len(ss[a[j]]) /\ ss[a[j]][b[j]] = x
    BY <1>3, <2>1
  <2>3. x \in ToSet(ss[a[j]])
    BY <1>4, <2>2, ElementsOf
  <2> QED BY <2>2, <2>3
<1>6. ASSUME NEW x, NEW k \in 1..Len(ss), x \in ToSet(ss[k]) PROVE x \in ToSet(F)
  <2>1. PICK q \in 1..Len(ss[k]) : ss[k][q] = x
    BY <1>4, <1>6, ElementsOf
  <2>2. PICK j \in 1..Len(F) : a[j] = k /\ b[j] = q
    BY <1>3
  <2>3. F[j] = x
    BY <1>3, <2>1, <2>2
  <2> QED BY <1>1, <2>3, ElementsOf
<1> QED BY <1>1, <1>5, <1>6 DEF F

LEMMA OnlyElements ==
    ASSUME NEW X, NEW s \in Seq(X), NEW W
    PROVE  /\ Only(s, W) \in Seq(X)
           /\ ToSet(Only(s, W)) = ToSet(s) \cap W
<1> DEFINE ss == [k \in DOMAIN s |-> IF s[k] \in W THEN <<s[k]>> ELSE <<>>]
<1>0. DOMAIN s = 1..Len(s) /\ Len(s) \in Nat /\ \A k \in 1..Len(s) : s[k] \in X
  BY ElementsOf
<1>1. \A k \in 1..Len(s) : ss[k] = (IF s[k] \in W THEN <<s[k]>> ELSE <<>>)
  BY <1>0
<1>2. ss \in Seq(Seq(X)) /\ Len(ss) = Len(s)
  <2>1. \A k \in 1..Len(s) : ss[k] \in Seq(X)
    BY <1>0, <1>1
  <2>2. ss \in [1..Len(s) -> Seq(X)]
    BY <1>0, <2>1
  <2> QED BY <1>0, <2>2
<1>3. Only(s, W) = FlattenSeq(ss)
  BY DEF Only
<1> HIDE DEF ss
<1>4. \A k \in 1..Len(s) : \A x : x \in ToSet(ss[k]) <=> x = s[k] /\ x \in W
  <2> SUFFICES ASSUME NEW k \in 1..Len(s), NEW x
               PROVE  x \in ToSet(ss[k]) <=> x = s[k] /\ x \in W
    OBVIOUS
  <2>1. ToSet(<<s[k]>>) = {s[k]}
    BY DEF ToSet
  <2> QED BY <1>1, <2>1, NoElements
<1> QED BY <1>0, <1>2, <1>3, <1>4, FlattenElements, ElementsOf

\* A list in which every transaction is repeated some number of times.
Repeat(s, c) == FlattenSeq([k \in DOMAIN s |-> [i \in 1 .. c[k] |-> s[k]]])

LEMMA RepeatElements ==
    ASSUME NEW X, NEW s \in Seq(X), NEW c \in [DOMAIN s -> Nat]
    PROVE  /\ Repeat(s, c) \in Seq(X)
           /\ \A x : x \in ToSet(Repeat(s, c)) <=> \E k \in 1..Len(s) : s[k] = x /\ c[k] > 0
<1> DEFINE ss == [k \in DOMAIN s |-> [i \in 1 .. c[k] |-> s[k]]]
<1>0. /\ DOMAIN s = 1..Len(s) /\ Len(s) \in Nat
      /\ \A k \in 1..Len(s) : s[k] \in X /\ c[k] \in Nat /\ ss[k] = [i \in 1 .. c[k] |-> s[k]]
  BY ElementsOf
<1>1. ASSUME NEW k \in 1..Len(s)
      PROVE  ss[k] \in Seq(X) /\ \A x : x \in ToSet(ss[k]) <=> x = s[k] /\ c[k] > 0
  <2> DEFINE t == [i \in 1 .. c[k] |-> s[k]]
  <2>1. t \in Seq(X) /\ Len(t) = c[k] /\ \A i \in 1..c[k] : t[i] = s[k]
    BY <1>0
  <2>2. ss[k] = t
    BY <1>0
  <2>3. c[k] > 0 => 1 \in 1..c[k]
    BY <1>0
  <2>4. \A i \in 1..c[k] : c[k] > 0
    BY <1>0
  <2> HIDE DEF t
  <2>5. \A x : x \in ToSet(t) <=> \E i \in 1..c[k] : t[i] = x
    BY <2>1, ElementsOf
  <2>6. \A x : x \in ToSet(t) <=> x = s[k] /\ c[k] > 0
    BY <2>1, <2>3, <2>4, <2>5
  <2> QED BY <2>1, <2>2, <2>6
<1>2. ss \in Seq(Seq(X)) /\ Len(ss) = Len(s)
  <2>2. ss \in [1..Len(s) -> Seq(X)]
    BY <1>0, <1>1
  <2> QED BY <1>0, <2>2
<1>3. /\ FlattenSeq(ss) \in Seq(X)
      /\ \A x : x \in ToSet(FlattenSeq(ss)) <=> \E k \in 1..Len(ss) : x \in ToSet(ss[k])
  BY <1>2, FlattenElements
<1>4. \A x : (\E k \in 1..Len(s) : x \in ToSet(ss[k])) <=> (\E k \in 1..Len(s) : s[k] = x /\ c[k] > 0)
  BY <1>1
<1>5. Repeat(s, c) = FlattenSeq(ss)
  BY DEF Repeat
<1> HIDE DEF ss
<1> QED BY <1>2, <1>3, <1>4, <1>5

-----------------------------------------------------------------------------
(* Transactions and types *)

Tx == [from : Accounts, pays : Seq(Payments) \ {<<>>}, IsRelay : BOOLEAN]
Txs == Seq(Tx) \ {<<>>}
Ann == [dst : Shards \cup {Client}, addr : Accounts, to : Shards]
Block == [mig1 : SUBSET Moves, mig2 : SUBSET Moves, anns : SUBSET Ann, txs : Seq(Tx)]

\* The type of every variable.
Typed ==
    /\ Account2Shard \in [Shards -> [Accounts -> Shards]]
    /\ Outing_Acc_Before_Announce \in [Shards -> SUBSET Accounts]
    /\ TXmig1s \in SUBSET Moves /\ TXmig2s \in SUBSET Moves /\ TXanns \in SUBSET Ann
    /\ block \in [Shards -> Block]
    /\ Queue \in [Shards -> Seq(Tx)]
    /\ Outing_Before_Announce_TX_Pools \in [Shards -> [Accounts -> Seq(Tx)]]
    /\ BagToSet(relaying) \in SUBSET [shard : Shards, txs : Txs]
    /\ BagToSet(cRelay) \in SUBSET [dst : Shards, txs : Txs]
    /\ cClient \in SUBSET [dst : Shards, tx : Tx] /\ cCaP \in SUBSET [dst : Shards, tx : Tx]
    /\ clientMap \in [Accounts -> Shards]
    /\ unsent \in SUBSET Payments /\ committed \in SUBSET Payments
    /\ debited \in [Payments -> Nat] /\ credited \in [Payments -> Nat]

\* Places of a transaction can be counted.
LEMMA PlacesCount ==
    ASSUME NEW tx \in Tx, NEW P \in SUBSET DOMAIN tx.pays
    PROVE  /\ IsFiniteSet(P) /\ Cardinality(P) \in Nat
           /\ Cardinality(P) > 0 <=> P # {}
<1>1. tx.pays \in Seq(Payments)
  BY DEF Tx
<1>2. DOMAIN tx.pays = 1..Len(tx.pays) /\ Len(tx.pays) \in Nat
  BY <1>1, ElementsOf
<1>3. IsFiniteSet(1..Len(tx.pays))
  BY <1>2, FS_Interval
<1>4. IsFiniteSet(P)
  BY <1>2, <1>3, FS_Subset
<1> QED BY <1>4, FS_CardinalityType, FS_EmptySet

LEMMA TxPays ==
    ASSUME NEW tx \in Tx
    PROVE  /\ tx.from \in Accounts /\ tx.IsRelay \in BOOLEAN
           /\ tx.pays \in Seq(Payments) /\ tx.pays # <<>>
           /\ DOMAIN tx.pays = 1..Len(tx.pays) /\ Len(tx.pays) \in Nat /\ 1 \in DOMAIN tx.pays
           /\ \A i \in DOMAIN tx.pays : tx.pays[i] \in Payments
<1>1. /\ tx.from \in Accounts /\ tx.IsRelay \in BOOLEAN
      /\ tx.pays \in Seq(Payments) /\ tx.pays # <<>>
  BY DEF Tx
<1> QED BY <1>1, ElementsOf

LEMMA CopiesElements ==
    ASSUME NEW s, NEW d, NEW txs \in Seq(Tx)
    PROVE  /\ Copies(s, d, txs) \in Seq(Tx)
           /\ \A x : x \in ToSet(Copies(s, d, txs)) <=>
                        /\ x \in ToSet(txs)
                        /\ \E j \in DOMAIN x.pays : Account2Shard[s][Payee[x.pays[j]]] = d
<1> DEFINE P(x) == {j \in DOMAIN x.pays : Account2Shard[s][Payee[x.pays[j]]] = d}
           c == [k \in DOMAIN txs |-> Cardinality(P(txs[k]))]
<1>1. DOMAIN txs = 1..Len(txs) /\ \A k \in DOMAIN txs : txs[k] \in Tx
  BY ElementsOf
<1>2. \A x \in Tx : Cardinality(P(x)) \in Nat /\ (Cardinality(P(x)) > 0 <=> P(x) # {})
  BY PlacesCount
<1>3. c \in [DOMAIN txs -> Nat] /\ \A k \in DOMAIN txs : c[k] = Cardinality(P(txs[k]))
  BY <1>1, <1>2
<1>4. Copies(s, d, txs) = Repeat(txs, c)
  BY <1>3 DEF Copies, Repeat
<1>5. \A x : P(x) # {} <=> \E j \in DOMAIN x.pays : Account2Shard[s][Payee[x.pays[j]]] = d
  OBVIOUS
<1> HIDE DEF c, P
<1>6. /\ Copies(s, d, txs) \in Seq(Tx)
      /\ \A x : x \in ToSet(Copies(s, d, txs)) <=> \E k \in 1..Len(txs) : txs[k] = x /\ c[k] > 0
  <2>1. c \in [DOMAIN txs -> Nat]
    BY <1>3
  <2>2. /\ Repeat(txs, c) \in Seq(Tx)
        /\ \A x : x \in ToSet(Repeat(txs, c)) <=> \E k \in 1..Len(txs) : txs[k] = x /\ c[k] > 0
    BY <2>1, RepeatElements
  <2> QED BY <1>4, <2>2
<1>7. \A x : (\E k \in 1..Len(txs) : txs[k] = x /\ c[k] > 0) <=> x \in ToSet(txs) /\ P(x) # {}
  BY <1>1, <1>2, <1>3, ElementsOf
<1> QED BY <1>5, <1>6, <1>7

LEMMA LockedElements ==
    ASSUME NEW s, NEW a, NEW txs \in Seq(Tx)
    PROVE  /\ LockedOf(s, a, txs) \in Seq(Tx)
           /\ \A x \in ToSet(LockedOf(s, a, txs)) :
                x \in ToSet(txs) /\ x.from = a /\ a \in Outing_Acc_Before_Announce[s]
<1> DEFINE c == [k \in DOMAIN txs |-> IF txs[k].from = a THEN LockedTimes(s, txs[k]) ELSE 0]
<1>1. DOMAIN txs = 1..Len(txs) /\ \A k \in DOMAIN txs : txs[k] \in Tx
  BY ElementsOf
<1>2. \A x \in Tx : LockedTimes(s, x) \in Nat
  <2> SUFFICES ASSUME NEW x \in Tx PROVE LockedTimes(s, x) \in Nat
    OBVIOUS
  <2> DEFINE P == {i \in DOMAIN x.pays :
                     IF x.IsRelay THEN Payee[x.pays[i]] \in Own(s) ELSE x.from \in Own(s)}
  <2>1. Cardinality(P) \in Nat
    BY PlacesCount
  <2>2. LockedTimes(s, x) = IF x.from \notin Outing_Acc_Before_Announce[s] THEN 0 ELSE Cardinality(P)
    BY DEF LockedTimes
  <2> QED BY <2>1, <2>2
<1>3. c \in [DOMAIN txs -> Nat]
  BY <1>1, <1>2
<1>4. LockedOf(s, a, txs) = Repeat(txs, c)
  BY DEF LockedOf, Repeat
<1>5. \A k \in DOMAIN txs : c[k] > 0 => txs[k].from = a /\ a \in Outing_Acc_Before_Announce[s]
  BY DEF LockedTimes
<1> HIDE DEF c
<1>6. /\ LockedOf(s, a, txs) \in Seq(Tx)
      /\ \A x : x \in ToSet(LockedOf(s, a, txs)) <=> \E k \in 1..Len(txs) : txs[k] = x /\ c[k] > 0
  <2>1. c \in [DOMAIN txs -> Nat]
    BY <1>3
  <2>2. /\ Repeat(txs, c) \in Seq(Tx)
        /\ \A x : x \in ToSet(Repeat(txs, c)) <=> \E k \in 1..Len(txs) : txs[k] = x /\ c[k] > 0
    BY <2>1, RepeatElements
  <2> QED BY <1>4, <2>2
<1> QED BY <1>1, <1>5, <1>6, ElementsOf

LEMMA MergedElements ==
    ASSUME NEW txs \in Txs
    PROVE  /\ txs[1] \in ToSet(txs) /\ txs[1] \in Tx
           /\ Merged(txs) \in Tx
           /\ Merged(txs).from = txs[1].from /\ Merged(txs).IsRelay = txs[1].IsRelay
           /\ \A p : p \in ToSet(Merged(txs).pays) <=> \E tx \in ToSet(txs) : p \in ToSet(tx.pays)
<1> DEFINE ss == [k \in DOMAIN txs |-> txs[k].pays]
<1>1. /\ txs \in Seq(Tx) /\ DOMAIN txs = 1..Len(txs) /\ Len(txs) \in Nat /\ 1 \in DOMAIN txs
      /\ \A k \in DOMAIN txs : txs[k] \in Tx
  <2>1. txs \in Seq(Tx) /\ txs # <<>>
    BY DEF Txs
  <2> QED BY <2>1, ElementsOf
<1>2. \A k \in DOMAIN txs : txs[k].pays \in Seq(Payments)
  BY <1>1, TxPays
<1>3. ss \in Seq(Seq(Payments)) /\ Len(ss) = Len(txs) /\ \A k \in 1..Len(txs) : ss[k] = txs[k].pays
  <2>2. ss \in [1..Len(txs) -> Seq(Payments)]
    BY <1>1, <1>2
  <2> QED BY <1>1, <2>2
<1>4. Merged(txs) = [txs[1] EXCEPT !.pays = FlattenSeq(ss)]
  BY DEF Merged
<1> HIDE DEF ss
<1>5. /\ FlattenSeq(ss) \in Seq(Payments)
      /\ \A p : p \in ToSet(FlattenSeq(ss)) <=> \E k \in 1..Len(txs) : p \in ToSet(txs[k].pays)
  <2>1. /\ FlattenSeq(ss) \in Seq(Payments)
        /\ \A p : p \in ToSet(FlattenSeq(ss)) <=> \E k \in 1..Len(ss) : p \in ToSet(ss[k])
    BY <1>3, FlattenElements
  <2> QED BY <1>3, <2>1
<1>6. txs[1] \in Tx /\ txs[1] \in ToSet(txs)
  BY <1>1, ElementsOf
<1>7. FlattenSeq(ss) # <<>>
  <2>1. txs[1].pays[1] \in ToSet(txs[1].pays)
    BY <1>6, TxPays, ElementsOf
  <2>2. ToSet(FlattenSeq(ss)) # {}
    BY <1>1, <1>5, <2>1
  <2> QED BY <2>2, NoElements
<1>8. /\ Merged(txs) \in Tx /\ Merged(txs).from = txs[1].from
      /\ Merged(txs).IsRelay = txs[1].IsRelay /\ Merged(txs).pays = FlattenSeq(ss)
  BY <1>4, <1>5, <1>6, <1>7 DEF Tx
<1>9. \A p : (\E k \in 1..Len(txs) : p \in ToSet(txs[k].pays)) <=> \E tx \in ToSet(txs) : p \in ToSet(tx.pays)
  BY <1>1, ElementsOf
<1> QED BY <1>5, <1>6, <1>8, <1>9

LEMMA BagElements ==
    /\ BagToSet(EmptyBag) = {}
    /\ \A S : BagToSet(SetToBag(S)) = S
    /\ \A B, C : BagToSet(B (+) C) = BagToSet(B) \cup BagToSet(C)
    /\ \A B, C : BagToSet(B (-) C) \subseteq BagToSet(B)
  BY DEF BagToSet, EmptyBag, SetToBag, (+), (-)

LEMMA RelayingElements ==
    ASSUME NEW s, NEW txs
    PROVE  /\ txs = <<>> => BagToSet(Relaying(s, txs)) = {}
           /\ txs # <<>> => BagToSet(Relaying(s, txs)) = {[shard |-> s, txs |-> txs]}
  BY BagElements DEF Relaying

-----------------------------------------------------------------------------
(* Accounts move at most once, and are announced when they have arrived *)

Arrived(m) == Account2Shard[m.to][m.addr] = m.to
AtDestination(a, s) == \E m \in Moves : m.addr = a /\ m.to = s /\ Arrived(m)
Announces(ann) == AtDestination(ann.addr, ann.to) /\ ann.dst # ann.to

MovesGoOn ==
    /\ \A ann \in TXanns : Announces(ann)
    /\ \A s \in Shards :
         /\ \A ann \in block[s].anns : ann.dst = s /\ Announces(ann)
         /\ \A m \in block[s].mig1 : m.from = s
         /\ \A m \in block[s].mig2 : m.to = s
    /\ \A s \in Shards : \A a \in Accounts :
         Account2Shard[s][a] = Genesis[a] \/ AtDestination(a, Account2Shard[s][a])
    /\ \A a \in Accounts : clientMap[a] = Genesis[a] \/ AtDestination(a, clientMap[a])

\* Only receipts are relayed, a lock pool holds what its account pays, and a
\* payment follows its payer to where the payer has arrived.
ReceiptsTravel ==
    /\ \A job \in BagToSet(relaying) : \A tx \in ToSet(job.txs) : tx.IsRelay
    /\ \A m \in BagToSet(cRelay) : \A tx \in ToSet(m.txs) : tx.IsRelay
    /\ \A m \in cCaP : m.tx.IsRelay \/ AtDestination(m.tx.from, m.dst)
    /\ \A s \in Shards : \A a \in Accounts :
         \A tx \in ToSet(Outing_Before_Announce_TX_Pools[s][a]) : tx.from = a

IndInv == Typed /\ MovesGoOn /\ ReceiptsTravel /\ PayersWaitAtHome

LEMMA BlockTyped ==
    ASSUME Typed, NEW s \in Shards
    PROVE  /\ block[s] \in Block
           /\ block[s].mig1 \in SUBSET Moves /\ block[s].mig2 \in SUBSET Moves
           /\ block[s].anns \in SUBSET Ann /\ block[s].txs \in Seq(Tx)
           /\ Queue[s] \in Seq(Tx)
           /\ \A a \in Accounts : Outing_Before_Announce_TX_Pools[s][a] \in Seq(Tx)
           /\ Account2Shard[s] \in [Accounts -> Shards]
<1>1. block[s] \in Block
  BY DEF Typed
<1>2. /\ block[s].mig1 \in SUBSET Moves /\ block[s].mig2 \in SUBSET Moves
      /\ block[s].anns \in SUBSET Ann /\ block[s].txs \in Seq(Tx)
  BY <1>1 DEF Block
<1> QED BY <1>1, <1>2 DEF Typed

LEMMA MoveTyped ==
    ASSUME NEW m \in Moves
    PROVE  /\ m.addr \in Accounts /\ m.from \in Shards /\ m.to \in Shards
           /\ m.from = Genesis[m.addr] /\ m.to # m.from
           /\ \A n \in Moves : n.addr = m.addr => n = m
  BY TransactionsAssumption

LEMMA MapsTyped ==
    ASSUME Typed, NEW s \in Shards
    PROVE  /\ MapIn(s) \in [Accounts -> Shards] /\ MapOut(s) \in [Accounts -> Shards]
           /\ Deleted(s) \in SUBSET Accounts
           /\ \A a \in Accounts : a \notin Addrs(block[s].anns) => MapOut(s)[a] = MapIn(s)[a]
           /\ \A a \in Addrs(block[s].anns) :
                \E ann \in block[s].anns : ann.addr = a /\ MapOut(s)[a] = ann.to
<1>1. MapIn(s) \in [Accounts -> Shards]
  BY BlockTyped DEF MapIn
<1>2. ASSUME NEW a \in Addrs(block[s].anns)
      PROVE  a \in Accounts /\ \E ann \in block[s].anns : ann.addr = a /\ MapOut(s)[a] = ann.to /\ ann.to \in Shards
  <2>1. \E ann \in block[s].anns : ann.addr = a
    BY <1>2 DEF Addrs
  <2> DEFINE c == CHOOSE ann \in block[s].anns : ann.addr = a
  <2>2. c \in block[s].anns /\ c.addr = a
    BY <2>1
  <2>3. \A ann \in block[s].anns : ann.addr \in Accounts /\ ann.to \in Shards
    BY BlockTyped DEF Ann
  <2>4. a \in Accounts
    BY <2>2, <2>3
  <2>5. MapOut(s)[a] = c.to
    BY <1>2, <2>4 DEF MapOut
  <2> QED BY <2>2, <2>3, <2>4, <2>5
<1>3. \A a \in Accounts : a \notin Addrs(block[s].anns) => MapOut(s)[a] = MapIn(s)[a]
  BY DEF MapOut
<1>4. MapOut(s) \in [Accounts -> Shards]
  <2>1. \A a \in Accounts : MapOut(s)[a] \in Shards
    BY <1>1, <1>2, <1>3
  <2>2. MapOut(s) = [a \in Accounts |-> MapOut(s)[a]]
    BY DEF MapOut
  <2> QED BY <2>1, <2>2
<1>5. Deleted(s) \in SUBSET Accounts
  BY <1>2 DEF Deleted
<1> QED BY <1>1, <1>2, <1>3, <1>4, <1>5

\* A shard that is the destination of an account keeps it: its own block never
\* gives the account up.
LEMMA DestinationKeeps ==
    ASSUME Typed, MovesGoOn, NEW s \in Shards, commit1(s),
           NEW m \in Moves, Arrived(m) \/ m \in block[s].mig2
    PROVE  Arrived(m)'
<1>1. m.addr \in Accounts /\ m.to \in Shards
  BY MoveTyped
<1>2. Account2Shard' = [Account2Shard EXCEPT ![s] = MapOut(s)]
  BY DEF commit1
<1>3. CASE m.to = s
  <2>1. m.addr \notin Addrs(block[s].anns)
    <3>1. SUFFICES ASSUME NEW ann \in block[s].anns, ann.addr = m.addr PROVE FALSE
      BY DEF Addrs
    <3>2. ann.dst = s /\ ann.dst # ann.to /\ \E n \in Moves : n.addr = ann.addr /\ n.to = ann.to
      BY DEF MovesGoOn, Announces, AtDestination
    <3> QED BY <1>3, <3>1, <3>2, MoveTyped
  <2>2. MapIn(s)[m.addr] = s
    BY <1>1, <1>3 DEF MapIn, Arrived, Addrs
  <2>3. MapOut(s)[m.addr] = s
    BY <1>1, <2>1, <2>2, MapsTyped
  <2>4. Account2Shard'[s] = MapOut(s)
    BY <1>2 DEF Typed
  <2> QED BY <1>3, <2>3, <2>4 DEF Arrived
<1>4. CASE m.to # s
  <2>1. m \notin block[s].mig2
    BY <1>4 DEF MovesGoOn
  <2>2. Account2Shard'[m.to] = Account2Shard[m.to]
    BY <1>1, <1>2, <1>4 DEF Typed
  <2> QED BY <2>1, <2>2 DEF Arrived
<1> QED BY <1>3, <1>4

-----------------------------------------------------------------------------
(* Types *)

LEMMA InitTyped ==
    ASSUME Init
    PROVE  Typed
<1>1. NoBlock \in Block
  BY EmptySeq DEF NoBlock, Block
<1>2. Genesis \in [Accounts -> Shards]
  BY TransactionsAssumption
<1>3. BagToSet(relaying) = {} /\ BagToSet(cRelay) = {}
  BY BagElements DEF Init
<1>4. /\ block \in [Shards -> Block] /\ Queue \in [Shards -> Seq(Tx)]
      /\ Outing_Before_Announce_TX_Pools \in [Shards -> [Accounts -> Seq(Tx)]]
  BY <1>1, EmptySeq DEF Init
<1> QED BY <1>2, <1>3, <1>4 DEF Init, Typed

\* GenerateBlock, once the migration transactions and the number n of payments
\* that fit are chosen.
Packs(s, mig1, mig2, anns, n) ==
    LET txs == SubSeq(Queue[s], 1, n)
    IN  /\ mig1 \subseteq {m \in TXmig1s : m.from = s}
        /\ mig2 \subseteq {m \in TXmig2s : m.to = s}
        /\ anns \subseteq {ann \in TXanns : ann.dst = s}
        /\ n \in 0..Len(Queue[s]) /\ block[s] = NoBlock
        /\ block' = [block EXCEPT ![s] = [mig1 |-> mig1, mig2 |-> mig2, anns |-> anns, txs |-> txs]]
        /\ TXmig1s' = TXmig1s \ mig1 /\ TXmig2s' = TXmig2s \ mig2 /\ TXanns' = TXanns \ anns
        /\ Queue' = [Queue EXCEPT ![s] = SubSeq(@, n + 1, Len(@))]
        /\ Outing_Before_Announce_TX_Pools' =
             [Outing_Before_Announce_TX_Pools EXCEPT ![s] =
                [a \in Accounts |-> @[a] \o LockedOf(s, a, txs)]]
        /\ UNCHANGED <<Account2Shard, Outing_Acc_Before_Announce, relaying, cClient,
                       cRelay, cCaP, clientMap, unsent, history>>

LEMMA GeneratePacks ==
    ASSUME Typed, NEW s \in Shards, GenerateBlock(s)
    PROVE  \E mig1, mig2, anns, n : Packs(s, mig1, mig2, anns, n)
<1>1. PICK mig1 \in SUBSET {m \in TXmig1s : m.from = s},
           mig2 \in SUBSET {m \in TXmig2s : m.to = s},
           anns \in SUBSET {ann \in TXanns : ann.dst = s} :
        LET left == MaxBlockSize - Cardinality(mig1) - Cardinality(mig2) - Cardinality(anns)
            n    == IF Len(Queue[s]) < left THEN Len(Queue[s]) ELSE left
            b    == [mig1 |-> mig1, mig2 |-> mig2, anns |-> anns,
                     txs |-> SubSeq(Queue[s], 1, n)]
        IN  /\ block[s] = NoBlock /\ left \in Nat /\ b # NoBlock
            /\ block' = [block EXCEPT ![s] = b]
            /\ TXmig1s' = TXmig1s \ mig1 /\ TXmig2s' = TXmig2s \ mig2
            /\ TXanns' = TXanns \ anns
            /\ Queue' = [Queue EXCEPT ![s] = SubSeq(@, n + 1, Len(@))]
            /\ Outing_Before_Announce_TX_Pools' =
                 [Outing_Before_Announce_TX_Pools EXCEPT ![s] =
                    [a \in Accounts |-> @[a] \o LockedOf(s, a, b.txs)]]
            /\ UNCHANGED <<Account2Shard, Outing_Acc_Before_Announce, relaying, cClient,
                           cRelay, cCaP, clientMap, unsent, history>>
  BY Zenon DEF GenerateBlock
<1> DEFINE left == MaxBlockSize - Cardinality(mig1) - Cardinality(mig2) - Cardinality(anns)
           n == IF Len(Queue[s]) < left THEN Len(Queue[s]) ELSE left
<1>2. left \in Nat
  BY <1>1, Zenon
<1>3. n \in 0..Len(Queue[s])
  <2> HIDE DEF left
  <2>1. Len(Queue[s]) \in Nat
    BY BlockTyped, ElementsOf
  <2> QED BY <1>2, <2>1
<1> DEFINE b == [mig1 |-> mig1, mig2 |-> mig2, anns |-> anns, txs |-> SubSeq(Queue[s], 1, n)]
<1>5. /\ block[s] = NoBlock
      /\ block' = [block EXCEPT ![s] = b]
      /\ TXmig1s' = TXmig1s \ mig1 /\ TXmig2s' = TXmig2s \ mig2 /\ TXanns' = TXanns \ anns
      /\ Queue' = [Queue EXCEPT ![s] = SubSeq(@, n + 1, Len(@))]
      /\ Outing_Before_Announce_TX_Pools' =
           [Outing_Before_Announce_TX_Pools EXCEPT ![s] = [a \in Accounts |-> @[a] \o LockedOf(s, a, b.txs)]]
      /\ UNCHANGED <<Account2Shard, Outing_Acc_Before_Announce, relaying, cClient,
                     cRelay, cCaP, clientMap, unsent, history>>
  BY <1>1, Zenon
<1> HIDE DEF n
<1>4. b.txs = SubSeq(Queue[s], 1, n)
  OBVIOUS
<1>6. Packs(s, mig1, mig2, anns, n)
  BY <1>1, <1>3, <1>4, <1>5 DEF Packs
<1> QED BY <1>6

LEMMA GenerateTyped ==
    ASSUME Typed, NEW s \in Shards, GenerateBlock(s)
    PROVE  Typed'
<1>1. PICK mig1, mig2, anns, n : Packs(s, mig1, mig2, anns, n)
  BY GeneratePacks
<1>2. Queue[s] \in Seq(Tx) /\ n \in 0..Len(Queue[s])
  BY <1>1 DEF Packs, Typed
<1> DEFINE txs == SubSeq(Queue[s], 1, n)
           rest == SubSeq(Queue[s], n + 1, Len(Queue[s]))
<1>3. txs \in Seq(Tx) /\ rest \in Seq(Tx)
  BY <1>2, SplitElements
<1>4. /\ block' = [block EXCEPT ![s] = [mig1 |-> mig1, mig2 |-> mig2, anns |-> anns, txs |-> txs]]
      /\ Queue' = [Queue EXCEPT ![s] = rest]
  BY <1>1 DEF Packs
<1>a. mig1 \in SUBSET Moves /\ mig2 \in SUBSET Moves /\ anns \in SUBSET Ann
  BY <1>1 DEF Packs, Typed
<1> DEFINE f == [a \in Accounts |-> Outing_Before_Announce_TX_Pools[s][a] \o LockedOf(s, a, txs)]
<1>5. Outing_Before_Announce_TX_Pools' = [Outing_Before_Announce_TX_Pools EXCEPT ![s] = f]
  BY <1>1 DEF Packs
<1> HIDE DEF txs, rest
<1>6. f \in [Accounts -> Seq(Tx)]
  <2>1. ASSUME NEW a \in Accounts
        PROVE  Outing_Before_Announce_TX_Pools[s][a] \o LockedOf(s, a, txs) \in Seq(Tx)
    <3>1. Outing_Before_Announce_TX_Pools[s][a] \in Seq(Tx)
      BY DEF Typed
    <3>2. LockedOf(s, a, txs) \in Seq(Tx)
      BY <1>3, LockedElements
    <3> QED BY <3>1, <3>2, ConcatElements
  <2> QED BY <2>1
<1> HIDE DEF f
<1>7. /\ block' \in [Shards -> Block] /\ Queue' \in [Shards -> Seq(Tx)]
      /\ Outing_Before_Announce_TX_Pools' \in [Shards -> [Accounts -> Seq(Tx)]]
  BY <1>3, <1>4, <1>5, <1>6, <1>a DEF Typed, Block
<1>8. TXmig1s' \in SUBSET Moves /\ TXmig2s' \in SUBSET Moves /\ TXanns' \in SUBSET Ann
  BY <1>1 DEF Packs, Typed
<1>9. UNCHANGED <<Account2Shard, Outing_Acc_Before_Announce, relaying, cClient,
                  cRelay, cCaP, clientMap, unsent, history>>
  BY <1>1 DEF Packs
<1> QED BY <1>7, <1>8, <1>9 DEF Typed, history

LEMMA OccurrencesCount ==
    ASSUME NEW p, NEW txs \in Seq(Tx), NEW S \in SUBSET Occurrences(p, txs)
    PROVE  IsFiniteSet(S) /\ Cardinality(S) \in Nat
<1>1. DOMAIN txs = 1..Len(txs) /\ Len(txs) \in Nat /\ \A k \in DOMAIN txs : txs[k] \in Tx
  BY ElementsOf
<1> DEFINE at(k) == {j \in DOMAIN txs[k].pays : txs[k].pays[j] = p}
           of(k) == {<<k, i>> : i \in at(k)}
<1>2. ASSUME NEW k \in DOMAIN txs PROVE IsFiniteSet(of(k))
  <2>1. IsFiniteSet(at(k))
    BY <1>1, PlacesCount
  <2> HIDE DEF at
  <2> DEFINE f == [i \in at(k) |-> <<k, i>>]
  <2>2. f \in Surjection(at(k), of(k))
    BY DEF Surjection
  <2> QED BY <2>1, <2>2, FS_Surjection
<1>3. IsFiniteSet({of(k) : k \in DOMAIN txs})
  <2>1. IsFiniteSet(DOMAIN txs)
    BY <1>1, FS_Interval
  <2> HIDE DEF of
  <2> DEFINE f == [k \in DOMAIN txs |-> of(k)]
  <2>2. f \in Surjection(DOMAIN txs, {of(k) : k \in DOMAIN txs})
    BY DEF Surjection
  <2> QED BY <2>1, <2>2, FS_Surjection
<1>4. IsFiniteSet(UNION {of(k) : k \in DOMAIN txs})
  <2> HIDE DEF of
  <2> QED BY <1>2, <1>3, FS_UNION
<1>5. Occurrences(p, txs) = UNION {of(k) : k \in DOMAIN txs}
  BY DEF Occurrences
<1> HIDE DEF of
<1> QED BY <1>4, <1>5, FS_Subset, FS_CardinalityType

LEMMA DebitsCount ==
    ASSUME Typed, NEW s \in Shards, NEW p
    PROVE  Debits(s, p) \in Nat /\ Credits(s, p) \in Nat
<1>1. block[s].txs \in Seq(Tx)
  BY BlockTyped
<1> DEFINE D == {ki \in Occurrences(p, block[s].txs) : ~block[s].txs[ki[1]].IsRelay}
<1>2. D \in SUBSET Occurrences(p, block[s].txs)
  OBVIOUS
<1>3. Debits(s, p) = Cardinality(D)
  BY DEF Debits
<1> HIDE DEF D
<1> QED BY <1>1, <1>2, <1>3, OccurrencesCount DEF Credits

\* The receipts of the transactions that a block debits.
AsReceipts(txs) == [k \in DOMAIN txs |-> [txs[k] EXCEPT !.IsRelay = TRUE]]

LEMMA ReceiptElements ==
    ASSUME NEW txs \in Seq(Tx)
    PROVE  /\ AsReceipts(txs) \in Seq(Tx) /\ Len(AsReceipts(txs)) = Len(txs)
           /\ \A k \in 1..Len(txs) : AsReceipts(txs)[k] = [txs[k] EXCEPT !.IsRelay = TRUE]
           /\ \A x \in ToSet(AsReceipts(txs)) :
                x.IsRelay /\ \E tx \in ToSet(txs) : x = [tx EXCEPT !.IsRelay = TRUE]
<1>1. DOMAIN txs = 1..Len(txs) /\ Len(txs) \in Nat /\ \A k \in DOMAIN txs : txs[k] \in Tx
  BY ElementsOf
<1>2. \A tx \in Tx : [tx EXCEPT !.IsRelay = TRUE] \in Tx /\ [tx EXCEPT !.IsRelay = TRUE].IsRelay
  BY DEF Tx
<1> DEFINE f == AsReceipts(txs)
<1>3. f \in [1..Len(txs) -> Tx] /\ \A k \in 1..Len(txs) : f[k] = [txs[k] EXCEPT !.IsRelay = TRUE]
  BY <1>1, <1>2 DEF AsReceipts
<1> HIDE DEF f
<1>4. f \in Seq(Tx) /\ Len(f) = Len(txs)
  BY <1>1, <1>3
<1>5. ASSUME NEW x \in ToSet(f)
      PROVE  x.IsRelay /\ \E tx \in ToSet(txs) : x = [tx EXCEPT !.IsRelay = TRUE]
  <2>1. PICK k \in 1..Len(txs) : f[k] = x
    BY <1>4, <1>5, ElementsOf
  <2>2. txs[k] \in ToSet(txs) /\ txs[k] \in Tx
    BY <1>1, ElementsOf
  <2> QED BY <1>2, <1>3, <2>1, <2>2
<1> QED BY <1>3, <1>4, <1>5 DEF f

LEMMA PendingElements ==
    ASSUME Typed, NEW s \in Shards, NEW a \in Accounts
    PROVE  /\ Pendings(s, a) \in Seq(Tx)
           /\ \A x : x \in ToSet(Pendings(s, a)) <=>
                \/ x \in ToSet(Outing_Before_Announce_TX_Pools[s][a])
                \/ x \in ToSet(Queue[s]) /\ a \in Follows(s, x)
<1> DEFINE W == {tx \in ToSet(Queue[s]) : a \in Follows(s, tx)}
<1>1. Outing_Before_Announce_TX_Pools[s][a] \in Seq(Tx) /\ Queue[s] \in Seq(Tx)
  BY DEF Typed
<1>2. Only(Queue[s], W) \in Seq(Tx) /\ ToSet(Only(Queue[s], W)) = ToSet(Queue[s]) \cap W
  BY <1>1, OnlyElements
<1>3. Pendings(s, a) = Outing_Before_Announce_TX_Pools[s][a] \o Only(Queue[s], W)
  BY DEF Pendings
<1>4. \A x : x \in ToSet(Queue[s]) \cap W <=> x \in ToSet(Queue[s]) /\ a \in Follows(s, x)
  OBVIOUS
<1> HIDE DEF W
<1> QED BY <1>1, <1>2, <1>3, <1>4, ConcatElements

\* What commit1 leaves to TryRelay, what follows the accounts that leave, and
\* what stays in the queue.
ToRelay(s) == Only(block[s].txs, {tx \in ToSet(block[s].txs) : Relayed(s, tx)})
Following(s) == {[dst |-> MapOut(s)[a], tx |-> Merged(Pendings(s, a))] :
                   a \in {d \in Deleted(s) : Pendings(s, d) # <<>>}}
Staying(s) == Only(Queue[s], {tx \in ToSet(Queue[s]) : Follows(s, tx) = {}})

LEMMA CommitParts ==
    ASSUME Typed, NEW s \in Shards
    PROVE  /\ ToRelay(s) \in Seq(Tx) /\ AsReceipts(ToRelay(s)) \in Seq(Tx)
           /\ ToSet(ToRelay(s)) = {tx \in ToSet(block[s].txs) : Relayed(s, tx)}
           /\ Staying(s) \in Seq(Tx)
           /\ ToSet(Staying(s)) = {tx \in ToSet(Queue[s]) : Follows(s, tx) = {}}
           /\ Following(s) \in SUBSET [dst : Shards, tx : Tx]
           /\ BagToSet(Relaying(s, AsReceipts(ToRelay(s)))) \in SUBSET [shard : Shards, txs : Txs]
<1>1. /\ ToRelay(s) \in Seq(Tx)
      /\ ToSet(ToRelay(s)) = {tx \in ToSet(block[s].txs) : Relayed(s, tx)}
  <2> DEFINE W == {tx \in ToSet(block[s].txs) : Relayed(s, tx)}
  <2>1. block[s].txs \in Seq(Tx) /\ W \subseteq ToSet(block[s].txs)
    BY BlockTyped
  <2>2. ToRelay(s) = Only(block[s].txs, W)
    BY DEF ToRelay
  <2> HIDE DEF W
  <2>4. ToRelay(s) \in Seq(Tx) /\ ToSet(ToRelay(s)) = ToSet(block[s].txs) \cap W
    BY <2>1, <2>2, OnlyElements
  <2>3. ToRelay(s) \in Seq(Tx) /\ ToSet(ToRelay(s)) = W
    BY <2>1, <2>4
  <2> QED BY <2>3 DEF W
<1>2. /\ Staying(s) \in Seq(Tx)
      /\ ToSet(Staying(s)) = {tx \in ToSet(Queue[s]) : Follows(s, tx) = {}}
  <2> DEFINE W == {tx \in ToSet(Queue[s]) : Follows(s, tx) = {}}
  <2>1. Queue[s] \in Seq(Tx) /\ W \subseteq ToSet(Queue[s])
    BY BlockTyped
  <2>2. Staying(s) = Only(Queue[s], W)
    BY DEF Staying
  <2> HIDE DEF W
  <2>4. Staying(s) \in Seq(Tx) /\ ToSet(Staying(s)) = ToSet(Queue[s]) \cap W
    BY <2>1, <2>2, OnlyElements
  <2>3. Staying(s) \in Seq(Tx) /\ ToSet(Staying(s)) = W
    BY <2>1, <2>4
  <2> QED BY <2>3 DEF W
<1>3. AsReceipts(ToRelay(s)) \in Seq(Tx)
  BY <1>1, ReceiptElements
<1>4. BagToSet(Relaying(s, AsReceipts(ToRelay(s)))) \in SUBSET [shard : Shards, txs : Txs]
  BY <1>3, RelayingElements DEF Txs
<1>5. ASSUME NEW a \in Deleted(s), Pendings(s, a) # <<>>
      PROVE  MapOut(s)[a] \in Shards /\ Merged(Pendings(s, a)) \in Tx
  <2>1. a \in Accounts /\ MapOut(s)[a] \in Shards
    BY MapsTyped
  <2>2. Pendings(s, a) \in Txs
    BY <1>5, <2>1, PendingElements DEF Txs
  <2> QED BY <2>1, <2>2, MergedElements
<1>6. Following(s) \in SUBSET [dst : Shards, tx : Tx]
  BY <1>5 DEF Following
<1> QED BY <1>1, <1>2, <1>3, <1>4, <1>6

\* commit1 in these terms.
LEMMA CommitUnfolds ==
    ASSUME NEW s \in Shards, commit1(s)
    PROVE  /\ block' = [block EXCEPT ![s] = NoBlock]
           /\ debited' = [p \in Payments |-> debited[p] + Debits(s, p)]
           /\ credited' = [p \in Payments |-> credited[p] + Credits(s, p)]
           /\ committed' = committed \cup
                UNION {ToSet(tx.pays) : tx \in {u \in ToSet(block[s].txs) : Told(s, u)}}
           /\ Account2Shard' = [Account2Shard EXCEPT ![s] = MapOut(s)]
           /\ Outing_Acc_Before_Announce' =
                [Outing_Acc_Before_Announce EXCEPT ![s] = (@ \cup Addrs(block[s].mig1)) \ Deleted(s)]
           /\ Queue' = [Queue EXCEPT ![s] = Staying(s)]
           /\ Outing_Before_Announce_TX_Pools' =
                [Outing_Before_Announce_TX_Pools EXCEPT ![s] =
                   [a \in Accounts |-> IF a \in Emptied(s) THEN <<>> ELSE @[a]]]
           /\ cCaP' = cCaP \cup Following(s)
           /\ relaying' = relaying (+) Relaying(s, AsReceipts(ToRelay(s)))
           /\ TXmig2s' = TXmig2s \cup block[s].mig1
           /\ TXanns' = TXanns \cup
                {[dst |-> d, addr |-> m.addr, to |-> s] : d \in (Shards \ {s}) \cup {Client}, m \in block[s].mig2}
           /\ UNCHANGED <<TXmig1s, cClient, cRelay, clientMap, unsent>>
  BY DEF commit1, ToRelay, Following, Staying, AsReceipts

LEMMA CommitTyped ==
    ASSUME Typed, NEW s \in Shards, commit1(s)
    PROVE  Typed'
<1>1. NoBlock \in Block
  BY EmptySeq DEF NoBlock, Block
<1>2. block' \in [Shards -> Block] /\ Queue' \in [Shards -> Seq(Tx)]
  <2>1. Staying(s) \in Seq(Tx)
    BY CommitParts
  <2>2. block' = [block EXCEPT ![s] = NoBlock] /\ Queue' = [Queue EXCEPT ![s] = Staying(s)]
    BY CommitUnfolds
  <2> QED BY <1>1, <2>1, <2>2 DEF Typed
<1>3. debited' \in [Payments -> Nat] /\ credited' \in [Payments -> Nat]
  <2>1. \A p \in Payments : debited[p] + Debits(s, p) \in Nat /\ credited[p] + Credits(s, p) \in Nat
    BY DebitsCount DEF Typed
  <2> QED BY <2>1, CommitUnfolds
<1>4. committed' \in SUBSET Payments
  <2>1. \A tx \in ToSet(block[s].txs) : tx \in Tx
    BY BlockTyped, ElementsOf
  <2>2. \A tx \in Tx : ToSet(tx.pays) \subseteq Payments
    BY TxPays, ElementsOf
  <2>3. committed' = committed \cup
          UNION {ToSet(tx.pays) : tx \in {u \in ToSet(block[s].txs) : Told(s, u)}}
    BY CommitUnfolds
  <2> QED BY <2>1, <2>2, <2>3 DEF Typed
<1>5. Account2Shard' \in [Shards -> [Accounts -> Shards]]
  <2>1. MapOut(s) \in [Accounts -> Shards]
    BY MapsTyped
  <2>2. Account2Shard' = [Account2Shard EXCEPT ![s] = MapOut(s)]
    BY CommitUnfolds
  <2> QED BY <2>1, <2>2 DEF Typed
<1>6. Outing_Acc_Before_Announce' \in [Shards -> SUBSET Accounts]
  <2>1. Addrs(block[s].mig1) \subseteq Accounts
    BY BlockTyped, MoveTyped DEF Addrs
  <2> DEFINE o == (Outing_Acc_Before_Announce[s] \cup Addrs(block[s].mig1)) \ Deleted(s)
  <2>2. o \in SUBSET Accounts
    BY <2>1 DEF Typed
  <2>3. Outing_Acc_Before_Announce' = [Outing_Acc_Before_Announce EXCEPT ![s] = o]
    BY CommitUnfolds
  <2> HIDE DEF o
  <2> QED BY <2>2, <2>3 DEF Typed
<1>7. Outing_Before_Announce_TX_Pools' \in [Shards -> [Accounts -> Seq(Tx)]]
  <2> DEFINE f == [a \in Accounts |-> IF a \in Emptied(s) THEN <<>>
                                      ELSE Outing_Before_Announce_TX_Pools[s][a]]
  <2>1. f \in [Accounts -> Seq(Tx)]
    BY BlockTyped, EmptySeq
  <2>2. Outing_Before_Announce_TX_Pools' = [Outing_Before_Announce_TX_Pools EXCEPT ![s] = f]
    BY CommitUnfolds
  <2> HIDE DEF f
  <2> QED BY <2>1, <2>2 DEF Typed
<1>8. cCaP' \in SUBSET [dst : Shards, tx : Tx]
  BY CommitParts, CommitUnfolds DEF Typed
<1>9. BagToSet(relaying') \in SUBSET [shard : Shards, txs : Txs]
  BY CommitParts, CommitUnfolds, BagElements DEF Typed
<1>10. TXmig2s' \in SUBSET Moves
  <2>1. TXmig2s' = TXmig2s \cup block[s].mig1
    BY CommitUnfolds
  <2> QED BY <2>1, BlockTyped DEF Typed
<1>11. TXanns' \in SUBSET Ann
  <2>1. \A d \in (Shards \ {s}) \cup {Client} : \A m \in block[s].mig2 :
          [dst |-> d, addr |-> m.addr, to |-> s] \in Ann
    BY BlockTyped, MoveTyped DEF Ann
  <2> QED BY <2>1, CommitUnfolds DEF Typed
<1>12. UNCHANGED <<TXmig1s, cClient, cRelay, clientMap, unsent>>
  BY CommitUnfolds
<1> QED BY <1>2, <1>3, <1>4, <1>5, <1>6, <1>7, <1>8, <1>9, <1>10, <1>11, <1>12 DEF Typed

\* The shard that a message addressed to it enters, and what the relays hold.
LEMMA RelayTyped ==
    ASSUME Typed
    PROVE  /\ \A job \in BagToSet(relaying) :
                job.shard \in Shards /\ job.txs \in Txs /\ job.txs \in Seq(Tx)
           /\ \A m \in BagToSet(cRelay) : m.dst \in Shards /\ m.txs \in Txs /\ m.txs \in Seq(Tx)
           /\ \A m \in cClient \cup cCaP : m.dst \in Shards /\ m.tx \in Tx
  BY DEF Typed, Txs

\* The receipts of m that are queued, and those that go on.
Here(m) == {tx \in ToSet(m.txs) : QueuedHere(m.dst, tx)}
Queued(m) == Only(m.txs, Here(m))
Onward(m) == Only(m.txs, ToSet(m.txs) \ Here(m))

LEMMA RelayParts ==
    ASSUME NEW m, m.txs \in Seq(Tx)
    PROVE  /\ Queued(m) \in Seq(Tx) /\ Onward(m) \in Seq(Tx)
           /\ ToSet(Queued(m)) = Here(m) /\ ToSet(Onward(m)) = ToSet(m.txs) \ Here(m)
<1>1. Here(m) \subseteq ToSet(m.txs)
  BY DEF Here
<1> DEFINE W == ToSet(m.txs) \ Here(m)
<1>2. Queued(m) \in Seq(Tx) /\ ToSet(Queued(m)) = ToSet(m.txs) \cap Here(m)
  BY OnlyElements DEF Queued
<1>3. Onward(m) \in Seq(Tx) /\ ToSet(Onward(m)) = ToSet(m.txs) \cap W
  BY OnlyElements DEF Onward
<1> QED BY <1>1, <1>2, <1>3

LEMMA HandleRelayUnfolds ==
    ASSUME NEW m, handleRelay(m)
    PROVE  /\ cRelay' = cRelay (-) SetToBag({m})
           /\ Queue' = [Queue EXCEPT ![m.dst] = @ \o Queued(m)]
           /\ relaying' = relaying (+) Relaying(m.dst, Onward(m))
           /\ UNCHANGED <<migration, TXanns, block, Outing_Before_Announce_TX_Pools, cClient,
                          cCaP, clientMap, unsent, history>>
  BY DEF handleRelay, Queued, Onward, Here

\* The messages that TryRelay sends.
Targets(job) == {d \in Shards \ {job.shard} : Copies(job.shard, d, job.txs) # <<>>}
Sent(job) == {[dst |-> d, txs |-> Copies(job.shard, d, job.txs)] : d \in Targets(job)}

LEMMA SentTyped ==
    ASSUME NEW job, job.txs \in Seq(Tx)
    PROVE  Sent(job) \in SUBSET [dst : Shards, txs : Txs]
<1>1. \A d : Copies(job.shard, d, job.txs) \in Seq(Tx)
  BY CopiesElements
<1> QED BY <1>1 DEF Sent, Targets, Txs

LEMMA TryRelayUnfolds ==
    ASSUME NEW job, TryRelay(job)
    PROVE  /\ relaying' = relaying (-) SetToBag({job})
           /\ cRelay' = cRelay (+) SetToBag(Sent(job))
           /\ UNCHANGED <<migration, TXanns, block, Queue, Outing_Before_Announce_TX_Pools,
                          cClient, cCaP, clientMap, unsent, history>>
  BY DEF TryRelay, Sent, Targets

\* The types are kept by every step.
LEMMA TypedStep ==
    ASSUME Typed, [Next]_vars
    PROVE  Typed'
<1>1. ASSUME NEW p \in Payments, InjectTX(p) PROVE Typed'
  <2> DEFINE tx == [from |-> Payer[p], pays |-> <<p>>, IsRelay |-> FALSE]
  <2>1. Payer[p] \in Accounts
    BY TransactionsAssumption
  <2>2. tx \in Tx
    <3>1. <<p>> \in Seq(Payments) /\ <<p>> # <<>>
      OBVIOUS
    <3> QED BY <2>1, <3>1 DEF Tx
  <2>3. cClient' = cClient \cup {[dst |-> clientMap[Payer[p]], tx |-> tx]}
    BY <1>1 DEF InjectTX
  <2> HIDE DEF tx
  <2>4. cClient' \in SUBSET [dst : Shards, tx : Tx]
    BY <2>1, <2>2, <2>3 DEF Typed
  <2> QED BY <1>1, <2>4 DEF Typed, InjectTX, migration, history
<1>2. ASSUME NEW ann \in TXanns, HandleAnnounce(ann) PROVE Typed'
  <2>1. ann.addr \in Accounts /\ ann.to \in Shards
    BY DEF Typed, Ann
  <2> QED BY <1>2, <2>1 DEF Typed, HandleAnnounce, migration, history
<1>3. ASSUME NEW m \in cClient, handleTxFromClient(m) PROVE Typed'
  <2> DEFINE home == Account2Shard[m.dst][m.tx.from]
  <2>1. m.dst \in Shards /\ m.tx \in Tx /\ m.tx.from \in Accounts /\ m = [dst |-> m.dst, tx |-> m.tx]
    BY TxPays DEF Typed
  <2>2. home \in Shards
    BY <2>1 DEF Typed
  <2>3. \/ Queue' = [Queue EXCEPT ![home] = Append(@, m.tx)] /\ cClient' = cClient \ {m}
        \/ cClient' = (cClient \ {m}) \cup {[m EXCEPT !.dst = home]} /\ UNCHANGED Queue
    BY <1>3 DEF handleTxFromClient
  <2> HIDE DEF home
  <2>4. cClient' \in SUBSET [dst : Shards, tx : Tx]
    <3>1. [m EXCEPT !.dst = home] = [dst |-> home, tx |-> m.tx]
      BY <2>1
    <3>2. [m EXCEPT !.dst = home] \in [dst : Shards, tx : Tx]
      BY <2>1, <2>2, <3>1
    <3> QED BY <2>3, <3>2 DEF Typed
  <2>5. Queue' \in [Shards -> Seq(Tx)]
    <3>1. Append(Queue[home], m.tx) \in Seq(Tx)
      BY <2>1, <2>2, AppendElements DEF Typed
    <3> QED BY <2>2, <2>3, <3>1 DEF Typed
  <2> QED BY <1>3, <2>4, <2>5 DEF Typed, handleTxFromClient, migration, history
<1>4. ASSUME NEW m \in BagToSet(cRelay), handleRelay(m) PROVE Typed'
  <2>1. m.dst \in Shards /\ m.txs \in Seq(Tx)
    BY RelayTyped
  <2>2. Queued(m) \in Seq(Tx) /\ Onward(m) \in Seq(Tx)
    BY <2>1, RelayParts
  <2>3. Queue' \in [Shards -> Seq(Tx)]
    <3>1. Queue[m.dst] \o Queued(m) \in Seq(Tx)
      BY <2>1, <2>2, ConcatElements DEF Typed
    <3>2. Queue' = [Queue EXCEPT ![m.dst] = Queue[m.dst] \o Queued(m)]
      BY <1>4, HandleRelayUnfolds
    <3> QED BY <2>1, <3>1, <3>2 DEF Typed
  <2>4. BagToSet(relaying') \in SUBSET [shard : Shards, txs : Txs]
    <3>1. BagToSet(Relaying(m.dst, Onward(m))) \in SUBSET [shard : Shards, txs : Txs]
      BY <2>1, <2>2, RelayingElements DEF Txs
    <3>2. relaying' = relaying (+) Relaying(m.dst, Onward(m))
      BY <1>4, HandleRelayUnfolds
    <3> QED BY <3>1, <3>2, BagElements DEF Typed
  <2>5. BagToSet(cRelay') \in SUBSET [dst : Shards, txs : Txs]
    BY <1>4, HandleRelayUnfolds, BagElements DEF Typed
  <2>6. UNCHANGED <<migration, TXanns, block, Outing_Before_Announce_TX_Pools, cClient,
                    cCaP, clientMap, unsent, history>>
    BY <1>4, HandleRelayUnfolds
  <2> QED BY <2>3, <2>4, <2>5, <2>6 DEF Typed, migration, history
<1>5. ASSUME NEW job \in BagToSet(relaying), TryRelay(job) PROVE Typed'
  <2>1. job.txs \in Seq(Tx)
    BY RelayTyped
  <2>2. BagToSet(cRelay') \in SUBSET [dst : Shards, txs : Txs]
    <3>1. cRelay' = cRelay (+) SetToBag(Sent(job))
      BY <1>5, TryRelayUnfolds
    <3> QED BY <2>1, <3>1, SentTyped, BagElements DEF Typed
  <2>3. BagToSet(relaying') \in SUBSET [shard : Shards, txs : Txs]
    BY <1>5, TryRelayUnfolds, BagElements DEF Typed
  <2>4. UNCHANGED <<migration, TXanns, block, Queue, Outing_Before_Announce_TX_Pools,
                    cClient, cCaP, clientMap, unsent, history>>
    BY <1>5, TryRelayUnfolds
  <2> QED BY <2>2, <2>3, <2>4 DEF Typed, migration, history
<1>6. ASSUME NEW m \in cCaP, handleChangesAndPendings(m) PROVE Typed'
  <2>1. m.dst \in Shards /\ m.tx \in Tx
    BY RelayTyped
  <2>2. Append(Queue[m.dst], m.tx) \in Seq(Tx)
    BY <2>1, AppendElements DEF Typed
  <2>3. Queue' \in [Shards -> Seq(Tx)] /\ cCaP' \in SUBSET [dst : Shards, tx : Tx]
    BY <1>6, <2>1, <2>2 DEF Typed, handleChangesAndPendings
  <2> QED BY <1>6, <2>3 DEF Typed, handleChangesAndPendings, migration, history
<1>7. CASE UNCHANGED vars
  BY <1>7 DEF Typed, vars, migration, history
<1> QED BY <1>1, <1>2, <1>3, <1>4, <1>5, <1>6, <1>7, GenerateTyped, CommitTyped DEF Next

-----------------------------------------------------------------------------
(* The moves *)

\* Steps that change neither the maps nor the migration transactions.
LEMMA MovesStand ==
    ASSUME MovesGoOn, UNCHANGED <<migration, TXanns, block, clientMap>>
    PROVE  MovesGoOn'
  BY DEF MovesGoOn, Announces, AtDestination, Arrived, migration

LEMMA MovesStep ==
    ASSUME Typed, MovesGoOn, [Next]_vars
    PROVE  MovesGoOn'
<1>1. ASSUME NEW ann \in TXanns, HandleAnnounce(ann) PROVE MovesGoOn'
  <2>1. ann.addr \in Accounts /\ AtDestination(ann.addr, ann.to)
    BY DEF Typed, Ann, MovesGoOn, Announces
  <2>2. \A a \in Accounts : clientMap'[a] = IF a = ann.addr THEN ann.to ELSE clientMap[a]
    BY <1>1, <2>1 DEF HandleAnnounce, Typed
  <2>3. \A a, s : AtDestination(a, s)' = AtDestination(a, s)
    BY <1>1 DEF HandleAnnounce, AtDestination, Arrived, migration
  <2>4. \A a \in Accounts : (clientMap[a] = Genesis[a] \/ AtDestination(a, clientMap[a]))'
    BY <2>1, <2>2, <2>3 DEF MovesGoOn
  <2>5. Account2Shard' = Account2Shard /\ block' = block /\ TXanns' \subseteq TXanns
    BY <1>1 DEF HandleAnnounce, migration
  <2> QED BY <2>3, <2>4, <2>5 DEF MovesGoOn, Announces
<1>2. ASSUME NEW s \in Shards, GenerateBlock(s) PROVE MovesGoOn'
  <2>1. PICK mig1, mig2, anns, n : Packs(s, mig1, mig2, anns, n)
    BY <1>2, GeneratePacks
  <2>2. /\ Account2Shard' = Account2Shard /\ clientMap' = clientMap /\ TXanns' \subseteq TXanns
        /\ \A ann \in anns : ann \in TXanns /\ ann.dst = s
        /\ \A m \in mig1 : m.from = s
        /\ \A m \in mig2 : m.to = s
    BY <2>1 DEF Packs
  <2>3. \A r \in Shards : IF r = s THEN block'[r].mig1 = mig1 /\ block'[r].mig2 = mig2 /\ block'[r].anns = anns
                                   ELSE block'[r] = block[r]
    BY <2>1 DEF Packs, Typed
  <2>4. \A a, r : AtDestination(a, r)' = AtDestination(a, r)
    BY <2>2 DEF AtDestination, Arrived
  <2> QED BY <2>2, <2>3, <2>4 DEF MovesGoOn, Announces
<1>3. ASSUME NEW s \in Shards, commit1(s) PROVE MovesGoOn'
  <2>1. \A m \in Moves : Arrived(m) => Arrived(m)'
    BY <1>3, DestinationKeeps
  <2>2. \A m \in block[s].mig2 : m \in Moves /\ m.to = s /\ Arrived(m)'
    BY <1>3, DestinationKeeps, BlockTyped DEF MovesGoOn
  <2>3. \A a, r : AtDestination(a, r) => AtDestination(a, r)'
    BY <2>1 DEF AtDestination
  <2>4. \A a \in Addrs(block[s].mig2) : AtDestination(a, s)'
    BY <2>2 DEF AtDestination, Addrs
  <2>5. ASSUME NEW ann \in TXanns' PROVE Announces(ann)'
    <3>1. CASE ann \in TXanns
      BY <2>3, <3>1 DEF MovesGoOn, Announces
    <3>2. CASE ann \notin TXanns
      <4>1. PICK d \in (Shards \ {s}) \cup {Client}, m \in block[s].mig2 :
              ann = [dst |-> d, addr |-> m.addr, to |-> s]
        <5>1. TXanns' = TXanns \cup
                {[dst |-> d, addr |-> m.addr, to |-> s] : d \in (Shards \ {s}) \cup {Client}, m \in block[s].mig2}
          BY <1>3, CommitUnfolds
        <5> QED BY <2>5, <3>2, <5>1
      <4>2. d # s
        BY TransactionsAssumption
      <4>3. ann.addr \in Addrs(block[s].mig2) /\ ann.to = s /\ ann.dst # s
        BY <4>1, <4>2 DEF Addrs
      <4> QED BY <2>4, <4>3 DEF Announces
    <3> QED BY <3>1, <3>2
  <2>6. ASSUME NEW r \in Shards
        PROVE  /\ \A ann \in block'[r].anns : ann.dst = r /\ Announces(ann)'
               /\ \A m \in block'[r].mig1 : m.from = r
               /\ \A m \in block'[r].mig2 : m.to = r
    <3>1. block' = [block EXCEPT ![s] = NoBlock]
      BY <1>3, CommitUnfolds
    <3>2. CASE r = s
      BY <3>1, <3>2 DEF Typed, NoBlock
    <3>3. CASE r # s
      <4>1. block'[r] = block[r]
        BY <3>1, <3>3 DEF Typed
      <4> QED BY <2>3, <4>1 DEF MovesGoOn, Announces
    <3> QED BY <3>2, <3>3
  <2>7. ASSUME NEW r \in Shards, NEW a \in Accounts
        PROVE  (Account2Shard[r][a] = Genesis[a] \/ AtDestination(a, Account2Shard[r][a]))'
    <3>1. Account2Shard' = [Account2Shard EXCEPT ![s] = MapOut(s)]
      BY <1>3, CommitUnfolds
    <3>2. CASE r # s
      <4>1. Account2Shard'[r][a] = Account2Shard[r][a]
        BY <3>1, <3>2 DEF Typed
      <4> QED BY <2>1, <4>1 DEF MovesGoOn, AtDestination
    <3>3. CASE r = s
      <4>1. Account2Shard'[r][a] = MapOut(s)[a]
        BY <3>1, <3>3 DEF Typed
      <4>2. CASE a \in Addrs(block[s].anns)
        <5>1. PICK ann \in block[s].anns : ann.addr = a /\ MapOut(s)[a] = ann.to
          BY <4>2, MapsTyped
        <5>2. AtDestination(a, ann.to)
          BY <5>1 DEF MovesGoOn, Announces
        <5> QED BY <2>1, <4>1, <5>1, <5>2 DEF AtDestination
      <4>3. CASE a \notin Addrs(block[s].anns)
        <5>1. MapOut(s)[a] = MapIn(s)[a]
          BY <4>3, MapsTyped
        <5>2. MapIn(s)[a] = IF a \in Addrs(block[s].mig2) THEN s ELSE Account2Shard[s][a]
          BY DEF MapIn
        <5>3. CASE a \in Addrs(block[s].mig2)
          BY <2>4, <4>1, <5>1, <5>2, <5>3 DEF AtDestination
        <5>4. CASE a \notin Addrs(block[s].mig2)
          BY <2>1, <4>1, <5>1, <5>2, <5>4 DEF MovesGoOn, AtDestination
        <5> QED BY <5>3, <5>4
      <4> QED BY <4>2, <4>3
    <3> QED BY <3>2, <3>3
  <2>8. \A a \in Accounts : (clientMap[a] = Genesis[a] \/ AtDestination(a, clientMap[a]))'
    <3>1. clientMap' = clientMap
      BY <1>3, CommitUnfolds
    <3> QED BY <2>3, <3>1 DEF MovesGoOn
  <2> QED BY <2>5, <2>6, <2>7, <2>8 DEF MovesGoOn
<1>4. ASSUME \/ \E p \in Payments : InjectTX(p)
             \/ \E m \in cClient : handleTxFromClient(m)
             \/ \E m \in BagToSet(cRelay) : handleRelay(m)
             \/ \E job \in BagToSet(relaying) : TryRelay(job)
             \/ \E m \in cCaP : handleChangesAndPendings(m)
             \/ UNCHANGED vars
      PROVE  MovesGoOn'
  <2>1. UNCHANGED <<migration, TXanns, block, clientMap>>
    BY <1>4 DEF InjectTX, handleTxFromClient, handleRelay, TryRelay, handleChangesAndPendings, vars
  <2> QED BY <2>1, MovesStand
<1> QED BY <1>1, <1>2, <1>3, <1>4 DEF Next

\* A destination keeps its account, whatever happens.
LEMMA DestinationStays ==
    ASSUME Typed, MovesGoOn, [Next]_vars, NEW m \in Moves, Arrived(m)
    PROVE  Arrived(m)'
<1>1. ASSUME NEW s \in Shards, commit1(s) PROVE Arrived(m)'
  BY <1>1, DestinationKeeps
<1>2. ASSUME NEW s \in Shards, GenerateBlock(s) PROVE Arrived(m)'
  <2>1. Account2Shard' = Account2Shard
    BY <1>2, GeneratePacks DEF Packs
  <2> QED BY <2>1 DEF Arrived
<1>3. ASSUME \/ \E p \in Payments : InjectTX(p)
             \/ \E ann \in TXanns : HandleAnnounce(ann)
             \/ \E n \in cClient : handleTxFromClient(n)
             \/ \E n \in BagToSet(cRelay) : handleRelay(n)
             \/ \E job \in BagToSet(relaying) : TryRelay(job)
             \/ \E n \in cCaP : handleChangesAndPendings(n)
             \/ UNCHANGED vars
      PROVE  Arrived(m)'
  <2>1. Account2Shard' = Account2Shard
    BY <1>3 DEF InjectTX, HandleAnnounce, handleTxFromClient, handleRelay, TryRelay,
                handleChangesAndPendings, vars, migration
  <2> QED BY <2>1 DEF Arrived
<1> QED BY <1>1, <1>2, <1>3 DEF Next

-----------------------------------------------------------------------------
(* Payers wait at home *)

\* What follows an account to another shard is a receipt, or paid by the account.
LEMMA FollowersPaid ==
    ASSUME Typed, MovesGoOn, ReceiptsTravel, NEW s \in Shards, NEW m \in Following(s)
    PROVE  m.tx.IsRelay \/ AtDestination(m.tx.from, m.dst)
<1>1. PICK a \in Deleted(s) : /\ Pendings(s, a) # <<>>
                              /\ m = [dst |-> MapOut(s)[a], tx |-> Merged(Pendings(s, a))]
  BY DEF Following
<1>2. a \in Accounts /\ a \in Addrs(block[s].anns)
  BY MapsTyped DEF Deleted
<1>3. AtDestination(a, MapOut(s)[a])
  <2>1. PICK ann \in block[s].anns : ann.addr = a /\ MapOut(s)[a] = ann.to
    BY <1>2, MapsTyped
  <2> QED BY <2>1 DEF MovesGoOn, Announces
<1>4. Pendings(s, a) \in Txs
  BY <1>1, <1>2, PendingElements DEF Txs
<1> DEFINE x == Pendings(s, a)[1]
<1>5. x \in ToSet(Pendings(s, a)) /\ m.tx.from = x.from /\ m.tx.IsRelay = x.IsRelay /\ m.dst = MapOut(s)[a]
  BY <1>1, <1>4, MergedElements
<1> HIDE DEF x
<1>6. CASE x \in ToSet(Outing_Before_Announce_TX_Pools[s][a])
  BY <1>2, <1>3, <1>5, <1>6 DEF ReceiptsTravel
<1>7. CASE a \in Follows(s, x)
  BY <1>3, <1>5, <1>7 DEF Follows, FollowsPayers
<1> QED BY <1>2, <1>5, <1>6, <1>7, PendingElements

LEMMA TravelStep ==
    ASSUME Typed, MovesGoOn, ReceiptsTravel, [Next]_vars
    PROVE  ReceiptsTravel'
<1> DEFINE Jobs == \A job \in BagToSet(relaying) : \A tx \in ToSet(job.txs) : tx.IsRelay
           Msgs == \A m \in BagToSet(cRelay) : \A tx \in ToSet(m.txs) : tx.IsRelay
           Caps == \A m \in cCaP : m.tx.IsRelay \/ AtDestination(m.tx.from, m.dst)
           Pools == \A s \in Shards : \A a \in Accounts :
             \A tx \in ToSet(Outing_Before_Announce_TX_Pools[s][a]) : tx.from = a
<1>0. Jobs /\ Msgs /\ Caps /\ Pools
  BY DEF ReceiptsTravel
<1>c. ASSUME NEW m \in cCaP PROVE (m.tx.IsRelay \/ AtDestination(m.tx.from, m.dst))'
  BY <1>0, DestinationStays DEF AtDestination
<1>1. ASSUME NEW m \in BagToSet(cRelay), handleRelay(m) PROVE Jobs' /\ Msgs' /\ Caps' /\ Pools'
  <2>1. m.txs \in Seq(Tx)
    BY RelayTyped
  <2>2. ToSet(Onward(m)) \subseteq ToSet(m.txs)
    BY <2>1, RelayParts
  <2>3. \A job \in BagToSet(relaying') : job \in BagToSet(relaying) \/ job.txs = Onward(m)
    <3>1. relaying' = relaying (+) Relaying(m.dst, Onward(m))
      BY <1>1, HandleRelayUnfolds
    <3> QED BY <3>1, RelayingElements, BagElements
  <2>4. BagToSet(cRelay') \subseteq BagToSet(cRelay)
    BY <1>1, HandleRelayUnfolds, BagElements
  <2>5. cCaP' = cCaP /\ Outing_Before_Announce_TX_Pools' = Outing_Before_Announce_TX_Pools
    BY <1>1, HandleRelayUnfolds
  <2>6. Jobs'
    BY <1>0, <2>2, <2>3
  <2> QED BY <1>0, <1>c, <2>4, <2>5, <2>6
<1>2. ASSUME NEW job \in BagToSet(relaying), TryRelay(job) PROVE Jobs' /\ Msgs' /\ Caps' /\ Pools'
  <2>1. job.txs \in Seq(Tx)
    BY RelayTyped
  <2>2. \A m \in BagToSet(cRelay') : m \in BagToSet(cRelay) \/ m \in Sent(job)
    <3>1. cRelay' = cRelay (+) SetToBag(Sent(job))
      BY <1>2, TryRelayUnfolds
    <3> QED BY <3>1, BagElements
  <2>3. \A m \in Sent(job) : ToSet(m.txs) \subseteq ToSet(job.txs)
    BY <2>1, CopiesElements DEF Sent
  <2>4. BagToSet(relaying') \subseteq BagToSet(relaying)
    BY <1>2, TryRelayUnfolds, BagElements
  <2>5. cCaP' = cCaP /\ Outing_Before_Announce_TX_Pools' = Outing_Before_Announce_TX_Pools
    BY <1>2, TryRelayUnfolds
  <2>6. Msgs'
    BY <1>0, <2>2, <2>3
  <2> QED BY <1>0, <1>c, <2>4, <2>5, <2>6
<1>3. ASSUME NEW s \in Shards, GenerateBlock(s) PROVE Jobs' /\ Msgs' /\ Caps' /\ Pools'
  <2>1. PICK mig1, mig2, anns, n : Packs(s, mig1, mig2, anns, n)
    BY <1>3, GeneratePacks
  <2>2. relaying' = relaying /\ cRelay' = cRelay /\ cCaP' = cCaP
    BY <2>1 DEF Packs
  <2> DEFINE txs == SubSeq(Queue[s], 1, n)
  <2>3. txs \in Seq(Tx)
    BY <2>1, SplitElements, BlockTyped DEF Packs
  <2>4. \A r \in Shards : \A a \in Accounts : Outing_Before_Announce_TX_Pools'[r][a] =
            IF r = s THEN Outing_Before_Announce_TX_Pools[s][a] \o LockedOf(s, a, txs)
                     ELSE Outing_Before_Announce_TX_Pools[r][a]
    BY <2>1 DEF Packs, Typed
  <2> HIDE DEF txs
  <2>5. ASSUME NEW r \in Shards, NEW a \in Accounts, NEW tx \in ToSet(Outing_Before_Announce_TX_Pools'[r][a])
        PROVE  tx.from = a
    <3>1. LockedOf(s, a, txs) \in Seq(Tx) /\ \A x \in ToSet(LockedOf(s, a, txs)) : x.from = a
      BY <2>3, LockedElements
    <3>2. Outing_Before_Announce_TX_Pools[s][a] \in Seq(Tx)
      BY BlockTyped
    <3>3. tx \in ToSet(Outing_Before_Announce_TX_Pools[r][a]) \/ tx \in ToSet(LockedOf(s, a, txs))
      BY <2>4, <2>5, <3>1, <3>2, ConcatElements
    <3> QED BY <1>0, <3>1, <3>3
  <2> QED BY <1>0, <1>c, <2>2, <2>5
<1>4. ASSUME NEW s \in Shards, commit1(s) PROVE Jobs' /\ Msgs' /\ Caps' /\ Pools'
  <2>1. Jobs'
    <3>1. relaying' = relaying (+) Relaying(s, AsReceipts(ToRelay(s)))
      BY <1>4, CommitUnfolds
    <3>2. \A job \in BagToSet(relaying') : job \in BagToSet(relaying) \/ job.txs = AsReceipts(ToRelay(s))
      BY <3>1, RelayingElements, BagElements
    <3>3. \A x \in ToSet(AsReceipts(ToRelay(s))) : x.IsRelay
      BY CommitParts, ReceiptElements
    <3> QED BY <1>0, <3>2, <3>3
  <2>2. Msgs'
    BY <1>0, <1>4, CommitUnfolds
  <2>3. Caps'
    <3>1. cCaP' = cCaP \cup Following(s)
      BY <1>4, CommitUnfolds
    <3>2. ASSUME NEW m \in Following(s) PROVE (m.tx.IsRelay \/ AtDestination(m.tx.from, m.dst))'
      BY FollowersPaid, DestinationStays DEF AtDestination
    <3> QED BY <1>c, <3>1, <3>2
  <2>4. Pools'
    <3>1. Outing_Before_Announce_TX_Pools' =
                [Outing_Before_Announce_TX_Pools EXCEPT ![s] =
                   [a \in Accounts |-> IF a \in Emptied(s) THEN <<>> ELSE @[a]]]
      BY <1>4, CommitUnfolds
    <3>2. \A r \in Shards : \A a \in Accounts :
            \/ Outing_Before_Announce_TX_Pools'[r][a] = Outing_Before_Announce_TX_Pools[r][a]
            \/ Outing_Before_Announce_TX_Pools'[r][a] = <<>>
      BY <3>1 DEF Typed
    <3> QED BY <1>0, <3>2, NoElements
  <2> QED BY <2>1, <2>2, <2>3, <2>4
<1>5. ASSUME \/ \E p \in Payments : InjectTX(p)
             \/ \E ann \in TXanns : HandleAnnounce(ann)
             \/ \E n \in cClient : handleTxFromClient(n)
             \/ \E n \in cCaP : handleChangesAndPendings(n)
             \/ UNCHANGED vars
      PROVE  Jobs' /\ Msgs' /\ Caps' /\ Pools'
  <2>1. /\ relaying' = relaying /\ cRelay' = cRelay /\ cCaP' \subseteq cCaP
        /\ Outing_Before_Announce_TX_Pools' = Outing_Before_Announce_TX_Pools
    BY <1>5 DEF InjectTX, HandleAnnounce, handleTxFromClient, handleChangesAndPendings, vars
  <2> QED BY <1>0, <1>c, <2>1
<1> QED BY <1>1, <1>2, <1>3, <1>4, <1>5 DEF Next, ReceiptsTravel

\* What waits at a shard.
Waiting(s) ==
    ToSet(Queue[s]) \cup ToSet(block[s].txs)
        \cup UNION {ToSet(Outing_Before_Announce_TX_Pools[s][a]) : a \in Accounts}

\* A shard keeps an account unless its block gives it up.
LEMMA OwnStays ==
    ASSUME Typed, NEW s \in Shards, commit1(s), NEW r \in Shards, NEW a \in Own(r),
           r # s \/ a \notin Deleted(s)
    PROVE  a \in Own(r)'
<1>1. a \in Accounts /\ Account2Shard[r][a] = r
  BY DEF Own
<1>2. Account2Shard' = [Account2Shard EXCEPT ![s] = MapOut(s)]
  BY CommitUnfolds
<1>3. CASE r # s
  BY <1>1, <1>2, <1>3 DEF Typed, Own
<1>4. CASE r = s
  <2>1. MapIn(s)[a] = s
    BY <1>1, <1>4 DEF MapIn
  <2>2. a \notin Addrs(block[s].anns)
    BY <1>4, <2>1 DEF Deleted
  <2>3. MapOut(s)[a] = s
    BY <1>1, <2>1, <2>2, MapsTyped
  <2>4. Account2Shard'[r][a] = s
    BY <1>2, <1>4, <2>3 DEF Typed
  <2> QED BY <1>1, <1>4, <2>4 DEF Own
<1> QED BY <1>3, <1>4

LEMMA WaitStep ==
    ASSUME IndInv, [Next]_vars
    PROVE  PayersWaitAtHome'
<1> USE DEF IndInv
<1>0. \A s \in Shards : \A tx \in Waiting(s) : tx.IsRelay \/ tx.from \in Own(s)
  BY DEF PayersWaitAtHome, Waiting
<1> SUFFICES ASSUME NEW r \in Shards, NEW tx \in Waiting(r)'
             PROVE  tx.IsRelay \/ tx.from \in Own(r)'
  BY DEF PayersWaitAtHome, Waiting
<1> DEFINE Goal == tx.IsRelay \/ tx.from \in Own(r)'
<1>q. Queue[r] \in Seq(Tx)
  BY BlockTyped
\* A handler appends what it accepts to one queue.
<1>a. ASSUME NEW new, Account2Shard' = Account2Shard, block' = block,
             Outing_Before_Announce_TX_Pools' = Outing_Before_Announce_TX_Pools,
             ToSet(Queue'[r]) \subseteq ToSet(Queue[r]) \cup new,
             \A x \in new : x.IsRelay \/ x.from \in Own(r)
      PROVE  Goal
  <2>1. tx \in Waiting(r) \/ tx \in new
    BY <1>a DEF Waiting
  <2>2. Own(r)' = Own(r)
    BY <1>a DEF Own
  <2> QED BY <1>0, <1>a, <2>1, <2>2
<1>1. ASSUME NEW m \in cClient, handleTxFromClient(m) PROVE Goal
  <2> DEFINE new == IF Account2Shard[m.dst][m.tx.from] = m.dst /\ m.dst = r THEN {m.tx} ELSE {}
  <2>1. m.dst \in Shards /\ m.tx \in Tx /\ m.tx.from \in Accounts
    BY RelayTyped, TxPays
  <2>2. \A x \in new : x.from \in Own(r)
    BY <2>1 DEF Own
  <2>3. /\ Account2Shard' = Account2Shard /\ block' = block
        /\ Outing_Before_Announce_TX_Pools' = Outing_Before_Announce_TX_Pools
    BY <1>1 DEF handleTxFromClient, migration
  <2>4. ToSet(Queue'[r]) \subseteq ToSet(Queue[r]) \cup new
    <3>1. CASE Account2Shard[m.dst][m.tx.from] = m.dst /\ m.dst = r
      <4>1. Queue'[r] = Append(Queue[r], m.tx)
        BY <1>1, <3>1 DEF handleTxFromClient, Typed
      <4> QED BY <1>q, <2>1, <3>1, <4>1, AppendElements
    <3>2. CASE ~(Account2Shard[m.dst][m.tx.from] = m.dst /\ m.dst = r)
      <4>1. Queue'[r] = Queue[r]
        BY <1>1, <2>1, <3>2 DEF handleTxFromClient, Typed
      <4> QED BY <4>1
    <3> QED BY <3>1, <3>2
  <2> HIDE DEF new
  <2> QED BY <1>a, <2>2, <2>3, <2>4
<1>2. ASSUME NEW m \in BagToSet(cRelay), handleRelay(m) PROVE Goal
  <2>1. m.dst \in Shards /\ m.txs \in Seq(Tx)
    BY RelayTyped
  <2>2. Queued(m) \in Seq(Tx) /\ ToSet(Queued(m)) \subseteq ToSet(m.txs)
    BY <2>1, RelayParts DEF Here
  <2>3. \A x \in ToSet(m.txs) : x.IsRelay
    BY DEF ReceiptsTravel
  <2>4. /\ Account2Shard' = Account2Shard /\ block' = block
        /\ Outing_Before_Announce_TX_Pools' = Outing_Before_Announce_TX_Pools
    BY <1>2, HandleRelayUnfolds DEF migration
  <2>5. ToSet(Queue'[r]) \subseteq ToSet(Queue[r]) \cup ToSet(m.txs)
    <3>1. Queue' = [Queue EXCEPT ![m.dst] = @ \o Queued(m)]
      BY <1>2, HandleRelayUnfolds
    <3>2. Queue'[r] = IF r = m.dst THEN Queue[r] \o Queued(m) ELSE Queue[r]
      BY <3>1 DEF Typed
    <3> QED BY <1>q, <2>2, <3>2, ConcatElements
  <2> QED BY <1>a, <2>3, <2>4, <2>5
<1>3. ASSUME NEW m \in cCaP, handleChangesAndPendings(m) PROVE Goal
  <2> DEFINE new == IF m.dst = r THEN {m.tx} ELSE {}
  <2>1. m.dst \in Shards /\ m.tx \in Tx /\ m.tx.from \in Accounts
    BY RelayTyped, TxPays
  <2>2. \A x \in new : x.IsRelay \/ x.from \in Own(r)
    BY <2>1 DEF ReceiptsTravel, AtDestination, Arrived, Own
  <2>3. /\ Account2Shard' = Account2Shard /\ block' = block
        /\ Outing_Before_Announce_TX_Pools' = Outing_Before_Announce_TX_Pools
    BY <1>3 DEF handleChangesAndPendings, migration
  <2>4. ToSet(Queue'[r]) \subseteq ToSet(Queue[r]) \cup new
    <3>1. Queue'[r] = IF m.dst = r THEN Append(Queue[r], m.tx) ELSE Queue[r]
      BY <1>3 DEF handleChangesAndPendings, Typed
    <3> QED BY <1>q, <2>1, <3>1, AppendElements
  <2> HIDE DEF new
  <2> QED BY <1>a, <2>2, <2>3, <2>4
<1>4. ASSUME NEW s \in Shards, GenerateBlock(s) PROVE Goal
  <2>1. PICK mig1, mig2, anns, n : Packs(s, mig1, mig2, anns, n)
    BY <1>4, GeneratePacks
  <2>2. Own(r)' = Own(r)
    BY <2>1 DEF Packs, Own
  <2>3. tx \in Waiting(r)
    <3>1. CASE r # s
      <4>1. /\ Queue'[r] = Queue[r] /\ block'[r] = block[r]
            /\ Outing_Before_Announce_TX_Pools'[r] = Outing_Before_Announce_TX_Pools[r]
        BY <2>1, <3>1 DEF Packs, Typed
      <4> QED BY <4>1 DEF Waiting
    <3>2. CASE r = s
      <4> DEFINE txs == SubSeq(Queue[s], 1, n)
                 rest == SubSeq(Queue[s], n + 1, Len(Queue[s]))
      <4>1. /\ txs \in Seq(Tx) /\ rest \in Seq(Tx)
            /\ ToSet(txs) \subseteq ToSet(Queue[r]) /\ ToSet(rest) \subseteq ToSet(Queue[r])
        BY <1>q, <2>1, <3>2, SplitElements DEF Packs
      <4>2. Queue'[r] = rest /\ block'[r].txs = txs
        BY <2>1, <3>2 DEF Packs, Typed
      <4>3. \A a \in Accounts : Outing_Before_Announce_TX_Pools'[r][a] =
              Outing_Before_Announce_TX_Pools[r][a] \o LockedOf(r, a, txs)
        BY <2>1, <3>2 DEF Packs, Typed
      <4> HIDE DEF txs, rest
      <4>4. ASSUME NEW a \in Accounts, tx \in ToSet(Outing_Before_Announce_TX_Pools'[r][a])
            PROVE  tx \in ToSet(Outing_Before_Announce_TX_Pools[r][a]) \/ tx \in ToSet(Queue[r])
        <5>1. LockedOf(r, a, txs) \in Seq(Tx) /\ \A x \in ToSet(LockedOf(r, a, txs)) : x \in ToSet(txs)
          BY <4>1, LockedElements
        <5>2. Outing_Before_Announce_TX_Pools[r][a] \in Seq(Tx)
          BY BlockTyped
        <5>3. ToSet(Outing_Before_Announce_TX_Pools'[r][a]) =
                ToSet(Outing_Before_Announce_TX_Pools[r][a]) \cup ToSet(LockedOf(r, a, txs))
          <6> DEFINE old == Outing_Before_Announce_TX_Pools[r][a]
                     new == LockedOf(r, a, txs)
          <6>1. ToSet(old \o new) = ToSet(old) \cup ToSet(new)
            BY <5>1, <5>2, ConcatElements
          <6> QED BY <4>3, <6>1
        <5> QED BY <4>1, <4>4, <5>1, <5>3
      <4> QED BY <4>1, <4>2, <4>4 DEF Waiting
    <3> QED BY <3>1, <3>2
  <2> QED BY <1>0, <2>2, <2>3
<1>5. ASSUME NEW s \in Shards, commit1(s) PROVE Goal
  <2>1. CASE r # s
    <3>1. /\ Queue'[r] = Queue[r] /\ block'[r] = block[r]
          /\ Outing_Before_Announce_TX_Pools'[r] = Outing_Before_Announce_TX_Pools[r]
      <4>1. /\ Queue' = [Queue EXCEPT ![s] = Staying(s)] /\ block' = [block EXCEPT ![s] = NoBlock]
            /\ Outing_Before_Announce_TX_Pools' =
                 [Outing_Before_Announce_TX_Pools EXCEPT ![s] =
                    [a \in Accounts |-> IF a \in Emptied(s) THEN <<>> ELSE @[a]]]
        BY <1>5, CommitUnfolds
      <4> QED BY <2>1, <4>1 DEF Typed
    <3>2. tx \in Waiting(r)
      BY <3>1 DEF Waiting
    <3> QED BY <1>0, <1>5, <2>1, <3>2, OwnStays
  <2>2. CASE r = s
    <3>1. tx \in Waiting(r) /\ (tx.IsRelay \/ tx.from \notin Deleted(s))
      <4>1. CASE tx \in ToSet(Queue'[r])
        <5>1. Queue' = [Queue EXCEPT ![s] = Staying(s)]
          BY <1>5, CommitUnfolds
        <5>2. Queue'[r] = Staying(s)
          BY <2>2, <5>1 DEF Typed
        <5>3. tx \in ToSet(Queue[r]) /\ Follows(s, tx) = {}
          BY <2>2, <4>1, <5>2, CommitParts
        <5> QED BY <5>3 DEF Waiting, Follows, FollowsPayers
      <4>2. CASE tx \in ToSet(block'[r].txs)
        <5>1. block' = [block EXCEPT ![s] = NoBlock]
          BY <1>5, CommitUnfolds
        <5>2. block'[r].txs = <<>>
          BY <2>2, <5>1 DEF Typed, NoBlock
        <5> QED BY <4>2, <5>2, NoElements
      <4>3. ASSUME NEW a \in Accounts, tx \in ToSet(Outing_Before_Announce_TX_Pools'[r][a])
            PROVE  tx \in Waiting(r) /\ tx.from \notin Deleted(s)
        <5>1. Outing_Before_Announce_TX_Pools' =
                [Outing_Before_Announce_TX_Pools EXCEPT ![s] =
                   [b \in Accounts |-> IF b \in Emptied(s) THEN <<>> ELSE @[b]]]
          BY <1>5, CommitUnfolds
        <5>2. Outing_Before_Announce_TX_Pools'[r][a] =
                IF a \in Emptied(s) THEN <<>> ELSE Outing_Before_Announce_TX_Pools[r][a]
          BY <2>2, <5>1 DEF Typed
        <5>3. a \notin Emptied(s) /\ tx \in ToSet(Outing_Before_Announce_TX_Pools[r][a])
          BY <4>3, <5>2, NoElements
        <5>4. tx.from = a
          BY <5>3 DEF ReceiptsTravel
        <5> QED BY <5>3, <5>4 DEF Waiting, Emptied
      <4> QED BY <4>1, <4>2, <4>3 DEF Waiting
    <3> QED BY <1>0, <1>5, <3>1, OwnStays
  <2> QED BY <2>1, <2>2
<1>6. ASSUME \/ \E p \in Payments : InjectTX(p)
             \/ \E ann \in TXanns : HandleAnnounce(ann)
             \/ \E job \in BagToSet(relaying) : TryRelay(job)
             \/ UNCHANGED vars
      PROVE  Goal
  <2>1. /\ Account2Shard' = Account2Shard /\ block' = block /\ Queue' = Queue
        /\ Outing_Before_Announce_TX_Pools' = Outing_Before_Announce_TX_Pools
    BY <1>6 DEF InjectTX, HandleAnnounce, TryRelay, vars, migration
  <2>2. tx \in Waiting(r) /\ Own(r)' = Own(r)
    BY <2>1 DEF Waiting, Own
  <2> QED BY <1>0, <2>2
<1> QED BY <1>1, <1>2, <1>3, <1>4, <1>5, <1>6 DEF Next

LEMMA InitIndInv ==
    ASSUME Init
    PROVE  IndInv
<1>1. Typed
  BY InitTyped
<1>2. MovesGoOn
  BY DEF Init, MovesGoOn, NoBlock
<1>3. ReceiptsTravel
  BY BagElements, NoElements DEF Init, ReceiptsTravel
<1>4. PayersWaitAtHome
  BY NoElements DEF Init, PayersWaitAtHome, NoBlock
<1> QED BY <1>1, <1>2, <1>3, <1>4 DEF IndInv

LEMMA IndInvAlways ==
    Spec => []IndInv
<1>1. Init => IndInv
  BY InitIndInv
<1>2. IndInv /\ [Next]_vars => IndInv'
  BY TypedStep, MovesStep, TravelStep, WaitStep DEF IndInv
<1> QED BY <1>1, <1>2, PTL DEF Spec

\* Every map, queue, pool and message keeps its type, and nobody relays nothing.
THEOREM TypeCorrect ==
    Spec => []TypeOK
<1>1. Typed => TypeOK
  <2> SUFFICES ASSUME Typed PROVE TypeOK
    OBVIOUS
  <2>1. \A tx \in Tx : IsTx(tx)
    BY TxPays, ElementsOf DEF IsTx
  <2>2. \A txs \in Seq(Tx) : AreTxs(txs)
    BY <2>1, ElementsOf DEF AreTxs
  <2>3. \A txs \in Txs : AreTxs(txs) /\ txs # <<>>
    BY <2>2 DEF Txs
  <2>4. \A s \in Shards : /\ AreTxs(Queue[s]) /\ AreTxs(block[s].txs)
                          /\ \A a \in Accounts : AreTxs(Outing_Before_Announce_TX_Pools[s][a])
    BY <2>2, BlockTyped
  <2>5. /\ \A job \in BagToSet(relaying) : job.shard \in Shards /\ job.txs # <<>> /\ AreTxs(job.txs)
        /\ \A m \in BagToSet(cRelay) : m.dst \in Shards /\ m.txs # <<>> /\ AreTxs(m.txs)
        /\ \A m \in cClient \cup cCaP : m.dst \in Shards /\ IsTx(m.tx)
    BY <2>1, <2>3, RelayTyped
  <2> QED BY <2>4, <2>5 DEF Typed, TypeOK, Ann
<1> QED BY <1>1, IndInvAlways, PTL DEF IndInv

\* A payment only waits where its payer is at home, in the queue, in the lock
\* pool and in the block under way of every shard, however the announcements of
\* moves, the blocks and the messages interleave
\* (handleTxFromClient, handleAnns, handleChangesAndPendings, FetchTxs2Pack).
THEOREM PayersAlwaysWaitAtHome ==
    Spec => []PayersWaitAtHome
  BY IndInvAlways, PTL DEF IndInv

-----------------------------------------------------------------------------
(* The shapes of transactions *)

Movers == Addrs(Moves)

\* A transaction with the payments of one payer: one payment, unless the payer
\* moves and its payments were merged.
Plain(tx) ==
    /\ \A i \in DOMAIN tx.pays : Payer[tx.pays[i]] = tx.from
    /\ tx.from \in Movers \/ Len(tx.pays) = 1

\* Receipts of one payee, merged when the payee left for shard s.
GatheredAt(tx, s) ==
    /\ tx.IsRelay
    /\ \A i \in DOMAIN tx.pays : Payee[tx.pays[i]] = Payee[tx.pays[1]]
    /\ \E i \in DOMAIN tx.pays : Payer[tx.pays[i]] = tx.from
    /\ AtDestination(Payee[tx.pays[1]], s)

Shapes ==
    /\ \A m \in cClient : Plain(m.tx)
    /\ \A job \in BagToSet(relaying) : \A tx \in ToSet(job.txs) : Plain(tx)
    /\ \A m \in BagToSet(cRelay) : \A tx \in ToSet(m.txs) : Plain(tx)
    /\ \A m \in cCaP : (Plain(m.tx) /\ m.tx.from \in Movers) \/ GatheredAt(m.tx, m.dst)
    /\ \A s \in Shards :
         /\ \A tx \in ToSet(Queue[s]) \cup ToSet(block[s].txs) : Plain(tx) \/ GatheredAt(tx, s)
         /\ \A a \in Accounts : \A tx \in ToSet(Outing_Before_Announce_TX_Pools[s][a]) :
              Plain(tx) /\ a \in Movers
         /\ \A a \in Outing_Acc_Before_Announce[s] : \E m \in Moves : m.addr = a /\ m.from = s

LEMMA UniformPays ==
    ASSUME MoversApart, NEW tx \in Tx, NEW s, Plain(tx) \/ GatheredAt(tx, s)
    PROVE  \A i \in DOMAIN tx.pays : Payee[tx.pays[i]] = Payee[tx.pays[1]]
<1>1. CASE Plain(tx)
  <2>1. CASE tx.from \in Movers
    BY <1>1, <2>1, TxPays DEF Plain, MoversApart, Movers
  <2>2. CASE Len(tx.pays) = 1
    <3>1. \A i \in DOMAIN tx.pays : i = 1
      BY <2>2, TxPays
    <3> QED BY <3>1
  <2> QED BY <1>1, <2>1, <2>2 DEF Plain
<1>2. CASE GatheredAt(tx, s)
  BY <1>2 DEF GatheredAt
<1> QED BY <1>1, <1>2

LEMMA GatheredStays ==
    ASSUME Typed, MovesGoOn, [Next]_vars, NEW tx, NEW s, GatheredAt(tx, s)
    PROVE  GatheredAt(tx, s)'
<1>1. AtDestination(Payee[tx.pays[1]], s)'
  BY DestinationStays DEF GatheredAt, AtDestination
<1> QED BY <1>1 DEF GatheredAt

LEMMA PlainReceipt ==
    ASSUME NEW tx \in Tx, Plain(tx)
    PROVE  Plain([tx EXCEPT !.IsRelay = TRUE])
<1>1. [tx EXCEPT !.IsRelay = TRUE].pays = tx.pays /\ [tx EXCEPT !.IsRelay = TRUE].from = tx.from
  BY DEF Tx
<1> QED BY <1>1 DEF Plain

\* A block does not relay what was gathered for its shard.
LEMMA GatheredIsMine ==
    ASSUME NEW s, NEW tx \in Tx, MapIn(s)[Payee[tx.pays[1]]] = s
    PROVE  1 \in Mine(s, tx) /\ ~Relayed(s, tx)
<1>1. 1 \in DOMAIN tx.pays /\ DOMAIN tx.pays = 1..Len(tx.pays) /\ Len(tx.pays) \in Nat
  BY TxPays
<1>3. 1 \in Mine(s, tx)
  BY <1>1 DEF Mine
<1>4. \A i \in Visited(s, tx) : i = 1
  BY <1>1, <1>3 DEF Visited
<1> QED BY <1>3, <1>4 DEF Relayed

LEMMA DeletedMoves ==
    ASSUME Typed, MovesGoOn, NEW s \in Shards, NEW a \in Deleted(s)
    PROVE  a \in Accounts /\ a \in Movers /\ AtDestination(a, MapOut(s)[a]) /\ MapOut(s)[a] # s
<1>1. a \in Accounts /\ a \in Addrs(block[s].anns)
  BY MapsTyped DEF Deleted
<1>2. PICK ann \in block[s].anns : ann.addr = a /\ MapOut(s)[a] = ann.to
  BY <1>1, MapsTyped
<1>3. ann.dst = s /\ ann.dst # ann.to /\ AtDestination(a, ann.to)
  BY <1>2 DEF MovesGoOn, Announces
<1> QED BY <1>1, <1>2, <1>3 DEF AtDestination, Movers, Addrs

\* What waits for an account that leaves: what it pays, or receipts for it.
LEMMA PendingShapes ==
    ASSUME MoversApart, Typed, MovesGoOn, ReceiptsTravel, Shapes,
           NEW s \in Shards, NEW a \in Deleted(s)
    PROVE  \/ \A x \in ToSet(Pendings(s, a)) : Plain(x) /\ x.from = a
           \/ \A x \in ToSet(Pendings(s, a)) :
                /\ x \in ToSet(Queue[s]) /\ x.IsRelay
                /\ \A i \in DOMAIN x.pays : Payee[x.pays[i]] = a
<1> DEFINE Pays(x) == Plain(x) /\ x.from = a
           Gets(x) == /\ x \in ToSet(Queue[s]) /\ x.IsRelay
                      /\ \A i \in DOMAIN x.pays : Payee[x.pays[i]] = a
<1>1. a \in Accounts /\ a \in Movers
  BY DeletedMoves
<1>2. \A x \in ToSet(Pendings(s, a)) : x \in Tx
  BY <1>1, PendingElements, ElementsOf
<1>3. ASSUME NEW x \in ToSet(Pendings(s, a)) PROVE Pays(x) \/ Gets(x)
  <2>1. CASE x \in ToSet(Outing_Before_Announce_TX_Pools[s][a])
    BY <1>1, <2>1 DEF ReceiptsTravel, Shapes
  <2>2. CASE x \in ToSet(Queue[s]) /\ a \in Follows(s, x)
    <3>1. Plain(x) \/ GatheredAt(x, s)
      BY <2>2 DEF Shapes
    <3>2. CASE ~x.IsRelay
      BY <2>2, <3>1, <3>2 DEF GatheredAt, Follows, FollowsPayers
    <3>3. CASE x.IsRelay
      <4>1. \E i \in DOMAIN x.pays : Payee[x.pays[i]] = a
        BY <2>2, <3>3 DEF Follows, FollowsReceipts
      <4>2. \A i \in DOMAIN x.pays : Payee[x.pays[i]] = Payee[x.pays[1]]
        BY <1>2, <3>1, UniformPays
      <4> QED BY <2>2, <3>3, <4>1, <4>2
    <3> QED BY <3>2, <3>3
  <2> QED BY <1>1, <2>1, <2>2, PendingElements
<1>4. ASSUME NEW x \in ToSet(Pendings(s, a)), NEW y \in ToSet(Pendings(s, a)), Pays(x), Gets(y)
      PROVE  FALSE
  <2>1. /\ x.pays[1] \in Payments /\ 1 \in DOMAIN x.pays /\ y.pays[1] \in Payments /\ 1 \in DOMAIN y.pays
    BY <1>2, TxPays
  <2>2. Payer[x.pays[1]] = a /\ Payee[y.pays[1]] = a
    BY <1>4, <2>1 DEF Plain
  <2> QED BY <1>1, <2>1, <2>2 DEF MoversApart, Movers
<1> QED BY <1>3, <1>4

LEMMA FollowingShapes ==
    ASSUME MoversApart, Typed, MovesGoOn, ReceiptsTravel, Shapes,
           NEW s \in Shards, NEW m \in Following(s)
    PROVE  (Plain(m.tx) /\ m.tx.from \in Movers) \/ GatheredAt(m.tx, m.dst)
<1>1. PICK a \in Deleted(s) : /\ Pendings(s, a) # <<>>
                              /\ m = [dst |-> MapOut(s)[a], tx |-> Merged(Pendings(s, a))]
  BY DEF Following
<1>2. a \in Accounts /\ a \in Movers /\ AtDestination(a, MapOut(s)[a])
  BY DeletedMoves
<1> DEFINE txs == Pendings(s, a)
           x == txs[1]
<1>3. txs \in Txs
  BY <1>1, <1>2, PendingElements DEF Txs
<1>3a. \A t \in ToSet(txs) : t \in Tx
  BY <1>3, ElementsOf DEF Txs
<1> HIDE DEF txs
<1>4. /\ x \in ToSet(txs) /\ x \in Tx /\ m.tx \in Tx /\ m.dst = MapOut(s)[a]
      /\ m.tx.from = x.from /\ m.tx.IsRelay = x.IsRelay
      /\ \A p : p \in ToSet(m.tx.pays) <=> \E tx \in ToSet(txs) : p \in ToSet(tx.pays)
  BY <1>1, <1>3, MergedElements DEF txs
<1> HIDE DEF x
<1>5. \A i \in DOMAIN m.tx.pays : \E tx \in ToSet(txs) : \E j \in DOMAIN tx.pays : m.tx.pays[i] = tx.pays[j]
  BY <1>4 DEF ToSet
<1>6. CASE \A t \in ToSet(txs) : Plain(t) /\ t.from = a
  <2>1. \A i \in DOMAIN m.tx.pays : Payer[m.tx.pays[i]] = a
    BY <1>5, <1>6 DEF Plain
  <2> QED BY <1>2, <1>4, <1>6, <2>1 DEF Plain
<1>7. CASE \A t \in ToSet(txs) : /\ t \in ToSet(Queue[s]) /\ t.IsRelay
                                 /\ \A i \in DOMAIN t.pays : Payee[t.pays[i]] = a
  <2>1. \A i \in DOMAIN m.tx.pays : Payee[m.tx.pays[i]] = a
    BY <1>5, <1>7
  <2>2. \E i \in DOMAIN m.tx.pays : Payer[m.tx.pays[i]] = m.tx.from
    <3>1. Plain(x) \/ GatheredAt(x, s)
      BY <1>4, <1>7 DEF Shapes
    <3>2. PICK i \in DOMAIN x.pays : Payer[x.pays[i]] = x.from
      BY <1>4, <3>1, TxPays DEF Plain, GatheredAt
    <3>3. x.pays[i] \in ToSet(m.tx.pays)
      BY <1>4 DEF ToSet
    <3> QED BY <1>4, <3>2, <3>3 DEF ToSet
  <2>3. 1 \in DOMAIN m.tx.pays
    BY <1>4, TxPays
  <2> QED BY <1>2, <1>4, <1>7, <2>1, <2>2, <2>3 DEF GatheredAt
<1> QED BY <1>6, <1>7, PendingShapes DEF txs

\* What a half-locked account's pool receives is what the account pays.
LEMMA LockedShapes ==
    ASSUME MoversApart, Typed, MovesGoOn, Shapes, NEW s \in Shards, NEW a \in Accounts,
           NEW txs \in Seq(Tx), ToSet(txs) \subseteq ToSet(Queue[s]),
           NEW x \in ToSet(LockedOf(s, a, txs))
    PROVE  Plain(x) /\ a \in Movers /\ x.from = a
<1>1. x \in ToSet(Queue[s]) /\ x \in Tx /\ x.from = a /\ a \in Outing_Acc_Before_Announce[s]
  BY LockedElements, ElementsOf
<1>2. PICK m \in Moves : m.addr = a /\ m.from = s
  BY <1>1 DEF Shapes
<1>3. ~GatheredAt(x, s)
  <2> SUFFICES ASSUME GatheredAt(x, s) PROVE FALSE
    OBVIOUS
  <2>1. PICK i \in DOMAIN x.pays : Payer[x.pays[i]] = a
    BY <1>1 DEF GatheredAt
  <2>2. x.pays[i] \in Payments /\ Payee[x.pays[i]] = Payee[x.pays[1]]
    BY <1>1, TxPays DEF GatheredAt
  <2>3. PICK n \in Moves : n.addr = Payee[x.pays[i]] /\ n.to = s
    BY <2>2 DEF GatheredAt, AtDestination
  <2> QED BY <1>2, <2>1, <2>2, <2>3 DEF MoversApart
<1>4. Plain(x)
  BY <1>1, <1>3 DEF Shapes
<1> QED BY <1>1, <1>2, <1>4 DEF Movers, Addrs

LEMMA ShapesStep ==
    ASSUME MoversApart, Typed, MovesGoOn, ReceiptsTravel, Shapes, [Next]_vars
    PROVE  Shapes'
<1> DEFINE Clients == \A m \in cClient : Plain(m.tx)
           Jobs == \A job \in BagToSet(relaying) : \A tx \in ToSet(job.txs) : Plain(tx)
           Msgs == \A m \in BagToSet(cRelay) : \A tx \in ToSet(m.txs) : Plain(tx)
           Caps == \A m \in cCaP : (Plain(m.tx) /\ m.tx.from \in Movers) \/ GatheredAt(m.tx, m.dst)
           Queues == \A s \in Shards : \A tx \in ToSet(Queue[s]) : Plain(tx) \/ GatheredAt(tx, s)
           Blocks == \A s \in Shards : \A tx \in ToSet(block[s].txs) : Plain(tx) \/ GatheredAt(tx, s)
           Pools == \A s \in Shards : \A a \in Accounts :
             \A tx \in ToSet(Outing_Before_Announce_TX_Pools[s][a]) : Plain(tx) /\ a \in Movers
           Outs == \A s \in Shards : \A a \in Outing_Acc_Before_Announce[s] :
             \E m \in Moves : m.addr = a /\ m.from = s
           All == Clients /\ Jobs /\ Msgs /\ Caps /\ Queues /\ Blocks /\ Pools /\ Outs
<1>0. Clients /\ Jobs /\ Msgs /\ Caps /\ Queues /\ Blocks /\ Pools /\ Outs
  BY DEF Shapes
<1>p. \A tx : Plain(tx)' <=> Plain(tx)
  BY DEF Plain
<1>g. \A tx, s : GatheredAt(tx, s) => GatheredAt(tx, s)'
  BY GatheredStays
<1>k. ASSUME NEW m \in cCaP
      PROVE  (Plain(m.tx)' /\ m.tx.from \in Movers) \/ GatheredAt(m.tx, m.dst)'
  BY <1>0, <1>p, <1>g
<1>s. ASSUME NEW s \in Shards, NEW tx \in ToSet(Queue[s]) \cup ToSet(block[s].txs)
      PROVE  Plain(tx)' \/ GatheredAt(tx, s)'
  BY <1>0, <1>p, <1>g
<1>m. Movers' = Movers
  BY DEF Movers
<1>1. ASSUME NEW p \in Payments, InjectTX(p) PROVE Shapes'
  <2> DEFINE tx == [from |-> Payer[p], pays |-> <<p>>, IsRelay |-> FALSE]
  <2>1. Plain(tx)
    <3>1. tx.pays = <<p>> /\ tx.from = Payer[p]
      OBVIOUS
    <3>2. Len(<<p>>) = 1 /\ DOMAIN <<p>> = {1} /\ <<p>>[1] = p
      OBVIOUS
    <3> HIDE DEF tx
    <3> QED BY <3>1, <3>2 DEF Plain
  <2>2. cClient' = cClient \cup {[dst |-> clientMap[Payer[p]], tx |-> tx]}
    BY <1>1 DEF InjectTX
  <2> HIDE DEF tx
  <2>3. Clients'
    BY <1>0, <1>p, <2>1, <2>2
  <2>4. /\ relaying' = relaying /\ cRelay' = cRelay /\ cCaP' = cCaP /\ Queue' = Queue /\ block' = block
        /\ Outing_Before_Announce_TX_Pools' = Outing_Before_Announce_TX_Pools
        /\ Outing_Acc_Before_Announce' = Outing_Acc_Before_Announce
    BY <1>1 DEF InjectTX, migration
  <2> QED BY <1>0, <1>p, <1>k, <1>s, <1>m, <2>3, <2>4 DEF Shapes
<1>2. ASSUME NEW m \in cClient, handleTxFromClient(m) PROVE Shapes'
  <2> DEFINE home == Account2Shard[m.dst][m.tx.from]
  <2>1. m.dst \in Shards /\ m.tx \in Tx /\ m.tx.from \in Accounts /\ m = [dst |-> m.dst, tx |-> m.tx]
    BY TxPays DEF Typed
  <2>2. home \in Shards
    BY <2>1 DEF Typed
  <2>3. \/ Queue' = [Queue EXCEPT ![home] = Append(@, m.tx)] /\ cClient' = cClient \ {m}
        \/ cClient' = (cClient \ {m}) \cup {[m EXCEPT !.dst = home]} /\ UNCHANGED Queue
    BY <1>2 DEF handleTxFromClient
  <2> HIDE DEF home
  <2>4. [m EXCEPT !.dst = home].tx = m.tx
    BY <2>1
  <2>5. Clients'
    BY <1>0, <1>p, <2>3, <2>4
  <2>6. Queues'
    <3> SUFFICES ASSUME NEW s \in Shards, NEW tx \in ToSet(Queue'[s]) PROVE Plain(tx)' \/ GatheredAt(tx, s)'
      OBVIOUS
    <3>1. tx \in ToSet(Queue[s]) \/ tx = m.tx
      <4>1. Queue'[s] = Queue[s] \/ Queue'[s] = Append(Queue[s], m.tx)
        BY <2>2, <2>3 DEF Typed
      <4>2. Queue[s] \in Seq(Tx)
        BY BlockTyped
      <4>3. ToSet(Append(Queue[s], m.tx)) = ToSet(Queue[s]) \cup {m.tx}
        BY <2>1, <4>2, AppendElements
      <4> QED BY <4>1, <4>3
    <3> QED BY <1>0, <1>p, <1>s, <3>1
  <2>7. /\ relaying' = relaying /\ cRelay' = cRelay /\ cCaP' = cCaP /\ block' = block
        /\ Outing_Before_Announce_TX_Pools' = Outing_Before_Announce_TX_Pools
        /\ Outing_Acc_Before_Announce' = Outing_Acc_Before_Announce
    BY <1>2 DEF handleTxFromClient, migration
  <2> QED BY <1>0, <1>p, <1>k, <1>s, <1>m, <2>5, <2>6, <2>7 DEF Shapes
<1>3. ASSUME NEW m \in BagToSet(cRelay), handleRelay(m) PROVE Shapes'
  <2>1. m.dst \in Shards /\ m.txs \in Seq(Tx)
    BY RelayTyped
  <2>2. /\ Queued(m) \in Seq(Tx) /\ ToSet(Queued(m)) \subseteq ToSet(m.txs)
        /\ ToSet(Onward(m)) \subseteq ToSet(m.txs)
    BY <2>1, RelayParts DEF Here
  <2>3. Jobs'
    <3>1. relaying' = relaying (+) Relaying(m.dst, Onward(m))
      BY <1>3, HandleRelayUnfolds
    <3>2. \A job \in BagToSet(relaying') : job \in BagToSet(relaying) \/ job.txs = Onward(m)
      BY <3>1, RelayingElements, BagElements
    <3> QED BY <1>0, <1>p, <2>2, <3>2
  <2>4. Msgs'
    <3>1. BagToSet(cRelay') \subseteq BagToSet(cRelay)
      BY <1>3, HandleRelayUnfolds, BagElements
    <3> QED BY <1>0, <1>p, <3>1
  <2>5. Queues'
    <3> SUFFICES ASSUME NEW s \in Shards, NEW tx \in ToSet(Queue'[s]) PROVE Plain(tx)' \/ GatheredAt(tx, s)'
      OBVIOUS
    <3>1. tx \in ToSet(Queue[s]) \/ tx \in ToSet(m.txs)
      <4>0. Queue' = [Queue EXCEPT ![m.dst] = @ \o Queued(m)]
        BY <1>3, HandleRelayUnfolds
      <4>1. Queue'[s] = Queue[s] \/ Queue'[s] = Queue[s] \o Queued(m)
        BY <2>1, <4>0 DEF Typed
      <4>2. Queue[s] \in Seq(Tx)
        BY BlockTyped
      <4>3. ToSet(Queue[s] \o Queued(m)) = ToSet(Queue[s]) \cup ToSet(Queued(m))
        BY <2>2, <4>2, ConcatElements
      <4> QED BY <2>2, <4>1, <4>3
    <3> QED BY <1>0, <1>p, <1>s, <3>1
  <2>7. /\ cClient' = cClient /\ cCaP' = cCaP /\ block' = block
        /\ Outing_Before_Announce_TX_Pools' = Outing_Before_Announce_TX_Pools
        /\ Outing_Acc_Before_Announce' = Outing_Acc_Before_Announce
    BY <1>3, HandleRelayUnfolds DEF migration
  <2> QED BY <1>0, <1>p, <1>k, <1>s, <1>m, <2>3, <2>4, <2>5, <2>7 DEF Shapes
<1>4. ASSUME NEW job \in BagToSet(relaying), TryRelay(job) PROVE Shapes'
  <2>1. job.txs \in Seq(Tx)
    BY RelayTyped
  <2>2. \A m \in Sent(job) : ToSet(m.txs) \subseteq ToSet(job.txs)
    BY <2>1, CopiesElements DEF Sent
  <2>3. Msgs'
    <3>1. cRelay' = cRelay (+) SetToBag(Sent(job))
      BY <1>4, TryRelayUnfolds
    <3>2. \A m \in BagToSet(cRelay') : m \in BagToSet(cRelay) \/ m \in Sent(job)
      BY <3>1, BagElements
    <3> QED BY <1>0, <1>p, <2>2, <3>2
  <2>4. Jobs'
    <3>1. BagToSet(relaying') \subseteq BagToSet(relaying)
      BY <1>4, TryRelayUnfolds, BagElements
    <3> QED BY <1>0, <1>p, <3>1
  <2>7. /\ cClient' = cClient /\ cCaP' = cCaP /\ block' = block /\ Queue' = Queue
        /\ Outing_Before_Announce_TX_Pools' = Outing_Before_Announce_TX_Pools
        /\ Outing_Acc_Before_Announce' = Outing_Acc_Before_Announce
    BY <1>4, TryRelayUnfolds DEF migration
  <2> QED BY <1>0, <1>p, <1>k, <1>s, <1>m, <2>3, <2>4, <2>7 DEF Shapes
<1>5. ASSUME NEW m \in cCaP, handleChangesAndPendings(m) PROVE Shapes'
  <2>1. m.dst \in Shards /\ m.tx \in Tx
    BY RelayTyped
  <2>2. Queues'
    <3> SUFFICES ASSUME NEW s \in Shards, NEW tx \in ToSet(Queue'[s]) PROVE Plain(tx)' \/ GatheredAt(tx, s)'
      OBVIOUS
    <3>1. tx \in ToSet(Queue[s]) \/ (tx = m.tx /\ s = m.dst)
      <4>1. Queue'[s] = IF m.dst = s THEN Append(Queue[s], m.tx) ELSE Queue[s]
        BY <1>5 DEF handleChangesAndPendings, Typed
      <4>2. Queue[s] \in Seq(Tx)
        BY BlockTyped
      <4> QED BY <2>1, <4>1, <4>2, AppendElements
    <3> QED BY <1>k, <1>s, <3>1
  <2>7. /\ cClient' = cClient /\ cCaP' \subseteq cCaP /\ block' = block
        /\ relaying' = relaying /\ cRelay' = cRelay
        /\ Outing_Before_Announce_TX_Pools' = Outing_Before_Announce_TX_Pools
        /\ Outing_Acc_Before_Announce' = Outing_Acc_Before_Announce
    BY <1>5 DEF handleChangesAndPendings, migration
  <2> QED BY <1>0, <1>p, <1>k, <1>s, <1>m, <2>2, <2>7 DEF Shapes
<1>6. ASSUME NEW s \in Shards, GenerateBlock(s) PROVE Shapes'
  <2>1. PICK mig1, mig2, anns, n : Packs(s, mig1, mig2, anns, n)
    BY <1>6, GeneratePacks
  <2> DEFINE txs == SubSeq(Queue[s], 1, n)
             rest == SubSeq(Queue[s], n + 1, Len(Queue[s]))
  <2>2. /\ txs \in Seq(Tx) /\ rest \in Seq(Tx)
        /\ ToSet(txs) \subseteq ToSet(Queue[s]) /\ ToSet(rest) \subseteq ToSet(Queue[s])
    BY <2>1, SplitElements, BlockTyped DEF Packs
  <2>3. \A r \in Shards : /\ Queue'[r] = IF r = s THEN rest ELSE Queue[r]
                          /\ block'[r].txs = IF r = s THEN txs ELSE block[r].txs
    BY <2>1 DEF Packs, Typed
  <2>4. \A r \in Shards : \A a \in Accounts : Outing_Before_Announce_TX_Pools'[r][a] =
            IF r = s THEN Outing_Before_Announce_TX_Pools[s][a] \o LockedOf(s, a, txs)
                     ELSE Outing_Before_Announce_TX_Pools[r][a]
    BY <2>1 DEF Packs, Typed
  <2> HIDE DEF txs, rest
  <2>5. Queues' /\ Blocks'
    BY <1>s, <2>2, <2>3
  <2>6. Pools'
    <3> SUFFICES ASSUME NEW r \in Shards, NEW a \in Accounts,
                        NEW tx \in ToSet(Outing_Before_Announce_TX_Pools'[r][a])
                 PROVE  Plain(tx)' /\ a \in Movers
      BY <1>m
    <3>1. LockedOf(s, a, txs) \in Seq(Tx) /\ Outing_Before_Announce_TX_Pools[s][a] \in Seq(Tx)
      BY <2>2, LockedElements, BlockTyped
    <3>2. tx \in ToSet(Outing_Before_Announce_TX_Pools[r][a]) \/ tx \in ToSet(LockedOf(s, a, txs))
      BY <2>4, <3>1, ConcatElements
    <3> QED BY <1>0, <1>p, <2>2, <3>2, LockedShapes
  <2>7. /\ relaying' = relaying /\ cRelay' = cRelay /\ cCaP' = cCaP /\ cClient' = cClient
        /\ Outing_Acc_Before_Announce' = Outing_Acc_Before_Announce
    BY <2>1 DEF Packs
  <2> QED BY <1>0, <1>p, <1>k, <1>m, <2>5, <2>6, <2>7 DEF Shapes
<1>7. ASSUME NEW s \in Shards, commit1(s) PROVE Shapes'
  <2>1. Jobs'
    <3>1. relaying' = relaying (+) Relaying(s, AsReceipts(ToRelay(s)))
      BY <1>7, CommitUnfolds
    <3>2. \A job \in BagToSet(relaying') : job \in BagToSet(relaying) \/ job.txs = AsReceipts(ToRelay(s))
      BY <3>1, RelayingElements, BagElements
    <3>3. ASSUME NEW x \in ToSet(AsReceipts(ToRelay(s))) PROVE Plain(x)
      <4>1. PICK tx \in ToSet(ToRelay(s)) : x = [tx EXCEPT !.IsRelay = TRUE]
        BY CommitParts, ReceiptElements
      <4>2. tx \in ToSet(block[s].txs) /\ Relayed(s, tx) /\ tx \in Tx
        BY CommitParts, BlockTyped, ElementsOf
      <4>3. ~GatheredAt(tx, s)
        <5> SUFFICES ASSUME GatheredAt(tx, s) PROVE FALSE
          OBVIOUS
        <5>1. MapIn(s)[Payee[tx.pays[1]]] = s
          BY MoveTyped DEF GatheredAt, AtDestination, Arrived, MapIn
        <5> QED BY <4>2, <5>1, GatheredIsMine
      <4>4. Plain(tx)
        BY <1>0, <4>2, <4>3
      <4> QED BY <4>1, <4>2, <4>4, PlainReceipt
    <3> QED BY <1>0, <1>p, <3>2, <3>3
  <2>2. Caps'
    <3>1. cCaP' = cCaP \cup Following(s)
      BY <1>7, CommitUnfolds
    <3>2. ASSUME NEW m \in Following(s)
          PROVE  (Plain(m.tx)' /\ m.tx.from \in Movers) \/ GatheredAt(m.tx, m.dst)'
      BY <1>p, <1>g, FollowingShapes
    <3> QED BY <1>k, <1>m, <3>1, <3>2
  <2>3. Queues'
    <3>1. Queue' = [Queue EXCEPT ![s] = Staying(s)]
      BY <1>7, CommitUnfolds
    <3>2. ToSet(Staying(s)) \subseteq ToSet(Queue[s])
      BY CommitParts
    <3>3. \A r \in Shards : ToSet(Queue'[r]) \subseteq ToSet(Queue[r])
      BY <3>1, <3>2 DEF Typed
    <3> QED BY <1>s, <3>3
  <2>4. Blocks'
    <3>1. block' = [block EXCEPT ![s] = NoBlock]
      BY <1>7, CommitUnfolds
    <3>2. \A r \in Shards : block'[r].txs = IF r = s THEN <<>> ELSE block[r].txs
      BY <3>1 DEF Typed, NoBlock
    <3> QED BY <1>s, <3>2, NoElements
  <2>5. Pools'
    <3>1. Outing_Before_Announce_TX_Pools' =
                [Outing_Before_Announce_TX_Pools EXCEPT ![s] =
                   [a \in Accounts |-> IF a \in Emptied(s) THEN <<>> ELSE @[a]]]
      BY <1>7, CommitUnfolds
    <3>2. \A r \in Shards : \A a \in Accounts :
            \/ Outing_Before_Announce_TX_Pools'[r][a] = Outing_Before_Announce_TX_Pools[r][a]
            \/ Outing_Before_Announce_TX_Pools'[r][a] = <<>>
      BY <3>1 DEF Typed
    <3> QED BY <1>0, <1>p, <1>m, <3>2, NoElements
  <2>6. Outs'
    <3> SUFFICES ASSUME NEW r \in Shards, NEW a \in Outing_Acc_Before_Announce'[r]
                 PROVE  \E m \in Moves : m.addr = a /\ m.from = r
      OBVIOUS
    <3>1. Outing_Acc_Before_Announce' =
            [Outing_Acc_Before_Announce EXCEPT ![s] = (@ \cup Addrs(block[s].mig1)) \ Deleted(s)]
      BY <1>7, CommitUnfolds
    <3>2. a \in Outing_Acc_Before_Announce[r] \/ (r = s /\ a \in Addrs(block[s].mig1))
      BY <3>1 DEF Typed
    <3>3. \A m \in block[s].mig1 : m \in Moves /\ m.from = s
      BY BlockTyped DEF MovesGoOn
    <3> QED BY <1>0, <3>2, <3>3 DEF Addrs
  <2>7. cRelay' = cRelay /\ cClient' = cClient
    BY <1>7, CommitUnfolds
  <2> QED BY <1>0, <1>p, <1>m, <2>1, <2>2, <2>3, <2>4, <2>5, <2>6, <2>7 DEF Shapes
<1>8. ASSUME (\E ann \in TXanns : HandleAnnounce(ann)) \/ UNCHANGED vars PROVE Shapes'
  <2>7. /\ cClient' = cClient /\ cCaP' = cCaP /\ block' = block /\ Queue' = Queue
        /\ relaying' = relaying /\ cRelay' = cRelay
        /\ Outing_Before_Announce_TX_Pools' = Outing_Before_Announce_TX_Pools
        /\ Outing_Acc_Before_Announce' = Outing_Acc_Before_Announce
    BY <1>8 DEF HandleAnnounce, migration, vars
  <2> QED BY <1>0, <1>p, <1>k, <1>s, <1>m, <2>7 DEF Shapes
<1> QED BY <1>1, <1>2, <1>3, <1>4, <1>5, <1>6, <1>7, <1>8 DEF Next

-----------------------------------------------------------------------------
(* Where a payment is *)

Has(p, tx) == p \in ToSet(tx.pays)
In(p, txs) == \E tx \in ToSet(txs) : Has(p, tx)

\* p occurs at most once in txs.
Once(p, txs) ==
    \A k, l \in DOMAIN txs :
        \A i \in DOMAIN txs[k].pays, j \in DOMAIN txs[l].pays :
            txs[k].pays[i] = p /\ txs[l].pays[j] = p => k = l /\ i = j

AtUnsent(p) == {p} \cap unsent
AtClient(p) == {m \in cClient : Has(p, m.tx)}
AtQueue(p)  == {s \in Shards : In(p, Queue[s])}
AtBlock(p)  == {s \in Shards : In(p, block[s].txs)}
AtJob(p)    == {job \in BagToSet(relaying) : In(p, job.txs)}
AtRelay(p)  == {m \in BagToSet(cRelay) : In(p, m.txs)}
AtCap(p)    == {m \in cCaP : Has(p, m.tx)}

Tagged(U, C, Q, B, J, R, K) ==
    {<<"unsent", x>> : x \in U} \cup {<<"client", x>> : x \in C} \cup {<<"queue", x>> : x \in Q}
    \cup {<<"block", x>> : x \in B} \cup {<<"job", x>> : x \in J} \cup {<<"relay", x>> : x \in R}
    \cup {<<"cap", x>> : x \in K}

\* The places that hold p.
Places(p) ==
    Tagged(AtUnsent(p), AtClient(p), AtQueue(p), AtBlock(p), AtJob(p), AtRelay(p), AtCap(p))

\* One place at most holds p.  As long as one does, p is not credited; when none
\* does any more, p was debited and credited once.
Open(p) == credited[p] = 0 /\ p \notin committed
Settled(p) ==
    /\ debited[p] = 1 /\ credited[p] \in {0, 1}
    /\ p \in StaysApart \cup committed => credited[p] = 1
Ledger(p) ==
    /\ \A t, u \in Places(p) : t = u
    /\ Places(p) # {} => Open(p)
    /\ Places(p) = {} => Settled(p)

\* Once p is debited its receipt is where its payee is.
Phase(p, s, tx) ==
    IF tx.IsRelay THEN debited[p] = 1 /\ Payee[p] \in Own(s) ELSE debited[p] = 0

InClient(p) ==
    /\ p \in unsent => debited[p] = 0
    /\ \A m \in cClient : Has(p, m.tx) => ~m.tx.IsRelay /\ debited[p] = 0
InQueue(p) ==
    \A s \in Shards : Once(p, Queue[s]) /\ \A tx \in ToSet(Queue[s]) : Has(p, tx) => Phase(p, s, tx)
InBlock(p) ==
    \A s \in Shards : /\ Once(p, block[s].txs)
                      /\ \A tx \in ToSet(block[s].txs) : Has(p, tx) => Phase(p, s, tx)
InPools(p) ==
    \A s \in Shards : \A a \in Accounts : ~In(p, Outing_Before_Announce_TX_Pools[s][a])
FitJob(p, job) ==
    /\ debited[p] = 1 /\ Once(p, job.txs)
    /\ p \in StaysApart => /\ Account2Shard[job.shard][Payee[p]] # job.shard
                           /\ \A m \in Moves : m.addr = Payee[p] => m.to # job.shard
InJobs(p) ==
    \A job \in BagToSet(relaying) : In(p, job.txs) => relaying[job] = 1 /\ FitJob(p, job)
FitRelay(p, m) ==
    /\ debited[p] = 1 /\ Once(p, m.txs)
    /\ m.dst = Genesis[Payee[p]] \/ AtDestination(Payee[p], m.dst)
InRelays(p) ==
    \A m \in BagToSet(cRelay) : In(p, m.txs) => cRelay[m] = 1 /\ FitRelay(p, m)
InCaps(p) == \A m \in cCaP : Has(p, m.tx) => debited[p] = 1 /\ Once(p, <<m.tx>>)

Tracked(p) ==
    /\ Ledger(p) /\ InClient(p) /\ InQueue(p) /\ InBlock(p)
    /\ InPools(p) /\ InJobs(p) /\ InRelays(p) /\ InCaps(p)

-----------------------------------------------------------------------------
(* Occurrences in sequences *)

LEMMA InCat ==
    ASSUME NEW p, NEW s \in Seq(Tx), NEW t \in Seq(Tx)
    PROVE  In(p, s \o t) <=> In(p, s) \/ In(p, t)
<1>1. ToSet(s \o t) = ToSet(s) \cup ToSet(t)
  BY ConcatElements
<1> QED BY <1>1 DEF In

LEMMA HasAt ==
    ASSUME NEW p, NEW tx \in Tx
    PROVE  Has(p, tx) <=> \E i \in DOMAIN tx.pays : tx.pays[i] = p
  BY DEF Has, ToSet

LEMMA InAt ==
    ASSUME NEW p, NEW s \in Seq(Tx)
    PROVE  /\ In(p, s) <=> \E k \in DOMAIN s : Has(p, s[k])
           /\ In(p, s) <=> \E k \in DOMAIN s : \E i \in DOMAIN s[k].pays : s[k].pays[i] = p
<1>1. In(p, s) <=> \E k \in DOMAIN s : Has(p, s[k])
  BY DEF In, ToSet
<1> QED BY <1>1, HasAt, ElementsOf

LEMMA OnceIfOut ==
    ASSUME NEW p, NEW s \in Seq(Tx), ~In(p, s)
    PROVE  Once(p, s)
  BY InAt DEF Once

LEMMA OnceCat ==
    ASSUME NEW p, NEW s \in Seq(Tx), NEW t \in Seq(Tx), Once(p, s), Once(p, t),
           ~In(p, s) \/ ~In(p, t)
    PROVE  Once(p, s \o t)
<1> DEFINE g == s \o t
<1>1. /\ g \in Seq(Tx) /\ Len(g) = Len(s) + Len(t) /\ Len(s) \in Nat /\ Len(t) \in Nat
      /\ \A k \in 1..(Len(s) + Len(t)) : g[k] = IF k <= Len(s) THEN s[k] ELSE t[k - Len(s)]
      /\ DOMAIN g = 1..(Len(s) + Len(t)) /\ DOMAIN s = 1..Len(s) /\ DOMAIN t = 1..Len(t)
  BY ConcatProperties, ElementsOf
<1> HIDE DEF g
<1> SUFFICES ASSUME NEW k \in DOMAIN g, NEW l \in DOMAIN g,
                    NEW i \in DOMAIN g[k].pays, NEW j \in DOMAIN g[l].pays,
                    g[k].pays[i] = p, g[l].pays[j] = p
             PROVE  k = l /\ i = j
  BY DEF Once, g
<1>2. CASE k <= Len(s) /\ l <= Len(s)
  <2>1. k \in DOMAIN s /\ l \in DOMAIN s /\ g[k] = s[k] /\ g[l] = s[l]
    BY <1>1, <1>2
  <2> QED BY <2>1 DEF Once
<1>3. CASE ~(k <= Len(s)) /\ ~(l <= Len(s))
  <2>1. k - Len(s) \in DOMAIN t /\ l - Len(s) \in DOMAIN t /\ g[k] = t[k - Len(s)] /\ g[l] = t[l - Len(s)]
    BY <1>1, <1>3
  <2>2. k - Len(s) = l - Len(s) /\ i = j
    BY <2>1 DEF Once
  <2> QED BY <1>1, <2>2
<1>4. CASE k <= Len(s) /\ ~(l <= Len(s))
  <2>1. k \in DOMAIN s /\ l - Len(s) \in DOMAIN t /\ g[k] = s[k] /\ g[l] = t[l - Len(s)]
    BY <1>1, <1>4
  <2> QED BY <2>1, InAt
<1>5. CASE ~(k <= Len(s)) /\ l <= Len(s)
  <2>1. l \in DOMAIN s /\ k - Len(s) \in DOMAIN t /\ g[l] = s[l] /\ g[k] = t[k - Len(s)]
    BY <1>1, <1>5
  <2> QED BY <2>1, InAt
<1> QED BY <1>2, <1>3, <1>4, <1>5

\* The block and the rest of the queue do not both get p.
LEMMA OnceSplit ==
    ASSUME NEW p, NEW s \in Seq(Tx), NEW n \in 0..Len(s), Once(p, s)
    PROVE  LET t == SubSeq(s, 1, n)
               u == SubSeq(s, n + 1, Len(s))
           IN  /\ Once(p, t) /\ Once(p, u)
               /\ ~In(p, t) \/ ~In(p, u)
               /\ In(p, s) <=> In(p, t) \/ In(p, u)
<1> DEFINE t == SubSeq(s, 1, n)
           u == SubSeq(s, n + 1, Len(s))
<1>1. /\ t \in Seq(Tx) /\ u \in Seq(Tx) /\ Len(t) = n /\ Len(u) = Len(s) - n
      /\ \A i \in 1..n : t[i] = s[i]
      /\ \A i \in 1..(Len(s) - n) : u[i] = s[n + i]
  BY SplitElements
<1>2. Len(s) \in Nat /\ n \in Nat /\ n <= Len(s) /\ DOMAIN s = 1..Len(s)
  BY ElementsOf
<1>3. DOMAIN t = 1..n /\ DOMAIN u = 1..(Len(s) - n)
  BY <1>1, ElementsOf
<1> HIDE DEF t, u
<1>4. /\ \A k \in DOMAIN t : k \in DOMAIN s /\ t[k] = s[k] /\ k <= n
      /\ \A k \in DOMAIN u : n + k \in DOMAIN s /\ u[k] = s[n + k] /\ n + k > n
  BY <1>1, <1>2, <1>3
<1>5. Once(p, t)
  BY <1>4 DEF Once
<1>6. Once(p, u)
  <2> SUFFICES ASSUME NEW k \in DOMAIN u, NEW l \in DOMAIN u,
                    NEW i \in DOMAIN u[k].pays, NEW j \in DOMAIN u[l].pays,
                    u[k].pays[i] = p, u[l].pays[j] = p
             PROVE  k = l /\ i = j
    BY DEF Once
  <2>1. n + k = n + l /\ i = j
    BY <1>4 DEF Once
  <2> QED BY <1>2, <1>3, <2>1
<1>7. ~In(p, t) \/ ~In(p, u)
  <2> SUFFICES ASSUME In(p, t), In(p, u) PROVE FALSE
    OBVIOUS
  <2>1. PICK k \in DOMAIN t : \E i \in DOMAIN t[k].pays : t[k].pays[i] = p
    BY <1>1, InAt
  <2>2. PICK l \in DOMAIN u : \E i \in DOMAIN u[l].pays : u[l].pays[i] = p
    BY <1>1, InAt
  <2>3. k = n + l
    BY <1>4, <2>1, <2>2 DEF Once
  <2> QED BY <1>2, <1>3, <1>4, <2>3
<1>8. In(p, s) <=> In(p, t) \/ In(p, u)
  <2>1. ASSUME In(p, s) PROVE In(p, t) \/ In(p, u)
    <3>1. PICK k \in DOMAIN s : Has(p, s[k])
      BY <2>1, InAt
    <3>2. CASE k <= n
      <4>1. k \in DOMAIN t /\ t[k] = s[k]
        BY <1>1, <1>2, <1>3, <3>2
      <4> QED BY <1>1, <3>1, <4>1, InAt
    <3>3. CASE ~(k <= n)
      <4>1. k - n \in DOMAIN u /\ u[k - n] = s[n + (k - n)] /\ n + (k - n) = k
        BY <1>1, <1>2, <1>3, <3>3
      <4> QED BY <1>1, <3>1, <4>1, InAt
    <3> QED BY <3>2, <3>3
  <2>2. ASSUME In(p, t) PROVE In(p, s)
    BY <1>1, <1>4, <2>2, InAt
  <2>3. ASSUME In(p, u) PROVE In(p, s)
    BY <1>1, <1>4, <2>3, InAt
  <2> QED BY <2>1, <2>2, <2>3
<1> QED BY <1>5, <1>6, <1>7, <1>8 DEF t, u

LEMMA OnceRepeat ==
    ASSUME NEW p, NEW s \in Seq(Tx), NEW c \in [DOMAIN s -> Nat], Once(p, s),
           \A k \in DOMAIN s : Has(p, s[k]) => c[k] <= 1
    PROVE  Once(p, Repeat(s, c))
<1> DEFINE ss == [k \in DOMAIN s |-> [i \in 1 .. c[k] |-> s[k]]]
           F == FlattenSeq(ss)
<1>0. /\ DOMAIN s = 1..Len(s) /\ Len(s) \in Nat
      /\ \A k \in 1..Len(s) : s[k] \in Tx /\ c[k] \in Nat /\ ss[k] = [i \in 1 .. c[k] |-> s[k]]
  BY ElementsOf
<1>1. \A k \in 1..Len(s) : ss[k] \in Seq(Tx) /\ Len(ss[k]) = c[k] /\ \A i \in 1..c[k] : ss[k][i] = s[k]
  BY <1>0
<1>2. ss \in Seq(Seq(Tx)) /\ Len(ss) = Len(s)
  <2>1. ss \in [1..Len(s) -> Seq(Tx)]
    BY <1>0, <1>1
  <2> QED BY <1>0, <2>1
<1>3. Repeat(s, c) = F
  BY DEF Repeat
<1> HIDE DEF ss
<1>4. F \in Seq(Tx) /\ IsLaid(ss, Len(ss), F)
  BY <1>2, FlattenLays
<1> HIDE DEF F
<1>5. PICK a, b : Laid(ss, Len(s), F, a, b)
  BY <1>2, <1>4 DEF IsLaid
<1>6. /\ DOMAIN F = 1..Len(F)
      /\ \A j \in 1..Len(F) : a[j] \in 1..Len(s) /\ b[j] \in 1..Len(ss[a[j]]) /\ F[j] = ss[a[j]][b[j]]
      /\ \A j, k \in 1..Len(F) : a[j] = a[k] /\ b[j] = b[k] => j = k
  BY <1>4, <1>5, ElementsOf DEF Laid
<1>7. \A j \in 1..Len(F) : a[j] \in 1..Len(s) /\ b[j] \in 1..c[a[j]] /\ F[j] = s[a[j]]
  BY <1>1, <1>6
<1> SUFFICES ASSUME NEW k \in DOMAIN F, NEW l \in DOMAIN F,
                    NEW i \in DOMAIN F[k].pays, NEW j \in DOMAIN F[l].pays,
                    F[k].pays[i] = p, F[l].pays[j] = p
             PROVE  k = l /\ i = j
  BY <1>3 DEF Once
<1>8. a[k] = a[l] /\ i = j
  BY <1>0, <1>6, <1>7 DEF Once
<1>9. Has(p, s[a[k]]) /\ Has(p, s[a[l]])
  BY <1>0, <1>6, <1>7, HasAt
<1>10. b[k] = 1 /\ b[l] = 1
  BY <1>0, <1>6, <1>7, <1>9
<1> QED BY <1>6, <1>8, <1>10

LEMMA OnlyIsRepeat ==
    ASSUME NEW s \in Seq(Tx), NEW W
    PROVE  Only(s, W) = Repeat(s, [k \in DOMAIN s |-> IF s[k] \in W THEN 1 ELSE 0])
<1> DEFINE c == [k \in DOMAIN s |-> IF s[k] \in W THEN 1 ELSE 0]
           f == [k \in DOMAIN s |-> IF s[k] \in W THEN <<s[k]>> ELSE <<>>]
           g == [k \in DOMAIN s |-> [i \in 1 .. c[k] |-> s[k]]]
<1>1. \A k \in DOMAIN s : f[k] = g[k]
  <2> SUFFICES ASSUME NEW k \in DOMAIN s PROVE f[k] = g[k]
    OBVIOUS
  <2>1. CASE s[k] \in W
    <3>1. c[k] = 1
      BY <2>1
    <3>2. <<s[k]>> = [i \in 1..1 |-> s[k]]
      OBVIOUS
    <3> QED BY <2>1, <3>1, <3>2
  <2>2. CASE s[k] \notin W
    <3>1. c[k] = 0
      BY <2>2
    <3>2. <<>> = [i \in 1..0 |-> s[k]]
      OBVIOUS
    <3> QED BY <2>2, <3>1, <3>2
  <2> QED BY <2>1, <2>2
<1>2. f = g
  <2>1. f = [k \in DOMAIN s |-> f[k]] /\ g = [k \in DOMAIN s |-> g[k]]
    OBVIOUS
  <2> HIDE DEF f, g
  <2> QED BY <1>1, <2>1
<1>3. Only(s, W) = FlattenSeq(f)
  BY DEF Only
<1>4. Repeat(s, c) = FlattenSeq(g)
  BY DEF Repeat
<1> HIDE DEF f, g
<1> QED BY <1>2, <1>3, <1>4

LEMMA OnceOnly ==
    ASSUME NEW p, NEW s \in Seq(Tx), NEW W, Once(p, s)
    PROVE  Once(p, Only(s, W))
<1> DEFINE c == [k \in DOMAIN s |-> IF s[k] \in W THEN 1 ELSE 0]
<1>1. c \in [DOMAIN s -> Nat] /\ \A k \in DOMAIN s : c[k] <= 1
  OBVIOUS
<1>2. Only(s, W) = Repeat(s, c)
  BY OnlyIsRepeat
<1> HIDE DEF c
<1> QED BY <1>1, <1>2, OnceRepeat

LEMMA OnceMerged ==
    ASSUME NEW p, NEW txs \in Txs, Once(p, txs)
    PROVE  Once(p, <<Merged(txs)>>)
<1> DEFINE ss == [k \in DOMAIN txs |-> txs[k].pays]
           F == FlattenSeq(ss)
<1>1. /\ txs \in Seq(Tx) /\ DOMAIN txs = 1..Len(txs) /\ Len(txs) \in Nat
      /\ \A k \in DOMAIN txs : txs[k] \in Tx
  BY ElementsOf DEF Txs
<1>2. \A k \in DOMAIN txs : txs[k].pays \in Seq(Payments) /\ DOMAIN txs[k].pays = 1..Len(txs[k].pays)
  BY <1>1, TxPays
<1>3. ss \in Seq(Seq(Payments)) /\ Len(ss) = Len(txs) /\ \A k \in 1..Len(txs) : ss[k] = txs[k].pays
  <2>2. ss \in [1..Len(txs) -> Seq(Payments)]
    BY <1>1, <1>2
  <2> QED BY <1>1, <2>2
<1>4. Merged(txs) = [txs[1] EXCEPT !.pays = F]
  BY DEF Merged
<1> HIDE DEF ss
<1>5. F \in Seq(Payments) /\ IsLaid(ss, Len(ss), F)
  BY <1>3, FlattenLays
<1> HIDE DEF F
<1>6. Merged(txs).pays = F
  <2>1. txs[1] \in Tx
    BY MergedElements
  <2> QED BY <1>4, <1>5, <2>1 DEF Tx
<1>7. PICK a, b : Laid(ss, Len(txs), F, a, b)
  BY <1>3, <1>5 DEF IsLaid
<1>8. /\ DOMAIN F = 1..Len(F)
      /\ \A j \in 1..Len(F) : /\ a[j] \in DOMAIN txs /\ b[j] \in DOMAIN txs[a[j]].pays
                              /\ F[j] = txs[a[j]].pays[b[j]]
      /\ \A j, k \in 1..Len(F) : a[j] = a[k] /\ b[j] = b[k] => j = k
  <2>1. DOMAIN F = 1..Len(F)
    BY <1>5, ElementsOf
  <2>2. \A j \in 1..Len(F) : a[j] \in 1..Len(txs) /\ b[j] \in 1..Len(ss[a[j]]) /\ F[j] = ss[a[j]][b[j]]
    BY <1>7 DEF Laid
  <2>3. \A j, k \in 1..Len(F) : a[j] = a[k] /\ b[j] = b[k] => j = k
    BY <1>7 DEF Laid
  <2>4. ASSUME NEW j \in 1..Len(F)
        PROVE  /\ a[j] \in DOMAIN txs /\ b[j] \in DOMAIN txs[a[j]].pays
               /\ F[j] = txs[a[j]].pays[b[j]]
    <3>1. a[j] \in DOMAIN txs /\ ss[a[j]] = txs[a[j]].pays
      BY <1>1, <1>3, <2>2
    <3> QED BY <1>2, <2>2, <3>1
  <2> QED BY <2>1, <2>3, <2>4
<1>9. \A i, j \in DOMAIN F : F[i] = p /\ F[j] = p => i = j
  <2> SUFFICES ASSUME NEW i \in DOMAIN F, NEW j \in DOMAIN F, F[i] = p, F[j] = p PROVE i = j
    OBVIOUS
  <2>1. a[i] = a[j] /\ b[i] = b[j]
    BY <1>8 DEF Once
  <2> QED BY <1>8, <2>1
<1>10. DOMAIN <<Merged(txs)>> = {1} /\ <<Merged(txs)>>[1].pays = F
  BY <1>6
<1> QED BY <1>9, <1>10 DEF Once

LEMMA OnceReceipts ==
    ASSUME NEW p, NEW txs \in Seq(Tx)
    PROVE  /\ Once(p, AsReceipts(txs)) <=> Once(p, txs)
           /\ In(p, AsReceipts(txs)) <=> In(p, txs)
<1>1. DOMAIN txs = 1..Len(txs) /\ \A k \in DOMAIN txs : txs[k] \in Tx
  BY ElementsOf
<1>2. /\ AsReceipts(txs) \in Seq(Tx)
      /\ DOMAIN AsReceipts(txs) = DOMAIN txs
      /\ \A k \in DOMAIN txs : AsReceipts(txs)[k] = [txs[k] EXCEPT !.IsRelay = TRUE]
  BY <1>1, ReceiptElements, ElementsOf
<1>3. \A k \in DOMAIN txs : AsReceipts(txs)[k].pays = txs[k].pays
  BY <1>1, <1>2 DEF Tx
<1>4. Once(p, AsReceipts(txs)) <=> Once(p, txs)
  BY <1>2, <1>3 DEF Once
<1>5. In(p, AsReceipts(txs)) <=> In(p, txs)
  BY <1>2, <1>3, InAt
<1> QED BY <1>4, <1>5

\* How often a block touches p.
LEMMA OccurrencesOnce ==
    ASSUME NEW p, NEW txs \in Seq(Tx), Once(p, txs)
    PROVE  /\ ~In(p, txs) => Occurrences(p, txs) = {}
           /\ \A k \in DOMAIN txs : Has(p, txs[k]) => \E i : Occurrences(p, txs) = {<<k, i>>}
<1>1. \A x : x \in Occurrences(p, txs) <=>
              \E k \in DOMAIN txs : \E i \in DOMAIN txs[k].pays : txs[k].pays[i] = p /\ x = <<k, i>>
  BY DEF Occurrences
<1>2. ASSUME ~In(p, txs) PROVE Occurrences(p, txs) = {}
  BY <1>1, <1>2, InAt
<1>3. ASSUME NEW k \in DOMAIN txs, Has(p, txs[k]) PROVE \E i : Occurrences(p, txs) = {<<k, i>>}
  <2>1. txs[k] \in Tx
    BY ElementsOf
  <2>2. PICK i \in DOMAIN txs[k].pays : txs[k].pays[i] = p
    BY <1>3, <2>1, HasAt
  <2>3. \A l \in DOMAIN txs : \A j \in DOMAIN txs[l].pays : txs[l].pays[j] = p => l = k /\ j = i
    BY <2>2 DEF Once
  <2>4. \A x : x \in Occurrences(p, txs) <=> x = <<k, i>>
    BY <1>1, <2>2, <2>3
  <2>5. Occurrences(p, txs) = {<<k, i>>}
    BY <2>4
  <2> QED BY <2>5
<1> QED BY <1>2, <1>3

-----------------------------------------------------------------------------
(* Following a payment from place to place *)

LEMMA TaggedOne ==
    ASSUME NEW U, NEW C, NEW Q, NEW B, NEW J, NEW R, NEW K,
           \A t, u \in Tagged(U, C, Q, B, J, R, K) : t = u
    PROVE  /\ U # {} => C = {} /\ Q = {} /\ B = {} /\ J = {} /\ R = {} /\ K = {}
           /\ C # {} => U = {} /\ Q = {} /\ B = {} /\ J = {} /\ R = {} /\ K = {}
           /\ Q # {} => U = {} /\ C = {} /\ B = {} /\ J = {} /\ R = {} /\ K = {}
           /\ B # {} => U = {} /\ C = {} /\ Q = {} /\ J = {} /\ R = {} /\ K = {}
           /\ J # {} => U = {} /\ C = {} /\ Q = {} /\ B = {} /\ R = {} /\ K = {}
           /\ R # {} => U = {} /\ C = {} /\ Q = {} /\ B = {} /\ J = {} /\ K = {}
           /\ K # {} => U = {} /\ C = {} /\ Q = {} /\ B = {} /\ J = {} /\ R = {}
           /\ (\A x, y \in C : x = y) /\ (\A x, y \in Q : x = y) /\ (\A x, y \in B : x = y)
           /\ (\A x, y \in J : x = y) /\ (\A x, y \in R : x = y) /\ (\A x, y \in K : x = y)
<1> DEFINE T == Tagged(U, C, Q, B, J, R, K)
<1>1. /\ \A x \in U : <<"unsent", x>> \in T
      /\ \A x \in C : <<"client", x>> \in T
      /\ \A x \in Q : <<"queue", x>> \in T
      /\ \A x \in B : <<"block", x>> \in T
      /\ \A x \in J : <<"job", x>> \in T
      /\ \A x \in R : <<"relay", x>> \in T
      /\ \A x \in K : <<"cap", x>> \in T
  BY DEF Tagged
<1>2. /\ \A x \in U : x \in U => C = {} /\ Q = {} /\ B = {} /\ J = {} /\ R = {} /\ K = {}
      /\ \A x \in C : x \in C => U = {} /\ Q = {} /\ B = {} /\ J = {} /\ R = {} /\ K = {}
      /\ \A x \in Q : x \in Q => U = {} /\ C = {} /\ B = {} /\ J = {} /\ R = {} /\ K = {}
      /\ \A x \in B : x \in B => U = {} /\ C = {} /\ Q = {} /\ J = {} /\ R = {} /\ K = {}
      /\ \A x \in J : x \in J => U = {} /\ C = {} /\ Q = {} /\ B = {} /\ R = {} /\ K = {}
      /\ \A x \in R : x \in R => U = {} /\ C = {} /\ Q = {} /\ B = {} /\ J = {} /\ K = {}
      /\ \A x \in K : x \in K => U = {} /\ C = {} /\ Q = {} /\ B = {} /\ J = {} /\ R = {}
  <2> HIDE DEF T
  <2>1. \A t, u \in T : t = u
    BY DEF T
  <2>2. \A t, u \in T : t[1] = u[1]
    BY <2>1
  <2> QED BY <1>1, <2>2
<1>3. /\ (\A x, y \in C : x = y) /\ (\A x, y \in Q : x = y) /\ (\A x, y \in B : x = y)
      /\ (\A x, y \in J : x = y) /\ (\A x, y \in R : x = y) /\ (\A x, y \in K : x = y)
  <2> HIDE DEF T
  <2>1. \A t, u \in T : t = u
    BY DEF T
  <2>2. \A t, u \in T : t[2] = u[2]
    BY <2>1
  <2> QED BY <1>1, <2>2
<1> QED BY <1>2, <1>3

\* When one place holds p the others do not.
LEMMA OnePlace ==
    ASSUME NEW p, Ledger(p)
    PROVE  /\ AtUnsent(p) # {} => AtClient(p) = {} /\ AtQueue(p) = {} /\ AtBlock(p) = {}
                  /\ AtJob(p) = {} /\ AtRelay(p) = {} /\ AtCap(p) = {}
           /\ AtClient(p) # {} => AtUnsent(p) = {} /\ AtQueue(p) = {} /\ AtBlock(p) = {}
                  /\ AtJob(p) = {} /\ AtRelay(p) = {} /\ AtCap(p) = {}
           /\ AtQueue(p) # {} => AtUnsent(p) = {} /\ AtClient(p) = {} /\ AtBlock(p) = {}
                  /\ AtJob(p) = {} /\ AtRelay(p) = {} /\ AtCap(p) = {}
           /\ AtBlock(p) # {} => AtUnsent(p) = {} /\ AtClient(p) = {} /\ AtQueue(p) = {}
                  /\ AtJob(p) = {} /\ AtRelay(p) = {} /\ AtCap(p) = {}
           /\ AtJob(p) # {} => AtUnsent(p) = {} /\ AtClient(p) = {} /\ AtQueue(p) = {}
                  /\ AtBlock(p) = {} /\ AtRelay(p) = {} /\ AtCap(p) = {}
           /\ AtRelay(p) # {} => AtUnsent(p) = {} /\ AtClient(p) = {} /\ AtQueue(p) = {}
                  /\ AtBlock(p) = {} /\ AtJob(p) = {} /\ AtCap(p) = {}
           /\ AtCap(p) # {} => AtUnsent(p) = {} /\ AtClient(p) = {} /\ AtQueue(p) = {}
                  /\ AtBlock(p) = {} /\ AtJob(p) = {} /\ AtRelay(p) = {}
           /\ \A x, y \in AtClient(p) : x = y
           /\ \A x, y \in AtQueue(p) : x = y
           /\ \A x, y \in AtBlock(p) : x = y
           /\ \A x, y \in AtJob(p) : x = y
           /\ \A x, y \in AtRelay(p) : x = y
           /\ \A x, y \in AtCap(p) : x = y
<1> DEFINE U == AtUnsent(p)
           C == AtClient(p)
           Q == AtQueue(p)
           B == AtBlock(p)
           J == AtJob(p)
           R == AtRelay(p)
           K == AtCap(p)
<1>1. \A t, u \in Tagged(U, C, Q, B, J, R, K) : t = u
  BY DEF Ledger, Places
<1> SUFFICES /\ U # {} => C = {} /\ Q = {} /\ B = {}
                    /\ J = {} /\ R = {} /\ K = {}
             /\ C # {} => U = {} /\ Q = {} /\ B = {}
                    /\ J = {} /\ R = {} /\ K = {}
             /\ Q # {} => U = {} /\ C = {} /\ B = {}
                    /\ J = {} /\ R = {} /\ K = {}
             /\ B # {} => U = {} /\ C = {} /\ Q = {}
                    /\ J = {} /\ R = {} /\ K = {}
             /\ J # {} => U = {} /\ C = {} /\ Q = {}
                    /\ B = {} /\ R = {} /\ K = {}
             /\ R # {} => U = {} /\ C = {} /\ Q = {}
                    /\ B = {} /\ J = {} /\ K = {}
             /\ K # {} => U = {} /\ C = {} /\ Q = {}
                    /\ B = {} /\ J = {} /\ R = {}
             /\ \A x, y \in C : x = y
             /\ \A x, y \in Q : x = y
             /\ \A x, y \in B : x = y
             /\ \A x, y \in J : x = y
             /\ \A x, y \in R : x = y
             /\ \A x, y \in K : x = y
  OBVIOUS
<1> HIDE DEF U, C, Q, B, J, R, K
<1> QED BY <1>1, TaggedOne

\* A payment that this step does not touch on the ledger.
Kept(p) ==
    debited'[p] = debited[p] /\ credited'[p] = credited[p] /\ (p \in committed' <=> p \in committed)

LEMMA LedgerStands ==
    ASSUME NEW p, Ledger(p), Kept(p),
           AtUnsent(p)' = AtUnsent(p), AtClient(p)' = AtClient(p), AtQueue(p)' = AtQueue(p),
           AtBlock(p)' = AtBlock(p), AtJob(p)' = AtJob(p), AtRelay(p)' = AtRelay(p),
           AtCap(p)' = AtCap(p)
    PROVE  Ledger(p)'
<1>1. Places(p)' = Places(p)
  BY DEF Places
<1>2. Open(p)' = Open(p) /\ Settled(p)' = Settled(p)
  BY DEF Kept, Open, Settled
<1> QED BY <1>1, <1>2 DEF Ledger

\* From one place to another.
LEMMA LedgerMoves ==
    ASSUME NEW p, Ledger(p), Kept(p), Places(p) # {}, NEW t, Places(p)' = {t}
    PROVE  Ledger(p)'
<1>1. Open(p)' = Open(p)
  BY DEF Kept, Open
<1> QED BY <1>1 DEF Ledger

LEMMA TaggedSingle ==
    ASSUME NEW x
    PROVE  /\ Tagged({}, {x}, {}, {}, {}, {}, {}) = {<<"client", x>>}
           /\ Tagged({}, {}, {x}, {}, {}, {}, {}) = {<<"queue", x>>}
           /\ Tagged({}, {}, {}, {x}, {}, {}, {}) = {<<"block", x>>}
           /\ Tagged({}, {}, {}, {}, {x}, {}, {}) = {<<"job", x>>}
           /\ Tagged({}, {}, {}, {}, {}, {x}, {}) = {<<"relay", x>>}
           /\ Tagged({}, {}, {}, {}, {}, {}, {x}) = {<<"cap", x>>}
           /\ Tagged({}, {}, {}, {}, {}, {}, {}) = {}
  BY DEF Tagged

LEMMA PlacesHeld ==
    ASSUME NEW p, AtUnsent(p) # {} \/ AtClient(p) # {} \/ AtQueue(p) # {} \/ AtBlock(p) # {}
                    \/ AtJob(p) # {} \/ AtRelay(p) # {} \/ AtCap(p) # {}
    PROVE  Places(p) # {}
<1> DEFINE U == AtUnsent(p)
           C == AtClient(p)
           Q == AtQueue(p)
           B == AtBlock(p)
           J == AtJob(p)
           R == AtRelay(p)
           K == AtCap(p)
<1>1. Places(p) = Tagged(U, C, Q, B, J, R, K)
  BY DEF Places
<1>2. U # {} \/ C # {} \/ Q # {} \/ B # {} \/ J # {} \/ R # {} \/ K # {}
  OBVIOUS
<1> HIDE DEF U, C, Q, B, J, R, K
<1> QED BY <1>1, <1>2 DEF Tagged

\* What does not change when its variable does not.
LEMMA Unmoved ==
    ASSUME NEW p, Account2Shard' = Account2Shard, debited'[p] = debited[p]
    PROVE  /\ unsent' = unsent => AtUnsent(p)' = AtUnsent(p)
           /\ cClient' = cClient => AtClient(p)' = AtClient(p)
           /\ cClient' = cClient /\ unsent' = unsent /\ InClient(p) => InClient(p)'
           /\ Queue' = Queue => AtQueue(p)' = AtQueue(p)
           /\ Queue' = Queue /\ InQueue(p) => InQueue(p)'
           /\ block' = block => AtBlock(p)' = AtBlock(p)
           /\ block' = block /\ InBlock(p) => InBlock(p)'
           /\ Outing_Before_Announce_TX_Pools' = Outing_Before_Announce_TX_Pools /\ InPools(p) => InPools(p)'
           /\ relaying' = relaying => AtJob(p)' = AtJob(p)
           /\ relaying' = relaying /\ InJobs(p) => InJobs(p)'
           /\ cRelay' = cRelay => AtRelay(p)' = AtRelay(p)
           /\ cRelay' = cRelay /\ InRelays(p) => InRelays(p)'
           /\ cCaP' = cCaP => AtCap(p)' = AtCap(p)
           /\ cCaP' = cCaP /\ InCaps(p) => InCaps(p)'
<1>1. Own(0)' = Own(0) /\ \A s : Own(s)' = Own(s)
  BY DEF Own
<1>2. \A s, tx : Phase(p, s, tx)' = Phase(p, s, tx)
  BY <1>1 DEF Phase
<1>3. \A a, s : AtDestination(a, s)' = AtDestination(a, s)
  BY DEF AtDestination, Arrived
<1>4. \A txs : (Once(p, txs)' <=> Once(p, txs)) /\ (In(p, txs)' <=> In(p, txs))
  BY DEF Once, In, Has
<1>5. \A tx : Has(p, tx)' <=> Has(p, tx)
  BY DEF Has
<1>6. /\ unsent' = unsent => AtUnsent(p)' = AtUnsent(p)
      /\ cClient' = cClient => AtClient(p)' = AtClient(p)
      /\ cClient' = cClient /\ unsent' = unsent /\ InClient(p) => InClient(p)'
  BY DEF AtUnsent, AtClient, InClient, Has
<1>7. /\ Queue' = Queue => AtQueue(p)' = AtQueue(p)
      /\ block' = block => AtBlock(p)' = AtBlock(p)
      /\ relaying' = relaying => AtJob(p)' = AtJob(p)
      /\ cRelay' = cRelay => AtRelay(p)' = AtRelay(p)
      /\ cCaP' = cCaP => AtCap(p)' = AtCap(p)
  BY DEF AtQueue, AtBlock, AtJob, AtRelay, AtCap, In, Has
<1>8. Queue' = Queue /\ InQueue(p) => InQueue(p)'
  BY <1>2, <1>4, <1>5 DEF InQueue
<1>9. block' = block /\ InBlock(p) => InBlock(p)'
  BY <1>2, <1>4, <1>5 DEF InBlock
<1>10. Outing_Before_Announce_TX_Pools' = Outing_Before_Announce_TX_Pools /\ InPools(p) => InPools(p)'
  BY <1>4 DEF InPools
<1>11. relaying' = relaying /\ InJobs(p) => InJobs(p)'
  BY <1>4 DEF InJobs, FitJob
<1>12. cRelay' = cRelay /\ InRelays(p) => InRelays(p)'
  BY <1>3, <1>4 DEF InRelays, FitRelay
<1>13. cCaP' = cCaP /\ InCaps(p) => InCaps(p)'
  BY <1>4, <1>5 DEF InCaps
<1> QED BY <1>6, <1>7, <1>8, <1>9, <1>10, <1>11, <1>12, <1>13

-----------------------------------------------------------------------------
(* Bags that gain and lose a message *)

LEMMA BagGains ==
    ASSUME NEW B, NEW S, NEW x
    PROVE  /\ x \in BagToSet(B) /\ x \notin S /\ B[x] = 1 => (B (+) SetToBag(S))[x] = 1
           /\ x \notin BagToSet(B) /\ x \in S => (B (+) SetToBag(S))[x] = 1
  BY DEF BagToSet, SetToBag, (+)

LEMMA BagLoses ==
    ASSUME NEW B, NEW m
    PROVE  /\ m \in BagToSet(B) /\ B[m] = 1 => m \notin BagToSet(B (-) SetToBag({m}))
           /\ \A x \in BagToSet(B) \ {m} : B[x] = 1 =>
                x \in BagToSet(B (-) SetToBag({m})) /\ (B (-) SetToBag({m}))[x] = 1
  BY DEF BagToSet, SetToBag, (-)

\* A step that leaves the accounts where they are.
Still(p) == Account2Shard' = Account2Shard /\ debited'[p] = debited[p]

LEMMA StillSame ==
    ASSUME NEW p, Still(p)
    PROVE  /\ \A s : Own(s)' = Own(s)
           /\ \A s, tx : Phase(p, s, tx)' <=> Phase(p, s, tx)
           /\ \A job : FitJob(p, job)' <=> FitJob(p, job)
           /\ \A m : FitRelay(p, m)' <=> FitRelay(p, m)
<1>1. \A s : Own(s)' = Own(s)
  BY DEF Still, Own
<1>2. \A s, tx : Phase(p, s, tx)' <=> Phase(p, s, tx)
  BY <1>1 DEF Still, Phase
<1>3. \A a, s : AtDestination(a, s)' <=> AtDestination(a, s)
  BY DEF Still, AtDestination, Arrived
<1>4. \A txs : Once(p, txs)' <=> Once(p, txs)
  BY DEF Once
<1>5. \A job : FitJob(p, job)' <=> FitJob(p, job)
  BY <1>4 DEF Still, FitJob
<1>6. \A m : FitRelay(p, m)' <=> FitRelay(p, m)
  BY <1>3, <1>4 DEF Still, FitRelay
<1> QED BY <1>1, <1>2, <1>5, <1>6

\* p and the transactions do not change in a step.
LEMMA Rigid ==
    ASSUME NEW p
    PROVE  /\ \A tx : Has(p, tx)' <=> Has(p, tx)
           /\ \A txs : In(p, txs)' <=> In(p, txs)
           /\ \A txs : Once(p, txs)' <=> Once(p, txs)
  BY DEF Has, In, Once

\* A queue that receives the transactions t.
LEMMA QueueGains ==
    ASSUME NEW p, Typed, NEW d \in Shards, NEW t \in Seq(Tx),
           Queue' = [Queue EXCEPT ![d] = @ \o t], Still(p)
    PROVE  /\ ~In(p, t) => AtQueue(p)' = AtQueue(p) /\ (InQueue(p) => InQueue(p)')
           /\ In(p, t) /\ AtQueue(p) = {} => AtQueue(p)' = {d}
           /\ /\ In(p, t) /\ AtQueue(p) = {} /\ InQueue(p) /\ Once(p, t)
              /\ \A x \in ToSet(t) : Has(p, x) => Phase(p, d, x)
              => InQueue(p)'
<1>1. \A s \in Shards : Queue'[s] = IF s = d THEN Queue[s] \o t ELSE Queue[s]
  BY DEF Typed
<1>2. \A s \in Shards : Queue[s] \in Seq(Tx)
  BY DEF Typed
<1>3. \A s \in Shards : /\ In(p, Queue[s] \o t) <=> In(p, Queue[s]) \/ In(p, t)
                        /\ ToSet(Queue[s] \o t) = ToSet(Queue[s]) \cup ToSet(t)
  BY <1>2, InCat, ConcatElements
<1>4. \A s \in Shards : In(p, Queue'[s]) <=> In(p, Queue[s]) \/ (s = d /\ In(p, t))
  BY <1>1, <1>3
<1>5. AtQueue(p)' = {s \in Shards : In(p, Queue'[s])}
  BY Rigid DEF AtQueue
<1>6. ~In(p, t) => AtQueue(p)' = AtQueue(p)
  BY <1>4, <1>5 DEF AtQueue
<1>7. In(p, t) /\ AtQueue(p) = {} => AtQueue(p)' = {d}
  BY <1>4, <1>5 DEF AtQueue
<1>8. InQueue(p)' <=> \A s \in Shards : /\ Once(p, Queue'[s])
                                        /\ \A tx \in ToSet(Queue'[s]) : Has(p, tx) => Phase(p, s, tx)
  BY Rigid, StillSame DEF InQueue
<1>9. ASSUME ~In(p, t), InQueue(p) PROVE InQueue(p)'
  <2>1. \A s \in Shards : Once(p, Queue'[s])
    BY <1>1, <1>2, <1>9, OnceIfOut, OnceCat DEF InQueue
  <2>2. \A s \in Shards : \A tx \in ToSet(Queue'[s]) : Has(p, tx) => Phase(p, s, tx)
    BY <1>1, <1>3, <1>9 DEF InQueue, In
  <2> QED BY <1>8, <2>1, <2>2
<1>10. ASSUME In(p, t), AtQueue(p) = {}, InQueue(p), Once(p, t),
              \A x \in ToSet(t) : Has(p, x) => Phase(p, d, x)
       PROVE  InQueue(p)'
  <2>1. \A s \in Shards : ~In(p, Queue[s])
    BY <1>10 DEF AtQueue
  <2>2. \A s \in Shards : Once(p, Queue'[s])
    BY <1>1, <1>2, <1>10, <2>1, OnceCat DEF InQueue
  <2>3. \A s \in Shards : \A tx \in ToSet(Queue'[s]) : Has(p, tx) => Phase(p, s, tx)
    BY <1>1, <1>3, <1>10 DEF InQueue
  <2> QED BY <1>8, <2>2, <2>3
<1> QED BY <1>6, <1>7, <1>9, <1>10

\* A new relay job; the jobs under way stay fit.
LEMMA JobsGain ==
    ASSUME NEW p, NEW d, NEW t, relaying' = relaying (+) Relaying(d, t), InJobs(p),
           ~In(p, t) => \A job \in AtJob(p) : FitJob(p, job)'
    PROVE  /\ ~In(p, t) => AtJob(p)' = AtJob(p) /\ InJobs(p)'
           /\ LET job == [shard |-> d, txs |-> t]
              IN  In(p, t) /\ AtJob(p) = {} =>
                    AtJob(p)' = {job} /\ (FitJob(p, job)' => InJobs(p)')
<1> DEFINE new == [shard |-> d, txs |-> t]
           S == IF t = <<>> THEN {} ELSE {new}
<1>1. relaying' = relaying (+) SetToBag(S)
  <2>1. EmptyBag = SetToBag({})
    BY DEF EmptyBag
  <2> QED BY <2>1 DEF Relaying
<1>2. BagToSet(relaying') = BagToSet(relaying) \cup S
  BY <1>1, BagElements
<1>3. new.txs = t
  OBVIOUS
<1>4. AtJob(p)' = {job \in BagToSet(relaying') : In(p, job.txs)}
  BY Rigid DEF AtJob
<1>5. InJobs(p)' <=> \A job \in BagToSet(relaying') : In(p, job.txs) => relaying'[job] = 1 /\ FitJob(p, job)'
  BY Rigid DEF InJobs
<1>6. In(p, t) => t # <<>>
  BY NoElements DEF In
<1> HIDE DEF new
<1>7. ASSUME ~In(p, t) PROVE AtJob(p)' = AtJob(p) /\ InJobs(p)'
  <2>1. \A job \in S : ~In(p, job.txs)
    BY <1>3, <1>7
  <2> HIDE DEF S
  <2>2. AtJob(p)' = AtJob(p)
    BY <1>2, <1>4, <2>1 DEF AtJob
  <2>3. ASSUME NEW job \in BagToSet(relaying'), In(p, job.txs) PROVE relaying'[job] = 1 /\ FitJob(p, job)'
    <3>1. job \in BagToSet(relaying) /\ job \notin S
      BY <1>2, <2>1, <2>3
    <3>2. relaying[job] = 1 /\ job \in AtJob(p)
      BY <2>3, <3>1 DEF InJobs, AtJob
    <3> QED BY <1>1, <1>7, <3>1, <3>2, BagGains
  <2> QED BY <1>5, <2>2, <2>3
<1>8. ASSUME In(p, t), AtJob(p) = {} PROVE AtJob(p)' = {new} /\ (FitJob(p, new)' => InJobs(p)')
  <2>1. S = {new}
    BY <1>6, <1>8
  <2> HIDE DEF S
  <2>2. \A job \in BagToSet(relaying) : ~In(p, job.txs)
    BY <1>8 DEF AtJob
  <2>3. AtJob(p)' = {new}
    BY <1>2, <1>3, <1>4, <1>8, <2>1, <2>2
  <2>4. relaying'[new] = 1
    BY <1>1, <1>3, <1>8, <2>1, <2>2, BagGains
  <2>5. \A job \in BagToSet(relaying') : In(p, job.txs) => job = new
    BY <1>2, <2>1, <2>2
  <2> QED BY <1>5, <2>3, <2>4, <2>5
<1> QED BY <1>7, <1>8 DEF new

\* A job that ends.
LEMMA JobsLose ==
    ASSUME NEW p, NEW m \in BagToSet(relaying), relaying' = relaying (-) SetToBag({m}),
           Still(p), InJobs(p)
    PROVE  /\ InJobs(p)'
           /\ ~In(p, m.txs) => AtJob(p)' = AtJob(p)
           /\ In(p, m.txs) => AtJob(p)' = AtJob(p) \ {m}
<1>1. BagToSet(relaying') \subseteq BagToSet(relaying)
  BY BagElements
<1>0. \A x \in BagToSet(relaying) : In(p, x.txs) => relaying[x] = 1
  BY DEF InJobs
<1>2. \A x \in BagToSet(relaying) \ {m} : In(p, x.txs) => x \in BagToSet(relaying') /\ relaying'[x] = 1
  <2>1. \A x \in BagToSet(relaying) \ {m} : relaying[x] = 1 =>
          x \in BagToSet(relaying (-) SetToBag({m})) /\ (relaying (-) SetToBag({m}))[x] = 1
    BY BagLoses
  <2> QED BY <1>0, <2>1
<1>3. In(p, m.txs) => m \notin BagToSet(relaying')
  <2>1. relaying[m] = 1 => m \notin BagToSet(relaying (-) SetToBag({m}))
    BY BagLoses
  <2> QED BY <1>0, <2>1
<1>4. AtJob(p)' = {job \in BagToSet(relaying') : In(p, job.txs)}
  BY Rigid DEF AtJob
<1>5. InJobs(p)' <=> \A job \in BagToSet(relaying') : In(p, job.txs) => relaying'[job] = 1 /\ FitJob(p, job)
  BY Rigid, StillSame DEF InJobs
<1>6. InJobs(p)'
  BY <1>1, <1>2, <1>3, <1>5 DEF InJobs
<1>7. ~In(p, m.txs) => AtJob(p)' = AtJob(p)
  BY <1>1, <1>2, <1>4 DEF AtJob
<1>8. In(p, m.txs) => AtJob(p)' = AtJob(p) \ {m}
  BY <1>1, <1>2, <1>3, <1>4 DEF AtJob
<1> QED BY <1>6, <1>7, <1>8

LEMMA RelaysLose ==
    ASSUME NEW p, NEW m \in BagToSet(cRelay), cRelay' = cRelay (-) SetToBag({m}),
           Still(p), InRelays(p)
    PROVE  /\ InRelays(p)'
           /\ ~In(p, m.txs) => AtRelay(p)' = AtRelay(p)
           /\ In(p, m.txs) => AtRelay(p)' = AtRelay(p) \ {m}
<1>1. BagToSet(cRelay') \subseteq BagToSet(cRelay)
  BY BagElements
<1>0. \A x \in BagToSet(cRelay) : In(p, x.txs) => cRelay[x] = 1
  BY DEF InRelays
<1>2. \A x \in BagToSet(cRelay) \ {m} : In(p, x.txs) => x \in BagToSet(cRelay') /\ cRelay'[x] = 1
  <2>1. \A x \in BagToSet(cRelay) \ {m} : cRelay[x] = 1 =>
          x \in BagToSet(cRelay (-) SetToBag({m})) /\ (cRelay (-) SetToBag({m}))[x] = 1
    BY BagLoses
  <2> QED BY <1>0, <2>1
<1>3. In(p, m.txs) => m \notin BagToSet(cRelay')
  <2>1. cRelay[m] = 1 => m \notin BagToSet(cRelay (-) SetToBag({m}))
    BY BagLoses
  <2> QED BY <1>0, <2>1
<1>4. AtRelay(p)' = {x \in BagToSet(cRelay') : In(p, x.txs)}
  BY Rigid DEF AtRelay
<1>5. InRelays(p)' <=> \A x \in BagToSet(cRelay') : In(p, x.txs) => cRelay'[x] = 1 /\ FitRelay(p, x)
  BY Rigid, StillSame DEF InRelays
<1>6. InRelays(p)'
  BY <1>1, <1>2, <1>3, <1>5 DEF InRelays
<1>7. ~In(p, m.txs) => AtRelay(p)' = AtRelay(p)
  BY <1>1, <1>2, <1>4 DEF AtRelay
<1>8. In(p, m.txs) => AtRelay(p)' = AtRelay(p) \ {m}
  BY <1>1, <1>2, <1>3, <1>4 DEF AtRelay
<1> QED BY <1>6, <1>7, <1>8

LEMMA RelaysGain ==
    ASSUME NEW p, NEW S, cRelay' = cRelay (+) SetToBag(S), Still(p), InRelays(p)
    PROVE  /\ (\A m \in S : ~In(p, m.txs)) => AtRelay(p)' = AtRelay(p) /\ InRelays(p)'
           /\ \A x \in S : AtRelay(p) = {} /\ (\A m \in S : In(p, m.txs) <=> m = x) =>
                AtRelay(p)' = {x} /\ (FitRelay(p, x) => InRelays(p)')
<1>2. BagToSet(cRelay') = BagToSet(cRelay) \cup S
  BY BagElements
<1>4. AtRelay(p)' = {m \in BagToSet(cRelay') : In(p, m.txs)}
  BY Rigid DEF AtRelay
<1>5. InRelays(p)' <=> \A m \in BagToSet(cRelay') : In(p, m.txs) => cRelay'[m] = 1 /\ FitRelay(p, m)
  BY Rigid, StillSame DEF InRelays
<1>7. ASSUME \A m \in S : ~In(p, m.txs) PROVE AtRelay(p)' = AtRelay(p) /\ InRelays(p)'
  <2>2. AtRelay(p)' = AtRelay(p)
    BY <1>2, <1>4, <1>7 DEF AtRelay
  <2>3. ASSUME NEW m \in BagToSet(cRelay'), In(p, m.txs) PROVE cRelay'[m] = 1 /\ FitRelay(p, m)
    <3>1. m \in BagToSet(cRelay) /\ m \notin S
      BY <1>2, <1>7, <2>3
    <3>2. cRelay[m] = 1 /\ FitRelay(p, m)
      BY <2>3, <3>1 DEF InRelays
    <3> QED BY <3>1, <3>2, BagGains
  <2> QED BY <1>5, <2>2, <2>3
<1>8. ASSUME NEW x \in S, AtRelay(p) = {}, \A m \in S : In(p, m.txs) <=> m = x
      PROVE  AtRelay(p)' = {x} /\ (FitRelay(p, x) => InRelays(p)')
  <2>2. \A m \in BagToSet(cRelay) : ~In(p, m.txs)
    BY <1>8 DEF AtRelay
  <2>3. AtRelay(p)' = {x}
    BY <1>2, <1>4, <1>8, <2>2
  <2>4. cRelay'[x] = 1
    BY <1>8, <2>2, BagGains
  <2>5. \A m \in BagToSet(cRelay') : In(p, m.txs) => m = x
    BY <1>2, <1>8, <2>2
  <2> QED BY <1>5, <2>3, <2>4, <2>5
<1> QED BY <1>7, <1>8

-----------------------------------------------------------------------------
(* The transaction that holds a payment whose payer stays *)

LEMMA PlainHas ==
    ASSUME NEW p \in PayerStays, NEW tx \in Tx, Plain(tx), Has(p, tx)
    PROVE  /\ tx.from = Payer[p] /\ tx.from \notin Movers
           /\ DOMAIN tx.pays = {1} /\ tx.pays[1] = p /\ Once(p, <<tx>>)
<1>1. PICK i \in DOMAIN tx.pays : tx.pays[i] = p
  BY HasAt
<1>2. tx.from = Payer[p] /\ tx.from \notin Movers
  BY <1>1 DEF Plain, PayerStays, Movers
<1>3. DOMAIN tx.pays = 1..Len(tx.pays) /\ Len(tx.pays) = 1
  BY <1>2, TxPays DEF Plain
<1>4. DOMAIN tx.pays = {1}
  BY <1>3
<1>5. DOMAIN <<tx>> = {1} /\ <<tx>>[1] = tx
  OBVIOUS
<1>6. Once(p, <<tx>>)
  BY <1>4, <1>5 DEF Once
<1> QED BY <1>1, <1>2, <1>4, <1>6

LEMMA SamePayee ==
    ASSUME MoversApart, NEW p, NEW tx \in Tx, NEW s, Plain(tx) \/ GatheredAt(tx, s), Has(p, tx)
    PROVE  \A i \in DOMAIN tx.pays : Payee[tx.pays[i]] = Payee[p]
<1>1. PICK i \in DOMAIN tx.pays : tx.pays[i] = p
  BY HasAt
<1> QED BY <1>1, UniformPays

LEMMA OnceUnique ==
    ASSUME NEW p, NEW s \in Seq(Tx), Once(p, s), NEW x \in ToSet(s), NEW y \in ToSet(s),
           Has(p, x), Has(p, y)
    PROVE  x = y
<1>1. PICK k \in DOMAIN s : s[k] = x
  BY ElementsOf
<1>2. PICK l \in DOMAIN s : s[l] = y
  BY ElementsOf
<1>3. x \in Tx /\ y \in Tx
  BY ElementsOf
<1>4. k = l
  BY <1>1, <1>2, <1>3, HasAt DEF Once
<1> QED BY <1>1, <1>2, <1>4

LEMMA AppendIsCat ==
    ASSUME NEW s \in Seq(Tx), NEW x \in Tx
    PROVE  /\ Append(s, x) = s \o <<x>> /\ <<x>> \in Seq(Tx) /\ ToSet(<<x>>) = {x}
           /\ \A p : In(p, <<x>>) <=> Has(p, x)
<1>1. <<x>> \in Seq(Tx) /\ ToSet(<<x>>) = {x}
  BY DEF ToSet
<1>2. Append(s, x) = s \o <<x>>
  <2>1. /\ Append(s, x) \in Seq(Tx) /\ Len(Append(s, x)) = Len(s) + 1 /\ Len(s) \in Nat
        /\ \A i \in 1..Len(s) : Append(s, x)[i] = s[i]
        /\ Append(s, x)[Len(s) + 1] = x
    BY AppendProperties
  <2>2. /\ s \o <<x>> \in Seq(Tx) /\ Len(s \o <<x>>) = Len(s) + 1
        /\ \A i \in 1..(Len(s) + 1) : (s \o <<x>>)[i] = IF i <= Len(s) THEN s[i] ELSE <<x>>[i - Len(s)]
    BY <1>1, ConcatProperties
  <2>3. \A i \in 1..(Len(s) + 1) : Append(s, x)[i] = (s \o <<x>>)[i]
    BY <2>1, <2>2
  <2> QED BY <2>1, <2>2, <2>3, SeqEqual
<1> QED BY <1>1, <1>2 DEF In

-----------------------------------------------------------------------------
(* The steps of a payment *)

LEMMA TrackQuiet ==
    ASSUME NEW p, Tracked(p),
           UNCHANGED <<Account2Shard, block, Queue, Outing_Before_Announce_TX_Pools, relaying,
                       cClient, cRelay, cCaP, unsent, debited, credited, committed>>
    PROVE  Tracked(p)'
<1>1. Kept(p)
  BY DEF Kept
<1> QED BY <1>1, Unmoved, LedgerStands DEF Tracked

LEMMA TrackInject ==
    ASSUME NEW p, Tracked(p), NEW q \in Payments, InjectTX(q)
    PROVE  Tracked(p)'
<1> DEFINE new == [dst |-> clientMap[Payer[q]],
                   tx  |-> [from |-> Payer[q], pays |-> <<q>>, IsRelay |-> FALSE]]
<1>1. /\ q \in unsent /\ unsent' = unsent \ {q} /\ cClient' = cClient \cup {new}
      /\ UNCHANGED <<Account2Shard, block, Queue, Outing_Before_Announce_TX_Pools, relaying,
                     cRelay, cCaP, debited, credited, committed>>
  BY DEF InjectTX, migration, history
<1>2. ~new.tx.IsRelay /\ (Has(p, new.tx) <=> p = q)
  <2>1. new.tx.pays = <<q>> /\ ToSet(<<q>>) = {q}
    BY DEF ToSet
  <2> QED BY <2>1 DEF Has
<1> HIDE DEF new
<1>3. Kept(p)
  BY <1>1 DEF Kept
<1>4. /\ InQueue(p)' /\ InBlock(p)' /\ InPools(p)' /\ InJobs(p)' /\ InRelays(p)' /\ InCaps(p)'
      /\ AtQueue(p)' = AtQueue(p) /\ AtBlock(p)' = AtBlock(p) /\ AtJob(p)' = AtJob(p)
      /\ AtRelay(p)' = AtRelay(p) /\ AtCap(p)' = AtCap(p)
  BY <1>1, Unmoved DEF Tracked
<1>5. InClient(p)'
  BY <1>1, <1>2, Rigid DEF Tracked, InClient
<1>6. CASE p # q
  <2>1. AtUnsent(p)' = AtUnsent(p) /\ AtClient(p)' = AtClient(p)
    BY <1>1, <1>2, <1>6, Rigid DEF AtUnsent, AtClient
  <2> QED BY <1>3, <1>4, <1>5, <2>1, LedgerStands DEF Tracked
<1>7. CASE p = q
  <2>1. AtUnsent(p) # {}
    BY <1>1, <1>7 DEF AtUnsent
  <2>2. /\ AtClient(p) = {} /\ AtQueue(p) = {} /\ AtBlock(p) = {}
        /\ AtJob(p) = {} /\ AtRelay(p) = {} /\ AtCap(p) = {}
    BY <2>1, OnePlace DEF Tracked
  <2>3. AtUnsent(p)' = {}
    BY <1>1, <1>7 DEF AtUnsent
  <2>4. AtClient(p)' = {new}
    BY <1>1, <1>2, <1>7, <2>2, Rigid DEF AtClient
  <2>5. Places(p)' = {<<"client", new>>}
    BY <1>4, <2>2, <2>3, <2>4, TaggedSingle DEF Places
  <2> QED BY <1>3, <1>4, <1>5, <2>1, <2>5, PlacesHeld, LedgerMoves DEF Tracked
<1> QED BY <1>6, <1>7

LEMMA TrackClient ==
    ASSUME IndInv, Shapes, NEW p \in PayerStays, Tracked(p), NEW m \in cClient, handleTxFromClient(m)
    PROVE  Tracked(p)'
<1> USE DEF IndInv
<1> DEFINE home == Account2Shard[m.dst][m.tx.from]
           on == [m EXCEPT !.dst = home]
<1>1. m.dst \in Shards /\ m.tx \in Tx /\ m.tx.from \in Accounts /\ m = [dst |-> m.dst, tx |-> m.tx]
  BY TxPays DEF Typed
<1>2. /\ \/ Queue' = [Queue EXCEPT ![home] = Append(@, m.tx)] /\ cClient' = cClient \ {m}
         \/ cClient' = (cClient \ {m}) \cup {on} /\ UNCHANGED Queue
      /\ UNCHANGED <<Account2Shard, block, Outing_Before_Announce_TX_Pools, relaying,
                     cRelay, cCaP, unsent, debited, credited, committed>>
  BY DEF handleTxFromClient, migration, history
<1>3. home \in Shards
  BY <1>1 DEF Typed
<1>4. on.tx = m.tx
  BY <1>1
<1> HIDE DEF home, on
<1>5. Kept(p) /\ Still(p)
  BY <1>2 DEF Kept, Still
<1>6. /\ InBlock(p)' /\ InPools(p)' /\ InJobs(p)' /\ InRelays(p)' /\ InCaps(p)'
      /\ AtUnsent(p)' = AtUnsent(p) /\ AtBlock(p)' = AtBlock(p) /\ AtJob(p)' = AtJob(p)
      /\ AtRelay(p)' = AtRelay(p) /\ AtCap(p)' = AtCap(p)
  BY <1>2, Unmoved DEF Tracked
<1>7. InClient(p)'
  BY <1>2, <1>4, Rigid DEF Tracked, InClient
<1>8. AtClient(p)' = {x \in cClient' : Has(p, x.tx)}
  BY Rigid DEF AtClient
<1>9. ~In(p, <<m.tx>>) <=> ~Has(p, m.tx)
  BY <1>1, <1>3, AppendIsCat DEF Typed
<1>10. CASE Queue' = [Queue EXCEPT ![home] = Append(@, m.tx)] /\ cClient' = cClient \ {m}
  <2>1. /\ Queue' = [Queue EXCEPT ![home] = @ \o <<m.tx>>] /\ <<m.tx>> \in Seq(Tx)
        /\ ToSet(<<m.tx>>) = {m.tx}
    <3>1. Queue[home] \in Seq(Tx)
      BY <1>3 DEF Typed
    <3>2. Append(Queue[home], m.tx) = Queue[home] \o <<m.tx>>
      BY <1>1, <3>1, AppendIsCat
    <3> QED BY <1>1, <1>10, <3>1, <3>2, AppendIsCat
  <2>2. CASE ~Has(p, m.tx)
    <3>1. AtClient(p)' = AtClient(p)
      BY <1>8, <1>10, <2>2 DEF AtClient
    <3>2. AtQueue(p)' = AtQueue(p) /\ InQueue(p)'
      BY <1>3, <1>5, <1>9, <2>1, <2>2, QueueGains DEF Tracked
    <3> QED BY <1>5, <1>6, <1>7, <3>1, <3>2, LedgerStands DEF Tracked
  <2>3. CASE Has(p, m.tx)
    <3>1. m \in AtClient(p)
      BY <2>3 DEF AtClient
    <3>2. /\ AtUnsent(p) = {} /\ AtQueue(p) = {} /\ AtBlock(p) = {}
          /\ AtJob(p) = {} /\ AtRelay(p) = {} /\ AtCap(p) = {} /\ AtClient(p) = {m}
      BY <3>1, OnePlace DEF Tracked
    <3>3. AtClient(p)' = {}
      BY <1>8, <1>10, <3>2 DEF AtClient
    <3>4. Once(p, <<m.tx>>)
      BY <1>1, <2>3, PlainHas DEF Shapes
    <3>5. Phase(p, home, m.tx)
      BY <2>3 DEF Tracked, InClient, Phase
    <3>6. AtQueue(p)' = {home} /\ InQueue(p)'
      <4>1. In(p, <<m.tx>>) /\ \A x \in ToSet(<<m.tx>>) : Has(p, x) => Phase(p, home, x)
        BY <1>9, <2>1, <2>3, <3>5
      <4>2. InQueue(p)
        BY DEF Tracked
      <4> HIDE DEF IndInv
      <4>3. Typed
        BY DEF IndInv
      <4> QED BY <1>3, <1>5, <2>1, <3>2, <3>4, <4>1, <4>2, <4>3, QueueGains
    <3>7. Places(p)' = {<<"queue", home>>}
      BY <1>6, <3>2, <3>3, <3>6, TaggedSingle DEF Places
    <3> QED BY <1>5, <1>6, <1>7, <3>1, <3>6, <3>7, PlacesHeld, LedgerMoves DEF Tracked
  <2> QED BY <2>2, <2>3
<1>11. CASE cClient' = (cClient \ {m}) \cup {on} /\ UNCHANGED Queue
  <2>1. AtQueue(p)' = AtQueue(p) /\ InQueue(p)'
    BY <1>2, <1>11, Unmoved DEF Tracked
  <2>2. CASE ~Has(p, m.tx)
    <3>1. AtClient(p)' = AtClient(p)
      BY <1>4, <1>8, <1>11, <2>2 DEF AtClient
    <3> QED BY <1>5, <1>6, <1>7, <2>1, <3>1, LedgerStands DEF Tracked
  <2>3. CASE Has(p, m.tx)
    <3>1. m \in AtClient(p)
      BY <2>3 DEF AtClient
    <3>2. /\ AtUnsent(p) = {} /\ AtQueue(p) = {} /\ AtBlock(p) = {}
          /\ AtJob(p) = {} /\ AtRelay(p) = {} /\ AtCap(p) = {} /\ AtClient(p) = {m}
      BY <3>1, OnePlace DEF Tracked
    <3>3. AtClient(p)' = {on}
      BY <1>4, <1>8, <1>11, <2>3, <3>2 DEF AtClient
    <3>4. Places(p)' = {<<"client", on>>}
      BY <1>6, <2>1, <3>2, <3>3, TaggedSingle DEF Places
    <3> QED BY <1>5, <1>6, <1>7, <2>1, <3>1, <3>4, PlacesHeld, LedgerMoves DEF Tracked
  <2> QED BY <2>2, <2>3
<1> QED BY <1>2, <1>10, <1>11

LEMMA TrackRelay ==
    ASSUME MoversApart, IndInv, Shapes, NEW p \in PayerStays, Tracked(p),
           NEW m \in BagToSet(cRelay), handleRelay(m)
    PROVE  Tracked(p)'
<1>t. Typed /\ MovesGoOn /\ ReceiptsTravel
  BY DEF IndInv
<1>1. m.dst \in Shards /\ m.txs \in Seq(Tx)
  BY <1>t, RelayTyped
<1>2. /\ cRelay' = cRelay (-) SetToBag({m})
      /\ Queue' = [Queue EXCEPT ![m.dst] = @ \o Queued(m)]
      /\ relaying' = relaying (+) Relaying(m.dst, Onward(m))
      /\ UNCHANGED <<Account2Shard, block, Outing_Before_Announce_TX_Pools, cClient,
                     cCaP, unsent, debited, credited, committed>>
  BY HandleRelayUnfolds DEF migration, history
<1>3. /\ Queued(m) \in Seq(Tx) /\ Onward(m) \in Seq(Tx)
      /\ ToSet(Queued(m)) = Here(m) /\ ToSet(Onward(m)) = ToSet(m.txs) \ Here(m)
  BY <1>1, RelayParts
<1>5. Kept(p) /\ Still(p)
  BY <1>2 DEF Kept, Still
<1>6. /\ InClient(p)' /\ InBlock(p)' /\ InPools(p)' /\ InCaps(p)'
      /\ AtUnsent(p)' = AtUnsent(p) /\ AtClient(p)' = AtClient(p) /\ AtBlock(p)' = AtBlock(p)
      /\ AtCap(p)' = AtCap(p)
  BY <1>2, Unmoved DEF Tracked
<1>7. /\ InRelays(p)'
      /\ ~In(p, m.txs) => AtRelay(p)' = AtRelay(p)
      /\ In(p, m.txs) => AtRelay(p)' = AtRelay(p) \ {m}
  BY <1>2, <1>5, RelaysLose DEF Tracked
<1>8. InQueue(p) /\ InJobs(p) /\ Ledger(p)
  BY DEF Tracked
<1>9. \A job \in AtJob(p) : FitJob(p, job)'
  BY <1>5, <1>8, StillSame DEF InJobs, AtJob
<1>10. ~In(p, Queued(m)) => AtQueue(p)' = AtQueue(p) /\ InQueue(p)'
  BY <1>t, <1>1, <1>2, <1>3, <1>5, <1>8, QueueGains
<1>11. ~In(p, Onward(m)) => AtJob(p)' = AtJob(p) /\ InJobs(p)'
  BY <1>2, <1>8, <1>9, JobsGain
<1>12. CASE ~In(p, m.txs)
  <2>1. ~In(p, Queued(m)) /\ ~In(p, Onward(m))
    BY <1>3, <1>12 DEF In, Here
  <2> QED BY <1>5, <1>6, <1>7, <1>8, <1>10, <1>11, <1>12, <2>1, LedgerStands DEF Tracked
<1>13. CASE In(p, m.txs)
  <2>1. PICK x \in ToSet(m.txs) : Has(p, x)
    BY <1>13 DEF In
  <2>2. m \in AtRelay(p) /\ FitRelay(p, m)
    BY <1>13 DEF Tracked, InRelays, AtRelay
  <2>3. \A y \in ToSet(m.txs) : Has(p, y) => y = x
    BY <1>1, <2>1, <2>2, OnceUnique DEF FitRelay
  <2>4. /\ AtUnsent(p) = {} /\ AtClient(p) = {} /\ AtQueue(p) = {} /\ AtBlock(p) = {}
        /\ AtJob(p) = {} /\ AtCap(p) = {} /\ AtRelay(p) = {m}
    BY <1>8, <2>2, OnePlace
  <2>5. AtRelay(p)' = {}
    BY <1>7, <1>13, <2>4
  <2>6. x \in Tx /\ x.IsRelay /\ Plain(x)
    BY <1>t, <1>1, <2>1, ElementsOf DEF ReceiptsTravel, Shapes
  <2>7. Payee[x.pays[1]] = Payee[p]
    BY <2>1, <2>6, PlainHas
  <2>8. debited[p] = 1 /\ Payee[p] \in Accounts
    BY <2>2, TransactionsAssumption DEF FitRelay, PayerStays
  <2>9. CASE x \in Here(m)
    <3>1. In(p, Queued(m)) /\ ~In(p, Onward(m))
      BY <1>3, <2>1, <2>3, <2>9 DEF In
    <3>2. Once(p, Queued(m))
      BY <1>1, <2>2, OnceOnly DEF FitRelay, Queued
    <3>3. Phase(p, m.dst, x)
      BY <2>6, <2>7, <2>8, <2>9 DEF Phase, Here, QueuedHere, Own
    <3>4. \A y \in ToSet(Queued(m)) : Has(p, y) => Phase(p, m.dst, y)
      BY <1>3, <2>3, <3>3 DEF Here
    <3>5. AtQueue(p)' = {m.dst} /\ InQueue(p)'
      BY <1>t, <1>1, <1>2, <1>3, <1>5, <1>8, <2>4, <3>1, <3>2, <3>4, QueueGains
    <3>6. AtJob(p)' = {} /\ InJobs(p)'
      BY <1>11, <2>4, <3>1
    <3>7. Places(p)' = {<<"queue", m.dst>>}
      BY <1>6, <2>4, <2>5, <3>5, <3>6, TaggedSingle DEF Places
    <3> QED BY <1>5, <1>6, <1>7, <1>8, <2>2, <3>5, <3>6, <3>7, PlacesHeld, LedgerMoves DEF Tracked
  <2>10. CASE x \notin Here(m)
    <3>0. PICK t : t = Onward(m)
      OBVIOUS
    <3> DEFINE job == [shard |-> m.dst, txs |-> t]
    <3>1. ~In(p, Queued(m)) /\ In(p, Onward(m))
      BY <1>3, <2>1, <2>3, <2>10 DEF In, Here
    <3>2. Once(p, Onward(m))
      BY <1>1, <2>2, OnceOnly DEF FitRelay, Onward
    <3>3. Account2Shard[m.dst][Payee[p]] # m.dst
      BY <2>1, <2>7, <2>10 DEF Here, QueuedHere
    <3>4. ~AtDestination(Payee[p], m.dst)
      BY <3>3 DEF AtDestination, Arrived
    <3>5. \A n \in Moves : n.addr = Payee[p] => n.to # m.dst
      BY <2>2, <3>4, MoveTyped DEF FitRelay
    <3>6. FitJob(p, job)
      BY <2>8, <3>0, <3>2, <3>3, <3>5 DEF FitJob
    <3>7. FitJob(p, job)'
      BY <1>5, <3>6, StillSame
    <3>8. AtJob(p)' = {job} /\ InJobs(p)'
      <4>1. relaying' = relaying (+) Relaying(m.dst, t) /\ In(p, t)
        BY <1>2, <3>0, <3>1
      <4> QED BY <1>8, <1>9, <2>4, <3>7, <4>1, JobsGain
    <3>9. AtQueue(p)' = {} /\ InQueue(p)'
      BY <1>10, <2>4, <3>1
    <3> HIDE DEF job
    <3>10. Places(p)' = {<<"job", job>>}
      BY <1>6, <2>4, <2>5, <3>8, <3>9, TaggedSingle DEF Places
    <3> QED BY <1>5, <1>6, <1>7, <1>8, <2>2, <3>8, <3>9, <3>10, PlacesHeld, LedgerMoves DEF Tracked
  <2> QED BY <2>9, <2>10
<1> QED BY <1>12, <1>13

\* The copies of a list that holds p: to the shard where the payee is thought to
\* be, and once.
LEMMA CopiesOnce ==
    ASSUME NEW p \in PayerStays, NEW s, NEW d, NEW txs \in Seq(Tx), Once(p, txs),
           \A tx \in ToSet(txs) : Plain(tx)
    PROVE  /\ Once(p, Copies(s, d, txs))
           /\ In(p, Copies(s, d, txs)) <=> In(p, txs) /\ Account2Shard[s][Payee[p]] = d
<1> DEFINE P(tx) == {j \in DOMAIN tx.pays : Account2Shard[s][Payee[tx.pays[j]]] = d}
           c == [k \in DOMAIN txs |-> Cardinality(P(txs[k]))]
<1>1. \A k \in DOMAIN txs : txs[k] \in Tx /\ txs[k] \in ToSet(txs)
  BY ElementsOf
<1>2. \A tx \in Tx : Cardinality(P(tx)) \in Nat
  BY PlacesCount
<1>3. c \in [DOMAIN txs -> Nat]
  BY <1>1, <1>2
<1>4. Copies(s, d, txs) = Repeat(txs, c)
  BY DEF Copies, Repeat
<1>5. ASSUME NEW k \in DOMAIN txs, Has(p, txs[k]) PROVE c[k] <= 1
  <2>1. DOMAIN txs[k].pays = {1}
    BY <1>1, <1>5, PlainHas
  <2>2. P(txs[k]) = {} \/ P(txs[k]) = {1}
    BY <2>1
  <2>3. Cardinality({}) = 0 /\ Cardinality({1}) = 1
    BY FS_EmptySet, FS_Singleton
  <2>4. Cardinality(P(txs[k])) = 0 \/ Cardinality(P(txs[k])) = 1
    BY <2>2, <2>3
  <2>5. c[k] = Cardinality(P(txs[k]))
    OBVIOUS
  <2> HIDE DEF P, c
  <2> QED BY <2>4, <2>5
<1> HIDE DEF c
<1>6. Once(p, Copies(s, d, txs))
  BY <1>3, <1>4, <1>5, OnceRepeat
<1>7. \A x \in ToSet(txs) : Has(p, x) => DOMAIN x.pays = {1} /\ x.pays[1] = p
  BY PlainHas, ElementsOf
<1>8. In(p, Copies(s, d, txs)) <=> In(p, txs) /\ Account2Shard[s][Payee[p]] = d
  BY <1>7, CopiesElements DEF In
<1> QED BY <1>6, <1>8

LEMMA TrackTryRelay ==
    ASSUME IndInv, Shapes, NEW p \in PayerStays, Tracked(p),
           NEW job \in BagToSet(relaying), TryRelay(job)
    PROVE  Tracked(p)'
<1>t. Typed /\ MovesGoOn
  BY DEF IndInv
<1> DEFINE s == job.shard
           d == Account2Shard[s][Payee[p]]
           m == [dst |-> d, txs |-> Copies(s, d, job.txs)]
<1>1. s \in Shards /\ job.txs \in Seq(Tx) /\ \A tx \in ToSet(job.txs) : Plain(tx)
  BY <1>t, RelayTyped DEF Shapes
<1>2. /\ relaying' = relaying (-) SetToBag({job})
      /\ cRelay' = cRelay (+) SetToBag(Sent(job))
      /\ UNCHANGED <<Account2Shard, block, Queue, Outing_Before_Announce_TX_Pools, cClient,
                     cCaP, unsent, debited, credited, committed>>
  BY TryRelayUnfolds DEF migration, history
<1>3. Payee[p] \in Accounts
  BY TransactionsAssumption DEF PayerStays
<1>4. d \in Shards
  BY <1>t, <1>1, <1>3 DEF Typed
<1>5. Kept(p) /\ Still(p)
  BY <1>2 DEF Kept, Still
<1>6. /\ InClient(p)' /\ InQueue(p)' /\ InBlock(p)' /\ InPools(p)' /\ InCaps(p)'
      /\ AtUnsent(p)' = AtUnsent(p) /\ AtClient(p)' = AtClient(p) /\ AtQueue(p)' = AtQueue(p)
      /\ AtBlock(p)' = AtBlock(p) /\ AtCap(p)' = AtCap(p)
  BY <1>2, Unmoved DEF Tracked
<1>7. /\ InJobs(p)'
      /\ ~In(p, job.txs) => AtJob(p)' = AtJob(p)
      /\ In(p, job.txs) => AtJob(p)' = AtJob(p) \ {job}
  BY <1>2, <1>5, JobsLose DEF Tracked
<1>8. InRelays(p) /\ Ledger(p)
  BY DEF Tracked
<1>9. \A x \in Sent(job) : /\ x.dst \in Shards \ {s} /\ Copies(s, x.dst, job.txs) # <<>>
                           /\ x = [dst |-> x.dst, txs |-> Copies(s, x.dst, job.txs)]
  BY DEF Sent, Targets
<1>10. (\A x \in Sent(job) : ~In(p, x.txs)) => AtRelay(p)' = AtRelay(p) /\ InRelays(p)'
  BY <1>2, <1>5, <1>8, RelaysGain
<1> HIDE DEF s, d
<1>11. CASE ~In(p, job.txs)
  <2>1. \A x \in Sent(job) : ~In(p, x.txs)
    BY <1>1, <1>9, <1>11, CopiesElements DEF In
  <2> QED BY <1>5, <1>6, <1>7, <1>8, <1>10, <1>11, <2>1, LedgerStands DEF Tracked
<1>12. CASE In(p, job.txs)
  <2>1. job \in AtJob(p) /\ FitJob(p, job)
    BY <1>12 DEF Tracked, InJobs, AtJob
  <2>2. /\ AtUnsent(p) = {} /\ AtClient(p) = {} /\ AtQueue(p) = {} /\ AtBlock(p) = {}
        /\ AtRelay(p) = {} /\ AtCap(p) = {} /\ AtJob(p) = {job}
    BY <1>8, <2>1, OnePlace
  <2>3. AtJob(p)' = {}
    BY <1>7, <1>12, <2>2
  <2>4. \A z : /\ Once(p, Copies(s, z, job.txs))
               /\ In(p, Copies(s, z, job.txs)) <=> z = d
    BY <1>1, <1>12, <2>1, CopiesOnce DEF FitJob, d
  <2>5. \A x \in Sent(job) : In(p, x.txs) <=> x.dst = d
    BY <1>9, <2>4
  <2>6. CASE d # s
    <3>1. m \in Sent(job)
      <4>1. Copies(s, d, job.txs) # <<>>
        BY <2>4, NoElements DEF In
      <4> QED BY <1>4, <2>6, <4>1 DEF Sent, Targets, s
    <3>2. \A x \in Sent(job) : In(p, x.txs) <=> x = m
      BY <1>9, <2>5
    <3>3. FitRelay(p, m)
      <4>1. debited[p] = 1
        BY <2>1 DEF FitJob
      <4>2. d = Genesis[Payee[p]] \/ AtDestination(Payee[p], d)
        BY <1>t, <1>1, <1>3 DEF MovesGoOn, d
      <4>3. m.dst = d /\ Once(p, m.txs)
        BY <2>4
      <4> HIDE DEF m
      <4> QED BY <4>1, <4>2, <4>3 DEF FitRelay
    <3> HIDE DEF m
    <3>4. AtRelay(p)' = {m} /\ InRelays(p)'
      BY <1>2, <1>5, <1>8, <2>2, <3>1, <3>2, <3>3, RelaysGain
    <3>5. Places(p)' = {<<"relay", m>>}
      BY <1>6, <2>2, <2>3, <3>4, TaggedSingle DEF Places
    <3> QED BY <1>5, <1>6, <1>7, <1>8, <2>1, <3>4, <3>5, PlacesHeld, LedgerMoves DEF Tracked
  <2>7. CASE d = s
    <3>1. \A x \in Sent(job) : ~In(p, x.txs)
      BY <1>9, <2>5, <2>7
    <3>2. AtRelay(p)' = {} /\ InRelays(p)'
      BY <1>10, <2>2, <3>1
    <3>3. Places(p)' = {}
      BY <1>6, <2>2, <2>3, <3>2, TaggedSingle DEF Places
    <3>4. Open(p)
      BY <1>8, <2>1, PlacesHeld DEF Ledger
    <3>5. Settled(p)'
      BY <1>5, <2>1, <2>7, <3>4 DEF Kept, Open, Settled, FitJob, s, d
    <3>6. Ledger(p)'
      BY <3>3, <3>5 DEF Ledger
    <3> QED BY <1>6, <1>7, <3>2, <3>6 DEF Tracked
  <2> QED BY <2>6, <2>7
<1> QED BY <1>11, <1>12

LEMMA TrackCap ==
    ASSUME MoversApart, IndInv, Shapes, NEW p \in PayerStays, Tracked(p),
           NEW m \in cCaP, handleChangesAndPendings(m)
    PROVE  Tracked(p)'
<1>t. Typed
  BY DEF IndInv
<1>1. m.dst \in Shards /\ m.tx \in Tx
  BY <1>t, RelayTyped
<1>2. /\ cCaP' = cCaP \ {m} /\ Queue' = [Queue EXCEPT ![m.dst] = Append(@, m.tx)]
      /\ UNCHANGED <<Account2Shard, block, Outing_Before_Announce_TX_Pools, relaying, cClient,
                     cRelay, unsent, debited, credited, committed>>
  BY DEF handleChangesAndPendings, migration, history
<1>3. /\ Queue' = [Queue EXCEPT ![m.dst] = @ \o <<m.tx>>] /\ <<m.tx>> \in Seq(Tx)
      /\ ToSet(<<m.tx>>) = {m.tx} /\ (In(p, <<m.tx>>) <=> Has(p, m.tx))
  <2>1. Queue[m.dst] \in Seq(Tx)
    BY <1>t, <1>1 DEF Typed
  <2>2. Append(Queue[m.dst], m.tx) = Queue[m.dst] \o <<m.tx>>
    BY <1>1, <2>1, AppendIsCat
  <2> QED BY <1>1, <1>2, <2>1, <2>2, AppendIsCat
<1>5. Kept(p) /\ Still(p)
  BY <1>2 DEF Kept, Still
<1>6. /\ InClient(p)' /\ InBlock(p)' /\ InPools(p)' /\ InJobs(p)' /\ InRelays(p)'
      /\ AtUnsent(p)' = AtUnsent(p) /\ AtClient(p)' = AtClient(p) /\ AtBlock(p)' = AtBlock(p)
      /\ AtJob(p)' = AtJob(p) /\ AtRelay(p)' = AtRelay(p)
  BY <1>2, Unmoved DEF Tracked
<1>7. InCaps(p)'
  BY <1>2, Rigid DEF Tracked, InCaps
<1>8. AtCap(p)' = {x \in cCaP \ {m} : Has(p, x.tx)}
  BY <1>2, Rigid DEF AtCap
<1>9. InQueue(p) /\ Ledger(p)
  BY DEF Tracked
<1>10. CASE ~Has(p, m.tx)
  <2>1. AtCap(p)' = AtCap(p)
    BY <1>8, <1>10 DEF AtCap
  <2>2. AtQueue(p)' = AtQueue(p) /\ InQueue(p)'
    BY <1>t, <1>1, <1>3, <1>5, <1>9, <1>10, QueueGains
  <2> QED BY <1>5, <1>6, <1>7, <1>9, <2>1, <2>2, LedgerStands DEF Tracked
<1>11. CASE Has(p, m.tx)
  <2>1. m \in AtCap(p)
    BY <1>11 DEF AtCap
  <2>2. /\ AtUnsent(p) = {} /\ AtClient(p) = {} /\ AtQueue(p) = {} /\ AtBlock(p) = {}
        /\ AtJob(p) = {} /\ AtRelay(p) = {} /\ AtCap(p) = {m}
    BY <1>9, <2>1, OnePlace
  <2>3. AtCap(p)' = {}
    BY <1>8, <2>2 DEF AtCap
  <2>4. debited[p] = 1 /\ Once(p, <<m.tx>>)
    BY <1>11 DEF Tracked, InCaps
  <2>5. GatheredAt(m.tx, m.dst)
    BY <1>1, <1>11, PlainHas DEF Shapes
  <2>6. Payee[p] = Payee[m.tx.pays[1]]
    BY <1>1, <1>11, <2>5, SamePayee, TxPays
  <2>7. m.tx.IsRelay /\ Payee[p] \in Own(m.dst)
    BY <2>5, <2>6, MoveTyped DEF GatheredAt, AtDestination, Arrived, Own
  <2>8. Phase(p, m.dst, m.tx)
    BY <2>4, <2>7 DEF Phase
  <2>9. \A x \in ToSet(<<m.tx>>) : Has(p, x) => Phase(p, m.dst, x)
    BY <1>3, <2>8
  <2>10. AtQueue(p)' = {m.dst} /\ InQueue(p)'
    BY <1>t, <1>1, <1>3, <1>5, <1>9, <1>11, <2>2, <2>4, <2>9, QueueGains
  <2>11. Places(p)' = {<<"queue", m.dst>>}
    BY <1>6, <2>2, <2>3, <2>10, TaggedSingle DEF Places
  <2> QED BY <1>5, <1>6, <1>7, <1>9, <2>1, <2>10, <2>11, PlacesHeld, LedgerMoves DEF Tracked
<1> QED BY <1>10, <1>11

LEMMA TrackGenerate ==
    ASSUME MoversApart, IndInv, Shapes, NEW p \in PayerStays, Tracked(p),
           NEW s \in Shards, GenerateBlock(s)
    PROVE  Tracked(p)'
<1>t. Typed /\ MovesGoOn /\ InQueue(p) /\ InBlock(p) /\ Ledger(p)
  BY DEF IndInv, Tracked
<1>1. PICK mig1, mig2, anns, n : Packs(s, mig1, mig2, anns, n)
  BY <1>t, GeneratePacks
<1>0. PICK q : q = Queue[s]
  OBVIOUS
<1> DEFINE txs == SubSeq(q, 1, n)
           rest == SubSeq(q, n + 1, Len(q))
<1>2. /\ UNCHANGED <<Account2Shard, relaying, cClient, cRelay, cCaP, unsent,
                     debited, credited, committed>>
      /\ n \in 0..Len(q) /\ block[s] = NoBlock
  BY <1>0, <1>1 DEF Packs, history
<1>3. q \in Seq(Tx) /\ Once(p, q)
  BY <1>t, <1>0 DEF Typed, InQueue
<1>4. /\ Once(p, txs) /\ Once(p, rest) /\ (~In(p, txs) \/ ~In(p, rest))
      /\ (In(p, q) <=> In(p, txs) \/ In(p, rest))
  BY <1>2, <1>3, OnceSplit
<1>5. /\ txs \in Seq(Tx) /\ rest \in Seq(Tx)
      /\ ToSet(txs) \subseteq ToSet(q) /\ ToSet(rest) \subseteq ToSet(q)
  BY <1>2, <1>3, SplitElements
<1>6. \A r \in Shards : /\ Queue'[r] = IF r = s THEN rest ELSE Queue[r]
                        /\ block'[r].txs = IF r = s THEN txs ELSE block[r].txs
  BY <1>t, <1>0, <1>1 DEF Packs, Typed
<1>7. \A r \in Shards : \A a \in Accounts : Outing_Before_Announce_TX_Pools'[r][a] =
          IF r = s THEN Outing_Before_Announce_TX_Pools[s][a] \o LockedOf(s, a, txs)
                   ELSE Outing_Before_Announce_TX_Pools[r][a]
  BY <1>t, <1>0, <1>1 DEF Packs, Typed
<1> HIDE DEF txs, rest
<1>8. Kept(p) /\ Still(p)
  BY <1>2 DEF Kept, Still
<1>9. /\ InClient(p)' /\ InJobs(p)' /\ InRelays(p)' /\ InCaps(p)'
      /\ AtUnsent(p)' = AtUnsent(p) /\ AtClient(p)' = AtClient(p) /\ AtJob(p)' = AtJob(p)
      /\ AtRelay(p)' = AtRelay(p) /\ AtCap(p)' = AtCap(p)
  BY <1>2, Unmoved DEF Tracked
<1>10. InPools(p)'
  <2> SUFFICES ASSUME NEW r \in Shards, NEW a \in Accounts
               PROVE  ~In(p, Outing_Before_Announce_TX_Pools'[r][a])
    BY Rigid DEF InPools
  <2>1. ~In(p, Outing_Before_Announce_TX_Pools[r][a])
    BY DEF Tracked, InPools
  <2>2. LockedOf(s, a, txs) \in Seq(Tx) /\ Outing_Before_Announce_TX_Pools[s][a] \in Seq(Tx)
    BY <1>t, <1>5, LockedElements, BlockTyped
  <2>3. ASSUME NEW x \in ToSet(LockedOf(s, a, txs)) PROVE ~Has(p, x)
    <3>1. Plain(x) /\ a \in Movers /\ x.from = a
      BY <1>t, <1>0, <1>5, LockedShapes
    <3>2. x \in Tx
      BY <2>2, ElementsOf
    <3> QED BY <3>1, <3>2, PlainHas
  <2>4. ~In(p, LockedOf(s, a, txs))
    BY <2>3 DEF In
  <2> QED BY <1>7, <2>1, <2>2, <2>4, InCat
<1>11. InQueue(p)'
  <2>1. \A r \in Shards : Once(p, Queue'[r])
    BY <1>t, <1>4, <1>6 DEF InQueue
  <2>2. \A r \in Shards : \A tx \in ToSet(Queue'[r]) : Has(p, tx) => Phase(p, r, tx)
    BY <1>t, <1>0, <1>5, <1>6 DEF InQueue
  <2> QED BY <1>8, <2>1, <2>2, Rigid, StillSame DEF InQueue
<1>12. InBlock(p)'
  <2>1. \A r \in Shards : Once(p, block'[r].txs)
    BY <1>t, <1>4, <1>6 DEF InBlock
  <2>2. \A r \in Shards : \A tx \in ToSet(block'[r].txs) : Has(p, tx) => Phase(p, r, tx)
    BY <1>t, <1>0, <1>5, <1>6 DEF InQueue, InBlock
  <2> QED BY <1>8, <2>1, <2>2, Rigid, StillSame DEF InBlock
<1>13. AtQueue(p)' = {r \in Shards : In(p, Queue'[r])} /\ AtBlock(p)' = {r \in Shards : In(p, block'[r].txs)}
  BY Rigid DEF AtQueue, AtBlock
<1>14. s \notin AtBlock(p)
  BY <1>2, NoElements DEF AtBlock, NoBlock, In
<1>15. CASE In(p, txs)
  <2>1. s \in AtQueue(p)
    BY <1>0, <1>4, <1>15 DEF AtQueue
  <2>2. /\ AtUnsent(p) = {} /\ AtClient(p) = {} /\ AtBlock(p) = {} /\ AtJob(p) = {}
        /\ AtRelay(p) = {} /\ AtCap(p) = {} /\ AtQueue(p) = {s}
    BY <1>t, <2>1, OnePlace
  <2>3. AtQueue(p)' = {}
    BY <1>4, <1>6, <1>13, <1>15, <2>2 DEF AtQueue
  <2>4. AtBlock(p)' = {s}
    BY <1>6, <1>13, <1>15, <2>2 DEF AtBlock
  <2>5. Places(p)' = {<<"block", s>>}
    BY <1>9, <2>2, <2>3, <2>4, TaggedSingle DEF Places
  <2>6. Ledger(p)'
    BY <1>t, <1>8, <2>1, <2>5, PlacesHeld, LedgerMoves
  <2> QED BY <1>9, <1>10, <1>11, <1>12, <2>6 DEF Tracked
<1>16. CASE ~In(p, txs)
  <2>1. AtQueue(p)' = AtQueue(p)
    BY <1>0, <1>4, <1>6, <1>13, <1>16 DEF AtQueue
  <2>2. AtBlock(p)' = AtBlock(p)
    BY <1>6, <1>13, <1>14, <1>16 DEF AtBlock
  <2>3. Ledger(p)'
    BY <1>t, <1>8, <1>9, <2>1, <2>2, LedgerStands
  <2> QED BY <1>9, <1>10, <1>11, <1>12, <2>3 DEF Tracked
<1> QED BY <1>15, <1>16

-----------------------------------------------------------------------------
(* Blocks that execute, relay and send away *)

\* What a block does to the ledger of p.
LEMMA CommitAmounts ==
    ASSUME Typed, NEW p \in Payments, NEW s \in Shards, commit1(s), Once(p, block[s].txs)
    PROVE  /\ ~In(p, block[s].txs) => Kept(p)
           /\ \A x \in ToSet(block[s].txs) : Has(p, x) =>
                /\ debited'[p] = debited[p] + (IF x.IsRelay THEN 0 ELSE 1)
                /\ credited'[p] = credited[p] + (IF MapIn(s)[Payee[p]] = s THEN 1 ELSE 0)
                /\ Told(s, x) => p \in committed'
                /\ ~Told(s, x) /\ p \notin committed => p \notin committed'
<1> DEFINE txs == block[s].txs
           O == Occurrences(p, txs)
           D == {ki \in O : ~txs[ki[1]].IsRelay}
<1>1. txs \in Seq(Tx)
  BY BlockTyped
<1>2. /\ debited'[p] = debited[p] + Debits(s, p) /\ credited'[p] = credited[p] + Credits(s, p)
      /\ committed' = committed \cup UNION {ToSet(tx.pays) : tx \in {u \in ToSet(txs) : Told(s, u)}}
  BY CommitUnfolds
<1>3. /\ Debits(s, p) = Cardinality(D)
      /\ Credits(s, p) = IF MapIn(s)[Payee[p]] = s THEN Cardinality(O) ELSE 0
  BY DEF Debits, Credits
<1>4. p \in committed' <=> p \in committed \/ \E u \in ToSet(txs) : Told(s, u) /\ Has(p, u)
  BY <1>2 DEF Has
<1>5. debited[p] \in Nat /\ credited[p] \in Nat
  BY DEF Typed
<1>6. Cardinality({}) = 0
  BY FS_EmptySet
<1>7. ASSUME ~In(p, txs) PROVE Kept(p)
  <2>1. O = {}
    BY <1>1, <1>7, OccurrencesOnce
  <2>2. D = {}
    BY <2>1
  <2>3. Debits(s, p) = 0 /\ Credits(s, p) = 0
    BY <1>3, <1>6, <2>1, <2>2
  <2>4. p \in committed' <=> p \in committed
    BY <1>4, <1>7 DEF In
  <2> QED BY <1>2, <1>5, <2>3, <2>4 DEF Kept
<1>8. ASSUME NEW x \in ToSet(txs), Has(p, x)
      PROVE  /\ debited'[p] = debited[p] + (IF x.IsRelay THEN 0 ELSE 1)
             /\ credited'[p] = credited[p] + (IF MapIn(s)[Payee[p]] = s THEN 1 ELSE 0)
             /\ Told(s, x) => p \in committed'
             /\ ~Told(s, x) /\ p \notin committed => p \notin committed'
  <2>1. PICK k \in DOMAIN txs : txs[k] = x
    BY <1>1, ElementsOf
  <2>2. PICK i : O = {<<k, i>>}
    BY <1>1, <1>8, <2>1, OccurrencesOnce
  <2>3. D = IF x.IsRelay THEN {} ELSE {<<k, i>>}
    <3>1. \A ki \in O : ki[1] = k
      BY <2>2
    <3>2. \A ki \in O : txs[ki[1]].IsRelay <=> x.IsRelay
      BY <2>1, <3>1
    <3> HIDE DEF O
    <3> QED BY <2>2, <3>2
  <2>4. Cardinality({<<k, i>>}) = 1
    BY FS_Singleton
  <2>5. Cardinality(O) = 1 /\ Cardinality(D) = IF x.IsRelay THEN 0 ELSE 1
    <3> HIDE DEF O, D
    <3> QED BY <1>6, <2>2, <2>3, <2>4
  <2> HIDE DEF O, D
  <2>6. /\ debited'[p] = debited[p] + (IF x.IsRelay THEN 0 ELSE 1)
        /\ credited'[p] = credited[p] + (IF MapIn(s)[Payee[p]] = s THEN 1 ELSE 0)
    BY <1>2, <1>3, <2>5
  <2>7. \A u \in ToSet(txs) : Has(p, u) => u = x
    BY <1>1, <1>8, OnceUnique
  <2>8. p \in committed' <=> p \in committed \/ Told(s, x)
    BY <1>4, <1>8, <2>7
  <2> QED BY <2>6, <2>8
<1> QED BY <1>7, <1>8

\* A queued payment of a payer that stays follows nobody, its receipt the payee.
LEMMA WhomToFollow ==
    ASSUME MoversApart, Typed, MovesGoOn, Shapes, NEW p \in PayerStays, NEW s \in Shards,
           NEW x \in ToSet(Queue[s]), Has(p, x)
    PROVE  Follows(s, x) = IF x.IsRelay /\ Payee[p] \in Deleted(s) THEN {Payee[p]} ELSE {}
<1>1. x \in Tx /\ (Plain(x) \/ GatheredAt(x, s))
  BY BlockTyped, ElementsOf DEF Shapes
<1>2. \A i \in DOMAIN x.pays : Payee[x.pays[i]] = Payee[p]
  BY <1>1, SamePayee
<1>3. CASE ~x.IsRelay
  <2>1. Plain(x)
    BY <1>1, <1>3 DEF GatheredAt
  <2>2. x.from \notin Movers
    BY <1>1, <2>1, PlainHas
  <2>3. x.from \notin Deleted(s)
    BY <2>2, DeletedMoves
  <2> QED BY <1>3, <2>3 DEF Follows, FollowsPayers
<1>4. CASE x.IsRelay
  <2> DEFINE J == {j \in DOMAIN x.pays : x.IsRelay /\ Payee[x.pays[j]] \in Deleted(s)
                     /\ \A k \in 1 .. j - 1 : Payee[x.pays[k]] \notin Deleted(s)}
  <2>1. Follows(s, x) = {Payee[x.pays[i]] : i \in J}
    BY <1>4 DEF Follows, FollowsReceipts
  <2>2. Payee[p] \notin Deleted(s) => J = {}
    BY <1>2
  <2>3. Payee[p] \in Deleted(s) => 1 \in J
    <3>1. 1 \in DOMAIN x.pays /\ 1 .. 1 - 1 = {}
      BY <1>1, TxPays
    <3> QED BY <1>2, <1>4, <3>1
  <2>4. \A i \in J : Payee[x.pays[i]] = Payee[p]
    BY <1>2
  <2> HIDE DEF J
  <2> QED BY <1>4, <2>1, <2>2, <2>3, <2>4
<1> QED BY <1>3, <1>4

\* What follows account a has p only when a is the payee, and has it once.
LEMMA PendingHas ==
    ASSUME MoversApart, Typed, MovesGoOn, Shapes, NEW p \in PayerStays, InPools(p), InQueue(p),
           NEW s \in Shards, NEW a \in Deleted(s)
    PROVE  /\ Pendings(s, a) \in Seq(Tx) /\ Once(p, Pendings(s, a))
           /\ In(p, Pendings(s, a)) <=>
                a = Payee[p] /\ \E x \in ToSet(Queue[s]) : Has(p, x) /\ x.IsRelay
<1> DEFINE W == {tx \in ToSet(Queue[s]) : a \in Follows(s, tx)}
<1>1. a \in Accounts
  BY DeletedMoves
<1>2. /\ Outing_Before_Announce_TX_Pools[s][a] \in Seq(Tx) /\ Queue[s] \in Seq(Tx)
      /\ ~In(p, Outing_Before_Announce_TX_Pools[s][a]) /\ Once(p, Queue[s])
  BY <1>1 DEF Typed, InPools, InQueue
<1>3. Only(Queue[s], W) \in Seq(Tx) /\ Once(p, Only(Queue[s], W))
  BY <1>2, OnlyElements, OnceOnly
<1>4. Pendings(s, a) = Outing_Before_Announce_TX_Pools[s][a] \o Only(Queue[s], W)
  BY DEF Pendings
<1> HIDE DEF W
<1>5. Pendings(s, a) \in Seq(Tx) /\ Once(p, Pendings(s, a))
  BY <1>2, <1>3, <1>4, ConcatElements, OnceIfOut, OnceCat
<1>6. In(p, Pendings(s, a)) <=> \E x \in ToSet(Queue[s]) : a \in Follows(s, x) /\ Has(p, x)
  BY <1>1, <1>2, PendingElements DEF In
<1>7. \A x \in ToSet(Queue[s]) : Has(p, x) => (a \in Follows(s, x) <=> a = Payee[p] /\ x.IsRelay)
  BY WhomToFollow
<1> QED BY <1>5, <1>6, <1>7

LEMMA FollowingHas ==
    ASSUME MoversApart, Typed, MovesGoOn, Shapes, NEW p \in PayerStays, InPools(p), InQueue(p),
           NEW s \in Shards
    PROVE  LET e == Payee[p]
               m == [dst |-> MapOut(s)[e], tx |-> Merged(Pendings(s, e))]
               goes == e \in Deleted(s) /\ \E x \in ToSet(Queue[s]) : Has(p, x) /\ x.IsRelay
           IN  /\ goes => m \in Following(s) /\ Has(p, m.tx) /\ Once(p, <<m.tx>>)
               /\ \A n \in Following(s) : Has(p, n.tx) => goes /\ n = m
<1> DEFINE e == Payee[p]
           m == [dst |-> MapOut(s)[e], tx |-> Merged(Pendings(s, e))]
           goes == e \in Deleted(s) /\ \E x \in ToSet(Queue[s]) : Has(p, x) /\ x.IsRelay
<1>1. ASSUME NEW a \in Deleted(s), Pendings(s, a) # <<>>
      PROVE  Has(p, Merged(Pendings(s, a))) <=> In(p, Pendings(s, a))
  <2>1. Pendings(s, a) \in Txs
    BY <1>1, PendingHas DEF Txs
  <2> QED BY <2>1, MergedElements DEF Has, In
<1>2. ASSUME goes PROVE m \in Following(s) /\ Has(p, m.tx) /\ Once(p, <<m.tx>>)
  <2>1. e \in Deleted(s) /\ In(p, Pendings(s, e)) /\ Pendings(s, e) \in Seq(Tx) /\ Once(p, Pendings(s, e))
    BY <1>2, PendingHas
  <2>2. Pendings(s, e) # <<>>
    BY <2>1, NoElements DEF In
  <2>3. m \in Following(s)
    BY <2>1, <2>2 DEF Following
  <2>4. m.tx = Merged(Pendings(s, e)) /\ Pendings(s, e) \in Txs
    BY <2>1, <2>2 DEF Txs
  <2> HIDE DEF m, e, goes
  <2> QED BY <1>1, <2>1, <2>2, <2>3, <2>4, OnceMerged
<1>3. ASSUME NEW n \in Following(s), Has(p, n.tx) PROVE goes /\ n = m
  <2>1. PICK a \in Deleted(s) : /\ Pendings(s, a) # <<>>
                                /\ n = [dst |-> MapOut(s)[a], tx |-> Merged(Pendings(s, a))]
    BY DEF Following
  <2>2. Has(p, Merged(Pendings(s, a)))
    BY <1>3, <2>1
  <2>3. In(p, Pendings(s, a))
    BY <1>1, <2>1, <2>2
  <2>4. a = e /\ goes
    BY <2>3, PendingHas
  <2> QED BY <2>1, <2>4
<1> QED BY <1>2, <1>3 DEF e, m, goes

\* A shard to which an account does not move stays foreign to it.
LEMMA ForeignStays ==
    ASSUME Typed, MovesGoOn, NEW s \in Shards, commit1(s), NEW r \in Shards, NEW e \in Accounts,
           \A m \in Moves : m.addr = e => m.to # r,
           Account2Shard[r][e] # r
    PROVE  Account2Shard'[r][e] # r
<1>1. Account2Shard' = [Account2Shard EXCEPT ![s] = MapOut(s)]
  BY CommitUnfolds
<1>2. CASE r # s
  BY <1>1, <1>2 DEF Typed
<1>3. CASE r = s
  <2>1. Account2Shard'[r][e] = MapOut(s)[e]
    BY <1>1, <1>3 DEF Typed
  <2>2. CASE e \in Addrs(block[s].anns)
    <3>1. PICK ann \in block[s].anns : ann.addr = e /\ MapOut(s)[e] = ann.to
      BY <2>2, MapsTyped
    <3>2. ann.dst = s /\ ann.dst # ann.to
      BY DEF MovesGoOn, Announces
    <3> QED BY <1>3, <2>1, <3>1, <3>2
  <2>3. CASE e \notin Addrs(block[s].anns)
    <3>1. MapOut(s)[e] = MapIn(s)[e]
      BY <2>3, MapsTyped
    <3>2. e \notin Addrs(block[s].mig2)
      BY <1>3, BlockTyped DEF Addrs, MovesGoOn
    <3>3. MapIn(s)[e] = Account2Shard[s][e]
      BY <3>2 DEF MapIn
    <3> QED BY <1>3, <2>1, <3>1, <3>3
  <2> QED BY <2>2, <2>3
<1> QED BY <1>2, <1>3

\* The parts of the invariant about places that hold nothing.
LEMMA Vacated ==
    ASSUME NEW p, Typed'
    PROVE  /\ AtUnsent(p)' = {} /\ AtClient(p)' = {} => InClient(p)'
           /\ AtQueue(p)' = {} => InQueue(p)'
           /\ AtBlock(p)' = {} => InBlock(p)'
           /\ AtJob(p)' = {} => InJobs(p)'
           /\ AtRelay(p)' = {} => InRelays(p)'
           /\ AtCap(p)' = {} => InCaps(p)'
<1>1. AtUnsent(p)' = {} /\ AtClient(p)' = {} => InClient(p)'
  BY DEF AtUnsent, AtClient, InClient
<1>2. \A s \in Shards : Queue'[s] \in Seq(Tx) /\ block'[s].txs \in Seq(Tx)
  BY DEF Typed, Block
<1>3. ASSUME AtQueue(p)' = {} PROVE InQueue(p)'
  <2>1. \A s \in Shards : ~In(p, Queue'[s])
    BY <1>3, Rigid DEF AtQueue
  <2>2. \A s \in Shards : Once(p, Queue'[s]) /\ \A tx \in ToSet(Queue'[s]) : ~Has(p, tx)
    BY <1>2, <2>1, OnceIfOut DEF In
  <2> QED BY <2>2, Rigid DEF InQueue
<1>4. ASSUME AtBlock(p)' = {} PROVE InBlock(p)'
  <2>1. \A s \in Shards : ~In(p, block'[s].txs)
    BY <1>4, Rigid DEF AtBlock
  <2>2. \A s \in Shards : Once(p, block'[s].txs) /\ \A tx \in ToSet(block'[s].txs) : ~Has(p, tx)
    BY <1>2, <2>1, OnceIfOut DEF In
  <2> QED BY <2>2, Rigid DEF InBlock
<1>5. AtJob(p)' = {} => InJobs(p)'
  BY DEF AtJob, InJobs
<1>6. AtRelay(p)' = {} => InRelays(p)'
  BY DEF AtRelay, InRelays
<1>7. AtCap(p)' = {} => InCaps(p)'
  BY DEF AtCap, InCaps
<1> QED BY <1>1, <1>3, <1>4, <1>5, <1>6, <1>7

\* A block without p: p stays where it is, or its receipt follows its payee.
LEMMA TrackPassing ==
    ASSUME MoversApart, IndInv, IndInv', Shapes, NEW p \in PayerStays, Tracked(p),
           NEW s \in Shards, commit1(s), ~In(p, block[s].txs)
    PROVE  Tracked(p)'
<1>t. /\ Typed /\ MovesGoOn /\ Typed' /\ [Next]_vars
      /\ Ledger(p) /\ InQueue(p) /\ InBlock(p) /\ InPools(p) /\ InJobs(p) /\ InRelays(p) /\ InCaps(p)
  BY DEF IndInv, Tracked, Next
<1>p. p \in Payments /\ Payee[p] \in Accounts
  BY TransactionsAssumption DEF PayerStays
<1>1. Kept(p)
  BY <1>t, <1>p, CommitAmounts DEF InBlock
<1>2. /\ block' = [block EXCEPT ![s] = NoBlock] /\ Queue' = [Queue EXCEPT ![s] = Staying(s)]
      /\ cCaP' = cCaP \cup Following(s)
      /\ relaying' = relaying (+) Relaying(s, AsReceipts(ToRelay(s)))
      /\ UNCHANGED <<cClient, cRelay, unsent>>
  BY CommitUnfolds
<1>3. /\ AtUnsent(p)' = AtUnsent(p) /\ AtClient(p)' = AtClient(p) /\ AtRelay(p)' = AtRelay(p)
  BY <1>2, Rigid DEF AtUnsent, AtClient, AtRelay
<1>4. InClient(p)'
  BY <1>1, <1>2, Rigid DEF Tracked, InClient, Kept
<1>5. InRelays(p)'
  <2>1. \A d : AtDestination(Payee[p], d) => AtDestination(Payee[p], d)'
    BY <1>t, DestinationStays DEF AtDestination
  <2> QED BY <1>t, <1>1, <1>2, <2>1, Rigid DEF InRelays, FitRelay, Kept
<1>6. AtBlock(p)' = AtBlock(p) /\ InBlock(p)'
  <2>1. \A r \in Shards : block'[r].txs = IF r = s THEN <<>> ELSE block[r].txs
    BY <1>t, <1>2 DEF Typed, NoBlock
  <2>2. ~In(p, <<>>) /\ Once(p, <<>>)
    BY NoElements DEF In, Once
  <2>3. AtBlock(p)' = {r \in Shards : In(p, block'[r].txs)}
    BY Rigid DEF AtBlock
  <2>4. AtBlock(p)' = AtBlock(p)
    BY <2>1, <2>2, <2>3 DEF AtBlock
  <2>5. \A r \in Shards : Once(p, block'[r].txs)
    BY <1>t, <2>1, <2>2 DEF InBlock
  <2>6. ASSUME NEW r \in Shards, NEW tx \in ToSet(block'[r].txs), Has(p, tx) PROVE Phase(p, r, tx)'
    <3>1. r # s /\ tx \in ToSet(block[r].txs)
      BY <2>1, <2>6, NoElements
    <3>2. Phase(p, r, tx)
      BY <1>t, <2>6, <3>1 DEF InBlock
    <3>3. Payee[p] \in Own(r) => Payee[p] \in Own(r)'
      BY <1>t, <3>1, OwnStays
    <3> QED BY <1>1, <3>2, <3>3 DEF Phase, Kept
  <2> QED BY <2>4, <2>5, <2>6, Rigid DEF InBlock
<1>7. AtJob(p)' = AtJob(p) /\ InJobs(p)'
  <2>1. ~In(p, AsReceipts(ToRelay(s)))
    BY <1>t, CommitParts, OnceReceipts DEF In
  <2>2. ASSUME NEW job \in AtJob(p) PROVE FitJob(p, job)'
    <3>1. FitJob(p, job) /\ job.shard \in Shards
      BY <1>t, RelayTyped DEF AtJob, InJobs
    <3>2. p \in StaysApart => Account2Shard'[job.shard][Payee[p]] # job.shard
      BY <1>t, <1>p, <3>1, ForeignStays DEF FitJob
    <3> QED BY <1>1, <3>1, <3>2, Rigid DEF FitJob, Kept
  <2> QED BY <1>t, <1>2, <2>1, <2>2, JobsGain
<1>8. InPools(p)'
  <2>1. Outing_Before_Announce_TX_Pools' =
              [Outing_Before_Announce_TX_Pools EXCEPT ![s] =
                 [a \in Accounts |-> IF a \in Emptied(s) THEN <<>> ELSE @[a]]]
    BY CommitUnfolds
  <2>2. \A r \in Shards : \A a \in Accounts :
          \/ Outing_Before_Announce_TX_Pools'[r][a] = Outing_Before_Announce_TX_Pools[r][a]
          \/ Outing_Before_Announce_TX_Pools'[r][a] = <<>>
    BY <1>t, <2>1 DEF Typed
  <2>3. ~In(p, <<>>)
    BY NoElements DEF In
  <2> QED BY <1>t, <2>2, <2>3, Rigid DEF InPools
<1>9. \A r \in Shards : Queue'[r] = IF r = s THEN Staying(s) ELSE Queue[r]
  BY <1>t, <1>2 DEF Typed
<1>10. \A x \in ToSet(Queue[s]) : Has(p, x) =>
         (x \in ToSet(Staying(s)) <=> ~(x.IsRelay /\ Payee[p] \in Deleted(s)))
  BY <1>t, CommitParts, WhomToFollow
<1>11. ToSet(Staying(s)) \subseteq ToSet(Queue[s])
  BY <1>t, CommitParts
<1>12. InQueue(p)'
  <2>1. Once(p, Staying(s))
    BY <1>t, OnceOnly, BlockTyped DEF Staying, InQueue
  <2>2. \A r \in Shards : Once(p, Queue'[r])
    BY <1>t, <1>9, <2>1 DEF InQueue
  <2>3. ASSUME NEW r \in Shards, NEW tx \in ToSet(Queue'[r]), Has(p, tx) PROVE Phase(p, r, tx)'
    <3>1. tx \in ToSet(Queue[r]) /\ (r # s \/ tx \in ToSet(Staying(s)))
      BY <1>9, <1>11, <2>3
    <3>2. Phase(p, r, tx)
      BY <1>t, <2>3, <3>1 DEF InQueue
    <3>3. r # s \/ ~(tx.IsRelay /\ Payee[p] \in Deleted(s))
      BY <1>10, <2>3, <3>1
    <3>4. tx.IsRelay => (Payee[p] \in Own(r) => Payee[p] \in Own(r)')
      BY <1>t, <3>3, OwnStays
    <3> QED BY <1>1, <3>2, <3>4 DEF Phase, Kept
  <2> QED BY <2>2, <2>3, Rigid DEF InQueue
<1>13. /\ AtQueue(p)' = {r \in Shards : In(p, Queue'[r])}
       /\ AtCap(p)' = AtCap(p) \cup {m \in Following(s) : Has(p, m.tx)}
  BY <1>2, Rigid DEF AtQueue, AtCap
<1> DEFINE goes == Payee[p] \in Deleted(s) /\ \E x \in ToSet(Queue[s]) : Has(p, x) /\ x.IsRelay
<1>14. CASE ~goes
  <2>1. {m \in Following(s) : Has(p, m.tx)} = {}
    BY <1>t, <1>14, FollowingHas
  <2>2. AtCap(p)' = AtCap(p) /\ InCaps(p)'
    <3>1. AtCap(p)' = AtCap(p)
      BY <1>13, <2>1
    <3>2. \A m \in cCaP' : Has(p, m.tx) => m \in cCaP
      BY <1>2, <2>1
    <3> QED BY <1>t, <1>1, <3>1, <3>2, Rigid DEF InCaps, Kept
  <2>3. In(p, Staying(s)) <=> In(p, Queue[s])
    BY <1>10, <1>11, <1>14 DEF In
  <2>4. AtQueue(p)' = AtQueue(p)
    BY <1>9, <1>13, <2>3 DEF AtQueue
  <2>5. Ledger(p)'
    BY <1>t, <1>1, <1>3, <1>6, <1>7, <2>2, <2>4, LedgerStands
  <2> QED BY <1>4, <1>5, <1>6, <1>7, <1>8, <1>12, <2>2, <2>5 DEF Tracked
<1>15. CASE goes
  <2>1. PICK m : m = [dst |-> MapOut(s)[Payee[p]], tx |-> Merged(Pendings(s, Payee[p]))]
    OBVIOUS
  <2>2. m \in Following(s) /\ Has(p, m.tx) /\ Once(p, <<m.tx>>) /\ \A n \in Following(s) : Has(p, n.tx) => n = m
    BY <1>t, <1>15, <2>1, FollowingHas
  <2>3. PICK x \in ToSet(Queue[s]) : Has(p, x) /\ x.IsRelay
    BY <1>15
  <2>4. debited[p] = 1
    BY <1>t, <2>3 DEF InQueue, Phase
  <2>5. s \in AtQueue(p)
    BY <2>3 DEF AtQueue, In
  <2>6. /\ AtUnsent(p) = {} /\ AtClient(p) = {} /\ AtBlock(p) = {} /\ AtJob(p) = {}
        /\ AtRelay(p) = {} /\ AtCap(p) = {} /\ AtQueue(p) = {s}
    BY <1>t, <2>5, OnePlace
  <2>7. AtCap(p)' = {m}
    BY <1>13, <2>2, <2>6
  <2>8. InCaps(p)'
    <3>1. \A n \in cCaP' : Has(p, n.tx) => n = m
      BY <1>2, <2>2, <2>6 DEF AtCap
    <3> QED BY <1>1, <2>2, <2>4, <3>1, Rigid DEF InCaps, Kept
  <2>9. ~In(p, Staying(s))
    <3>1. \A y \in ToSet(Queue[s]) : Has(p, y) => y = x
      BY <1>t, <2>3, OnceUnique, BlockTyped DEF InQueue
    <3> QED BY <1>10, <1>11, <1>15, <2>3, <3>1 DEF In
  <2>10. AtQueue(p)' = {}
    BY <1>9, <1>13, <2>6, <2>9 DEF AtQueue
  <2>11. Places(p)' = {<<"cap", m>>}
    BY <1>3, <1>6, <1>7, <2>6, <2>7, <2>10, TaggedSingle DEF Places
  <2>12. Ledger(p)'
    BY <1>t, <1>1, <2>5, <2>11, PlacesHeld, LedgerMoves
  <2> QED BY <1>4, <1>5, <1>6, <1>7, <1>8, <1>12, <2>8, <2>12 DEF Tracked
<1> QED BY <1>14, <1>15

\* A block with p: p is credited here and done, or debited and its receipt goes.
LEMMA TrackExecuted ==
    ASSUME MoversApart, IndInv, IndInv', Shapes, NEW p \in PayerStays, Tracked(p),
           NEW s \in Shards, commit1(s), In(p, block[s].txs)
    PROVE  Tracked(p)'
<1>t. /\ Typed /\ MovesGoOn /\ PayersWaitAtHome /\ Typed'
      /\ Ledger(p) /\ InQueue(p) /\ InBlock(p) /\ InPools(p) /\ InJobs(p)
  BY DEF IndInv, Tracked
<1>p. p \in Payments /\ Payee[p] \in Accounts /\ Payer[p] \in Accounts /\ Payer[p] \notin Movers
  BY TransactionsAssumption DEF PayerStays, Movers
<1>1. PICK x \in ToSet(block[s].txs) : Has(p, x)
  BY DEF In
<1>2. /\ block[s].txs \in Seq(Tx) /\ Once(p, block[s].txs) /\ Phase(p, s, x)
      /\ x \in Tx /\ (Plain(x) \/ GatheredAt(x, s))
  BY <1>t, <1>1, BlockTyped, ElementsOf DEF InBlock, Shapes
<1>3. \A y \in ToSet(block[s].txs) : Has(p, y) => y = x
  BY <1>1, <1>2, OnceUnique
<1>4. s \in AtBlock(p)
  BY DEF AtBlock
<1>5. /\ AtUnsent(p) = {} /\ AtClient(p) = {} /\ AtQueue(p) = {} /\ AtJob(p) = {}
      /\ AtRelay(p) = {} /\ AtCap(p) = {} /\ AtBlock(p) = {s}
  BY <1>t, <1>4, OnePlace
<1>6. Open(p)
  BY <1>t, <1>4, PlacesHeld DEF Ledger
<1>7. /\ block' = [block EXCEPT ![s] = NoBlock] /\ Queue' = [Queue EXCEPT ![s] = Staying(s)]
      /\ cCaP' = cCaP \cup Following(s)
      /\ relaying' = relaying (+) Relaying(s, AsReceipts(ToRelay(s)))
      /\ UNCHANGED <<cClient, cRelay, unsent>>
  BY CommitUnfolds
<1>8. AtUnsent(p)' = {} /\ AtClient(p)' = {} /\ AtRelay(p)' = {}
  BY <1>5, <1>7, Rigid DEF AtUnsent, AtClient, AtRelay
<1>9. AtBlock(p)' = {}
  <2>1. \A r \in Shards : block'[r].txs = IF r = s THEN <<>> ELSE block[r].txs
    BY <1>t, <1>7 DEF Typed, NoBlock
  <2>2. ~In(p, <<>>)
    BY NoElements DEF In
  <2>3. AtBlock(p)' = {r \in Shards : In(p, block'[r].txs)}
    BY Rigid DEF AtBlock
  <2> QED BY <1>5, <2>1, <2>2, <2>3 DEF AtBlock
<1>10. AtQueue(p)' = {}
  <2>1. \A r \in Shards : ~In(p, Queue[r])
    BY <1>5 DEF AtQueue
  <2>2. \A r \in Shards : Queue'[r] = IF r = s THEN Staying(s) ELSE Queue[r]
    BY <1>t, <1>7 DEF Typed
  <2>3. ~In(p, Staying(s))
    BY <1>t, <2>1, CommitParts DEF In
  <2>4. AtQueue(p)' = {r \in Shards : In(p, Queue'[r])}
    BY Rigid DEF AtQueue
  <2> QED BY <2>1, <2>2, <2>3, <2>4
<1>11. AtCap(p)' = {}
  <2>1. \A y \in ToSet(Queue[s]) : ~Has(p, y)
    BY <1>5 DEF AtQueue, In
  <2>2. \A m \in Following(s) : ~Has(p, m.tx)
    BY <1>t, <2>1, FollowingHas
  <2>3. AtCap(p)' = AtCap(p) \cup {m \in Following(s) : Has(p, m.tx)}
    BY <1>7, Rigid DEF AtCap
  <2> QED BY <1>5, <2>2, <2>3
<1>12. InClient(p)' /\ InQueue(p)' /\ InBlock(p)' /\ InRelays(p)' /\ InCaps(p)'
  BY <1>t, <1>8, <1>9, <1>10, <1>11, Vacated
<1>13. InPools(p)'
  <2>1. Outing_Before_Announce_TX_Pools' =
              [Outing_Before_Announce_TX_Pools EXCEPT ![s] =
                 [a \in Accounts |-> IF a \in Emptied(s) THEN <<>> ELSE @[a]]]
    BY CommitUnfolds
  <2>2. \A r \in Shards : \A a \in Accounts :
          \/ Outing_Before_Announce_TX_Pools'[r][a] = Outing_Before_Announce_TX_Pools[r][a]
          \/ Outing_Before_Announce_TX_Pools'[r][a] = <<>>
    BY <1>t, <2>1 DEF Typed
  <2>3. ~In(p, <<>>)
    BY NoElements DEF In
  <2> QED BY <1>t, <2>2, <2>3, Rigid DEF InPools
<1>14. /\ debited'[p] = debited[p] + (IF x.IsRelay THEN 0 ELSE 1)
       /\ credited'[p] = credited[p] + (IF MapIn(s)[Payee[p]] = s THEN 1 ELSE 0)
       /\ Told(s, x) => p \in committed'
       /\ ~Told(s, x) /\ p \notin committed => p \notin committed'
  BY <1>t, <1>p, <1>1, <1>2, CommitAmounts
<1>15. debited'[p] = 1
  BY <1>2, <1>14 DEF Phase
<1>16. \A i \in DOMAIN x.pays : Payee[x.pays[i]] = Payee[p]
  BY <1>1, <1>2, SamePayee
<1>17. 1 \in DOMAIN x.pays /\ Payee[x.pays[1]] = Payee[p]
  BY <1>2, <1>16, TxPays
<1>18. In(p, ToRelay(s)) <=> Relayed(s, x)
  BY <1>t, <1>1, <1>3, CommitParts DEF In
<1>19. ToRelay(s) \in Seq(Tx) /\ Once(p, ToRelay(s))
  BY <1>t, <1>2, CommitParts, OnceOnly DEF ToRelay
<1>20. /\ In(p, AsReceipts(ToRelay(s))) <=> Relayed(s, x)
       /\ Once(p, AsReceipts(ToRelay(s)))
  BY <1>18, <1>19, OnceReceipts
<1>21. CASE MapIn(s)[Payee[p]] = s
  <2>1. 1 \in Mine(s, x) /\ ~Relayed(s, x)
    BY <1>2, <1>17, <1>21, GatheredIsMine
  <2>2. Told(s, x)
    BY <2>1 DEF Told
  <2>3. AtJob(p)' = {} /\ InJobs(p)'
    BY <1>t, <1>5, <1>7, <1>20, <2>1, JobsGain
  <2>4. Places(p)' = {}
    BY <1>8, <1>9, <1>10, <1>11, <2>3, TaggedSingle DEF Places
  <2>5. credited'[p] = 1
    BY <1>6, <1>14, <1>21 DEF Open
  <2>6. Settled(p)'
    BY <1>15, <2>5 DEF Settled
  <2>7. Ledger(p)'
    BY <2>4, <2>6 DEF Ledger
  <2> QED BY <1>12, <1>13, <2>3, <2>7 DEF Tracked
<1>22. CASE MapIn(s)[Payee[p]] # s
  <2>1. Payee[p] \notin Own(s)
    BY <1>22 DEF Own, MapIn
  <2>2. ~x.IsRelay
    BY <1>2, <2>1 DEF Phase
  <2>3. Plain(x)
    BY <1>2, <2>2 DEF GatheredAt
  <2>4. DOMAIN x.pays = {1} /\ x.from = Payer[p]
    BY <1>1, <1>2, <2>3, PlainHas
  <2>5. Mine(s, x) = {}
    BY <1>16, <1>22 DEF Mine
  <2>6. ~Told(s, x) /\ Relayed(s, x)
    BY <2>2, <2>4, <2>5 DEF Told, Relayed, Visited
  <2>7. PICK t : t = AsReceipts(ToRelay(s))
    OBVIOUS
  <2>8. PICK job : job = [shard |-> s, txs |-> t]
    OBVIOUS
  <2>9. In(p, t) /\ Once(p, t) /\ relaying' = relaying (+) Relaying(s, t)
    BY <1>7, <1>20, <2>6, <2>7
  <2>10. ASSUME p \in StaysApart
         PROVE  /\ \A m \in Moves : m.addr = Payee[p] => m.to # s
                /\ Account2Shard'[s][Payee[p]] # s
    <3>1. Payer[p] \in Own(s)
      BY <1>t, <1>1, <2>2, <2>4 DEF PayersWaitAtHome
    <3>2. Account2Shard[s][Payer[p]] = s /\ ~AtDestination(Payer[p], s)
      BY <1>p, <3>1 DEF Own, AtDestination, Movers, Addrs
    <3>3. s = Genesis[Payer[p]]
      BY <1>t, <1>p, <3>2 DEF MovesGoOn
    <3>4. \A m \in Moves : m.addr = Payee[p] => m.to # s
      BY <2>10, <3>3 DEF StaysApart
    <3>5. Account2Shard[s][Payee[p]] # s
      BY <1>p, <2>1 DEF Own
    <3> QED BY <1>t, <1>p, <3>4, <3>5, ForeignStays
  <2>11. FitJob(p, job)'
    <3>1. job.shard = s /\ job.txs = t
      BY <2>8
    <3> QED BY <1>15, <2>9, <2>10, <3>1, Rigid DEF FitJob
  <2>12. AtJob(p)' = {job} /\ InJobs(p)'
    BY <1>t, <1>5, <2>8, <2>9, <2>11, JobsGain
  <2>13. Places(p)' = {<<"job", job>>}
    BY <1>8, <1>9, <1>10, <1>11, <2>12, TaggedSingle DEF Places
  <2>14. Open(p)'
    BY <1>6, <1>14, <1>22, <2>6 DEF Open
  <2>15. Ledger(p)'
    BY <2>13, <2>14 DEF Ledger
  <2> QED BY <1>12, <1>13, <2>12, <2>15 DEF Tracked
<1> QED BY <1>21, <1>22

-----------------------------------------------------------------------------
(* Payments of payers that stay *)

PaymentInv == IndInv /\ Shapes /\ \A p \in PayerStays : Tracked(p)

LEMMA InitPaymentInv ==
    ASSUME Init
    PROVE  PaymentInv
<1>1. IndInv
  BY InitIndInv
<1>2. BagToSet(relaying) = {} /\ BagToSet(cRelay) = {} /\ cClient = {} /\ cCaP = {}
  BY BagElements DEF Init
<1>3. /\ \A s \in Shards : /\ Queue[s] = <<>> /\ block[s].txs = <<>>
                           /\ Outing_Acc_Before_Announce[s] = {}
                           /\ \A a \in Accounts : Outing_Before_Announce_TX_Pools[s][a] = <<>>
      /\ unsent = Payments /\ committed = {}
      /\ \A p \in Payments : debited[p] = 0 /\ credited[p] = 0
  BY DEF Init, NoBlock
<1>4. Shapes
  BY <1>2, <1>3, NoElements DEF Shapes
<1>5. ASSUME NEW p \in PayerStays PROVE Tracked(p)
  <2>1. ~In(p, <<>>) /\ Once(p, <<>>)
    BY NoElements DEF In, Once
  <2>2. /\ InClient(p) /\ InQueue(p) /\ InBlock(p) /\ InPools(p) /\ InJobs(p) /\ InRelays(p) /\ InCaps(p)
    BY <1>2, <1>3, <2>1, NoElements
       DEF InClient, InQueue, InBlock, InPools, InJobs, InRelays, InCaps, PayerStays
  <2>3. /\ AtUnsent(p) = {p} /\ AtClient(p) = {} /\ AtQueue(p) = {} /\ AtBlock(p) = {}
        /\ AtJob(p) = {} /\ AtRelay(p) = {} /\ AtCap(p) = {}
    BY <1>2, <1>3, <2>1
       DEF AtUnsent, AtClient, AtQueue, AtBlock, AtJob, AtRelay, AtCap, PayerStays
  <2>4. Places(p) = {<<"unsent", p>>}
    BY <2>3 DEF Places, Tagged
  <2>5. Ledger(p)
    BY <1>3, <2>4 DEF Ledger, Open, PayerStays
  <2> QED BY <2>2, <2>5 DEF Tracked
<1> QED BY <1>1, <1>4, <1>5 DEF PaymentInv

LEMMA PaymentStep ==
    ASSUME MoversApart, PaymentInv, [Next]_vars
    PROVE  PaymentInv'
<1>1. IndInv /\ Shapes
  BY DEF PaymentInv
<1>2. IndInv'
  BY <1>1, TypedStep, MovesStep, TravelStep, WaitStep DEF IndInv
<1>3. Shapes'
  BY <1>1, ShapesStep DEF IndInv
<1>4. ASSUME NEW p \in PayerStays PROVE Tracked(p)'
  <2>1. Tracked(p)
    BY DEF PaymentInv
  <2>2. ASSUME NEW q \in Payments, InjectTX(q) PROVE Tracked(p)'
    BY <2>1, <2>2, TrackInject
  <2>3. ASSUME NEW ann \in TXanns, HandleAnnounce(ann) PROVE Tracked(p)'
    <3>1. UNCHANGED <<Account2Shard, block, Queue, Outing_Before_Announce_TX_Pools, relaying,
                      cClient, cRelay, cCaP, unsent, debited, credited, committed>>
      BY <2>3 DEF HandleAnnounce, migration, history
    <3> QED BY <2>1, <3>1, TrackQuiet
  <2>4. ASSUME NEW m \in cClient, handleTxFromClient(m) PROVE Tracked(p)'
    BY <1>1, <2>1, <2>4, TrackClient
  <2>5. ASSUME NEW m \in BagToSet(cRelay), handleRelay(m) PROVE Tracked(p)'
    BY <1>1, <2>1, <2>5, TrackRelay
  <2>6. ASSUME NEW job \in BagToSet(relaying), TryRelay(job) PROVE Tracked(p)'
    BY <1>1, <2>1, <2>6, TrackTryRelay
  <2>7. ASSUME NEW m \in cCaP, handleChangesAndPendings(m) PROVE Tracked(p)'
    BY <1>1, <2>1, <2>7, TrackCap
  <2>8. ASSUME NEW s \in Shards, GenerateBlock(s) PROVE Tracked(p)'
    BY <1>1, <2>1, <2>8, TrackGenerate
  <2>9. ASSUME NEW s \in Shards, commit1(s) PROVE Tracked(p)'
    BY <1>1, <1>2, <2>1, <2>9, TrackPassing, TrackExecuted
  <2>10. CASE UNCHANGED vars
    <3>1. UNCHANGED <<Account2Shard, block, Queue, Outing_Before_Announce_TX_Pools, relaying,
                      cClient, cRelay, cCaP, unsent, debited, credited, committed>>
      BY <2>10 DEF vars, migration, history
    <3> QED BY <2>1, <3>1, TrackQuiet
  <2> QED BY <2>2, <2>3, <2>4, <2>5, <2>6, <2>7, <2>8, <2>9, <2>10 DEF Next
<1> QED BY <1>2, <1>3, <1>4 DEF PaymentInv

LEMMA PaymentInvAlways ==
    ASSUME MoversApart
    PROVE  Spec => []PaymentInv
<1>1. Init => PaymentInv
  BY InitPaymentInv
<1>2. PaymentInv /\ [Next]_vars => PaymentInv'
  BY PaymentStep
<1> QED BY <1>1, <1>2, PTL DEF Spec

\* What the invariant says of a payment that is not debited, or not credited.
LEMMA LedgerSays ==
    ASSUME IndInv, Shapes, NEW p \in PayerStays, Tracked(p)
    PROVE  /\ debited[p] \in {0, 1} /\ credited[p] <= debited[p]
           /\ p \in committed => credited[p] = 1
           /\ p \in StaysApart /\ debited[p] = 1 /\ credited[p] = 0 => ReceiptUnderWay(p)
<1>0. Ledger(p) /\ InClient(p) /\ InQueue(p) /\ InBlock(p) /\ InJobs(p) /\ InRelays(p) /\ InCaps(p)
  BY DEF Tracked
<1>1. CASE Places(p) = {}
  BY <1>0, <1>1 DEF Ledger, Settled
<1>2. CASE Places(p) # {}
  <2>1. credited[p] = 0 /\ p \notin committed
    BY <1>0, <1>2 DEF Ledger, Open
  <2>2. \/ AtUnsent(p) # {} \/ AtClient(p) # {} \/ AtQueue(p) # {} \/ AtBlock(p) # {}
        \/ AtJob(p) # {} \/ AtRelay(p) # {} \/ AtCap(p) # {}
    BY <1>2, TaggedSingle DEF Places
  <2>3. debited[p] \in {0, 1}
    BY <1>0, <2>2 DEF AtUnsent, AtClient, AtQueue, AtBlock, AtJob, AtRelay, AtCap, In, Phase,
                      InClient, InQueue, InBlock, InJobs, InRelays, InCaps, FitJob, FitRelay
  <2>4. ASSUME debited[p] = 1 PROVE ReceiptUnderWay(p)
    <3> DEFINE receipt(tx) == tx.IsRelay /\ Has(p, tx)
    <3>0. /\ ReceiptsTravel /\ Typed
          /\ ReceiptUnderWay(p) <=>
              \/ \E job \in BagToSet(relaying) \cup BagToSet(cRelay) : \E tx \in ToSet(job.txs) : receipt(tx)
              \/ \E m \in cCaP : receipt(m.tx)
              \/ \E s \in Shards : /\ Payee[p] \in Own(s)
                                   /\ \E tx \in ToSet(Queue[s]) \cup ToSet(block[s].txs) : receipt(tx)
      BY DEF IndInv, ReceiptUnderWay, Has
    <3>1. CASE AtUnsent(p) # {} \/ AtClient(p) # {}
      BY <1>0, <2>4, <3>1 DEF AtUnsent, AtClient, InClient
    <3>2. CASE AtQueue(p) # {}
      <4>1. PICK s \in Shards : \E tx \in ToSet(Queue[s]) : Has(p, tx)
        BY <3>2 DEF AtQueue, In
      <4>2. PICK tx \in ToSet(Queue[s]) : Has(p, tx) /\ Phase(p, s, tx)
        BY <1>0, <4>1 DEF InQueue
      <4> QED BY <2>4, <3>0, <4>2 DEF Phase
    <3>3. CASE AtBlock(p) # {}
      <4>1. PICK s \in Shards : \E tx \in ToSet(block[s].txs) : Has(p, tx)
        BY <3>3 DEF AtBlock, In
      <4>2. PICK tx \in ToSet(block[s].txs) : Has(p, tx) /\ Phase(p, s, tx)
        BY <1>0, <4>1 DEF InBlock
      <4> QED BY <2>4, <3>0, <4>2 DEF Phase
    <3>4. CASE AtJob(p) # {} \/ AtRelay(p) # {}
      BY <3>0, <3>4 DEF AtJob, AtRelay, In, ReceiptsTravel
    <3>5. CASE AtCap(p) # {}
      <4>1. PICK m \in cCaP : Has(p, m.tx)
        BY <3>5 DEF AtCap
      <4>2. m.tx \in Tx
        BY <3>0, RelayTyped
      <4>3. m.tx.IsRelay
        BY <4>1, <4>2, PlainHas DEF Shapes, GatheredAt
      <4> QED BY <3>0, <4>1, <4>3
    <3> QED BY <2>2, <3>1, <3>2, <3>3, <3>4, <3>5
  <2> QED BY <2>1, <2>3, <2>4
<1> QED BY <1>1, <1>2

\* No payment of a payer that stays is debited or credited twice, and nothing is
\* credited that was not debited, for every set of moves and payments whose movers
\* are apart, every number of shards and every block size
\* (getUpdatedTreeOfState, commit1, handleRelay, TryRelay, handleAnns).
THEOREM AlwaysCreditedOnce ==
    MoversApart => (Spec => []CreditedOnce)
<1> SUFFICES ASSUME MoversApart PROVE Spec => []CreditedOnce
  OBVIOUS
<1>1. PaymentInv => CreditedOnce
  BY LedgerSays DEF PaymentInv, CreditedOnce
<1> QED BY <1>1, PaymentInvAlways, PTL

\* What was debited from a payer that stays apart is credited, or its receipt is
\* under way or waits where the payee is at home: no interleaving of a receipt
\* with the moves strands it (commit1, handleRelay, TryRelay, handleAnns,
\* handleChangesAndPendings).
THEOREM NothingEverLost ==
    MoversApart => (Spec => []NothingLost)
<1> SUFFICES ASSUME MoversApart PROVE Spec => []NothingLost
  OBVIOUS
<1>1. PaymentInv => NothingLost
  BY LedgerSays DEF PaymentInv, NothingLost, StaysApart
<1> QED BY <1>1, PaymentInvAlways, PTL

\* When the client is told that a payment of a payer that stays is on chain, the
\* payee has been credited (commit_txs in commit1).
THEOREM CommittedAlwaysPaid ==
    MoversApart => (Spec => []CommittedMeansPaid)
<1> SUFFICES ASSUME MoversApart PROVE Spec => []CommittedMeansPaid
  OBVIOUS
<1>1. PaymentInv => CommittedMeansPaid
  BY LedgerSays DEF PaymentInv, CommittedMeansPaid
<1> QED BY <1>1, PaymentInvAlways, PTL
=============================================================================
