--------------------------- MODULE ShutdownProofs ---------------------------
(***************************************************************************)
(* The empty blocks behind a stop, for any number of shards, any limit and *)
(* leaders that run as far apart as they like.                             *)
(***************************************************************************)
EXTENDS Shutdown, FiniteSetTheorems, SequenceTheorems, TLAPS

\* What the client's counting touches.
Typed ==
    /\ replies \in [Shards -> Seq(BOOLEAN)]
    /\ emptyRun \in [Shards -> 0..EmptyBlocks] /\ zero_count \in Nat

\* The empty blocks at the end of every shard's replies, as pairs.
Runs == {p \in Shards \X (1..EmptyBlocks) : p[2] <= emptyRun[p[1]]}

\* What the client counts are blocks of these runs, until some shard has had
\* EmptyBlocks of them.
Counting ==
    \/ \E s \in Shards : emptyRun[s] = EmptyBlocks
    \/ zero_count <= Cardinality(Runs)

IInv == Typed /\ Counting /\ (all_finish => zero_count = Limit)
-----------------------------------------------------------------------------
\* Induction, as the library's operators allow it: the intervals 1..n of a set
\* of numbers have a least one under inclusion.
LEMMA LeastNumber ==
    ASSUME NEW T \in SUBSET Nat, T # {}
    PROVE  \E x \in T : \A y \in T : x <= y
<1> DEFINE R == StrictSubsetOrdering(Nat)
           U == {1..n : n \in T}
<1>1. IsWellFoundedOn(R, FiniteSubsetsOf(Nat))
  BY FS_StrictSubsetOrderingWellFounded
<1>2. \A n \in T : IsFiniteSet(1..n) /\ 1..n \in SUBSET Nat
  BY FS_Interval
<1>3. U \subseteq FiniteSubsetsOf(Nat) /\ U # {}
  BY <1>2 DEF FiniteSubsetsOf
<1> HIDE DEF U
<1>4. \E u \in U : \A v \in U : ~ (<<v, u>> \in R)
  BY <1>1, <1>3, WFMin
<1>5. PICK n \in T : \A v \in U : ~ (<<v, 1..n>> \in R)
  BY <1>4 DEF U
<1>6. ASSUME NEW y \in T, y < n
      PROVE  FALSE
  <2>1. 1..y \in U
    BY DEF U
  <2>2. 1..y \subseteq 1..n /\ 1..y # 1..n /\ 1..n \subseteq Nat
    BY <1>6
  <2>3. <<1..y, 1..n>> \in R
    BY <2>2 DEF StrictSubsetOrdering
  <2> QED BY <2>1, <2>3, <1>5
<1> QED BY <1>6

LEMMA MinIsLeast ==
    ASSUME NEW T \in SUBSET Nat, T # {}
    PROVE  Min(T) \in T /\ Min(T) \in Nat /\ \A y \in T : Min(T) <= y
<1>1. \E x \in T : \A y \in T : x <= y
  BY LeastNumber
<1> QED BY <1>1 DEF Min

LEMMA Numbers ==
    /\ IsFiniteSet(Shards) /\ Cardinality(Shards) \in Nat /\ Cardinality(Shards) >= 1
    /\ EmptyBlocks \in Nat /\ EmptyBlocks >= 1
    /\ Limit = EmptyBlocks * Cardinality(Shards) /\ Limit \in Nat
<1>1. IsFiniteSet(Shards) /\ Cardinality(Shards) \in Nat /\ Cardinality(Shards) >= 1
  BY ShutdownAssumption, FS_CardinalityType, FS_EmptySet
<1>2. EmptyBlocks \in Nat /\ EmptyBlocks >= 1
  BY ShutdownAssumption
<1>3. \A i, j \in Nat : i * j \in Nat
  OBVIOUS
<1> QED BY <1>1, <1>2, <1>3 DEF Limit

\* A shard and a number up to n: as many pairs as the product says.
LEMMA Pairs ==
    ASSUME NEW n \in Nat
    PROVE  /\ IsFiniteSet(Shards \X (1..n))
           /\ Cardinality(Shards \X (1..n)) = Cardinality(Shards) * n
<1>1. IsFiniteSet(1..n) /\ Cardinality(1..n) = n
  <2>1. 1 \in Int /\ n \in Int
    OBVIOUS
  <2>2. IsFiniteSet(1..n) /\ Cardinality(1..n) = IF 1 > n THEN 0 ELSE n - 1 + 1
    BY <2>1, FS_Interval
  <2>3. (IF 1 > n THEN 0 ELSE n - 1 + 1) = n
    OBVIOUS
  <2> QED BY <2>2, <2>3
<1>2. /\ IsFiniteSet(Shards \X (1..n))
      /\ Cardinality(Shards \X (1..n)) = Cardinality(Shards) * Cardinality(1..n)
  BY <1>1, Numbers, FS_Product, Zenon
<1> QED BY <1>1, <1>2, Zenon

LEMMA RunsFinite == IsFiniteSet(Runs) /\ Cardinality(Runs) \in Nat
<1>1. IsFiniteSet(Shards \X (1..EmptyBlocks))
  BY Numbers, Pairs
<1>2. Runs \subseteq Shards \X (1..EmptyBlocks)
  BY DEF Runs
<1> QED BY <1>1, <1>2, FS_Subset, FS_CardinalityType

\* While every shard's run is shorter than EmptyBlocks, all of them together
\* are shorter than what stops the client.
LEMMA ShortRuns ==
    ASSUME Typed, \A s \in Shards : emptyRun[s] # EmptyBlocks
    PROVE  Cardinality(Runs) < Limit
<1> DEFINE N == Cardinality(Shards)
           B == Shards \X (1..(EmptyBlocks - 1))
<1>1. EmptyBlocks - 1 \in Nat /\ EmptyBlocks \in Nat /\ N \in Nat /\ N >= 1
  BY Numbers
<1>2. IsFiniteSet(B) /\ Cardinality(B) = N * (EmptyBlocks - 1)
  BY <1>1, Pairs
<1>3. Runs \subseteq B
  <2> SUFFICES ASSUME NEW p \in Runs PROVE p \in B
    OBVIOUS
  <2>1. /\ p \in Shards \X (1..EmptyBlocks)
        /\ p[1] \in Shards /\ p[2] \in 1..EmptyBlocks /\ p[2] <= emptyRun[p[1]]
    BY DEF Runs
  <2>2. emptyRun[p[1]] \in 0..EmptyBlocks /\ emptyRun[p[1]] # EmptyBlocks
    BY <2>1 DEF Typed
  <2>3. p[2] \in 1..(EmptyBlocks - 1)
    BY <1>1, <2>1, <2>2
  <2> QED BY <2>1, <2>3
<1> HIDE DEF B
<1>4. Cardinality(Runs) <= Cardinality(B) /\ Cardinality(Runs) \in Nat
  BY <1>2, <1>3, FS_Subset, RunsFinite
<1>5. Limit = EmptyBlocks * N
  BY Numbers
<1> HIDE DEF N
<1>6. \A n, e \in Nat : n >= 1 => n * (e - 1) = e * n - n /\ e * n \in Nat
  OBVIOUS
<1>7. N * (EmptyBlocks - 1) = EmptyBlocks * N - N /\ EmptyBlocks * N \in Nat
  BY <1>1, <1>6
<1> QED BY <1>1, <1>2, <1>4, <1>5, <1>7

\* One more empty block of s makes one more pair.
LEMMA LongerRun ==
    ASSUME Typed, NEW s \in Shards, emptyRun[s] < EmptyBlocks,
           emptyRun' = [emptyRun EXCEPT ![s] = @ + 1]
    PROVE  Cardinality(Runs') = Cardinality(Runs) + 1
<1> DEFINE new == <<s, emptyRun[s] + 1>>
<1>1. emptyRun[s] \in Nat /\ EmptyBlocks \in Nat /\ emptyRun[s] + 1 \in 1..EmptyBlocks
  BY Numbers DEF Typed
<1>2. Runs' = Runs \cup {new}
  <2>1. ASSUME NEW r \in Shards, NEW i \in 1..EmptyBlocks
        PROVE  <<r, i>> \in Runs' <=> <<r, i>> \in Runs \/ (r = s /\ i = emptyRun[s] + 1)
    <3>1. <<r, i>> \in Runs' <=> i <= emptyRun'[r]
      BY DEF Runs
    <3>2. <<r, i>> \in Runs <=> i <= emptyRun[r]
      BY DEF Runs
    <3>3. emptyRun'[r] = (IF r = s THEN emptyRun[s] + 1 ELSE emptyRun[r])
      BY DEF Typed
    <3>4. i \in Nat /\ emptyRun[r] \in Nat
      BY Numbers DEF Typed
    <3> QED BY <1>1, <3>1, <3>2, <3>3, <3>4
  <2>2. new \in Shards \X (1..EmptyBlocks)
    BY <1>1
  <2>3. Runs' \subseteq Shards \X (1..EmptyBlocks) /\ Runs \subseteq Shards \X (1..EmptyBlocks)
    BY DEF Runs
  <2>4. ASSUME NEW p \in Shards \X (1..EmptyBlocks)
        PROVE  p \in Runs' <=> p \in Runs \/ p = new
    <3>1. PICK r \in Shards, i \in 1..EmptyBlocks : p = <<r, i>>
      OBVIOUS
    <3>2. p = new <=> r = s /\ i = emptyRun[s] + 1
      BY <3>1
    <3> QED BY <2>1, <3>1, <3>2
  <2> HIDE DEF new
  <2> QED BY <2>2, <2>3, <2>4
<1>3. new \notin Runs
  BY <1>1 DEF Runs
<1> HIDE DEF new
<1> QED BY <1>2, <1>3, RunsFinite, FS_AddElement

-----------------------------------------------------------------------------
LEMMA ReplyTyped ==
    ASSUME IInv, NEW s \in Shards, HandleReply(s)
    PROVE  Typed' /\ (all_finish => zero_count = Limit)'
<1> DEFINE e == Head(replies[s])
<1>1. /\ replies \in [Shards -> Seq(BOOLEAN)]
      /\ emptyRun \in [Shards -> 0..EmptyBlocks] /\ zero_count \in Nat
  BY DEF IInv, Typed
<1>2. Tail(replies[s]) \in Seq(BOOLEAN)
  <2>1. replies[s] \in Seq(BOOLEAN) /\ replies[s] # <<>>
    BY <1>1, Zenon DEF HandleReply
  <2> QED BY <2>1, HeadTailProperties, Zenon
<1>3. replies' \in [Shards -> Seq(BOOLEAN)]
  <2>1. replies' = [replies EXCEPT ![s] = Tail(replies[s])]
    BY DEF HandleReply
  <2> QED BY <1>1, <1>2, <2>1
<1>4. emptyRun' \in [Shards -> 0..EmptyBlocks]
  <2>1. emptyRun[s] + 1 \in Nat /\ EmptyBlocks \in Nat
    BY <1>1, Numbers
  <2>2. Min({emptyRun[s] + 1, EmptyBlocks}) \in 0..EmptyBlocks
    BY <2>1, MinIsLeast
  <2>3. emptyRun' = [emptyRun EXCEPT ![s] =
                        IF e THEN Min({emptyRun[s] + 1, EmptyBlocks}) ELSE 0]
    BY DEF HandleReply
  <2>4. 0 \in 0..EmptyBlocks
    BY Numbers
  <2> QED BY <1>1, <2>2, <2>3, <2>4
<1>5. zero_count' \in Nat
  <2>1. zero_count + 1 \in Nat /\ Limit + 1 \in Nat
    BY <1>1, Numbers
  <2>2. Min({zero_count + 1, Limit + 1}) \in Nat
    BY <2>1, MinIsLeast
  <2> QED BY <2>2 DEF HandleReply, Counted
<1>6. Limit' = Limit /\ (all_finish' => zero_count' = Limit)
  BY Zenon DEF HandleReply, Limit
<1> QED BY <1>3, <1>4, <1>5, <1>6 DEF Typed

\* A block with transactions starts the count again; an empty one lengthens its
\* shard's run, or has brought it to its end.
LEMMA ReplyCounts ==
    ASSUME IInv, NEW s \in Shards, HandleReply(s), Typed'
    PROVE  Counting'
<1>1. emptyRun \in [Shards -> 0..EmptyBlocks] /\ zero_count \in Nat
  BY DEF IInv, Typed
<1>2. EmptyBlocks' = EmptyBlocks
  OBVIOUS
<1>3. CASE ~ Head(replies[s])
  <2>1. zero_count' = 0
    BY <1>3, Zenon DEF HandleReply, Counted
  <2>2. Runs' \subseteq Shards \X (1..EmptyBlocks) /\ IsFiniteSet(Shards \X (1..EmptyBlocks))
    BY Numbers, Pairs DEF Runs
  <2>3. IsFiniteSet(Runs') /\ Cardinality(Runs') \in Nat
    BY <2>2, FS_Subset, FS_CardinalityType
  <2>4. zero_count' <= Cardinality(Runs')
    BY <2>1, <2>3
  <2> QED BY <2>4 DEF Counting
<1>4. CASE Head(replies[s])
  <2>1. zero_count' = Min({zero_count + 1, Limit + 1})
    BY <1>4, Zenon DEF HandleReply, Counted
  <2>2. emptyRun' = [emptyRun EXCEPT ![s] = Min({@ + 1, EmptyBlocks})]
    BY <1>4, Zenon DEF HandleReply
  <2>3. emptyRun[s] \in Nat /\ EmptyBlocks \in Nat /\ emptyRun[s] <= EmptyBlocks
    BY <1>1, Numbers
  <2>4. /\ Min({emptyRun[s] + 1, EmptyBlocks}) \in {emptyRun[s] + 1, EmptyBlocks}
        /\ Min({emptyRun[s] + 1, EmptyBlocks}) <= emptyRun[s] + 1
        /\ Min({emptyRun[s] + 1, EmptyBlocks}) <= EmptyBlocks
    BY <2>3, MinIsLeast
  <2>5. CASE \E t \in Shards : emptyRun[t] = EmptyBlocks
    <3>1. PICK t \in Shards : emptyRun[t] = EmptyBlocks
      BY <2>5
    <3>2. emptyRun'[t] = EmptyBlocks
      <4>1. CASE t # s
        BY <1>1, <2>2, <3>1, <4>1
      <4>2. CASE t = s
        <5>1. Min({emptyRun[s] + 1, EmptyBlocks}) = EmptyBlocks
          BY <2>3, <2>4, <3>1, <4>2
        <5> QED BY <1>1, <2>2, <4>2, <5>1
      <4> QED BY <4>1, <4>2
    <3> QED BY <1>2, <3>2 DEF Counting
  <2>6. CASE \A t \in Shards : emptyRun[t] # EmptyBlocks
    <3>1. zero_count <= Cardinality(Runs)
      BY <2>6 DEF IInv, Counting
    <3>2. emptyRun[s] < EmptyBlocks /\ Min({emptyRun[s] + 1, EmptyBlocks}) = emptyRun[s] + 1
      BY <2>3, <2>4, <2>6
    <3>3. Cardinality(Runs') = Cardinality(Runs) + 1
      BY <2>2, <3>2, LongerRun DEF IInv
    <3>4. zero_count' <= zero_count + 1 /\ zero_count' \in Nat
      <4>1. zero_count + 1 \in Nat /\ Limit + 1 \in Nat
        BY <1>1, Numbers
      <4> QED BY <2>1, <4>1, MinIsLeast
    <3>5. zero_count' <= Cardinality(Runs')
      BY <1>1, <3>1, <3>3, <3>4, RunsFinite
    <3> QED BY <3>5 DEF Counting
  <2> QED BY <2>5, <2>6
<1> QED BY <1>3, <1>4

-----------------------------------------------------------------------------
LEMMA CommitTyped ==
    ASSUME IInv, NEW s \in Shards, commit1(s)
    PROVE  Typed'
<1>1. replies \in [Shards -> Seq(BOOLEAN)]
  BY DEF IInv, Typed
<1>2. PICK e \in BOOLEAN : e = (s \notin work)
  OBVIOUS
<1>3. Append(replies[s], e) \in Seq(BOOLEAN)
  BY <1>1, AppendProperties
<1>4. \/ replies' = [replies EXCEPT ![s] = Append(replies[s], e)]
      \/ replies' = replies
  <2>1. replies' = [replies EXCEPT ![s] = IF Client \in up THEN Append(@, e) ELSE @]
    BY <1>2, Zenon DEF commit1
  <2> QED BY <1>1, <2>1
<1>5. replies' \in [Shards -> Seq(BOOLEAN)]
  BY <1>1, <1>3, <1>4
<1>6. UNCHANGED <<emptyRun, zero_count>>
  BY DEF commit1, client
<1> QED BY <1>5, <1>6 DEF IInv, Typed

LEMMA InitInv == Init => IInv
<1> SUFFICES ASSUME Init PROVE IInv
  OBVIOUS
<1>1. Typed
  BY Numbers DEF Init, Typed
<1>2. zero_count = 0 /\ all_finish = FALSE
  BY DEF Init
<1> QED BY <1>1, <1>2, RunsFinite DEF IInv, Counting

\* Nothing else touches what is counted; all_finish is only set by a reply.
LEMMA Untouched ==
    ASSUME IInv, UNCHANGED <<replies, emptyRun, zero_count>>, all_finish' => all_finish
    PROVE  IInv'
<1>1. Typed' /\ Counting'
  BY DEF IInv, Typed, Counting, Runs
<1>2. Limit' = Limit
  BY DEF Limit
<1>3. all_finish' => zero_count' = Limit
  BY DEF IInv
<1> QED BY <1>1, <1>2, <1>3, Zenon DEF IInv

LEMMA NextInv == IInv /\ [Next]_vars => IInv'
<1> SUFFICES ASSUME IInv, [Next]_vars PROVE IInv'
  OBVIOUS
<1>1. CASE UNCHANGED vars
  BY <1>1, Untouched, Zenon DEF vars, chain, client
<1>2. ASSUME NEW p \in Procs, NEW q \in Procs, ReadEOF(p, q) PROVE IInv'
  BY <1>2, Untouched, Zenon DEF ReadEOF, chain, client
<1>3. ASSUME NEW s \in Shards, NewWork(s) PROVE IInv'
  BY <1>3, Untouched, Zenon DEF NewWork, client
<1>4. ASSUME NEW s \in Shards, commit1(s) PROVE IInv'
  <2>1. Typed'
    BY <1>4, CommitTyped
  <2>2. UNCHANGED <<emptyRun, zero_count, all_finish>>
    BY <1>4 DEF commit1, client
  <2>3. Counting'
    BY <2>2 DEF IInv, Counting, Runs
  <2>4. all_finish' => zero_count' = Limit
    BY <2>2, Zenon DEF IInv
  <2>5. Limit' = Limit
    BY DEF Limit
  <2> QED BY <2>1, <2>3, <2>4, <2>5, Zenon DEF IInv
<1>5. ASSUME NEW s \in Shards, handleStop(s) PROVE IInv'
  BY <1>5, Untouched, Zenon DEF handleStop, chain, client
<1>6. ASSUME NEW s \in Shards, HandleReply(s) PROVE IInv'
  BY <1>6, ReplyTyped, ReplyCounts, Zenon DEF IInv
<1>7. ASSUME NEW s \in Shards, SendStop(s) PROVE IInv'
  BY <1>7, Untouched, Zenon DEF SendStop, chain, client
<1>8. ASSUME NEW s \in Shards, NEW t \in Shards, SendToLeader(s, t) PROVE IInv'
  BY <1>8, Untouched, Zenon DEF SendToLeader, chain, client
<1>9. CASE ReceiveFinish
  BY <1>9, Untouched, Zenon DEF ReceiveFinish, chain
<1>10. CASE ClientEnds
  BY <1>10, Untouched, Zenon DEF ClientEnds, chain, client
<1> QED BY <1>1, <1>2, <1>3, <1>4, <1>5, <1>6, <1>7, <1>8, <1>9, <1>10, Zenon DEF Next

\* The inductive invariant: until some shard has had EmptyBlocks empty blocks in
\* a row, zero_count is at most what the shards' present runs add up to.
THEOREM CountInvariant == Spec => []IInv
  BY InitInv, NextInv, PTL DEF Spec

\* However many shards there are, however long the run is and however far a
\* leader falls behind the others: the client only tells everyone to stop after
\* one shard has reported EmptyBlocks empty blocks in a row (cReply, zero_count).
THEOREM StopsWhenSomeShardQuiet == Spec => []SomeShardQuiet
<1>1. IInv => SomeShardQuiet
  <2> SUFFICES ASSUME IInv, all_finish, \A s \in Shards : emptyRun[s] # EmptyBlocks
               PROVE  FALSE
    BY Zenon DEF SomeShardQuiet
  <2>1. zero_count = Limit /\ zero_count <= Cardinality(Runs)
    BY DEF IInv, Counting
  <2>2. Cardinality(Runs) < Limit
    BY ShortRuns DEF IInv
  <2> QED BY <2>1, <2>2, Numbers, RunsFinite
<1> QED BY <1>1, CountInvariant, PTL
=============================================================================
