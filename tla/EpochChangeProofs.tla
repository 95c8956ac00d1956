-------------------------- MODULE EpochChangeProofs --------------------------
(***************************************************************************)
(* The stop-the-world epoch change, for any number of shards, accounts and *)
(* maps and any order of the maps, messages and goroutines: no leader goes *)
(* on from its n-th map before all are done with their n-th, no moving     *)
(* account is lost or doubled, and the transactions that wait for it go    *)
(* with it.                                                                *)
(***************************************************************************)
EXTENDS EpochChange, FiniteSetTheorems, TLAPS

\* The last map: the only one that may move an account.
PartialMap == UNION {[M -> Shards] : M \in SUBSET Accounts}
Moving == IF maps = <<>> THEN {} ELSE DOMAIN maps[Len(maps)]
Dest(a) == maps[Len(maps)][a]
Incoming(s) == {a \in Moving : Dest(a) = s}

\* The shards that have committed the last map.
Applied == {s \in Shards : \E i \in 1..msequenceID[s] : taken[s][i] = Len(maps)}

\* A shard that has committed a map and not yet told the others.
Unsent(s) == sureWait[s] > 0 \/ main[s] \in {"wait", "spropose", "sure"}
SentNo(s) == IF Unsent(s) THEN msequenceID[s] - 1 ELSE msequenceID[s]

Sure(r, s, e) == [type |-> "Sure", from |-> r, to |-> s, epoch |-> e]

\* What the model's queues leave open is not typed here: only what steers the
\* epoch change.
Typed ==
    /\ AccountInOwnShard \in [Shards -> SUBSET Accounts]
    /\ state \in [Shards -> [Accounts -> Int]]
    /\ epochLock \in [Shards -> {"free", "block", "epoch"}]
    /\ main \in [Shards -> {"idle", "wait", "spropose", "sure", "count"}]
    /\ taken \in [Shards -> Seq(Nat)] /\ msequenceID \in [Shards -> Nat] /\ done \in [Shards -> Nat]
    /\ outs \in [Shards -> SUBSET PartialMap]
    /\ sendoutfinish \in [Shards -> Nat]
    /\ sureWait \in [Shards -> Nat] /\ sureDue \in [Shards -> Nat]
    /\ inacc_count \in [Shards -> Int]
    /\ inacc_pool \in [Shards -> SUBSET [addr : Accounts, balance : Int]]
    /\ sure_count \in [Shards -> Nat]
    /\ maps \in Seq(PartialMap)
    /\ \A i \in 1..(Len(maps) - 1) : DOMAIN maps[i] = {}
    /\ \A a \in Moving : Dest(a) # Home[a]

\* A map under way to a shard is one that the shard has not taken.
NewMapOK(m) ==
    /\ m = [type |-> "NewMap", epoch |-> m.epoch, to |-> m.to]
    /\ m.epoch \in 1..Len(maps)
    /\ \A i \in 1..Len(taken[m.to]) : taken[m.to][i] # m.epoch
ListOK(m) ==
    /\ m.list # {} /\ IsFiniteSet(m.list)
    /\ \A b \in m.list : b.addr \in Accounts /\ b.balance \in Int
    /\ Cardinality(m.list) = Cardinality({b.addr : b \in m.list})
SureOK(m) == \E r \in Shards : \E e \in 1..SentNo(r) : r # m.to /\ m = Sure(r, m.to, e)
MsgsOK ==
    \A m \in msgs :
        /\ m.to \in Shards
        /\ m.type \in {"NewMap", "BalanceAndPending", "Sure"}
        /\ m.type = "NewMap" => NewMapOK(m)
        /\ m.type = "BalanceAndPending" => ListOK(m)
        /\ m.type = "Sure" => SureOK(m)

\* One map at a time: taken, committed, told, left; and no map twice.
Steps(s) ==
    /\ msequenceID[s] <= Len(taken[s]) /\ Len(taken[s]) <= msequenceID[s] + 1
    /\ done[s] <= msequenceID[s] /\ Len(taken[s]) <= done[s] + 1
    /\ epochLock[s] = "epoch" <=> Len(taken[s]) = done[s] + 1
    /\ \A i \in 1..Len(taken[s]) : taken[s][i] \in 1..Len(maps)
    /\ \A i, j \in 1..Len(taken[s]) : taken[s][i] = taken[s][j] => i = j
Sender(s) ==
    /\ sureWait[s] <= 1 /\ (sureWait[s] = 1 => main[s] = "idle")
    /\ ~Unsent(s) => outs[s] = {} /\ sendoutfinish[s] = 0
    /\ Unsent(s) => \/ outs[s] = {} /\ sendoutfinish[s] = 1
                    \/ (\E o \in outs[s] : outs[s] = {o}) /\ sendoutfinish[s] = 0

\* No shard has left more epochs than every shard has told of.
Barrier == \A s, r \in Shards : done[s] <= SentNo(r)

\* Every confirmation is counted once: for the epochs left, for the present
\* one, or it is the shard's own and about to be counted.
Told == {p \in Shards \X Nat : 1 <= p[2] /\ p[2] <= SentNo(p[1])}
Heard(s) == {p \in Told : Sure(p[1], s, p[2]) \notin msgs}
Counting(s) ==
    /\ sure_count[s] < Cardinality(Shards)
    /\ Cardinality(Heard(s)) = done[s] * Cardinality(Shards) + sure_count[s] + sureDue[s]
                               + (IF main[s] = "count" THEN 1 ELSE 0)

\* Where an account is.
OwnAt(a) == {s \in Shards : a \in AccountInOwnShard[s]}
OutAt(a) == {s \in Shards : \E o \in outs[s] : a \in DOMAIN o}
MsgsOf(a) == {m \in msgs : m.type = "BalanceAndPending" /\ \E b \in m.list : b.addr = a}
InAt(a) == {s \in Shards : \E b \in inacc_pool[s] : b.addr = a}

AtHome(a) == OwnAt(a) = {Home[a]} /\ OutAt(a) = {} /\ MsgsOf(a) = {} /\ InAt(a) = {}
Out(a) == /\ OwnAt(a) = {} /\ OutAt(a) = {Home[a]} /\ MsgsOf(a) = {} /\ InAt(a) = {}
          /\ \A o \in outs[Home[a]] : a \in DOMAIN o => o[a] = Dest(a)
Sent(a) == /\ OwnAt(a) = {} /\ OutAt(a) = {} /\ InAt(a) = {}
           /\ \E m \in msgs : MsgsOf(a) = {m} /\ m.to = Dest(a)
Come(a) == /\ OwnAt(a) = {} /\ OutAt(a) = {} /\ MsgsOf(a) = {} /\ InAt(a) = {Dest(a)}
           /\ main[Dest(a)] \notin {"sure", "count"}
Taken(a) == /\ OwnAt(a) = {Dest(a)} /\ OutAt(a) = {} /\ MsgsOf(a) = {}
            /\ Dest(a) \in Applied
            /\ \/ main[Dest(a)] \in {"sure", "count"} /\ InAt(a) = {Dest(a)}
               \/ main[Dest(a)] = "idle" /\ InAt(a) = {}
Started(a) == a \in Moving /\ Home[a] \in Applied
Placed(a) == IF Started(a) THEN Out(a) \/ Sent(a) \/ Come(a) \/ Taken(a) ELSE AtHome(a)

\* What a shard still waits for.
Got(s) == {a \in Incoming(s) : s \in InAt(a) \cup OwnAt(a)}
Intake(s) ==
    /\ inacc_count[s] = (IF s \in Applied THEN Cardinality(Incoming(s)) ELSE 0)
                        - Cardinality(Got(s))
    /\ main[s] \in {"wait", "spropose", "sure", "count"} =>
          s \in Applied /\ Incoming(s) # {}
    /\ main[s] = "wait" => Got(s) # Incoming(s)
    /\ main[s] = "spropose" => Got(s) = Incoming(s)
    /\ main[s] \in {"sure", "count"} => Incoming(s) \subseteq AccountInOwnShard[s]
    /\ main[s] = "idle" /\ s \in Applied => Incoming(s) \subseteq AccountInOwnShard[s]

IInv ==
    /\ Typed /\ MsgsOK /\ Barrier
    /\ \A s \in Shards : Steps(s) /\ Sender(s) /\ Counting(s) /\ Intake(s)
    /\ \A a \in Accounts : Placed(a)
-----------------------------------------------------------------------------
LEMMA Numbers ==
    ASSUME Typed, NEW s \in Shards
    PROVE  /\ taken[s] \in Seq(Nat) /\ Len(taken[s]) \in Nat /\ msequenceID[s] \in Nat /\ done[s] \in Nat
           /\ sure_count[s] \in Nat /\ sureDue[s] \in Nat /\ sureWait[s] \in Nat
           /\ sendoutfinish[s] \in Nat /\ inacc_count[s] \in Int
           /\ SentNo(s) \in Int /\ SentNo(s) <= msequenceID[s] /\ msequenceID[s] <= SentNo(s) + 1
           /\ Len(maps) \in Nat
  BY DEF Typed, SentNo

LEMMA ShardNumber == IsFiniteSet(Shards) /\ Cardinality(Shards) \in Nat
  BY EpochConstants, FS_CardinalityType

LEMMA ToldFinite ==
    ASSUME Typed, Barrier, \A r \in Shards : Steps(r)
    PROVE  IsFiniteSet(Told) /\ Cardinality(Told) \in Nat
<1>1. CASE Shards = {}
  <2>1. Told = {}
    BY <1>1 DEF Told
  <2> QED BY <2>1, FS_EmptySet
<1>2. CASE Shards # {}
  <2>1. PICK s \in Shards : TRUE
    BY <1>2
  <2> DEFINE n == msequenceID[s] + 1
             P == Shards \X (1..n)
  <2>2. n \in Nat
    BY <2>1, Numbers
  <2>3. IsFiniteSet(1..n)
    BY <2>2, FS_Interval
  <2>4. IsFiniteSet(P)
    BY <2>3, ShardNumber, FS_Product
  <2>5. ASSUME NEW r \in Shards PROVE SentNo(r) \in Int /\ SentNo(r) <= n
    <3>1. done[r] <= SentNo(s) /\ SentNo(s) <= msequenceID[s]
      BY <2>1, Numbers DEF Barrier
    <3>2. SentNo(r) <= msequenceID[r] /\ msequenceID[r] <= done[r] + 1
      BY Numbers DEF Steps
    <3> QED BY <2>1, <3>1, <3>2, Numbers
  <2>6. Told \subseteq P
    BY <2>2, <2>5 DEF Told
  <2> QED BY <2>4, <2>6, FS_Subset, FS_CardinalityType
<1> QED BY <1>1, <1>2

\* When as many confirmations have been given as there are shards in all the
\* epochs up to the present one, every shard has given its own for it.
LEMMA AllSent ==
    ASSUME Typed, Barrier, \A r \in Shards : Steps(r), NEW s \in Shards,
           (done[s] + 1) * Cardinality(Shards) <= Cardinality(Told)
    PROVE  \A r \in Shards : done[s] + 1 <= SentNo(r)
<1> SUFFICES ASSUME NEW r \in Shards, ~(done[s] + 1 <= SentNo(r)) PROVE FALSE
  OBVIOUS
<1> DEFINE d == done[s]
           P == Shards \X (1..(d + 1))
           x == <<r, d + 1>>
<1>1. d \in Nat /\ SentNo(r) = d
  BY Numbers DEF Barrier
<1>2. ASSUME NEW q \in Shards PROVE SentNo(q) <= d + 1
  <2>1. done[q] <= d
    BY <1>1 DEF Barrier
  <2>2. msequenceID[q] <= Len(taken[q]) /\ Len(taken[q]) <= done[q] + 1
    BY DEF Steps
  <2>3. /\ SentNo(q) \in Int /\ SentNo(q) <= msequenceID[q] /\ msequenceID[q] \in Nat
        /\ Len(taken[q]) \in Nat /\ done[q] \in Nat
    BY Numbers
  <2> HIDE DEF d
  <2> QED BY <1>1, <2>1, <2>2, <2>3
<1>3. Told \subseteq P \ {x}
  <2> SUFFICES ASSUME NEW p \in Told PROVE p \in P /\ p # x
    OBVIOUS
  <2>1. PICK q \in Shards, e \in Nat : p = <<q, e>> /\ 1 <= e /\ e <= SentNo(q)
    BY DEF Told
  <2>2. SentNo(q) \in Int /\ SentNo(q) <= d + 1
    BY <1>2, Numbers
  <2> HIDE DEF d
  <2>3. e \in Int /\ 1 <= e /\ e <= d + 1 /\ e <= SentNo(q)
    BY <1>1, <2>1, <2>2
  <2>4. p \in P
    BY <1>1, <2>1, <2>3
  <2>5. ~(q = r /\ e = d + 1)
    BY <1>1, <2>3
  <2> QED BY <2>1, <2>4, <2>5
<1>4. IsFiniteSet(1..(d + 1)) /\ Cardinality(1..(d + 1)) = d + 1
  <2> HIDE DEF d
  <2>1. d + 1 \in Int /\ ~(1 > d + 1) /\ (d + 1) - 1 + 1 = d + 1
    BY <1>1
  <2>2. /\ IsFiniteSet(1..(d + 1))
        /\ Cardinality(1..(d + 1)) = IF 1 > d + 1 THEN 0 ELSE (d + 1) - 1 + 1
    BY <2>1, FS_Interval
  <2> QED BY <2>1, <2>2
<1>5. IsFiniteSet(P) /\ Cardinality(P) = Cardinality(Shards) * (d + 1)
  BY <1>4, ShardNumber, FS_Product
<1>6. x \in P
  BY <1>1
<1>7. IsFiniteSet(P \ {x}) /\ Cardinality(P \ {x}) = Cardinality(P) - 1
  BY <1>5, <1>6, FS_RemoveElement
<1>8. Cardinality(Told) <= Cardinality(P \ {x})
  BY <1>3, <1>7, FS_Subset
<1>9. Cardinality(Told) \in Nat /\ Cardinality(P) \in Nat
  BY <1>5, ToldFinite, FS_CardinalityType
<1>10. (d + 1) * Cardinality(Shards) = Cardinality(Shards) * (d + 1)
  BY <1>1, ShardNumber
<1> HIDE DEF d, P, x
<1>11. (d + 1) * Cardinality(Shards) <= Cardinality(Told)
  BY DEF d
<1> QED BY <1>5, <1>7, <1>8, <1>9, <1>10, <1>11

\* The confirmation that opens epochLock comes after everybody's.
LEMMA LastSure ==
    ASSUME IInv, NEW s \in Shards, sure_count[s] + 1 = Cardinality(Shards),
           \/ sureDue[s] > 0 \/ main[s] = "count"
           \/ \E m \in msgs : m.type = "Sure" /\ m.to = s
    PROVE  /\ \A r \in Shards : done[s] + 1 <= SentNo(r)
           /\ epochLock[s] = "epoch"
<1> DEFINE N == Cardinality(Shards)
           D == done[s] * N
<1>1. Typed /\ Barrier /\ (\A r \in Shards : Steps(r)) /\ Counting(s) /\ MsgsOK
  BY DEF IInv
<1>2. /\ N \in Nat /\ done[s] \in Nat /\ sureDue[s] \in Nat /\ sure_count[s] \in Nat
      /\ sure_count[s] + 1 = N
  BY <1>1, ShardNumber, Numbers
<1>3. D \in Nat /\ (done[s] + 1) * N = D + N
  BY <1>2
<1>4. IsFiniteSet(Told) /\ Cardinality(Told) \in Nat
  BY <1>1, ToldFinite
<1>5. IsFiniteSet(Heard(s)) /\ Cardinality(Heard(s)) <= Cardinality(Told)
      /\ Cardinality(Heard(s)) \in Nat /\ (Cardinality(Heard(s)) = Cardinality(Told) => Heard(s) = Told)
  <2>1. Heard(s) \subseteq Told
    BY DEF Heard
  <2> QED BY <2>1, <1>4, FS_Subset, FS_CardinalityType
<1>6. Cardinality(Heard(s)) = D + sure_count[s] + sureDue[s]
                              + (IF main[s] = "count" THEN 1 ELSE 0)
  BY <1>1 DEF Counting
<1>7. D + N <= Cardinality(Told)
  <2>1. CASE sureDue[s] > 0 \/ main[s] = "count"
    <3> HIDE DEF D, N
    <3> QED BY <2>1, <1>2, <1>3, <1>4, <1>5, <1>6
  <2>2. CASE \E m \in msgs : m.type = "Sure" /\ m.to = s
    <3>1. PICK m \in msgs : m.type = "Sure" /\ m.to = s
      BY <2>2
    <3>2. PICK r \in Shards : \E e \in 1..SentNo(r) : m = Sure(r, s, e)
      BY <3>1, <1>1 DEF MsgsOK, SureOK
    <3>3. PICK e \in 1..SentNo(r) : m = Sure(r, s, e)
      BY <3>2
    <3>5. <<r, e>> \in Told /\ <<r, e>> \notin Heard(s)
      BY <3>1, <3>3, <1>1, Numbers DEF Told, Heard
    <3>4. Heard(s) # Told
      BY <3>5
    <3> HIDE DEF D, N
    <3> QED BY <3>4, <1>2, <1>3, <1>4, <1>5, <1>6
  <2> QED BY <2>1, <2>2
<1>8. \A r \in Shards : done[s] + 1 <= SentNo(r)
  <2> HIDE DEF D
  <2>1. (done[s] + 1) * Cardinality(Shards) <= Cardinality(Told)
    BY <1>3, <1>7
  <2> QED BY <2>1, <1>1, AllSent
<1> QED
  <2>1. done[s] + 1 <= SentNo(s) /\ Steps(s)
    BY <1>1, <1>8
  <2>2. Len(taken[s]) = done[s] + 1
    BY <2>1, <1>1, Numbers DEF Steps
  <2> QED BY <1>8, <2>1, <2>2 DEF Steps
-----------------------------------------------------------------------------
\* What a step that leaves a part alone keeps.

LEMMA SentKept ==
    ASSUME NEW r \in Shards, msequenceID'[r] = msequenceID[r], Unsent(r)' <=> Unsent(r)
    PROVE  SentNo(r)' = SentNo(r)
  BY DEF SentNo

LEMMA ToldKept ==
    ASSUME \A r \in Shards : SentNo(r)' = SentNo(r)
    PROVE  Told' = Told
  BY DEF Told

LEMMA BarrierKept ==
    ASSUME Barrier, done' = done, \A r \in Shards : SentNo(r)' = SentNo(r)
    PROVE  Barrier'
  BY DEF Barrier

\* The confirmations under way are the same.
SuresKept == \A m : m.type = "Sure" => (m \in msgs' <=> m \in msgs)

LEMMA HeardKept ==
    ASSUME Told' = Told, SuresKept, NEW s
    PROVE  Heard(s)' = Heard(s)
<1>1. \A r, e : Sure(r, s, e).type = "Sure"
  BY DEF Sure
<1>2. \A r, e : Sure(r, s, e) \in msgs' <=> Sure(r, s, e) \in msgs
  BY <1>1 DEF SuresKept
<1> QED BY <1>2 DEF Heard

LEMMA CountingKept ==
    ASSUME NEW s \in Shards, Counting(s), Heard(s)' = Heard(s), done'[s] = done[s],
           sure_count'[s] = sure_count[s], sureDue'[s] = sureDue[s],
           main'[s] = "count" <=> main[s] = "count"
    PROVE  Counting(s)'
  BY DEF Counting

LEMMA MovesKept ==
    ASSUME maps' = maps
    PROVE  /\ Moving' = Moving
           /\ \A a : Dest(a)' = Dest(a)
           /\ \A s : Incoming(s)' = Incoming(s)
  BY DEF Moving, Dest, Incoming

LEMMA AppliedKept ==
    ASSUME maps' = maps, taken' = taken, msequenceID' = msequenceID
    PROVE  /\ Applied' = Applied
           /\ \A a : Started(a)' <=> Started(a)
<1>1. Applied' = Applied
  BY DEF Applied
<1> QED BY <1>1, MovesKept DEF Started

\* Account a is where it was.
Stays(a) ==
    /\ OwnAt(a)' = OwnAt(a) /\ OutAt(a)' = OutAt(a)
    /\ MsgsOf(a)' = MsgsOf(a) /\ InAt(a)' = InAt(a)

LEMMA PlacedKept ==
    ASSUME NEW a, Placed(a), Stays(a), maps' = maps,
           Started(a)' <=> Started(a), Applied \subseteq Applied',
           \A o \in outs'[Home[a]] : a \in DOMAIN o => o \in outs[Home[a]],
           Come(a) => main'[Dest(a)] \notin {"sure", "count"},
           Taken(a) => /\ main[Dest(a)] \in {"sure", "count"} => main'[Dest(a)] \in {"sure", "count"}
                       /\ main[Dest(a)] = "idle" => main'[Dest(a)] = "idle"
    PROVE  Placed(a)'
<1>1. Dest(a)' = Dest(a)
  BY MovesKept
<1>2. CASE ~Started(a)
  BY <1>2 DEF Placed, AtHome, Stays
<1>3. CASE Started(a)
  <2>1. ASSUME Out(a) PROVE Out(a)'
    BY <1>1, <2>1 DEF Out, Stays
  <2>2. ASSUME Sent(a) PROVE Sent(a)'
    BY <1>1, <2>2 DEF Sent, Stays, MsgsOf
  <2>3. ASSUME Come(a) PROVE Come(a)'
    BY <1>1, <1>3, <2>3 DEF Come, Stays
  <2>4. ASSUME Taken(a) PROVE Taken(a)'
    BY <1>1, <1>3, <2>4 DEF Taken, Stays
  <2> QED BY <1>3, <2>1, <2>2, <2>3, <2>4 DEF Placed
<1> QED BY <1>2, <1>3

LEMMA GotKept ==
    ASSUME maps' = maps, NEW s,
           \A a \in Incoming(s) : s \in InAt(a)' \cup OwnAt(a)' <=> s \in InAt(a) \cup OwnAt(a)
    PROVE  Got(s)' = Got(s)
  BY MovesKept DEF Got

LEMMA IntakeKept ==
    ASSUME NEW s, Intake(s), maps' = maps, Got(s)' = Got(s),
           main'[s] = main[s], s \in Applied' <=> s \in Applied,
           inacc_count'[s] = inacc_count[s],
           AccountInOwnShard[s] \subseteq AccountInOwnShard'[s]
    PROVE  Intake(s)'
<1>1. Incoming(s)' = Incoming(s)
  BY MovesKept
<1> QED BY <1>1 DEF Intake
-----------------------------------------------------------------------------
LEMMA InvInit == Init => IInv
<1> SUFFICES ASSUME Init PROVE IInv
  OBVIOUS
<1> USE EpochConstants DEF Init
<1>1. Moving = {} /\ Len(maps) = 0
  BY DEF Moving
<1>2. Typed
  <2>1. maps \in Seq(PartialMap)
    OBVIOUS
  <2>2. \A a \in Moving : Dest(a) # Home[a]
    BY <1>1
  <2> QED BY <2>1, <2>2 DEF Typed
<1>3. MsgsOK
  BY DEF MsgsOK
<1>4. \A r \in Shards : SentNo(r) = 0
  BY DEF SentNo, Unsent
<1>5. Barrier
  BY <1>4 DEF Barrier
<1>6. \A s \in Shards : Steps(s) /\ Sender(s)
  BY <1>1 DEF Steps, Sender, Unsent
<1>7. \A s : Incoming(s) = {} /\ Got(s) = {}
  BY <1>1 DEF Incoming, Got
<1>8. ASSUME NEW s \in Shards PROVE Counting(s)
  <2>1. Heard(s) = {}
    BY <1>4 DEF Heard, Told
  <2>2. Cardinality(Heard(s)) = 0 /\ 0 * Cardinality(Shards) = 0
    BY <2>1, FS_EmptySet, ShardNumber
  <2>3. 0 < Cardinality(Shards)
    BY ShardNumber, FS_EmptySet
  <2> QED BY <2>2, <2>3 DEF Counting
<1>9. ASSUME NEW s \in Shards PROVE Intake(s)
  <2>1. Cardinality(Incoming(s)) = 0 /\ Cardinality(Got(s)) = 0
    BY <1>7, FS_EmptySet
  <2> QED BY <1>7, <2>1 DEF Intake
<1>10. ASSUME NEW a \in Accounts PROVE Placed(a)
  <2>1. ~Started(a)
    BY <1>1 DEF Started
  <2>2. AtHome(a)
    BY DEF AtHome, OwnAt, OutAt, MsgsOf, InAt
  <2> QED BY <2>1, <2>2 DEF Placed
<1> QED BY <1>2, <1>3, <1>5, <1>6, <1>8, <1>9, <1>10 DEF IInv
-----------------------------------------------------------------------------
\* Blocks: epochLock is taken and given back, by blocks only.
steering == <<AccountInOwnShard, state, main, taken, msequenceID, outs, sendoutfinish,
              sureWait, sureDue, inacc_count, inacc_pool, sure_count, maps, msgs, done>>

LEMMA LockStep ==
    ASSUME IInv, UNCHANGED steering,
           epochLock' \in [Shards -> {"free", "block", "epoch"}],
           \A s \in Shards : epochLock'[s] = "epoch" <=> epochLock[s] = "epoch"
    PROVE  IInv'
<1> USE DEF steering
<1>1. Typed'
  BY MovesKept DEF IInv, Typed
<1>2. \A r : SentNo(r)' = SentNo(r)
  BY DEF SentNo, Unsent
<1>3. MsgsOK'
  BY <1>2 DEF IInv, MsgsOK, NewMapOK, ListOK, SureOK
<1>4. Barrier'
  BY <1>2, BarrierKept DEF IInv
<1>5. \A s \in Shards : Steps(s)' /\ Sender(s)'
  BY DEF IInv, Steps, Sender, Unsent
<1>6. ASSUME NEW s \in Shards PROVE Counting(s)'
  BY <1>2, ToldKept, HeardKept, CountingKept DEF IInv, SuresKept
<1>7. \A a : Stays(a)
  BY DEF Stays, OwnAt, OutAt, MsgsOf, InAt
<1>10. /\ Applied' = Applied
       /\ \A a : Started(a)' <=> Started(a)
  BY AppliedKept
<1>8. ASSUME NEW s \in Shards PROVE Intake(s)'
  <2>1. Got(s)' = Got(s)
    BY <1>7, GotKept DEF Stays
  <2> QED BY <1>10, <2>1, IntakeKept DEF IInv
<1>9. ASSUME NEW a \in Accounts PROVE Placed(a)'
  BY <1>7, <1>10, PlacedKept DEF IInv, Come
<1> QED BY <1>1, <1>3, <1>4, <1>5, <1>6, <1>8, <1>9 DEF IInv

LEMMA ProposeStartStep ==
    ASSUME IInv, NEW s \in Shards, ProposeStart(s)
    PROVE  IInv'
<1>1. UNCHANGED steering
  BY DEF ProposeStart, steering, owned, pool, sures, intake, counts
<1>2. epochLock \in [Shards -> {"free", "block", "epoch"}]
  BY DEF IInv, Typed
<1> QED BY <1>1, <1>2, LockStep DEF ProposeStart

LEMMA CommitBlockStep ==
    ASSUME IInv, NEW s \in Shards, CommitBlock(s)
    PROVE  IInv'
<1>1. UNCHANGED steering
  BY DEF CommitBlock, steering, owned, sures, intake, counts
<1>2. epochLock \in [Shards -> {"free", "block", "epoch"}]
  BY DEF IInv, Typed
<1> QED BY <1>1, <1>2, LockStep DEF CommitBlock

LEMMA StutterStep ==
    ASSUME IInv, UNCHANGED vars
    PROVE  IInv'
<1>1. UNCHANGED steering /\ epochLock' = epochLock
  BY DEF vars, steering
<1>2. epochLock \in [Shards -> {"free", "block", "epoch"}]
  BY DEF IInv, Typed
<1> QED BY <1>1, <1>2, LockStep
-----------------------------------------------------------------------------
\* The client sends a map: the maps before it moved nothing, and no shard has
\* committed this one.
LEMMA SendStep ==
    ASSUME IInv, SendNewAddr2Shard
    PROVE  IInv'
<1> DEFINE E == Len(maps)
           rest == <<owned, epochLock, main, taken, msequenceID, outs, sures, intake, counts>>
           new(s) == [type |-> "NewMap", epoch |-> E + 1, to |-> s]
<1>1. /\ UNCHANGED rest /\ msgs' = msgs \cup {new(s) : s \in Shards}
      /\ \A i \in 1..E : DOMAIN maps[i] = {}
  BY DEF SendNewAddr2Shard
<1>2. PICK moved \in SUBSET Accounts : \E map \in [moved -> Shards] :
          (\A a \in moved : map[a] # Home[a]) /\ maps' = Append(maps, map)
  BY DEF SendNewAddr2Shard
<1>3. PICK map \in [moved -> Shards] :
          (\A a \in moved : map[a] # Home[a]) /\ maps' = Append(maps, map)
  BY <1>2
<1>4. Typed /\ MsgsOK /\ \A s \in Shards : Steps(s) /\ Sender(s) /\ Counting(s) /\ Intake(s)
  BY DEF IInv
<1>5. E \in Nat /\ maps \in Seq(PartialMap)
  BY <1>4 DEF Typed
<1>6. Moving = {}
  BY <1>1, <1>5 DEF Moving
<1>7. map \in PartialMap
  BY DEF PartialMap
<1>8. /\ maps' \in Seq(PartialMap) /\ Len(maps') = E + 1 /\ maps'[E + 1] = map
      /\ maps' # <<>>
  BY <1>3, <1>5, <1>7
<1> HIDE DEF E
<1>9. Moving' = moved /\ \A a : Dest(a)' = map[a]
  BY <1>8, <1>5 DEF Moving, Dest
<1>10. Typed'
  <2>1. \A a \in Moving' : Dest(a)' # Home[a]
    BY <1>3, <1>9
  <2>2. \A i \in 1..(Len(maps') - 1) : DOMAIN maps'[i] = {}
    BY <1>1, <1>3, <1>5, <1>8 DEF E
  <2> QED BY <1>1, <1>4, <1>8, <2>1, <2>2 DEF Typed, owned, sures, intake, counts
<1>11. \A r : SentNo(r)' = SentNo(r) /\ (Unsent(r)' <=> Unsent(r))
  BY <1>1 DEF SentNo, Unsent, sures
<1>12. \A s \in Shards : \A i \in 1..Len(taken[s]) : taken[s][i] \in 1..E
  BY <1>4 DEF Steps, E
<1>13. MsgsOK'
  <2> SUFFICES ASSUME NEW m \in msgs'
               PROVE  /\ m.to \in Shards
                      /\ m.type \in {"NewMap", "BalanceAndPending", "Sure"}
                      /\ m.type = "NewMap" => NewMapOK(m)'
                      /\ m.type = "BalanceAndPending" => ListOK(m)'
                      /\ m.type = "Sure" => SureOK(m)'
    BY DEF MsgsOK
  <2>1. CASE m \in msgs
    <3>1. m.type = "NewMap" => NewMapOK(m)'
      <4>1. m.type = "NewMap" => NewMapOK(m)
        BY <2>1, <1>4 DEF MsgsOK
      <4>2. m.epoch \in 1..E => m.epoch \in 1..(E + 1)
        BY <1>5
      <4> QED BY <4>1, <4>2, <1>1, <1>8 DEF NewMapOK, E
    <3>2. ListOK(m)' <=> ListOK(m)
      BY DEF ListOK
    <3>3. SureOK(m)' <=> SureOK(m)
      BY <1>11 DEF SureOK
    <3> QED BY <2>1, <3>1, <3>2, <3>3, <1>4 DEF MsgsOK
  <2>2. CASE \E s \in Shards : m = new(s)
    <3>1. PICK s \in Shards : m = new(s)
      BY <2>2
    <3>2. m.to = s /\ m.type = "NewMap" /\ m.epoch = E + 1
          /\ m = [type |-> "NewMap", epoch |-> m.epoch, to |-> m.to]
      BY <3>1
    <3>3. \A i \in 1..Len(taken[s]) : taken[s][i] # E + 1
      BY <1>5, <1>12
    <3>4. taken'[s] = taken[s] /\ E + 1 \in 1..Len(maps')
      BY <1>1, <1>5, <1>8
    <3> HIDE DEF new
    <3>5. NewMapOK(m)'
      BY <3>2, <3>3, <3>4 DEF NewMapOK
    <3> QED BY <3>2, <3>5
  <2> QED BY <2>1, <2>2, <1>1
<1>14. Barrier'
  BY <1>1, <1>11, BarrierKept DEF IInv, counts
<1>15. ASSUME NEW s \in Shards PROVE Steps(s)' /\ Sender(s)'
  <2>1. Steps(s)'
    <3>1. \A i \in 1..Len(taken[s]) : taken[s][i] \in 1..(E + 1)
      BY <1>5, <1>12
    <3> QED BY <1>1, <1>4, <1>8, <3>1 DEF Steps, counts
  <2>2. Sender(s)'
    BY <1>1, <1>4, <1>11 DEF Sender, sures
  <2> QED BY <2>1, <2>2
<1>16. ASSUME NEW s \in Shards PROVE Counting(s)'
  <2>1. SuresKept
    BY <1>1 DEF SuresKept
  <2>2. Told' = Told
    BY <1>11, ToldKept
  <2>3. Heard(s)' = Heard(s)
    BY <2>1, <2>2, HeardKept
  <2> QED BY <2>3, <1>1, <1>4, CountingKept DEF counts, sures
<1>19. Applied' = {}
  <2> SUFFICES ASSUME NEW s \in Applied' PROVE FALSE
    OBVIOUS
  <2>1. PICK i \in 1..msequenceID[s] : taken[s][i] = E + 1
    BY <1>1, <1>8 DEF Applied
  <2>2. s \in Shards /\ i \in 1..Len(taken[s])
    BY <1>4, Numbers DEF Applied, Steps
  <2> QED BY <1>5, <1>12, <2>1, <2>2
<1>17. ASSUME NEW a \in Accounts PROVE AtHome(a)' /\ AtHome(a) /\ Placed(a)'
  <2>1. Stays(a)
    BY <1>1 DEF Stays, OwnAt, OutAt, MsgsOf, InAt, owned, intake
  <2>2. AtHome(a)
    BY <1>6 DEF IInv, Placed, Started
  <2>3. AtHome(a)'
    BY <2>1, <2>2 DEF AtHome, Stays
  <2>4. ~Started(a)'
    BY <1>19 DEF Started
  <2> QED BY <2>2, <2>3, <2>4 DEF Placed
<1>18. ASSUME NEW s \in Shards PROVE Intake(s)'
  <2>1. Incoming(s) = {} /\ Got(s) = {}
    BY <1>6 DEF Incoming, Got
  <2>2. Got(s)' = {}
    <3> SUFFICES ASSUME NEW a \in Incoming(s)', s \in InAt(a)' \cup OwnAt(a)' PROVE FALSE
      BY DEF Got
    <3>1. a \in Accounts /\ map[a] = s /\ s # Home[a]
      BY <1>9, <1>3 DEF Incoming
    <3> QED BY <3>1, <1>17 DEF AtHome
  <2>3. inacc_count[s] = 0 /\ main[s] \notin {"wait", "spropose", "sure", "count"}
    <3>1. Cardinality(Incoming(s)) = 0 /\ Cardinality(Got(s)) = 0
      BY <2>1, FS_EmptySet
    <3>2. Intake(s)
      BY <1>4
    <3> QED BY <2>1, <3>1, <3>2 DEF Intake
  <2>4. s \notin Applied'
    BY <1>19
  <2>5. Cardinality(Got(s)') = 0
    BY <2>2, FS_EmptySet
  <2> QED BY <2>3, <2>4, <2>5, <1>1 DEF Intake, intake
<1> QED BY <1>10, <1>13, <1>14, <1>15, <1>16, <1>17, <1>18 DEF IInv
-----------------------------------------------------------------------------
\* A leader takes epochLock for a map: it has left every map it has taken.
LEMMA NewMapStep ==
    ASSUME IInv, NEW s \in Shards, NEW m, handleNewMap(s, m)
    PROVE  IInv'
<1>1. /\ m \in msgs /\ m.type = "NewMap" /\ m.to = s /\ epochLock[s] = "free"
      /\ epochLock' = [epochLock EXCEPT ![s] = "epoch"]
      /\ taken' = [taken EXCEPT ![s] = Append(@, m.epoch)]
      /\ msgs' = msgs \ {m}
      /\ UNCHANGED <<AccountInOwnShard, state, main, msequenceID, outs, sendoutfinish, sureWait,
                     sureDue, inacc_count, inacc_pool, sure_count, done, maps>>
  BY DEF handleNewMap, owned, sures, intake, counts
<1>2. /\ Typed /\ MsgsOK /\ Barrier
      /\ \A r \in Shards : Steps(r) /\ Sender(r) /\ Counting(r) /\ Intake(r)
  BY DEF IInv
<1>3. /\ NewMapOK(m) /\ m = [type |-> "NewMap", epoch |-> m.epoch, to |-> s]
      /\ m.epoch \in 1..Len(maps)
      /\ \A i \in 1..Len(taken[s]) : taken[s][i] # m.epoch
  BY <1>1, <1>2 DEF MsgsOK, NewMapOK
<1>4. Len(taken[s]) = done[s] /\ msequenceID[s] = done[s]
  <2>1. /\ done[s] <= msequenceID[s] /\ msequenceID[s] <= Len(taken[s])
        /\ Len(taken[s]) <= done[s] + 1 /\ Len(taken[s]) # done[s] + 1
    BY <1>1, <1>2 DEF Steps
  <2>2. Len(taken[s]) \in Nat /\ msequenceID[s] \in Nat /\ done[s] \in Nat
    BY <1>2, Numbers
  <2> QED BY <2>1, <2>2
<1>5. m.epoch \in Nat /\ Len(maps) \in Nat /\ taken[s] \in Seq(Nat) /\ msequenceID[s] \in Nat
  <2>1. Len(maps) \in Nat /\ taken[s] \in Seq(Nat) /\ msequenceID[s] \in Nat
    BY <1>2, Numbers
  <2> QED BY <2>1, <1>3
<1>6. /\ Len(taken'[s]) = Len(taken[s]) + 1 /\ taken'[s][Len(taken[s]) + 1] = m.epoch
      /\ \A i \in 1..Len(taken[s]) : taken'[s][i] = taken[s][i]
      /\ taken'[s] \in Seq(Nat)
  BY <1>1, <1>2, <1>5 DEF Typed
<1>7. \A r \in Shards \ {s} : taken'[r] = taken[r] /\ epochLock'[r] = epochLock[r]
  BY <1>1, <1>2 DEF Typed
<1>8. Applied' = Applied /\ \A a : Started(a)' <=> Started(a)
  <2>1. \A r \in Shards : \A i \in 1..msequenceID[r] : taken'[r][i] = taken[r][i]
    BY <1>4, <1>6, <1>7
  <2>2. Applied' = Applied
    BY <1>1, <2>1 DEF Applied
  <2> QED BY <1>1, <2>2, MovesKept DEF Started
<1>9. Typed'
  <2>1. taken' \in [Shards -> Seq(Nat)]
    BY <1>1, <1>2, <1>6, <1>7 DEF Typed
  <2> QED BY <1>1, <1>2, <2>1, MovesKept DEF Typed
<1>10. \A r \in Shards : (Unsent(r)' <=> Unsent(r)) /\ SentNo(r)' = SentNo(r)
  <2>1. \A r \in Shards : Unsent(r)' <=> Unsent(r)
    BY <1>1 DEF Unsent
  <2> QED BY <1>1, <2>1, SentKept
<1>11. MsgsOK'
  <2> SUFFICES ASSUME NEW n \in msgs'
               PROVE  /\ n.to \in Shards
                      /\ n.type \in {"NewMap", "BalanceAndPending", "Sure"}
                      /\ n.type = "NewMap" => NewMapOK(n)'
                      /\ n.type = "BalanceAndPending" => ListOK(n)'
                      /\ n.type = "Sure" => SureOK(n)'
    BY DEF MsgsOK
  <2>1. n \in msgs /\ n # m
    BY <1>1
  <2>2. ASSUME n.type = "NewMap" PROVE NewMapOK(n)'
    <3>1. NewMapOK(n) /\ n.to \in Shards
      BY <1>2, <2>1, <2>2 DEF MsgsOK
    <3>2. CASE n.to = s
      <4>1. n.epoch # m.epoch
        BY <1>3, <2>1, <3>1, <3>2 DEF NewMapOK
      <4>2. \A i \in 1..Len(taken'[s]) : i = Len(taken[s]) + 1 \/ i \in 1..Len(taken[s])
        BY <1>5, <1>6
      <4>3. \A i \in 1..Len(taken'[s]) : taken'[s][i] # n.epoch
        BY <1>6, <3>1, <3>2, <4>1, <4>2 DEF NewMapOK
      <4> QED BY <1>1, <3>1, <3>2, <4>3 DEF NewMapOK
    <3>3. CASE n.to # s
      BY <1>1, <1>7, <3>1, <3>3 DEF NewMapOK
    <3> QED BY <3>2, <3>3
  <2>3. ListOK(n)' <=> ListOK(n)
    BY DEF ListOK
  <2>4. SureOK(n)' <=> SureOK(n)
    BY <1>10 DEF SureOK
  <2> QED BY <1>2, <2>1, <2>2, <2>3, <2>4 DEF MsgsOK
<1>12. Barrier'
  BY <1>1, <1>2, <1>10, BarrierKept
<1>13. ASSUME NEW r \in Shards PROVE Steps(r)' /\ Sender(r)'
  <2>1. Steps(r)'
    <3>1. CASE r = s
      <4>1. \A i \in 1..Len(taken'[s]) : i = Len(taken[s]) + 1 \/ i \in 1..Len(taken[s])
        BY <1>5, <1>6
      <4>2. \A i \in 1..Len(taken'[s]) : taken'[s][i] \in 1..Len(maps)
        BY <1>2, <1>3, <1>6, <4>1 DEF Steps
      <4>3. \A i, j \in 1..Len(taken'[s]) : taken'[s][i] = taken'[s][j] => i = j
        BY <1>2, <1>3, <1>6, <4>1 DEF Steps
      <4>4. epochLock'[s] = "epoch" /\ done[s] \in Nat
        BY <1>1, <1>2 DEF Typed
      <4> QED BY <1>1, <1>4, <1>6, <3>1, <4>2, <4>3, <4>4 DEF Steps
    <3>2. CASE r # s
      BY <1>1, <1>2, <1>7, <3>2 DEF Steps
    <3> QED BY <3>1, <3>2
  <2>2. Sender(r)'
    BY <1>1, <1>2, <1>10 DEF Sender
  <2> QED BY <2>1, <2>2
<1>14. ASSUME NEW r \in Shards PROVE Counting(r)'
  <2>1. SuresKept
    BY <1>1 DEF SuresKept
  <2>2. Told' = Told
    BY <1>10, ToldKept
  <2>3. Heard(r)' = Heard(r)
    BY <2>1, <2>2, HeardKept
  <2> QED BY <2>3, <1>1, <1>2, CountingKept
<1>15. \A a : Stays(a)
  BY <1>1 DEF Stays, OwnAt, OutAt, MsgsOf, InAt
<1>16. ASSUME NEW r \in Shards PROVE Intake(r)'
  <2>1. Got(r)' = Got(r)
    BY <1>1, <1>15, GotKept DEF Stays
  <2> QED BY <1>1, <1>2, <1>8, <2>1, IntakeKept
<1>17. ASSUME NEW a \in Accounts PROVE Placed(a)'
  <2>1. Come(a) => main'[Dest(a)] \notin {"sure", "count"}
    BY <1>1 DEF Come
  <2>2. Placed(a)
    BY DEF IInv
  <2> QED BY <1>1, <1>8, <1>15, <2>1, <2>2, PlacedKept
<1> QED BY <1>9, <1>11, <1>12, <1>13, <1>14, <1>16, <1>17 DEF IInv
-----------------------------------------------------------------------------
LEMMA AccountSets ==
    ASSUME Typed, NEW s
    PROVE  /\ IsFiniteSet(Incoming(s)) /\ Cardinality(Incoming(s)) \in Nat
           /\ IsFiniteSet(Got(s)) /\ Cardinality(Got(s)) \in Nat
           /\ Got(s) \subseteq Incoming(s)
           /\ Cardinality(Incoming(s)) = Cardinality(Got(s)) => Got(s) = Incoming(s)
           /\ Cardinality(Got(s)) = 0 => Got(s) = {}
<1>1. Moving \subseteq Accounts
  <2>1. CASE maps = <<>>
    BY <2>1 DEF Moving
  <2>2. CASE maps # <<>>
    <3>1. maps[Len(maps)] \in PartialMap
      BY <2>2 DEF Typed
    <3> QED BY <2>2, <3>1 DEF Moving, PartialMap
  <2> QED BY <2>1, <2>2
<1>2. Incoming(s) \subseteq Accounts /\ Got(s) \subseteq Incoming(s)
  BY <1>1 DEF Incoming, Got
<1>3. IsFiniteSet(Incoming(s))
  BY <1>2, EpochConstants, FS_Subset
<1> QED BY <1>2, <1>3, FS_Subset, FS_CardinalityType, FS_EmptySet

LEMMA MovingTo ==
    ASSUME Typed, NEW a \in Moving
    PROVE  a \in Accounts /\ Dest(a) \in Shards /\ Dest(a) # Home[a] /\ Home[a] \in Shards
<1>1. maps # <<>> /\ maps \in Seq(PartialMap) /\ a \in DOMAIN maps[Len(maps)]
  BY DEF Moving, Typed
<1>2. maps[Len(maps)] \in PartialMap
  BY <1>1
<1>3. a \in Accounts /\ Dest(a) \in Shards
  BY <1>1, <1>2 DEF PartialMap, Dest
<1> QED BY <1>3, EpochConstants DEF Typed

\* Before a shard has committed the last map it owns none of the accounts that
\* come to it, and of the moving ones exactly those at home there.
LEMMA Before ==
    ASSUME IInv, NEW s \in Shards, s \notin Applied, NEW a \in Moving
    PROVE  /\ Dest(a) = s => a \notin AccountInOwnShard[s]
           /\ a \in AccountInOwnShard[s] <=> Home[a] = s
           /\ Home[a] = s => AtHome(a)
<1>1. a \in Accounts /\ Dest(a) # Home[a] /\ Typed /\ Placed(a)
  BY MovingTo DEF IInv
<1>2. CASE ~Started(a)
  BY <1>1, <1>2 DEF Placed, AtHome, OwnAt
<1>3. CASE Started(a)
  <2>1. Home[a] # s
    BY <1>3 DEF Started
  <2>2. s \notin OwnAt(a)
    BY <1>1, <1>3, <2>1 DEF Placed, Out, Sent, Come, Taken
  <2> QED BY <2>1, <2>2 DEF OwnAt
<1> QED BY <1>2, <1>3

\* What holds when a shard commits a map: it has told the others of all the
\* maps before, and has not committed this one, which moves nothing unless it
\* is the last.
Next1(s) == taken[s][msequenceID[s] + 1]

LEMMA Proposal ==
    ASSUME IInv, NEW s \in Shards, mpropose(s)
    PROVE  /\ main[s] = "idle" /\ CommitEpochChange(s, maps[Next1(s)])
           /\ Len(taken[s]) = msequenceID[s] + 1 /\ done[s] = msequenceID[s]
           /\ sureWait[s] = 0 /\ ~Unsent(s) /\ outs[s] = {} /\ sendoutfinish[s] = 0
           /\ Len(maps) \in Nat /\ msequenceID[s] \in Nat /\ Next1(s) \in 1..Len(maps)
           /\ \A i \in 1..msequenceID[s] : taken[s][i] # Next1(s)
           /\ Next1(s) = Len(maps) => s \notin Applied
           /\ Next1(s) # Len(maps) => DOMAIN maps[Next1(s)] = {}
<1>1. /\ main[s] = "idle" /\ CommitEpochChange(s, maps[Next1(s)])
      /\ msequenceID[s] < Len(taken[s])
  BY DEF mpropose, Next1
<1>2. Typed /\ Steps(s) /\ Sender(s) /\ done[s] <= SentNo(s)
  BY DEF IInv, Barrier
<1>3. /\ msequenceID[s] \in Nat /\ done[s] \in Nat /\ Len(taken[s]) \in Nat /\ Len(maps) \in Nat
      /\ sureWait[s] \in Nat
  BY <1>2, Numbers
<1>4. Len(taken[s]) = msequenceID[s] + 1 /\ done[s] = msequenceID[s]
  BY <1>1, <1>2, <1>3 DEF Steps
<1>5. ~Unsent(s)
  BY <1>2, <1>3, <1>4 DEF SentNo
<1>6. sureWait[s] = 0 /\ outs[s] = {} /\ sendoutfinish[s] = 0
  BY <1>2, <1>3, <1>5 DEF Sender, Unsent
<1>7. msequenceID[s] + 1 \in 1..Len(taken[s])
  BY <1>3, <1>4
<1>8. Next1(s) \in 1..Len(maps)
  BY <1>2, <1>7 DEF Steps, Next1
<1>9. \A i \in 1..msequenceID[s] : taken[s][i] # Next1(s)
  BY <1>2, <1>3, <1>4, <1>7 DEF Steps, Next1
<1>10. Next1(s) = Len(maps) => s \notin Applied
  BY <1>9 DEF Applied
<1>11. Next1(s) # Len(maps) => DOMAIN maps[Next1(s)] = {}
  <2>1. Next1(s) # Len(maps) => Next1(s) \in 1..(Len(maps) - 1)
    BY <1>3, <1>8
  <2> QED BY <1>2, <2>1 DEF Typed
<1> QED BY <1>1, <1>3, <1>4, <1>5, <1>6, <1>8, <1>9, <1>10, <1>11

\* A shard commits the last map: its moving accounts wait for SendOut.
LEMMA LastMapStep ==
    ASSUME IInv, NEW s \in Shards, mpropose(s), Next1(s) = Len(maps)
    PROVE  IInv'
<1>1. main[s] = "idle" /\ CommitEpochChange(s, maps[Len(maps)])
  BY Proposal
<1>2. /\ Typed /\ MsgsOK /\ Barrier
      /\ \A r \in Shards : Steps(r) /\ Sender(r) /\ Counting(r) /\ Intake(r)
  BY DEF IInv
<1>3. /\ Len(taken[s]) = msequenceID[s] + 1 /\ done[s] = msequenceID[s] /\ Len(maps) \in Nat
      /\ msequenceID[s] \in Nat /\ Next1(s) \in 1..Len(maps)
  BY Proposal
<1>4. s \notin Applied /\ Len(maps) > 0 /\ maps # <<>>
  BY <1>3, Proposal
<1>5. PICK new : new = maps[Len(maps)]
  OBVIOUS
<1>6. DOMAIN new = Moving /\ \A a : new[a] = Dest(a)
  BY <1>4, <1>5 DEF Moving, Dest
<1>7. Coming(s, new) = Incoming(s)
  <2>1. \A a \in Moving : Dest(a) = s => a \notin AccountInOwnShard[s]
    BY <1>4, Before
  <2> QED BY <1>6, <2>1 DEF Coming, Incoming
<1> DEFINE L == {a \in Moving : Home[a] = s}
<1>8. Leaving(s, new) = L
  <2>1. \A a \in Moving : a \in AccountInOwnShard[s] <=> Home[a] = s
    BY <1>4, Before
  <2>2. \A a \in Moving : Dest(a) # Home[a]
    BY <1>2 DEF Typed
  <2> QED BY <1>6, <2>1, <2>2 DEF Leaving
<1>9. /\ sureWait[s] = 0 /\ ~Unsent(s) /\ outs[s] = {} /\ sendoutfinish[s] = 0
  BY Proposal
<1>10. PICK out : out = [a \in L |-> Dest(a)]
  OBVIOUS
<1>11. /\ AccountInOwnShard' = [AccountInOwnShard EXCEPT ![s] = @ \ L]
       /\ outs' = [outs EXCEPT ![s] = {out}]
       /\ msequenceID' = [msequenceID EXCEPT ![s] = @ + 1]
       /\ inacc_count' = [inacc_count EXCEPT ![s] = @ + Cardinality(Incoming(s))]
       /\ IF Incoming(s) = {}
          THEN /\ sureWait' = [sureWait EXCEPT ![s] = @ + 1]
               /\ UNCHANGED main
          ELSE /\ main' = [main EXCEPT ![s] = IF inacc_count'[s] = 0 THEN "spropose" ELSE "wait"]
               /\ UNCHANGED sureWait
       /\ UNCHANGED <<state, epochLock, taken, sendoutfinish, sureDue, inacc_pool,
                      sure_count, done, maps, msgs>>
  <2>1. CommitEpochChange(s, new)
    BY <1>1, <1>3, <1>5
  <2>2. [a \in Leaving(s, new) |-> new[a]] = out
    BY <1>6, <1>8, <1>10
  <2>3. outs' = [outs EXCEPT ![s] = {out}]
    <3>1. outs' = [outs EXCEPT ![s] = @ \cup {[a \in Leaving(s, new) |-> new[a]]}]
      BY <2>1 DEF CommitEpochChange
    <3> QED BY <2>2, <3>1, <1>9
  <2> QED BY <2>1, <2>3, <1>7, <1>8 DEF CommitEpochChange, counts
<1>12. out \in PartialMap /\ DOMAIN out = L /\ \A a \in L : out[a] = Dest(a)
  <2>1. L \in SUBSET Accounts /\ \A a \in L : Dest(a) \in Shards
    BY <1>2, MovingTo
  <2> HIDE DEF L
  <2>2. out \in [L -> Shards]
    BY <1>10, <2>1
  <2>3. out \in PartialMap
    BY <2>1, <2>2 DEF PartialMap
  <2> QED BY <1>10, <2>3
<1> HIDE DEF L
<1>13. /\ main'[s] \in {"idle", "wait", "spropose"} /\ sureWait'[s] \in {0, 1}
       /\ main'[s] = "idle" => sureWait'[s] = 1 /\ Incoming(s) = {}
       /\ main'[s] # "idle" => sureWait'[s] = 0 /\ Incoming(s) # {}
       /\ main'[s] = "wait" => inacc_count'[s] # 0
       /\ main'[s] = "spropose" => inacc_count'[s] = 0
       /\ main' \in [Shards -> {"idle", "wait", "spropose", "sure", "count"}]
       /\ sureWait' \in [Shards -> Nat]
       /\ \A r \in Shards \ {s} : main'[r] = main[r] /\ sureWait'[r] = sureWait[r]
  <2>1. main \in [Shards -> {"idle", "wait", "spropose", "sure", "count"}]
        /\ sureWait \in [Shards -> Nat]
    BY <1>2 DEF Typed
  <2>2. CASE Incoming(s) = {}
    BY <1>1, <1>9, <1>11, <2>1, <2>2
  <2>3. CASE Incoming(s) # {}
    <3>1. CASE inacc_count'[s] = 0
      BY <1>9, <1>11, <2>1, <2>3, <3>1
    <3>2. CASE inacc_count'[s] # 0
      BY <1>9, <1>11, <2>1, <2>3, <3>2
    <3> QED BY <3>1, <3>2
  <2> QED BY <2>2, <2>3
<1>14. /\ msequenceID'[s] = msequenceID[s] + 1
       /\ AccountInOwnShard'[s] = AccountInOwnShard[s] \ L
       /\ outs'[s] = {out}
       /\ inacc_count'[s] = inacc_count[s] + Cardinality(Incoming(s))
       /\ \A r \in Shards \ {s} : /\ msequenceID'[r] = msequenceID[r]
                                  /\ AccountInOwnShard'[r] = AccountInOwnShard[r]
                                  /\ outs'[r] = outs[r] /\ inacc_count'[r] = inacc_count[r]
  BY <1>2, <1>3, <1>11 DEF Typed
<1>23. Applied' = Applied \cup {s}
  <2>1. s \in Applied'
    BY <1>3, <1>11, <1>14 DEF Applied, Next1
  <2>2. \A r \in Shards \ {s} : r \in Applied' <=> r \in Applied
    BY <1>11, <1>14 DEF Applied
  <2>3. Applied \subseteq Shards /\ Applied' \subseteq Shards
    BY DEF Applied
  <2> QED BY <2>1, <2>2, <2>3
<1>15. Typed'
  <2>1. AccountInOwnShard' \in [Shards -> SUBSET Accounts]
    BY <1>2, <1>11 DEF Typed
  <2>2. outs' \in [Shards -> SUBSET PartialMap]
    BY <1>2, <1>11, <1>12 DEF Typed
  <2>3. msequenceID' \in [Shards -> Nat]
    BY <1>2, <1>11 DEF Typed
  <2>4. inacc_count' \in [Shards -> Int]
    <3>1. Cardinality(Incoming(s)) \in Int
      BY <1>2, AccountSets
    <3> QED BY <1>2, <1>11, <3>1 DEF Typed
  <2> QED BY <1>2, <1>11, <1>13, <2>1, <2>2, <2>3, <2>4, MovesKept DEF Typed
<1>16. Unsent(s)' /\ \A r \in Shards : SentNo(r)' = SentNo(r)
  <2>1. Unsent(s)'
    BY <1>13 DEF Unsent
  <2>2. SentNo(s)' = SentNo(s)
    BY <1>3, <1>9, <1>14, <2>1 DEF SentNo
  <2>3. \A r \in Shards \ {s} : SentNo(r)' = SentNo(r)
    BY <1>13, <1>14 DEF SentNo, Unsent
  <2> QED BY <2>1, <2>2, <2>3
<1>17. MsgsOK'
  BY <1>2, <1>11, <1>16 DEF MsgsOK, NewMapOK, ListOK, SureOK
<1>18. Barrier'
  BY <1>2, <1>11, <1>16, BarrierKept
<1>19. ASSUME NEW r \in Shards PROVE Steps(r)' /\ Sender(r)'
  <2>1. CASE r = s
    <3>1. Steps(s)'
      <4>1. Steps(s) /\ done[s] \in Nat
        BY <1>2, Numbers
      <4> QED BY <4>1, <1>3, <1>11, <1>14 DEF Steps
    <3>2. Sender(s)'
      <4>1. sendoutfinish'[s] = 0 /\ \E o \in outs'[s] : outs'[s] = {o}
        BY <1>9, <1>11, <1>14
      <4>2. sureWait'[s] <= 1 /\ (sureWait'[s] = 1 => main'[s] = "idle")
        BY <1>13
      <4> QED BY <1>16, <4>1, <4>2 DEF Sender
    <3> QED BY <2>1, <3>1, <3>2
  <2>2. CASE r # s
    BY <1>2, <1>11, <1>13, <1>14, <2>2 DEF Steps, Sender, Unsent
  <2> QED BY <2>1, <2>2
<1>20. ASSUME NEW r \in Shards PROVE Counting(r)'
  <2>1. Heard(r)' = Heard(r)
    BY <1>11, <1>16, ToldKept, HeardKept DEF SuresKept
  <2>2. main'[r] = "count" <=> main[r] = "count"
    BY <1>1, <1>13
  <2> QED BY <1>2, <1>11, <2>1, <2>2, CountingKept
<1>21. ASSUME NEW r \in Shards PROVE Intake(r)'
  <2>1. Got(r)' = Got(r)
    <3>1. \A a : InAt(a)' = InAt(a)
      BY <1>11 DEF InAt
    <3>2. \A a \in Incoming(r) : r \in OwnAt(a)' <=> r \in OwnAt(a)
      <4>1. \A a \in Incoming(s) : a \notin AccountInOwnShard[s]
        BY <1>4, Before DEF Incoming
      <4> QED BY <1>14, <4>1 DEF OwnAt
    <3> QED BY <1>11, <3>1, <3>2, GotKept
  <2>2. Incoming(r)' = Incoming(r)
    BY <1>11, MovesKept
  <2>3. CASE r = s
    <3>1. inacc_count[s] = 0 - Cardinality(Got(s))
      BY <1>2, <1>4 DEF Intake
    <3>2. /\ Cardinality(Incoming(s)) \in Nat /\ Cardinality(Got(s)) \in Nat
          /\ Cardinality(Incoming(s)) = Cardinality(Got(s)) => Got(s) = Incoming(s)
      BY <1>2, AccountSets
    <3>3. inacc_count'[s] = Cardinality(Incoming(s)) - Cardinality(Got(s))
      BY <1>14, <3>1, <3>2
    <3>4. /\ main'[s] = "wait" => Got(s) # Incoming(s)
          /\ main'[s] = "spropose" => Got(s) = Incoming(s)
      BY <1>13, <3>2, <3>3
    <3> QED BY <1>11, <1>13, <1>14, <1>23, <2>1, <2>2, <2>3, <3>3, <3>4 DEF Intake
  <2>4. CASE r # s
    BY <1>2, <1>11, <1>13, <1>14, <1>23, <2>1, <2>4, IntakeKept
  <2> QED BY <2>3, <2>4
<1>22. ASSUME NEW a \in Accounts PROVE Placed(a)'
  <2>1. Placed(a) /\ Home[a] \in Shards
    BY EpochConstants DEF IInv
  <2>2. InAt(a)' = InAt(a) /\ MsgsOf(a)' = MsgsOf(a) /\ Moving' = Moving /\ Dest(a)' = Dest(a)
    BY <1>11, MovesKept DEF InAt, MsgsOf
  <2>3. CASE a \in L
    <3>1. a \in Moving /\ Home[a] = s
      BY <2>3 DEF L
    <3>2. AtHome(a)
      BY <1>4, <3>1, Before
    <3>3. Started(a)'
      BY <1>23, <2>2, <3>1 DEF Started
    <3>4. OwnAt(a)' = {}
      BY <1>14, <2>3, <3>1, <3>2 DEF AtHome, OwnAt
    <3>5. OutAt(a)' = {s}
      BY <1>12, <1>14, <2>3, <3>1, <3>2 DEF AtHome, OutAt
    <3>6. \A o \in outs'[s] : o[a] = Dest(a)
      BY <1>12, <1>14, <2>3
    <3>7. Out(a)'
      BY <2>2, <3>1, <3>2, <3>4, <3>5, <3>6 DEF Out, AtHome
    <3> QED BY <3>3, <3>7 DEF Placed
  <2>4. CASE a \notin L
    <3>1. Started(a)' <=> Started(a)
      BY <1>23, <2>1, <2>2, <2>4 DEF Started, L
    <3>2. OwnAt(a)' = OwnAt(a)
      BY <1>14, <2>4 DEF OwnAt
    <3>3. OutAt(a)' = OutAt(a)
      BY <1>9, <1>12, <1>14, <2>4 DEF OutAt
    <3>4. Stays(a)
      BY <2>2, <3>2, <3>3 DEF Stays
    <3>5. \A o \in outs'[Home[a]] : a \in DOMAIN o => o \in outs[Home[a]]
      BY <1>12, <1>14, <2>1, <2>4
    <3>6. Come(a) => main'[Dest(a)] \notin {"sure", "count"}
      BY <1>13 DEF Come, InAt
    <3>7. ASSUME Taken(a) PROVE main'[Dest(a)] = main[Dest(a)]
      <4>1. Dest(a) \in Shards /\ Dest(a) # s
        BY <1>4, <3>7 DEF Taken, OwnAt
      <4> QED BY <4>1, <1>13
    <3>8. Applied \subseteq Applied'
      BY <1>23
    <3> QED BY <1>11, <2>1, <3>1, <3>4, <3>5, <3>6, <3>7, <3>8, PlacedKept
  <2> QED BY <2>3, <2>4
<1> QED BY <1>15, <1>17, <1>18, <1>19, <1>20, <1>21, <1>22 DEF IInv

\* A shard commits an earlier map, which moves nothing: SendOut has nothing to
\* send, and nothing comes.
LEMMA EmptyMapStep ==
    ASSUME IInv, NEW s \in Shards, mpropose(s), Next1(s) # Len(maps)
    PROVE  IInv'
<1>1. PICK new : new = maps[Next1(s)]
  OBVIOUS
<1>2. /\ Typed /\ MsgsOK /\ Barrier
      /\ \A r \in Shards : Steps(r) /\ Sender(r) /\ Counting(r) /\ Intake(r)
  BY DEF IInv
<1>3. /\ Len(taken[s]) = msequenceID[s] + 1 /\ done[s] = msequenceID[s] /\ msequenceID[s] \in Nat
      /\ sureWait[s] = 0 /\ ~Unsent(s) /\ outs[s] = {} /\ sendoutfinish[s] = 0
      /\ main[s] = "idle" /\ DOMAIN new = {} /\ CommitEpochChange(s, new)
  BY <1>1, Proposal
<1>4. Leaving(s, new) = {} /\ Coming(s, new) = {}
  BY <1>3 DEF Leaving, Coming
<1>5. PICK out : out = [a \in {} |-> new[a]]
  OBVIOUS
<1>6. out \in PartialMap /\ DOMAIN out = {}
  <2>1. {} \in SUBSET Accounts /\ out \in [{} -> Shards]
    BY <1>5
  <2> QED BY <1>5, <2>1 DEF PartialMap
<1>7. /\ AccountInOwnShard'[s] = AccountInOwnShard[s]
      /\ AccountInOwnShard' = [AccountInOwnShard EXCEPT ![s] = @ \ {}]
      /\ outs' = [outs EXCEPT ![s] = {out}]
      /\ msequenceID' = [msequenceID EXCEPT ![s] = @ + 1]
      /\ inacc_count' = [inacc_count EXCEPT ![s] = @ + 0]
      /\ sureWait' = [sureWait EXCEPT ![s] = 1]
      /\ UNCHANGED <<main, state, epochLock, taken, sendoutfinish, sureDue, inacc_pool,
                     sure_count, done, maps, msgs>>
  <2>1. [a \in Leaving(s, new) |-> new[a]] = out
    BY <1>4, <1>5
  <2>2. outs' = [outs EXCEPT ![s] = @ \cup {[a \in Leaving(s, new) |-> new[a]]}]
    BY <1>3 DEF CommitEpochChange
  <2>3. outs' = [outs EXCEPT ![s] = {out}]
    BY <1>3, <2>1, <2>2
  <2>4. /\ AccountInOwnShard' = [AccountInOwnShard EXCEPT ![s] = @ \ {}]
        /\ sureWait' = [sureWait EXCEPT ![s] = @ + 1]
    BY <1>3, <1>4 DEF CommitEpochChange
  <2>5. inacc_count' = [inacc_count EXCEPT ![s] = @ + 0]
    BY <1>3, <1>4, FS_EmptySet DEF CommitEpochChange
  <2>6. sureWait' = [sureWait EXCEPT ![s] = 1]
    BY <1>3, <2>4
  <2>7. AccountInOwnShard'[s] = AccountInOwnShard[s]
    BY <1>2, <2>4 DEF Typed
  <2> QED BY <1>3, <1>4, <2>3, <2>4, <2>5, <2>6, <2>7 DEF CommitEpochChange, counts
<1>8. /\ AccountInOwnShard' = AccountInOwnShard /\ inacc_count' = inacc_count
      /\ sureWait'[s] = 1 /\ outs'[s] = {out} /\ msequenceID'[s] = msequenceID[s] + 1
      /\ \A r \in Shards \ {s} : /\ msequenceID'[r] = msequenceID[r] /\ outs'[r] = outs[r]
                                 /\ sureWait'[r] = sureWait[r]
  <2>1. inacc_count' = inacc_count
    <3>1. \A r \in Shards : inacc_count[r] \in Int
      BY <1>2 DEF Typed
    <3> QED BY <1>2, <1>7, <3>1 DEF Typed
  <2>2. AccountInOwnShard' = AccountInOwnShard
    BY <1>2, <1>7 DEF Typed
  <2> QED BY <1>2, <1>7, <2>1, <2>2 DEF Typed
<1>9. /\ Applied' = Applied
      /\ \A a : Started(a)' <=> Started(a)
  <2>1. s \in Applied' <=> s \in Applied
    <3>1. \A i \in 1..(msequenceID[s] + 1) : i \in 1..msequenceID[s] \/ i = msequenceID[s] + 1
      BY <1>3
    <3>2. \A i \in 1..msequenceID[s] : i \in 1..(msequenceID[s] + 1)
      BY <1>3
    <3> QED BY <1>7, <1>8, <3>1, <3>2 DEF Applied, Next1
  <2>2. \A r \in Shards \ {s} : r \in Applied' <=> r \in Applied
    BY <1>7, <1>8 DEF Applied
  <2>3. Applied \subseteq Shards /\ Applied' \subseteq Shards
    BY DEF Applied
  <2>5. \A r : r \in Applied' <=> r \in Applied
    BY <2>1, <2>2, <2>3
  <2>4. Applied' = Applied
    BY <2>5
  <2> QED BY <1>7, <2>4, MovesKept DEF Started
<1>10. Typed'
  <2>1. outs' \in [Shards -> SUBSET PartialMap]
    BY <1>2, <1>6, <1>7 DEF Typed
  <2>2. msequenceID' \in [Shards -> Nat] /\ sureWait' \in [Shards -> Nat]
    BY <1>2, <1>7 DEF Typed
  <2> QED BY <1>2, <1>7, <1>8, <2>1, <2>2, MovesKept DEF Typed
<1>11. Unsent(s)' /\ \A r \in Shards : SentNo(r)' = SentNo(r)
  <2>1. Unsent(s)'
    BY <1>8 DEF Unsent
  <2>2. SentNo(s)' = SentNo(s)
    BY <1>3, <1>8, <2>1 DEF SentNo
  <2>3. \A r \in Shards \ {s} : SentNo(r)' = SentNo(r)
    BY <1>7, <1>8 DEF SentNo, Unsent
  <2> QED BY <2>1, <2>2, <2>3
<1>12. MsgsOK'
  BY <1>2, <1>7, <1>11 DEF MsgsOK, NewMapOK, ListOK, SureOK
<1>13. Barrier'
  BY <1>2, <1>7, <1>11, BarrierKept
<1>14. ASSUME NEW r \in Shards PROVE Steps(r)' /\ Sender(r)'
  <2>1. CASE r = s
    <3>1. Steps(s)'
      <4>1. Steps(s) /\ done[s] \in Nat
        BY <1>2, Numbers
      <4> QED BY <4>1, <1>3, <1>7, <1>8 DEF Steps
    <3>2. Sender(s)'
      <4>1. sendoutfinish'[s] = 0 /\ \E o \in outs'[s] : outs'[s] = {o}
        BY <1>3, <1>7, <1>8
      <4>2. sureWait'[s] <= 1 /\ main'[s] = "idle"
        BY <1>3, <1>7, <1>8
      <4> QED BY <1>11, <4>1, <4>2 DEF Sender
    <3> QED BY <2>1, <3>1, <3>2
  <2>2. CASE r # s
    BY <1>2, <1>7, <1>8, <2>2 DEF Steps, Sender, Unsent
  <2> QED BY <2>1, <2>2
<1>15. ASSUME NEW r \in Shards PROVE Counting(r)'
  <2>1. Heard(r)' = Heard(r)
    BY <1>7, <1>11, ToldKept, HeardKept DEF SuresKept
  <2> QED BY <1>2, <1>7, <2>1, CountingKept
<1>16. ASSUME NEW a PROVE Stays(a)
  <2>1. OwnAt(a)' = OwnAt(a) /\ MsgsOf(a)' = MsgsOf(a) /\ InAt(a)' = InAt(a)
    BY <1>7, <1>8 DEF OwnAt, MsgsOf, InAt
  <2>2. OutAt(a)' = OutAt(a)
    BY <1>3, <1>6, <1>8 DEF OutAt
  <2> QED BY <2>1, <2>2 DEF Stays
<1>17. ASSUME NEW r \in Shards PROVE Intake(r)'
  <2>1. Got(r)' = Got(r)
    BY <1>7, <1>16, GotKept DEF Stays
  <2> QED BY <1>2, <1>7, <1>8, <1>9, <2>1, IntakeKept
<1>18. ASSUME NEW a \in Accounts PROVE Placed(a)'
  <2>1. Placed(a) /\ Home[a] \in Shards
    BY EpochConstants DEF IInv
  <2>2. \A o \in outs'[Home[a]] : a \in DOMAIN o => o \in outs[Home[a]]
    BY <1>6, <1>8, <2>1
  <2>3. Come(a) => main'[Dest(a)] \notin {"sure", "count"}
    BY <1>7 DEF Come
  <2> QED BY <1>7, <1>9, <1>16, <2>1, <2>2, <2>3, PlacedKept
<1> QED BY <1>10, <1>12, <1>13, <1>14, <1>15, <1>17, <1>18 DEF IInv

LEMMA EpochChangeStep ==
    ASSUME IInv, NEW s \in Shards, mpropose(s)
    PROVE  IInv'
  BY LastMapStep, EmptyMapStep
-----------------------------------------------------------------------------
\* A list has one entry for each account.
Entries(s, X) == {BalanceAndPending(s, a) : a \in X}

LEMMA SentList ==
    ASSUME Typed, NEW s \in Shards, NEW X \in SUBSET Accounts, X # {},
           NEW list, list = Entries(s, X)
    PROVE  /\ list # {} /\ IsFiniteSet(list)
           /\ \A b \in list : b.addr \in Accounts /\ b.balance \in Int
           /\ {b.addr : b \in list} = X
           /\ Cardinality(list) = Cardinality({b.addr : b \in list})
<1> DEFINE f == [a \in X |-> BalanceAndPending(s, a)]
<1>1. \A a \in X : BalanceAndPending(s, a).addr = a /\ BalanceAndPending(s, a).balance \in Int
  BY DEF BalanceAndPending, Typed
<1> USE DEF Entries
<1> HIDE DEF BalanceAndPending
<1>2. {b.addr : b \in list} = X /\ list # {}
  BY <1>1
<1>3. f \in Bijection(X, list)
  BY <1>1 DEF Bijection, Injection, IsInjective, Surjection
<1>4. IsFiniteSet(X)
  BY EpochConstants, FS_Subset
<1>5. ExistsBijection(X, list)
  BY <1>3 DEF ExistsBijection
<1>6. IsFiniteSet(list) /\ Cardinality(list) = Cardinality(X)
  BY <1>4, <1>5, FS_Bijection
<1> QED BY <1>1, <1>2, <1>6

\* The accounts that wait for SendOut are on their way.
LEMMA SendOutStep ==
    ASSUME IInv, NEW s \in Shards, NEW out \in outs[s], SendOut(s, out)
    PROVE  IInv'
<1> DEFINE part(r) == {b \in DOMAIN out : out[b] = r}
           mail(r) == [type |-> "BalanceAndPending", from |-> s, to |-> r,
                       list |-> {BalanceAndPending(s, a) : a \in part(r)}]
           dests == {out[a] : a \in DOMAIN out}
<1>1. /\ outs' = [outs EXCEPT ![s] = @ \ {out}]
      /\ msgs' = msgs \cup {mail(r) : r \in dests}
      /\ sendoutfinish' = [sendoutfinish EXCEPT ![s] = @ + 1]
      /\ UNCHANGED <<AccountInOwnShard, state, epochLock, main, taken, msequenceID, sureWait,
                     sureDue, inacc_count, inacc_pool, sure_count, done, maps>>
  BY DEF SendOut, owned, intake, counts
<1>kept. Applied' = Applied /\ \A a : Started(a)' <=> Started(a)
  BY <1>1, AppliedKept
<1>2. /\ Typed /\ MsgsOK /\ Barrier
      /\ \A r \in Shards : Steps(r) /\ Sender(r) /\ Counting(r) /\ Intake(r)
  BY DEF IInv
<1>3. Unsent(s) /\ outs[s] = {out} /\ sendoutfinish[s] = 0
  BY <1>2 DEF Sender
<1>4. /\ outs'[s] = {} /\ sendoutfinish'[s] = 1
      /\ \A r \in Shards \ {s} : outs'[r] = outs[r] /\ sendoutfinish'[r] = sendoutfinish[r]
  BY <1>1, <1>2, <1>3 DEF Typed
<1>5. DOMAIN out \subseteq Accounts /\ \A a \in DOMAIN out : out[a] \in Shards
  BY <1>2 DEF Typed, PartialMap
<1>6. ASSUME NEW r \in dests
      PROVE  /\ mail(r).type = "BalanceAndPending" /\ mail(r).to = r /\ r \in Shards
             /\ ListOK(mail(r)) /\ {b.addr : b \in mail(r).list} = part(r)
  <2>1. part(r) \in SUBSET Accounts /\ part(r) # {} /\ r \in Shards
    BY <1>5
  <2> HIDE DEF part
  <2>2. mail(r).list = Entries(s, part(r))
    BY DEF Entries
  <2>3. mail(r).type = "BalanceAndPending" /\ mail(r).to = r
    OBVIOUS
  <2> HIDE DEF mail
  <2>4. /\ mail(r).list # {} /\ IsFiniteSet(mail(r).list)
        /\ \A b \in mail(r).list : b.addr \in Accounts /\ b.balance \in Int
        /\ {b.addr : b \in mail(r).list} = part(r)
        /\ Cardinality(mail(r).list) = Cardinality({b.addr : b \in mail(r).list})
    BY <1>2, <2>1, <2>2, SentList
  <2>5. ListOK(mail(r))
    BY <2>4 DEF ListOK
  <2> QED BY <2>1, <2>3, <2>4, <2>5
<1> HIDE DEF mail
<1>7. ASSUME NEW a \in DOMAIN out
      PROVE  Started(a) /\ Out(a) /\ Home[a] = s /\ out[a] = Dest(a)
  <2>1. s \in OutAt(a)
    BY DEF OutAt
  <2>2. Placed(a)
    BY <1>5 DEF IInv
  <2>3. Started(a) /\ Out(a)
    BY <2>1, <2>2 DEF Placed, AtHome, Sent, Come, Taken
  <2> QED BY <1>3, <2>1, <2>3 DEF Out
<1>8. Typed'
  <2>1. outs' \in [Shards -> SUBSET PartialMap] /\ sendoutfinish' \in [Shards -> Nat]
    BY <1>1, <1>2 DEF Typed
  <2>2. \A a \in Moving' : Dest(a)' # Home[a]
    BY <1>1, <1>2, MovesKept DEF Typed
  <2>3. UNCHANGED <<AccountInOwnShard, state, epochLock, main, taken, msequenceID, sureWait,
                    sureDue, inacc_count, inacc_pool, sure_count, done, maps>>
    BY <1>1
  <2> QED BY <1>2, <2>1, <2>2, <2>3 DEF Typed
<1>9. \A r \in Shards : (Unsent(r)' <=> Unsent(r)) /\ SentNo(r)' = SentNo(r)
  BY <1>1 DEF Unsent, SentNo
<1>10. MsgsOK'
  <2> SUFFICES ASSUME NEW n \in msgs'
               PROVE  /\ n.to \in Shards
                      /\ n.type \in {"NewMap", "BalanceAndPending", "Sure"}
                      /\ n.type = "NewMap" => NewMapOK(n)'
                      /\ n.type = "BalanceAndPending" => ListOK(n)'
                      /\ n.type = "Sure" => SureOK(n)'
    BY DEF MsgsOK
  <2>1. CASE n \in msgs
    BY <1>1, <1>2, <1>9, <2>1 DEF MsgsOK, NewMapOK, ListOK, SureOK
  <2>2. CASE \E r \in dests : n = mail(r)
    <3>1. PICK r \in dests : n = mail(r)
      BY <2>2
    <3>2. n.type = "BalanceAndPending" /\ n.to \in Shards /\ ListOK(n)
      BY <1>6, <3>1
    <3>3. ListOK(n)'
      BY <3>2 DEF ListOK
    <3> QED BY <3>2, <3>3
  <2> QED BY <1>1, <2>1, <2>2
<1>11. Barrier'
  BY <1>1, <1>2, <1>9, BarrierKept
<1>12. ASSUME NEW r \in Shards PROVE Steps(r)' /\ Sender(r)'
  <2>1. Steps(r)'
    BY <1>1, <1>2 DEF Steps
  <2>2. CASE r = s
    <3>1. Sender(s) /\ Unsent(s)'
      BY <1>2, <1>3, <1>9
    <3> QED BY <1>1, <1>4, <2>1, <2>2, <3>1 DEF Sender
  <2>3. CASE r # s
    <3>1. Sender(r)
      BY <1>2
    <3> QED BY <1>1, <1>4, <1>9, <2>1, <2>3, <3>1 DEF Sender
  <2> QED BY <2>2, <2>3
<1>13. ASSUME NEW r \in Shards PROVE Counting(r)'
  <2>1. SuresKept
    BY <1>1, <1>6 DEF SuresKept
  <2>2. Heard(r)' = Heard(r)
    BY <1>9, <2>1, ToldKept, HeardKept
  <2> QED BY <1>1, <1>2, <2>2, CountingKept
<1>14. \A a : OwnAt(a)' = OwnAt(a) /\ InAt(a)' = InAt(a)
  BY <1>1 DEF OwnAt, InAt
<1>15. ASSUME NEW r \in Shards PROVE Intake(r)'
  BY <1>kept, <1>1, <1>2, <1>14, GotKept, IntakeKept
<1>16. ASSUME NEW a \in Accounts PROVE Placed(a)'
  <2>1. Placed(a)
    BY DEF IInv
  <2>2. (Started(a)' <=> Started(a)) /\ Dest(a)' = Dest(a)
    BY <1>1, <1>kept, MovesKept
  <2>3. CASE a \in DOMAIN out
    <3>1. Started(a) /\ Out(a) /\ Home[a] = s /\ out[a] = Dest(a)
      BY <1>7, <2>3
    <3>2. OutAt(a)' = {}
      BY <1>4, <3>1 DEF Out, OutAt
    <3>3. Dest(a) \in dests /\ a \in part(Dest(a))
      BY <2>3, <3>1
    <3>4. mail(Dest(a)) \in MsgsOf(a)'
      BY <1>1, <1>6, <3>3 DEF MsgsOf
    <3>5. ASSUME NEW n \in MsgsOf(a)' PROVE n = mail(Dest(a))
      <4>1. n \notin msgs
        BY <3>1, <3>5 DEF Out, MsgsOf
      <4>2. PICK r \in dests : n = mail(r)
        BY <1>1, <3>5, <4>1 DEF MsgsOf
      <4>3. a \in {b.addr : b \in n.list}
        BY <3>5 DEF MsgsOf
      <4>4. a \in part(r)
        BY <1>6, <4>2, <4>3
      <4> QED BY <3>1, <4>2, <4>4
    <3>6. MsgsOf(a)' = {mail(Dest(a))} /\ mail(Dest(a)).to = Dest(a) /\ mail(Dest(a)) \in msgs'
      BY <1>6, <3>3, <3>4, <3>5 DEF MsgsOf
    <3>7. PICK n \in msgs' : MsgsOf(a)' = {n} /\ n.to = Dest(a)
      BY <3>6
    <3>8. Sent(a)'
      BY <1>14, <2>2, <3>1, <3>2, <3>7 DEF Sent, Out
    <3> QED BY <2>2, <3>1, <3>8 DEF Placed
  <2>4. CASE a \notin DOMAIN out
    <3>1. OutAt(a)' = OutAt(a)
      BY <1>3, <1>4, <2>4 DEF OutAt
    <3>2. MsgsOf(a)' = MsgsOf(a)
      <4>1. ASSUME NEW r \in dests PROVE \A b \in mail(r).list : b.addr # a
        BY <1>6, <2>4, <4>1
      <4> QED BY <1>1, <4>1 DEF MsgsOf
    <3>3. Stays(a)
      BY <1>14, <3>1, <3>2 DEF Stays
    <3>4. \A o \in outs'[Home[a]] : o \in outs[Home[a]]
      BY <1>3, <1>4, EpochConstants
    <3> QED BY <1>kept, <1>1, <2>1, <2>2, <3>3, <3>4, PlacedKept DEF Come
  <2> QED BY <2>3, <2>4
<1> QED BY <1>8, <1>10, <1>11, <1>12, <1>13, <1>15, <1>16 DEF IInv
-----------------------------------------------------------------------------
\* Accounts arrive, before or after the shard has committed the map.
LEMMA ArriveStep ==
    ASSUME IInv, NEW s \in Shards, NEW m, handleBalancesAndPendings(s, m)
    PROVE  IInv'
<1> DEFINE entry(b) == [addr |-> b.addr, balance |-> b.balance]
           A == {b.addr : b \in m.list}
<1>1. /\ m \in msgs /\ m.type = "BalanceAndPending" /\ m.to = s
      /\ inacc_pool' = [inacc_pool EXCEPT ![s] = @ \cup {entry(b) : b \in m.list}]
      /\ inacc_count' = [inacc_count EXCEPT ![s] = @ - Cardinality(m.list)]
      /\ main' = [main EXCEPT ![s] = IF inacc_count'[s] = 0 THEN "spropose" ELSE @]
      /\ msgs' = msgs \ {m}
      /\ UNCHANGED <<AccountInOwnShard, state, epochLock, taken, msequenceID, outs, sendoutfinish,
                     sureWait, sureDue, sure_count, done, maps>>
  BY DEF handleBalancesAndPendings, owned, sures, counts
<1>kept. Applied' = Applied /\ \A a : Started(a)' <=> Started(a)
  BY <1>1, AppliedKept
<1>2. /\ Typed /\ MsgsOK /\ Barrier
      /\ \A r \in Shards : Steps(r) /\ Sender(r) /\ Counting(r) /\ Intake(r)
  BY DEF IInv
<1>3. /\ m.list # {} /\ IsFiniteSet(m.list) /\ Cardinality(m.list) = Cardinality(A)
      /\ \A b \in m.list : b.addr \in Accounts /\ b.balance \in Int
  BY <1>1, <1>2 DEF MsgsOK, ListOK
<1>4. A # {} /\ A \subseteq Accounts
  BY <1>3
<1>5. IsFiniteSet(A) /\ Cardinality(A) \in Nat /\ Cardinality(A) # 0
  BY <1>4, EpochConstants, FS_Subset, FS_CardinalityType, FS_EmptySet
<1>6. \A a : (\E b \in m.list : b.addr = a) <=> a \in A
  OBVIOUS
<1>7. /\ \A a : (\E x \in {entry(b) : b \in m.list} : x.addr = a) <=> a \in A
      /\ {entry(b) : b \in m.list} \subseteq [addr : Accounts, balance : Int]
  <2>1. \A b \in m.list : entry(b).addr = b.addr /\ entry(b) \in [addr : Accounts, balance : Int]
    BY <1>3
  <2> HIDE DEF entry
  <2> QED BY <2>1
<1>8. inacc_pool'[s] = inacc_pool[s] \cup {entry(b) : b \in m.list}
      /\ \A r \in Shards \ {s} : inacc_pool'[r] = inacc_pool[r]
  BY <1>1, <1>2 DEF Typed
<1>9. \A a : InAt(a)' = IF a \in A THEN InAt(a) \cup {s} ELSE InAt(a)
  <2>1. \A a : (\E b \in inacc_pool'[s] : b.addr = a) <=> (\E b \in inacc_pool[s] : b.addr = a) \/ a \in A
    BY <1>7, <1>8
  <2>2. \A a : \A r \in Shards : r \in InAt(a)' <=> r \in InAt(a) \/ (r = s /\ a \in A)
    BY <1>8, <2>1 DEF InAt
  <2>3. \A a : InAt(a) \subseteq Shards /\ InAt(a)' \subseteq Shards
    BY DEF InAt
  <2> QED BY <2>2, <2>3
<1>10. Typed'
  <2>1. inacc_pool' \in [Shards -> SUBSET [addr : Accounts, balance : Int]]
    BY <1>1, <1>2, <1>7 DEF Typed
  <2>2. inacc_count' \in [Shards -> Int]
    BY <1>1, <1>2, <1>3, <1>5 DEF Typed
  <2>3. main' \in [Shards -> {"idle", "wait", "spropose", "sure", "count"}]
    BY <1>1, <1>2 DEF Typed
  <2> QED BY <1>1, <1>2, <2>1, <2>2, <2>3, MovesKept DEF Typed
<1> HIDE DEF entry, A
<1>11. ASSUME NEW a \in A
       PROVE  Started(a) /\ Sent(a) /\ MsgsOf(a) = {m} /\ a \in Incoming(s) /\ Dest(a) = s
  <2>1. m \in MsgsOf(a)
    BY <1>1, <1>6 DEF MsgsOf
  <2>2. Placed(a)
    BY <1>4 DEF IInv
  <2>3. Started(a) /\ Sent(a)
    BY <2>1, <2>2 DEF Placed, AtHome, Out, Come, Taken
  <2>4. MsgsOf(a) = {m} /\ Dest(a) = s
    BY <1>1, <2>1, <2>3 DEF Sent
  <2> QED BY <2>3, <2>4 DEF Incoming, Started
<1>12. A \subseteq Incoming(s) /\ A \cap Got(s) = {}
  <2>1. \A a \in A : a \in Incoming(s) /\ OwnAt(a) = {} /\ InAt(a) = {}
    BY <1>11 DEF Sent
  <2> QED BY <2>1 DEF Got
<1>13. \A a : OwnAt(a)' = OwnAt(a) /\ OutAt(a)' = OutAt(a)
  BY <1>1 DEF OwnAt, OutAt
<1>14. Got(s)' = Got(s) \cup A /\ \A r \in Shards \ {s} : Got(r)' = Got(r)
  <2>1. \A r : Incoming(r)' = Incoming(r)
    BY <1>1, MovesKept
  <2>2. Got(s)' = Got(s) \cup A
    BY <1>9, <1>12, <1>13, <2>1 DEF Got
  <2>3. \A r \in Shards \ {s} : Got(r)' = Got(r)
    BY <1>9, <1>13, <2>1 DEF Got
  <2> QED BY <2>2, <2>3
<1>15. /\ IsFiniteSet(Incoming(s)) /\ Cardinality(Incoming(s)) \in Nat
       /\ IsFiniteSet(Got(s)) /\ Cardinality(Got(s)) \in Nat /\ Got(s) \subseteq Incoming(s)
  BY <1>2, AccountSets
<1>16. Cardinality(Got(s)') = Cardinality(Got(s)) + Cardinality(A)
  <2>1. Cardinality(Got(s) \cap A) = 0
    BY <1>12, FS_EmptySet
  <2>2. Cardinality(Got(s) \cup A) = Cardinality(Got(s)) + Cardinality(A) - Cardinality(Got(s) \cap A)
    BY <1>5, <1>15, FS_Union
  <2> QED BY <1>5, <1>14, <1>15, <2>1, <2>2
<1>17. inacc_count'[s] = (IF s \in Applied THEN Cardinality(Incoming(s)) ELSE 0)
                         - Cardinality(Got(s)')
  <2>1. inacc_count[s] = (IF s \in Applied THEN Cardinality(Incoming(s)) ELSE 0)
                         - Cardinality(Got(s))
    BY <1>2 DEF Intake
  <2>2. inacc_count'[s] = inacc_count[s] - Cardinality(A)
    BY <1>1, <1>2, <1>3 DEF Typed
  <2> QED BY <1>5, <1>15, <1>16, <2>1, <2>2
<1>18. inacc_count'[s] = 0 <=> s \in Applied /\ Got(s)' = Incoming(s)
  <2>1. Got(s)' \subseteq Incoming(s) /\ Cardinality(Got(s)') \in Nat /\ Cardinality(Got(s)') # 0
    BY <1>5, <1>12, <1>14, <1>15, <1>16
  <2>2. Cardinality(Incoming(s)) = Cardinality(Got(s)') => Got(s)' = Incoming(s)
    BY <1>15, <2>1, FS_Subset
  <2> QED BY <1>15, <1>17, <2>1, <2>2
<1>19. s \in Applied => main[s] = "wait"
  <2>1. PICK a \in A : TRUE
    BY <1>4
  <2>2. a \in Incoming(s) /\ a \notin Got(s) /\ a \notin AccountInOwnShard[s]
    BY <1>11, <1>12, <2>1 DEF Sent, OwnAt
  <2> QED BY <1>2, <2>2 DEF Typed, Intake
<1>20. /\ main'[s] = IF inacc_count'[s] = 0 THEN "spropose" ELSE main[s]
       /\ \A r \in Shards \ {s} : main'[r] = main[r] /\ inacc_count'[r] = inacc_count[r]
  BY <1>1, <1>2 DEF Typed
<1>21. main'[s] = main[s] \/ (main[s] = "wait" /\ main'[s] = "spropose")
  BY <1>18, <1>19, <1>20
<1>22. \A r \in Shards : (Unsent(r)' <=> Unsent(r)) /\ SentNo(r)' = SentNo(r)
  <2>1. \A r \in Shards : Unsent(r)' <=> Unsent(r)
    BY <1>1, <1>20, <1>21 DEF Unsent
  <2> QED BY <1>1, <2>1, SentKept
<1>23. MsgsOK'
  BY <1>1, <1>2, <1>22 DEF MsgsOK, NewMapOK, ListOK, SureOK
<1>24. Barrier'
  BY <1>1, <1>2, <1>22, BarrierKept
<1>25. ASSUME NEW r \in Shards PROVE Steps(r)' /\ Sender(r)' /\ Counting(r)'
  <2>1. /\ main'[r] = "idle" <=> main[r] = "idle"
        /\ main'[r] = "count" <=> main[r] = "count"
    BY <1>20, <1>21
  <2>2. Steps(r)'
    BY <1>1, <1>2 DEF Steps
  <2>3. Sender(r)'
    BY <1>1, <1>2, <1>22, <2>1 DEF Sender
  <2>4. SuresKept
    BY <1>1 DEF SuresKept
  <2>5. Heard(r)' = Heard(r)
    BY <1>22, <2>4, ToldKept, HeardKept
  <2>6. Counting(r)'
    BY <1>1, <1>2, <2>1, <2>5, CountingKept
  <2> QED BY <2>2, <2>3, <2>6
<1>26. ASSUME NEW r \in Shards PROVE Intake(r)'
  <2>1. Incoming(r)' = Incoming(r)
    BY <1>1, MovesKept
  <2>2. CASE r = s
    <3>1. CASE s \notin Applied
      <4>1. main'[s] = main[s]
        BY <1>18, <1>20, <3>1
      <4> QED BY <1>kept, <1>1, <1>2, <1>17, <2>1, <2>2, <3>1, <4>1 DEF Intake
    <3>2. CASE s \in Applied
      <4>1. main[s] = "wait" /\ Incoming(s) # {}
        BY <1>2, <1>19, <3>2 DEF Intake
      <4>2. /\ main'[s] \in {"wait", "spropose"}
            /\ main'[s] = "spropose" <=> Got(s)' = Incoming(s)
        BY <1>18, <1>20, <3>2, <4>1
      <4> QED BY <1>kept, <1>1, <1>17, <2>1, <2>2, <3>2, <4>1, <4>2 DEF Intake
    <3> QED BY <3>1, <3>2
  <2>3. CASE r # s
    BY <1>kept, <1>1, <1>2, <1>14, <1>20, <2>3, IntakeKept
  <2> QED BY <2>2, <2>3
<1>27. ASSUME NEW a \in Accounts PROVE Placed(a)'
  <2>1. Placed(a)
    BY DEF IInv
  <2>2. (Started(a)' <=> Started(a)) /\ Dest(a)' = Dest(a)
    BY <1>1, <1>kept, MovesKept
  <2>3. MsgsOf(a)' = MsgsOf(a) \ {m}
    BY <1>1 DEF MsgsOf
  <2>4. CASE a \in A
    <3>1. Started(a) /\ Sent(a) /\ MsgsOf(a) = {m} /\ Dest(a) = s
      BY <1>11, <2>4
    <3>2. MsgsOf(a)' = {} /\ InAt(a)' = {s}
      BY <1>9, <2>3, <2>4, <3>1 DEF Sent
    <3>3. main'[s] \notin {"sure", "count"}
      <4>1. main[s] \notin {"sure", "count"}
        <5>1. a \in Incoming(s) /\ a \notin AccountInOwnShard[s]
          BY <1>11, <2>4, <3>1 DEF Sent, OwnAt
        <5> QED BY <1>2, <5>1 DEF Intake
      <4> QED BY <1>21, <4>1
    <3>4. Come(a)'
      BY <1>13, <2>2, <3>1, <3>2, <3>3 DEF Come, Sent
    <3> QED BY <2>2, <3>1, <3>4 DEF Placed
  <2>5. CASE a \notin A
    <3>1. m \notin MsgsOf(a)
      BY <1>6, <2>5 DEF MsgsOf
    <3>2. Stays(a)
      BY <1>9, <1>13, <2>3, <2>5, <3>1 DEF Stays
    <3>3. Come(a) => main'[Dest(a)] \notin {"sure", "count"}
      BY <1>20, <1>21 DEF Come, InAt
    <3>4. ASSUME Taken(a) PROVE main'[Dest(a)] = main[Dest(a)]
      BY <1>kept, <1>20, <1>21, <3>4 DEF Taken, OwnAt
    <3> QED BY <1>kept, <1>1, <2>1, <2>2, <3>2, <3>3, <3>4, PlacedKept
  <2> QED BY <2>4, <2>5
<1> QED BY <1>10, <1>23, <1>24, <1>25, <1>26, <1>27 DEF IInv

\* A shard commits the accounts it has waited for: they are its own.
LEMMA AccStateStep ==
    ASSUME IInv, NEW s \in Shards, spropose(s)
    PROVE  IInv'
<1> DEFINE A == {b.addr : b \in inacc_pool[s]}
<1>1. /\ main[s] = "spropose"
      /\ AccountInOwnShard' = [AccountInOwnShard EXCEPT ![s] = @ \cup A]
      /\ main' = [main EXCEPT ![s] = "sure"]
      /\ UNCHANGED <<state, epochLock, taken, msequenceID, outs, sendoutfinish, sureWait, sureDue,
                     inacc_count, inacc_pool, sure_count, done, maps, msgs>>
  BY DEF spropose, CommitAccState, sures, intake, counts
<1>kept. Applied' = Applied /\ \A a : Started(a)' <=> Started(a)
  BY <1>1, AppliedKept
<1>2. /\ Typed /\ MsgsOK /\ Barrier
      /\ \A r \in Shards : Steps(r) /\ Sender(r) /\ Counting(r) /\ Intake(r)
  BY DEF IInv
<1>3. A \subseteq Accounts
  BY <1>2 DEF Typed
<1>4. \A a : a \in A <=> s \in InAt(a)
  BY DEF InAt
<1>5. /\ main'[s] = "sure" /\ AccountInOwnShard'[s] = AccountInOwnShard[s] \cup A
      /\ \A r \in Shards \ {s} : main'[r] = main[r] /\ AccountInOwnShard'[r] = AccountInOwnShard[r]
  BY <1>1, <1>2 DEF Typed
<1>6. Typed'
  <2>1. AccountInOwnShard' \in [Shards -> SUBSET Accounts]
    BY <1>1, <1>2, <1>3 DEF Typed
  <2> QED BY <1>1, <1>2, <2>1, MovesKept DEF Typed
<1> HIDE DEF A
<1>7. s \in Applied /\ Incoming(s) # {} /\ Got(s) = Incoming(s)
  BY <1>1, <1>2 DEF Intake
<1>8. ASSUME NEW a \in A PROVE Started(a) /\ Come(a) /\ Dest(a) = s
  <2>1. Placed(a) /\ s \in InAt(a)
    BY <1>3, <1>4 DEF IInv
  <2>2. Started(a) /\ (Come(a) \/ Taken(a))
    BY <2>1 DEF Placed, AtHome, Out, Sent
  <2>3. Dest(a) = s
    BY <2>1, <2>2 DEF Come, Taken
  <2> QED BY <1>1, <2>2, <2>3 DEF Taken
<1>9. \A r \in Shards : (Unsent(r)' <=> Unsent(r)) /\ SentNo(r)' = SentNo(r)
  <2>1. \A r \in Shards : Unsent(r)' <=> Unsent(r)
    BY <1>1, <1>5 DEF Unsent
  <2> QED BY <1>1, <2>1, SentKept
<1>10. MsgsOK' /\ Barrier'
  <2>1. MsgsOK'
    BY <1>1, <1>2, <1>9 DEF MsgsOK, NewMapOK, ListOK, SureOK
  <2> QED BY <1>1, <1>2, <1>9, <2>1, BarrierKept
<1>11. ASSUME NEW r \in Shards PROVE Steps(r)' /\ Sender(r)' /\ Counting(r)'
  <2>1. /\ main'[r] = "idle" <=> main[r] = "idle"
        /\ main'[r] = "count" <=> main[r] = "count"
    BY <1>1, <1>5
  <2>2. Steps(r)'
    BY <1>1, <1>2 DEF Steps
  <2>3. Sender(r)'
    BY <1>1, <1>2, <1>9, <2>1 DEF Sender
  <2>4. Heard(r)' = Heard(r)
    BY <1>1, <1>9, ToldKept, HeardKept DEF SuresKept
  <2>5. Counting(r)'
    BY <1>1, <1>2, <2>1, <2>4, CountingKept
  <2> QED BY <2>2, <2>3, <2>5
<1>12. \A a : InAt(a)' = InAt(a) /\ OutAt(a)' = OutAt(a) /\ MsgsOf(a)' = MsgsOf(a)
  BY <1>1 DEF InAt, OutAt, MsgsOf
<1>13. \A a : OwnAt(a)' = IF a \in A THEN OwnAt(a) \cup {s} ELSE OwnAt(a)
  BY <1>5 DEF OwnAt
<1>14. ASSUME NEW r \in Shards PROVE Intake(r)'
  <2>1. Got(r)' = Got(r)
    <3>1. \A a : r \in InAt(a)' \cup OwnAt(a)' <=> r \in InAt(a) \cup OwnAt(a)
      BY <1>4, <1>12, <1>13
    <3> QED BY <1>1, <3>1, GotKept
  <2>2. Incoming(r)' = Incoming(r)
    BY <1>1, MovesKept
  <2>3. CASE r = s
    <3>1. \A a \in Incoming(s) : a \in AccountInOwnShard[s] \cup A
      BY <1>4, <1>7 DEF Got, OwnAt
    <3> QED BY <1>kept, <1>1, <1>2, <1>5, <1>7, <2>1, <2>2, <2>3, <3>1 DEF Intake
  <2>4. CASE r # s
    BY <1>kept, <1>1, <1>2, <1>5, <2>1, <2>4, IntakeKept
  <2> QED BY <2>3, <2>4
<1>15. ASSUME NEW a \in Accounts PROVE Placed(a)'
  <2>1. Placed(a)
    BY DEF IInv
  <2>2. (Started(a)' <=> Started(a)) /\ Dest(a)' = Dest(a)
    BY <1>1, <1>kept, MovesKept
  <2>3. CASE a \in A
    <3>1. Started(a) /\ Come(a) /\ Dest(a) = s
      BY <1>8, <2>3
    <3>2. OwnAt(a)' = {s}
      BY <1>13, <2>3, <3>1 DEF Come
    <3>3. Taken(a)'
      BY <1>kept, <1>1, <1>5, <1>7, <1>12, <2>2, <3>1, <3>2 DEF Come, Taken
    <3> QED BY <2>2, <3>1, <3>3 DEF Placed
  <2>4. CASE a \notin A
    <3>1. Stays(a)
      BY <1>12, <1>13, <2>4 DEF Stays
    <3>2. Come(a) => main'[Dest(a)] \notin {"sure", "count"}
      <4>1. Come(a) => Dest(a) \in Shards /\ Dest(a) # s
        BY <1>4, <2>4 DEF Come, InAt
      <4> QED BY <1>5, <4>1 DEF Come
    <3>3. ASSUME Taken(a) PROVE main'[Dest(a)] = main[Dest(a)]
      <4>1. Dest(a) \in Shards /\ Dest(a) # s
        BY <1>kept, <1>1, <3>3 DEF Taken, OwnAt
      <4> QED BY <1>5, <4>1
    <3> QED BY <1>kept, <1>1, <2>1, <2>2, <3>1, <3>2, <3>3, PlacedKept
  <2> QED BY <2>3, <2>4
<1> QED BY <1>6, <1>10, <1>11, <1>14, <1>15 DEF IInv
-----------------------------------------------------------------------------
\* A shard tells the others that it is done: one more confirmation, which is
\* under way to each of them and about to be counted by itself.
LEMMA SendSureStep ==
    ASSUME IInv, NEW s \in Shards, SendSure(s)
    PROVE  IInv'
<1> DEFINE e == msequenceID[s]
           p == <<s, e>>
<1>1. /\ sendoutfinish[s] > 0
      /\ sendoutfinish' = [sendoutfinish EXCEPT ![s] = @ - 1]
      /\ msgs' = msgs \cup {Sure(s, r, e) : r \in Shards \ {s}}
      /\ UNCHANGED <<AccountInOwnShard, state, epochLock, taken, msequenceID, outs, inacc_count,
                     inacc_pool, sure_count, done, maps>>
  BY DEF SendSure, Sure, owned, intake, counts
<1>kept. Applied' = Applied /\ \A a : Started(a)' <=> Started(a)
  BY <1>1, AppliedKept
<1>2. \/ /\ sureWait[s] > 0 /\ main' = main
         /\ sureWait' = [sureWait EXCEPT ![s] = @ - 1]
         /\ sureDue' = [sureDue EXCEPT ![s] = @ + 1]
      \/ /\ main[s] = "sure" /\ main' = [main EXCEPT ![s] = "count"]
         /\ sureWait' = sureWait /\ sureDue' = sureDue
  BY DEF SendSure
<1>3. /\ Typed /\ MsgsOK /\ Barrier
      /\ \A r \in Shards : Steps(r) /\ Sender(r) /\ Counting(r) /\ Intake(r)
  BY DEF IInv
<1>4. Unsent(s) /\ outs[s] = {} /\ sendoutfinish[s] = 1
  <2>1. Unsent(s)
    BY <1>2, <1>3, Numbers DEF Unsent
  <2> QED BY <1>1, <1>3, <2>1, Numbers DEF Sender
<1>5. /\ \/ main[s] = "idle" /\ main'[s] = "idle" /\ sureWait[s] = 1 /\ sureWait'[s] = 0
            /\ sureDue'[s] = sureDue[s] + 1
         \/ main[s] = "sure" /\ main'[s] = "count" /\ sureWait[s] = 0 /\ sureWait'[s] = 0
            /\ sureDue'[s] = sureDue[s]
      /\ sendoutfinish'[s] = 0
      /\ main' \in [Shards -> {"idle", "wait", "spropose", "sure", "count"}]
      /\ sureWait' \in [Shards -> Nat] /\ sureDue' \in [Shards -> Nat]
      /\ sendoutfinish' \in [Shards -> Nat]
      /\ \A r \in Shards \ {s} : /\ main'[r] = main[r] /\ sureWait'[r] = sureWait[r]
                                 /\ sureDue'[r] = sureDue[r] /\ sendoutfinish'[r] = sendoutfinish[r]
  <2>1. /\ main \in [Shards -> {"idle", "wait", "spropose", "sure", "count"}]
        /\ sureWait \in [Shards -> Nat] /\ sureDue \in [Shards -> Nat]
        /\ sendoutfinish \in [Shards -> Nat]
    BY <1>3 DEF Typed
  <2>2. sureWait[s] <= 1 /\ (sureWait[s] = 1 => main[s] = "idle")
    BY <1>3 DEF Sender
  <2>3. CASE main[s] = "sure"
    <3>1. sureWait[s] = 0
      BY <2>1, <2>2, <2>3
    <3>2. main' = [main EXCEPT ![s] = "count"] /\ sureWait' = sureWait /\ sureDue' = sureDue
      BY <1>2, <3>1
    <3> QED BY <1>1, <1>4, <2>1, <2>3, <3>1, <3>2
  <2>4. CASE main[s] # "sure"
    <3>1. /\ sureWait[s] = 1 /\ main' = main /\ main[s] = "idle"
          /\ sureWait' = [sureWait EXCEPT ![s] = @ - 1]
          /\ sureDue' = [sureDue EXCEPT ![s] = @ + 1]
      BY <1>2, <2>1, <2>2, <2>4
    <3> QED BY <1>1, <1>4, <2>1, <3>1
  <2> QED BY <2>3, <2>4
<1>6. Typed'
  BY <1>1, <1>3, <1>5, MovesKept DEF Typed
<1>7. ~Unsent(s)'
  BY <1>5 DEF Unsent
<1>8. /\ e \in Nat /\ SentNo(s) = e - 1 /\ SentNo(s)' = e /\ 1 <= e
      /\ \A r \in Shards \ {s} : SentNo(r)' = SentNo(r) /\ (Unsent(r)' <=> Unsent(r))
  <2>1. e \in Nat /\ done[s] \in Nat /\ done[s] <= SentNo(s)
    BY <1>3, Numbers DEF Barrier
  <2>2. SentNo(s) = e - 1 /\ SentNo(s)' = e
    BY <1>1, <1>4, <1>7 DEF SentNo
  <2>3. \A r \in Shards \ {s} : SentNo(r)' = SentNo(r) /\ (Unsent(r)' <=> Unsent(r))
    BY <1>1, <1>5 DEF SentNo, Unsent
  <2>4. 1 <= e
    BY <2>1, <2>2
  <2> QED BY <2>1, <2>2, <2>3, <2>4
<1> HIDE DEF e
<1>9. \A r \in Shards : SentNo(r) \in Int /\ SentNo(r)' \in Int /\ SentNo(r) <= SentNo(r)'
  <2>1. \A r \in Shards : SentNo(r) \in Int
    BY <1>3, Numbers
  <2> QED BY <1>8, <2>1
<1>10. MsgsOK'
  <2> SUFFICES ASSUME NEW n \in msgs'
               PROVE  /\ n.to \in Shards
                      /\ n.type \in {"NewMap", "BalanceAndPending", "Sure"}
                      /\ n.type = "NewMap" => NewMapOK(n)'
                      /\ n.type = "BalanceAndPending" => ListOK(n)'
                      /\ n.type = "Sure" => SureOK(n)'
    BY DEF MsgsOK
  <2>1. CASE n \in msgs
    <3>1. NewMapOK(n)' <=> NewMapOK(n)
      BY <1>1 DEF NewMapOK
    <3>2. ListOK(n)' <=> ListOK(n)
      BY DEF ListOK
    <3>3. ASSUME SureOK(n) PROVE SureOK(n)'
      <4>1. PICK r \in Shards : \E i \in 1..SentNo(r) : r # n.to /\ n = Sure(r, n.to, i)
        BY <3>3 DEF SureOK
      <4>2. PICK i \in 1..SentNo(r) : r # n.to /\ n = Sure(r, n.to, i)
        BY <4>1
      <4>3. i \in 1..SentNo(r)'
        BY <1>9
      <4> QED BY <4>2, <4>3 DEF SureOK
    <3> QED BY <1>3, <2>1, <3>1, <3>2, <3>3 DEF MsgsOK
  <2>2. CASE \E r \in Shards \ {s} : n = Sure(s, r, e)
    <3>1. PICK r \in Shards \ {s} : n = Sure(s, r, e)
      BY <2>2
    <3>2. n.to = r /\ n.type = "Sure"
      BY <3>1 DEF Sure
    <3>3. e \in 1..SentNo(s)'
      BY <1>8
    <3>4. s # n.to /\ n = Sure(s, n.to, e)
      BY <3>1, <3>2
    <3>5. SureOK(n)'
      BY <3>3, <3>4 DEF SureOK
    <3> QED BY <3>2, <3>5
  <2> QED BY <1>1, <2>1, <2>2
<1>11. Barrier'
  <2>1. \A r, q \in Shards : done[r] \in Nat /\ done[r] <= SentNo(q)
    BY <1>3, Numbers DEF Barrier
  <2> QED BY <1>1, <1>9, <2>1 DEF Barrier
<1>12. ASSUME NEW r \in Shards PROVE Steps(r)' /\ Sender(r)'
  <2>2. Steps(r)'
    BY <1>1, <1>3 DEF Steps
  <2>3. CASE r = s
    <3>1. Sender(s)'
      BY <1>1, <1>4, <1>5, <1>7 DEF Sender
    <3> QED BY <2>2, <2>3, <3>1
  <2>4. CASE r # s
    <3>1. Sender(r)
      BY <1>3
    <3> QED BY <1>1, <1>5, <1>8, <2>2, <2>4, <3>1 DEF Sender
  <2> QED BY <2>3, <2>4
<1>13. p \notin Told /\ Told' = Told \cup {p}
  BY <1>8, <1>9 DEF Told
<1>14. ASSUME NEW r \in Shards PROVE Counting(r)'
  <2>1. \A q, i : \A n : Sure(q, r, i) = Sure(s, n, e) => q = s /\ r = n /\ i = e
    BY DEF Sure
  <2>2. \A q, i : Sure(q, r, i) \in msgs' <=> \/ Sure(q, r, i) \in msgs
                                              \/ r # s /\ q = s /\ i = e
    BY <1>1, <2>1
  <2>3. CASE r = s
    <3>1. Sure(s, s, e) \notin msgs
      <4>1. Sure(s, s, e).type = "Sure" /\ Sure(s, s, e).to = s
        BY DEF Sure
      <4>2. ASSUME Sure(s, s, e) \in msgs PROVE FALSE
        <5>1. PICK q \in Shards : \E i \in 1..SentNo(q) : q # s /\ Sure(s, s, e) = Sure(q, s, i)
          BY <1>3, <4>1, <4>2 DEF MsgsOK, SureOK
        <5> QED BY <5>1 DEF Sure
      <4> QED BY <4>2
    <3>2. Heard(s)' = Heard(s) \cup {p} /\ p \notin Heard(s)
      BY <1>13, <2>2, <2>3, <3>1 DEF Heard
    <3>3. Heard(s) \subseteq Told /\ IsFiniteSet(Told)
      BY <1>3, ToldFinite DEF Heard
    <3>4. IsFiniteSet(Heard(s))
      BY <3>3, FS_Subset
    <3>5. Cardinality(Heard(s)') = Cardinality(Heard(s)) + 1
      BY <3>2, <3>4, FS_AddElement
    <3>6. done[s] * Cardinality(Shards) \in Nat /\ sure_count[s] \in Nat /\ sureDue[s] \in Nat
      BY <1>3, Numbers, ShardNumber
    <3> DEFINE D == done[s] * Cardinality(Shards)
    <3>7. /\ sure_count[s] < Cardinality(Shards)
          /\ Cardinality(Heard(s)) = D + sure_count[s] + sureDue[s]
                                     + (IF main[s] = "count" THEN 1 ELSE 0)
      BY <1>3 DEF Counting
    <3>8. sure_count'[s] = sure_count[s] /\ done'[s] * Cardinality(Shards) = D
      BY <1>1
    <3> HIDE DEF D
    <3>9. Cardinality(Heard(s)') = D + sure_count[s] + sureDue'[s]
                                   + (IF main'[s] = "count" THEN 1 ELSE 0)
      BY <1>5, <3>5, <3>6, <3>7 DEF D
    <3> QED BY <2>3, <3>7, <3>8, <3>9 DEF Counting
  <2>4. CASE r # s
    <3>1. Sure(s, r, e) \in msgs'
      BY <2>2, <2>4
    <3>2. Heard(r)' = Heard(r)
      <4>1. ASSUME NEW x \in Told
            PROVE  Sure(x[1], r, x[2]) \in msgs' <=> Sure(x[1], r, x[2]) \in msgs
        <5>1. x = <<x[1], x[2]>>
          BY DEF Told
        <5>2. ~(x[1] = s /\ x[2] = e)
          BY <1>13, <5>1
        <5> QED BY <2>2, <5>2
      <4> QED BY <1>13, <3>1, <4>1 DEF Heard
    <3> QED BY <1>1, <1>3, <1>5, <2>4, <3>2, CountingKept
  <2> QED BY <2>3, <2>4
<1>15. \A a : Stays(a)
  <2>1. \A r : Sure(s, r, e).type # "BalanceAndPending"
    BY DEF Sure
  <2>2. \A a : MsgsOf(a)' = MsgsOf(a)
    BY <1>1, <2>1 DEF MsgsOf
  <2> QED BY <1>1, <2>2 DEF Stays, OwnAt, OutAt, InAt
<1>16. ASSUME NEW r \in Shards PROVE Intake(r)'
  <2>1. Got(r)' = Got(r) /\ Incoming(r)' = Incoming(r)
    BY <1>1, <1>15, GotKept, MovesKept DEF Stays
  <2>2. CASE main'[r] = main[r]
    BY <1>kept, <1>1, <1>3, <2>1, <2>2, IntakeKept
  <2>3. CASE main'[r] # main[r]
    <3>1. main[r] = "sure" /\ main'[r] = "count"
      BY <1>5, <2>3
    <3>2. Intake(r)
      BY <1>3
    <3> QED BY <1>kept, <1>1, <2>1, <3>1, <3>2 DEF Intake
  <2> QED BY <2>2, <2>3
<1>17. ASSUME NEW a \in Accounts PROVE Placed(a)'
  <2>1. Placed(a)
    BY DEF IInv
  <2>2. Started(a)' <=> Started(a)
    BY <1>1, <1>kept, MovesKept
  <2>3. \A r \in Shards : /\ main'[r] \in {"sure", "count"} <=> main[r] \in {"sure", "count"}
                          /\ main[r] = "idle" => main'[r] = "idle"
    BY <1>5
  <2>4. Come(a) => main'[Dest(a)] \notin {"sure", "count"}
    BY <2>3 DEF Come, InAt
  <2>5. Taken(a) => Dest(a) \in Shards
    BY DEF Taken, OwnAt
  <2> QED BY <1>kept, <1>1, <1>15, <2>1, <2>2, <2>3, <2>4, <2>5, PlacedKept
<1> QED BY <1>6, <1>10, <1>11, <1>12, <1>14, <1>16, <1>17 DEF IInv
-----------------------------------------------------------------------------
\* A confirmation is counted; the last one opens epochLock when every shard has
\* told of the epoch.
LEMMA CountSureEffect ==
    ASSUME IInv, NEW s \in Shards, CountSure(s),
           \/ sureDue[s] > 0 \/ main[s] = "count"
           \/ \E m \in msgs : m.type = "Sure" /\ m.to = s
    PROVE  /\ epochLock' \in [Shards -> {"free", "block", "epoch"}]
           /\ sure_count' \in [Shards -> Nat] /\ done' \in [Shards -> Nat]
           /\ \A r \in Shards \ {s} : /\ epochLock'[r] = epochLock[r]
                                      /\ sure_count'[r] = sure_count[r] /\ done'[r] = done[r]
           /\ sure_count'[s] < Cardinality(Shards)
           /\ done'[s] * Cardinality(Shards) + sure_count'[s]
                = done[s] * Cardinality(Shards) + sure_count[s] + 1
           /\ done'[s] <= msequenceID[s] /\ Len(taken[s]) <= done'[s] + 1
           /\ epochLock'[s] = "epoch" <=> Len(taken[s]) = done'[s] + 1
           /\ \A r \in Shards : done'[s] <= SentNo(r)
<1> DEFINE N == Cardinality(Shards)
<1>1. Typed /\ Barrier /\ Steps(s) /\ Counting(s)
  BY DEF IInv
<1>2. /\ epochLock \in [Shards -> {"free", "block", "epoch"}]
      /\ sure_count \in [Shards -> Nat] /\ done \in [Shards -> Nat]
      /\ N \in Nat /\ sure_count[s] < N /\ Len(taken[s]) \in Nat
  BY <1>1, ShardNumber DEF Typed, Counting
<1>3. CASE sure_count[s] + 1 = N
  <2>1. /\ sure_count' = [sure_count EXCEPT ![s] = 0]
        /\ epochLock' = [epochLock EXCEPT ![s] = "free"]
        /\ done' = [done EXCEPT ![s] = @ + 1]
    BY <1>3 DEF CountSure
  <2>2. (\A r \in Shards : done[s] + 1 <= SentNo(r)) /\ epochLock[s] = "epoch"
    BY <1>3, LastSure
  <2>3. Len(taken[s]) = done[s] + 1
    BY <1>1, <2>2 DEF Steps
  <2>4. done'[s] = done[s] + 1 /\ sure_count'[s] = 0 /\ epochLock'[s] = "free" /\ done[s] \in Nat
    BY <1>2, <2>1
  <2>5. done'[s] * N + sure_count'[s] = done[s] * N + sure_count[s] + 1
    <3> HIDE DEF N
    <3>1. \A i, n \in Nat : (i + 1) * n = i * n + n /\ i * n \in Nat
      OBVIOUS
    <3>2. (done[s] + 1) * N = done[s] * N + N /\ done[s] * N \in Nat
      BY <1>2, <2>4, <3>1
    <3>3. sure_count[s] \in Nat
      BY <1>2
    <3> QED BY <1>2, <1>3, <2>4, <3>2, <3>3
  <2>6. /\ epochLock' \in [Shards -> {"free", "block", "epoch"}]
        /\ sure_count' \in [Shards -> Nat] /\ done' \in [Shards -> Nat]
        /\ \A r \in Shards \ {s} : /\ epochLock'[r] = epochLock[r]
                                   /\ sure_count'[r] = sure_count[r] /\ done'[r] = done[r]
    BY <1>2, <2>1
  <2>7. sure_count'[s] < N
    BY <1>2, <1>3, <2>4
  <2> HIDE DEF N
  <2>8. \A r \in Shards : done'[s] <= SentNo(r)
    BY <2>2, <2>4
  <2>9. /\ done'[s] <= msequenceID[s] /\ Len(taken[s]) <= done'[s] + 1
        /\ epochLock'[s] = "epoch" <=> Len(taken[s]) = done'[s] + 1
    <3>1. done[s] + 1 <= SentNo(s) /\ SentNo(s) <= msequenceID[s]
      BY <1>1, <2>2, Numbers
    <3>2. SentNo(s) \in Int /\ msequenceID[s] \in Nat
      BY <1>1, Numbers
    <3> QED BY <1>2, <2>3, <2>4, <3>1, <3>2
  <2> QED BY <2>5, <2>6, <2>7, <2>8, <2>9 DEF N
<1>4. CASE sure_count[s] + 1 # N
  <2>1. sure_count' = [sure_count EXCEPT ![s] = @ + 1] /\ epochLock' = epochLock /\ done' = done
    BY <1>4 DEF CountSure
  <2>2. sure_count'[s] = sure_count[s] + 1 /\ done[s] * N \in Nat /\ sure_count[s] \in Nat
    BY <1>2, <2>1
  <2>3. sure_count'[s] < N
    BY <1>2, <1>4, <2>2
  <2>4. done'[s] * N + sure_count'[s] = done[s] * N + sure_count[s] + 1
    BY <2>1, <2>2
  <2>5. \A r \in Shards : done'[s] <= SentNo(r)
    BY <1>1, <2>1 DEF Barrier
  <2>6. /\ done'[s] <= msequenceID[s] /\ Len(taken[s]) <= done'[s] + 1
        /\ epochLock'[s] = "epoch" <=> Len(taken[s]) = done'[s] + 1
    BY <1>1, <2>1 DEF Steps
  <2> QED BY <1>2, <2>1, <2>3, <2>4, <2>5, <2>6
<1> QED BY <1>3, <1>4

\* The shard counts its own confirmation; after an AccState it empties its pool.
LEMMA OwnSureStep ==
    ASSUME IInv, NEW s \in Shards, CountOwnSure(s)
    PROVE  IInv'
<1> DEFINE N == Cardinality(Shards)
<1>1. /\ CountSure(s)
      /\ UNCHANGED <<AccountInOwnShard, state, taken, msequenceID, outs, sendoutfinish, sureWait,
                     inacc_count, maps, msgs>>
  BY DEF CountOwnSure, owned
<1>kept. Applied' = Applied /\ \A a : Started(a)' <=> Started(a)
  BY <1>1, AppliedKept
<1>2. \/ /\ sureDue[s] > 0 /\ sureDue' = [sureDue EXCEPT ![s] = @ - 1]
         /\ main' = main /\ inacc_pool' = inacc_pool
      \/ /\ main[s] = "count" /\ main' = [main EXCEPT ![s] = "idle"]
         /\ inacc_pool' = [inacc_pool EXCEPT ![s] = {}] /\ sureDue' = sureDue
  BY DEF CountOwnSure
<1>3. /\ Typed /\ MsgsOK /\ Barrier
      /\ \A r \in Shards : Steps(r) /\ Sender(r) /\ Counting(r) /\ Intake(r)
  BY DEF IInv
<1>4. sureDue[s] > 0 \/ main[s] = "count"
  BY <1>2
<1>5. /\ epochLock' \in [Shards -> {"free", "block", "epoch"}]
      /\ sure_count' \in [Shards -> Nat] /\ done' \in [Shards -> Nat]
      /\ \A r \in Shards \ {s} : /\ epochLock'[r] = epochLock[r]
                                 /\ sure_count'[r] = sure_count[r] /\ done'[r] = done[r]
      /\ sure_count'[s] < N
      /\ done'[s] * N + sure_count'[s] = done[s] * N + sure_count[s] + 1
      /\ done'[s] <= msequenceID[s] /\ Len(taken[s]) <= done'[s] + 1
      /\ epochLock'[s] = "epoch" <=> Len(taken[s]) = done'[s] + 1
      /\ \A r \in Shards : done'[s] <= SentNo(r)
  BY <1>1, <1>4, CountSureEffect
<1>6. /\ main' \in [Shards -> {"idle", "wait", "spropose", "sure", "count"}]
      /\ sureDue' \in [Shards -> Nat]
      /\ inacc_pool' \in [Shards -> SUBSET [addr : Accounts, balance : Int]]
      /\ \A r \in Shards \ {s} : /\ main'[r] = main[r] /\ sureDue'[r] = sureDue[r]
                                 /\ inacc_pool'[r] = inacc_pool[r]
      /\ \/ main'[s] = main[s] /\ sureDue'[s] = sureDue[s] - 1 /\ inacc_pool'[s] = inacc_pool[s]
         \/ /\ main[s] = "count" /\ main'[s] = "idle" /\ sureDue'[s] = sureDue[s]
            /\ inacc_pool'[s] = {}
  <2>1. /\ main \in [Shards -> {"idle", "wait", "spropose", "sure", "count"}]
        /\ sureDue \in [Shards -> Nat]
        /\ inacc_pool \in [Shards -> SUBSET [addr : Accounts, balance : Int]]
    BY <1>3 DEF Typed
  <2>2. CASE /\ sureDue[s] > 0 /\ sureDue' = [sureDue EXCEPT ![s] = @ - 1]
             /\ main' = main /\ inacc_pool' = inacc_pool
    BY <2>1, <2>2
  <2>3. CASE /\ main[s] = "count" /\ main' = [main EXCEPT ![s] = "idle"]
             /\ inacc_pool' = [inacc_pool EXCEPT ![s] = {}] /\ sureDue' = sureDue
    BY <2>1, <2>3
  <2> QED BY <1>2, <2>2, <2>3
<1>7. Typed'
  BY <1>1, <1>3, <1>5, <1>6, MovesKept DEF Typed
<1>8. \A r \in Shards : (Unsent(r)' <=> Unsent(r)) /\ SentNo(r)' = SentNo(r)
  <2>1. \A r \in Shards : Unsent(r)' <=> Unsent(r)
    BY <1>1, <1>6 DEF Unsent
  <2> QED BY <1>1, <2>1, SentKept
<1>9. MsgsOK'
  BY <1>1, <1>3, <1>8 DEF MsgsOK, NewMapOK, ListOK, SureOK
<1>10. Barrier'
  BY <1>3, <1>5, <1>8 DEF Barrier
<1>11. ASSUME NEW r \in Shards PROVE Steps(r)' /\ Sender(r)'
  <2>2. Steps(r) /\ Sender(r)
    BY <1>3
  <2>3. Steps(r)'
    <3>1. CASE r = s
      BY <1>1, <1>5, <2>2, <3>1 DEF Steps
    <3>2. CASE r # s
      BY <1>1, <1>5, <2>2, <3>2 DEF Steps
    <3> QED BY <3>1, <3>2
  <2>4. Sender(r)'
    BY <1>1, <1>6, <1>8, <2>2 DEF Sender
  <2> QED BY <2>3, <2>4
<1>12. ASSUME NEW r \in Shards PROVE Counting(r)'
  <2>1. Heard(r)' = Heard(r)
    BY <1>1, <1>8, ToldKept, HeardKept DEF SuresKept
  <2>2. CASE r = s
    <3> DEFINE C == IF main[s] = "count" THEN 1 ELSE 0
               D == done[s] * N
               DD == done'[s] * N
    <3>1. Cardinality(Heard(s)) = D + sure_count[s] + sureDue[s] + C
      BY <1>3 DEF Counting
    <3>2. /\ D \in Nat /\ DD \in Nat /\ sure_count[s] \in Nat /\ sure_count'[s] \in Nat
          /\ sureDue[s] \in Nat /\ sureDue'[s] \in Nat
      <4>1. done[s] \in Nat /\ done'[s] \in Nat /\ N \in Nat
        BY <1>3, <1>5, Numbers, ShardNumber
      <4>2. D \in Nat /\ DD \in Nat
        BY <4>1
      <4> HIDE DEF D, DD
      <4> QED BY <1>3, <1>5, <1>6, <4>2, Numbers
    <3>3. DD + sure_count'[s] = D + sure_count[s] + 1
      BY <1>5
    <3> HIDE DEF D, DD, N
    <3>4. Cardinality(Heard(s)) = DD + sure_count'[s] + sureDue'[s]
                                  + (IF main'[s] = "count" THEN 1 ELSE 0)
      BY <1>6, <3>1, <3>2, <3>3
    <3> QED BY <1>5, <2>1, <2>2, <3>4 DEF Counting, DD, N
  <2>3. CASE r # s
    BY <1>3, <1>5, <1>6, <2>1, <2>3, CountingKept
  <2> QED BY <2>2, <2>3
<1>13. \A a : /\ OwnAt(a)' = OwnAt(a) /\ OutAt(a)' = OutAt(a) /\ MsgsOf(a)' = MsgsOf(a)
              /\ InAt(a)' = IF inacc_pool'[s] = inacc_pool[s] THEN InAt(a) ELSE InAt(a) \ {s}
  BY <1>1, <1>6 DEF OwnAt, OutAt, MsgsOf, InAt
<1>14. CASE main'[s] = main[s]
  <2>1. inacc_pool'[s] = inacc_pool[s] /\ \A r \in Shards : main'[r] = main[r]
    BY <1>6, <1>14
  <2>2. \A a : Stays(a)
    BY <1>13, <2>1 DEF Stays
  <2>3. ASSUME NEW r \in Shards PROVE Intake(r)'
    <3>1. Got(r)' = Got(r)
      BY <1>1, <2>2, GotKept DEF Stays
    <3> QED BY <1>kept, <1>1, <1>3, <2>1, <3>1, IntakeKept
  <2>4. ASSUME NEW a \in Accounts PROVE Placed(a)'
    <3>1. Placed(a) /\ (Started(a)' <=> Started(a))
      BY <1>kept, <1>1, MovesKept DEF IInv, Started
    <3>2. (Come(a) => Dest(a) \in Shards) /\ (Taken(a) => Dest(a) \in Shards)
      BY DEF Come, Taken, InAt, OwnAt
    <3>3. Come(a) => main'[Dest(a)] \notin {"sure", "count"}
      BY <2>1, <3>2 DEF Come
    <3> QED BY <1>kept, <1>1, <2>1, <2>2, <3>1, <3>2, <3>3, PlacedKept
  <2> QED BY <1>7, <1>9, <1>10, <1>11, <1>12, <2>3, <2>4 DEF IInv
<1>15. CASE main'[s] # main[s]
  <2>1. main[s] = "count" /\ main'[s] = "idle" /\ inacc_pool'[s] = {}
    BY <1>6, <1>15
  <2>2. Incoming(s) \subseteq AccountInOwnShard[s] /\ s \in Applied
    BY <1>3, <2>1 DEF Intake
  <2>3. ASSUME NEW r \in Shards PROVE Intake(r)'
    <3>1. \A a \in Incoming(s) : s \in OwnAt(a)
      BY <2>2 DEF OwnAt
    <3>2. Got(r)' = Got(r) /\ Incoming(r)' = Incoming(r)
      <4>1. \A a \in Incoming(r) : r \in InAt(a)' \cup OwnAt(a)' <=> r \in InAt(a) \cup OwnAt(a)
        BY <1>13, <3>1
      <4> QED BY <1>1, <4>1, GotKept, MovesKept
    <3>3. CASE r = s
      BY <1>kept, <1>1, <1>3, <2>1, <2>2, <3>2, <3>3 DEF Intake
    <3>4. CASE r # s
      BY <1>kept, <1>1, <1>3, <1>6, <3>2, <3>4, IntakeKept
    <3> QED BY <3>3, <3>4
  <2>4. ASSUME NEW a \in Accounts PROVE Placed(a)'
    <3>1. Placed(a) /\ (Started(a)' <=> Started(a)) /\ Dest(a)' = Dest(a)
      BY <1>kept, <1>1, MovesKept DEF IInv, Started
    <3>2. CASE Started(a) /\ Taken(a) /\ Dest(a) = s
      <4>1. InAt(a) = {s}
        BY <2>1, <3>2 DEF Taken
      <4>2. InAt(a)' = {}
        <5>1. s \notin InAt(a)'
          BY <2>1 DEF InAt
        <5> QED BY <1>13, <4>1, <5>1
      <4>3. Taken(a)'
        BY <1>kept, <1>1, <1>13, <2>1, <3>1, <3>2, <4>2 DEF Taken
      <4> QED BY <3>1, <3>2, <4>3 DEF Placed
    <3>3. CASE ~(Started(a) /\ Taken(a) /\ Dest(a) = s)
      <4>1. s \notin InAt(a)
        BY <2>1, <3>1, <3>3 DEF Placed, AtHome, Out, Sent, Come, Taken
      <4>2. Stays(a)
        BY <1>13, <4>1 DEF Stays
      <4>3. Come(a) => main'[Dest(a)] \notin {"sure", "count"}
        BY <1>6, <2>1 DEF Come, InAt
      <4>4. CASE Started(a)
        <5>1. Taken(a) => main'[Dest(a)] = main[Dest(a)]
          BY <1>kept, <1>6, <3>3, <4>4 DEF Taken, OwnAt
        <5> QED BY <1>kept, <1>1, <3>1, <4>2, <4>3, <5>1, PlacedKept
      <4>5. CASE ~Started(a)
        <5>1. AtHome(a)'
          BY <3>1, <4>2, <4>5 DEF Placed, AtHome, Stays
        <5> QED BY <3>1, <4>5, <5>1 DEF Placed
      <4> QED BY <4>4, <4>5
    <3> QED BY <3>2, <3>3
  <2> QED BY <1>7, <1>9, <1>10, <1>11, <1>12, <2>3, <2>4 DEF IInv
<1> QED BY <1>14, <1>15

\* A confirmation of another shard is counted.
LEMMA OtherSureStep ==
    ASSUME IInv, NEW s \in Shards, NEW m, handleSure(s, m)
    PROVE  IInv'
<1> DEFINE N == Cardinality(Shards)
<1>1. /\ m \in msgs /\ m.type = "Sure" /\ m.to = s
      /\ CountSure(s) /\ msgs' = msgs \ {m}
      /\ UNCHANGED <<AccountInOwnShard, state, main, taken, msequenceID, outs, sendoutfinish,
                     sureWait, sureDue, inacc_count, inacc_pool, maps>>
  BY DEF handleSure, owned, sures, intake
<1>kept. Applied' = Applied /\ \A a : Started(a)' <=> Started(a)
  BY <1>1, AppliedKept
<1>2. /\ Typed /\ MsgsOK /\ Barrier
      /\ \A r \in Shards : Steps(r) /\ Sender(r) /\ Counting(r) /\ Intake(r)
  BY DEF IInv
<1>3. /\ epochLock' \in [Shards -> {"free", "block", "epoch"}]
      /\ sure_count' \in [Shards -> Nat] /\ done' \in [Shards -> Nat]
      /\ \A r \in Shards \ {s} : /\ epochLock'[r] = epochLock[r]
                                 /\ sure_count'[r] = sure_count[r] /\ done'[r] = done[r]
      /\ sure_count'[s] < N
      /\ done'[s] * N + sure_count'[s] = done[s] * N + sure_count[s] + 1
      /\ done'[s] <= msequenceID[s] /\ Len(taken[s]) <= done'[s] + 1
      /\ epochLock'[s] = "epoch" <=> Len(taken[s]) = done'[s] + 1
      /\ \A r \in Shards : done'[s] <= SentNo(r)
  BY <1>1, CountSureEffect
<1>4. Typed'
  BY <1>1, <1>2, <1>3, MovesKept DEF Typed
<1>5. \A r \in Shards : (Unsent(r)' <=> Unsent(r)) /\ SentNo(r)' = SentNo(r)
  BY <1>1 DEF Unsent, SentNo
<1>6. MsgsOK'
  BY <1>1, <1>2, <1>5 DEF MsgsOK, NewMapOK, ListOK, SureOK
<1>7. Barrier'
  BY <1>2, <1>3, <1>5 DEF Barrier
<1>8. ASSUME NEW r \in Shards PROVE Steps(r)' /\ Sender(r)'
  <2>1. Steps(r) /\ Sender(r)
    BY <1>2
  <2>2. Steps(r)'
    <3>1. CASE r = s
      BY <1>1, <1>3, <2>1, <3>1 DEF Steps
    <3>2. CASE r # s
      BY <1>1, <1>3, <2>1, <3>2 DEF Steps
    <3> QED BY <3>1, <3>2
  <2>3. Sender(r)'
    BY <1>1, <1>5, <2>1 DEF Sender
  <2> QED BY <2>2, <2>3
<1>9. Told' = Told
  BY <1>5, ToldKept
<1>10. ASSUME NEW r \in Shards PROVE Counting(r)'
  <2>1. PICK q \in Shards : \E i \in 1..SentNo(q) : m = Sure(q, s, i)
    BY <1>1, <1>2 DEF MsgsOK, SureOK
  <2>2. PICK i \in 1..SentNo(q) : m = Sure(q, s, i)
    BY <2>1
  <2>3. <<q, i>> \in Told
    BY <1>2, Numbers DEF Told
  <2>4. \A x, y, z : Sure(x, y, z) = m <=> x = q /\ y = s /\ z = i
    BY <2>2 DEF Sure
  <2>5. \A x, y, z : Sure(x, y, z) \in msgs' <=> Sure(x, y, z) \in msgs /\ ~(x = q /\ y = s /\ z = i)
    BY <1>1, <2>4
  <2>6. CASE r = s
    <3>1. <<q, i>> \notin Heard(s)
      BY <1>1, <2>2 DEF Heard
    <3>2. Heard(s)' = Heard(s) \cup {<<q, i>>}
      <4>1. \A x \in Told : x = <<x[1], x[2]>>
        BY DEF Told
      <4> QED BY <1>9, <2>3, <2>5, <4>1 DEF Heard
    <3>3. Heard(s) \subseteq Told /\ IsFiniteSet(Told)
      BY <1>2, ToldFinite DEF Heard
    <3>4. IsFiniteSet(Heard(s))
      BY <3>3, FS_Subset
    <3>5. Cardinality(Heard(s)') = Cardinality(Heard(s)) + 1
      BY <3>1, <3>2, <3>4, FS_AddElement
    <3> DEFINE C == IF main[s] = "count" THEN 1 ELSE 0
               D == done[s] * N
               DD == done'[s] * N
    <3>6. Cardinality(Heard(s)) = D + sure_count[s] + sureDue[s] + C
      BY <1>2 DEF Counting
    <3>7. /\ D \in Nat /\ DD \in Nat /\ sure_count[s] \in Nat /\ sure_count'[s] \in Nat
          /\ sureDue[s] \in Nat
      <4>1. done[s] \in Nat /\ done'[s] \in Nat /\ N \in Nat
        BY <1>2, <1>3, Numbers, ShardNumber
      <4>2. D \in Nat /\ DD \in Nat
        BY <4>1
      <4> HIDE DEF D, DD
      <4> QED BY <1>2, <1>3, <4>2, Numbers
    <3>8. DD + sure_count'[s] = D + sure_count[s] + 1
      BY <1>3
    <3> HIDE DEF D, DD, N
    <3>9. Cardinality(Heard(s)') = DD + sure_count'[s] + sureDue[s] + C
      BY <3>5, <3>6, <3>7, <3>8
    <3>10. sureDue'[s] = sureDue[s] /\ main'[s] = main[s]
      BY <1>1
    <3> QED BY <1>3, <2>6, <3>9, <3>10 DEF Counting, DD, N
  <2>7. CASE r # s
    <3>1. Heard(r)' = Heard(r)
      BY <1>9, <2>5, <2>7 DEF Heard
    <3> QED BY <1>1, <1>2, <1>3, <2>7, <3>1, CountingKept
  <2> QED BY <2>6, <2>7
<1>11. \A a : Stays(a)
  BY <1>1 DEF Stays, OwnAt, OutAt, MsgsOf, InAt
<1>12. ASSUME NEW r \in Shards PROVE Intake(r)'
  <2>1. Got(r)' = Got(r)
    BY <1>1, <1>11, GotKept DEF Stays
  <2> QED BY <1>kept, <1>1, <1>2, <2>1, IntakeKept
<1>13. ASSUME NEW a \in Accounts PROVE Placed(a)'
  <2>1. Placed(a) /\ (Started(a)' <=> Started(a))
    BY <1>kept, <1>1, MovesKept DEF IInv, Started
  <2> QED BY <1>kept, <1>1, <1>11, <2>1, PlacedKept DEF Come
<1> QED BY <1>4, <1>6, <1>7, <1>8, <1>10, <1>12, <1>13 DEF IInv
-----------------------------------------------------------------------------
LEMMA InvStep == IInv /\ [Next]_vars => IInv'
<1> SUFFICES ASSUME IInv, [Next]_vars PROVE IInv'
  OBVIOUS
<1>1. CASE UNCHANGED vars
  BY <1>1, StutterStep
<1>2. CASE SendNewAddr2Shard
  BY <1>2, SendStep
<1>3. ASSUME NEW s \in Shards, ProposeStart(s) PROVE IInv'
  BY <1>3, ProposeStartStep
<1>4. ASSUME NEW s \in Shards, CommitBlock(s) PROVE IInv'
  BY <1>4, CommitBlockStep
<1>5. ASSUME NEW s \in Shards, StartEpoch(s) PROVE IInv'
  BY <1>5, NewMapStep DEF StartEpoch
<1>6. ASSUME NEW s \in Shards, Epoch(s) PROVE IInv'
  <2>1. CASE mpropose(s)
    BY <2>1, EpochChangeStep
  <2>2. CASE spropose(s)
    BY <2>2, AccStateStep
  <2>3. CASE SendSure(s)
    BY <2>3, SendSureStep
  <2>4. CASE CountOwnSure(s)
    BY <2>4, OwnSureStep
  <2>5. CASE \E out \in outs[s] : SendOut(s, out)
    BY <2>5, SendOutStep
  <2>6. CASE \E m \in msgs : handleBalancesAndPendings(s, m)
    BY <2>6, ArriveStep
  <2>7. CASE \E m \in msgs : handleSure(s, m)
    BY <2>7, OtherSureStep
  <2> QED BY <1>6, <2>1, <2>2, <2>3, <2>4, <2>5, <2>6, <2>7 DEF Epoch
<1> QED BY <1>1, <1>2, <1>3, <1>4, <1>5, <1>6 DEF Next

\* The inductive invariant of the epoch change: every confirmation is counted
\* exactly once, and every moving account is in one stage of its move.
THEOREM EpochInvariant == Spec => []IInv
  BY InvInit, InvStep, PTL DEF Spec

LEMMA InvStop == IInv => StopUntilAllDone
<1> SUFFICES ASSUME IInv, NEW s \in Shards, NEW r \in Shards
             PROVE  /\ done[s] <= Completed(r)
                    /\ SameOrder(s, r) => Ended(s) \subseteq Complete(r)
  BY DEF StopUntilAllDone
<1>1. Typed /\ Sender(r) /\ Steps(r) /\ Steps(s) /\ done[s] <= SentNo(r)
  BY DEF IInv, Barrier
<1>2. /\ done[s] \in Nat /\ SentNo(r) \in Int /\ msequenceID[r] \in Nat /\ msequenceID[s] \in Nat
      /\ Len(taken[s]) \in Nat /\ Len(taken[r]) \in Nat
      /\ taken[s] \in Seq(Nat) /\ taken[r] \in Seq(Nat)
  BY <1>1, Numbers
<1>3. Completed(r) \in Int /\ SentNo(r) <= Completed(r) /\ Completed(r) <= msequenceID[r]
  BY <1>1, <1>2 DEF Completed, SentNo, Sender, Unsent
<1>4. done[s] <= Completed(r)
  BY <1>1, <1>2, <1>3
<1>5. ASSUME SameOrder(s, r), NEW i \in 1..done[s] PROVE taken[s][i] \in Complete(r)
  <2>1. i \in 1..Len(taken[s]) /\ i \in 1..Len(taken[r]) /\ i \in 1..Completed(r)
    <3>1. done[s] <= msequenceID[s] /\ msequenceID[s] <= Len(taken[s]) /\ msequenceID[r] <= Len(taken[r])
      BY <1>1 DEF Steps
    <3>2. i \in Nat /\ 1 <= i /\ i <= done[s]
      BY <1>2
    <3>3. i <= Len(taken[s])
      BY <1>2, <3>1, <3>2
    <3>4. i <= Completed(r)
      BY <1>2, <1>3, <1>4, <3>2
    <3>5. i <= Len(taken[r])
      BY <1>2, <1>3, <3>1, <3>2, <3>4
    <3> QED BY <1>2, <1>3, <3>2, <3>3, <3>4, <3>5
  <2>2. taken[s][i] = taken[r][i]
    BY <1>2, <1>5, <2>1 DEF SameOrder
  <2> QED BY <2>1, <2>2 DEF Complete
<1> QED BY <1>4, <1>5 DEF Ended

LEMMA InvReleased == IInv => OnlyStoppedIsReleased
<1> SUFFICES ASSUME IInv, NEW s \in Shards, sure_count[s] = Cardinality(Shards) - 1,
                    \/ sureDue[s] > 0 \/ main[s] = "count"
                    \/ \E m \in msgs : m.type = "Sure" /\ m.to = s
             PROVE  epochLock[s] = "epoch"
  BY DEF OnlyStoppedIsReleased
<1>1. sure_count[s] + 1 = Cardinality(Shards)
  BY ShardNumber
<1> QED BY <1>1, LastSure

LEMMA InvPlace == IInv => OnePlace
<1> SUFFICES ASSUME IInv, NEW a \in Accounts PROVE Cardinality(Places(a)) = 1
  BY DEF OnePlace
<1> DEFINE arrived == {s \in InAt(a) : main[s] \notin {"sure", "count"}}
<1>1. Places(a) = {<<"own", s>> : s \in OwnAt(a)} \cup {<<"out", s>> : s \in OutAt(a)}
                  \cup {<<"msg", m.to>> : m \in MsgsOf(a)} \cup {<<"in", s>> : s \in arrived}
  BY DEF Places, OwnAt, OutAt, MsgsOf, InAt
<1>2. Placed(a)
  BY DEF IInv
<1>3. \E x : Places(a) = {x}
  <2>1. CASE ~Started(a)
    <3>1. AtHome(a)
      BY <1>2, <2>1 DEF Placed
    <3>2. Places(a) = {<<"own", Home[a]>>}
      BY <1>1, <3>1 DEF AtHome
    <3> QED BY <3>2
  <2>2. CASE Out(a)
    <3>1. Places(a) = {<<"out", Home[a]>>}
      BY <1>1, <2>2 DEF Out
    <3> QED BY <3>1
  <2>3. CASE Sent(a)
    <3>1. Places(a) = {<<"msg", Dest(a)>>}
      BY <1>1, <2>3 DEF Sent
    <3> QED BY <3>1
  <2>4. CASE Come(a)
    <3>1. Places(a) = {<<"in", Dest(a)>>}
      BY <1>1, <2>4 DEF Come
    <3> QED BY <3>1
  <2>5. CASE Taken(a)
    <3>1. arrived = {}
      BY <2>5 DEF Taken
    <3>2. Places(a) = {<<"own", Dest(a)>>}
      BY <1>1, <2>5, <3>1 DEF Taken
    <3> QED BY <3>2
  <2> QED BY <1>2, <2>1, <2>2, <2>3, <2>4, <2>5 DEF Placed
<1> QED BY <1>3, FS_Singleton

\* No leader leaves its n-th epoch change before every leader has sent its
\* accounts and taken in the ones that come in its own n-th, in whatever order
\* the maps are handled and the confirmations of SendSure reach handleSure; two
\* leaders that take the maps in the same order have then done the same maps.
THEOREM AllStopUntilAllDone == Spec => []StopUntilAllDone
  BY EpochInvariant, InvStop, PTL

\* The unlock of epochLock by the last confirmation always finds the lock held
\* by the epoch change: never free, and never held by a block.
THEOREM UnlocksWhatItLocked == Spec => []OnlyStoppedIsReleased
  BY EpochInvariant, InvReleased, PTL

\* An account that moves is at every moment in exactly one place: with its old
\* owner, in a SendOut, in a message, in an inacc_pool or with its new owner.
THEOREM AccountsInOnePlace == Spec => []OnePlace
  BY EpochInvariant, InvPlace, PTL
-----------------------------------------------------------------------------
\* A transaction follows the account it waits for: it is in the pool of its
\* first home, in what a message or the intake brings with the account, and in
\* the pool of whoever owns the account.
InPools(t) ==
    LET a == WaitsFor(t)
    IN  /\ t \in queue[Home[a]]
        /\ \A m \in msgs : m.type = "BalanceAndPending" =>
              \A b \in m.list : b.addr = a => t \in b.pending
        /\ \A s \in InAt(a) : t \in intx_pool[s]
        /\ \A s \in OwnAt(a) : t \in queue[s]
FollowInv ==
    /\ DOMAIN queue = Shards /\ DOMAIN intx_pool = Shards
    /\ \A t \in Txs \ packed : WaitsFor(t) \in Accounts => InPools(t)

\* SendOut collects a transaction for the account it waits for.
LEMMA WaiterCollects ==
    ASSUME NEW t \in Txs PROVE Collected(t, WaitsFor(t))
  BY EpochConstants DEF Collected, WaitsFor

\* A step that takes nothing out of the pools of t and brings no account into
\* a place.
LEMMA InPoolsKept ==
    ASSUME NEW t, InPools(t),
           \A s \in Shards : t \in queue[s] => t \in queue'[s],
           \A s \in Shards : t \in intx_pool[s] => t \in intx_pool'[s],
           Home[WaitsFor(t)] \in Shards,
           \A m \in msgs' : m.type = "BalanceAndPending" => m \in msgs,
           \A s \in Shards : s \in InAt(WaitsFor(t))' => s \in InAt(WaitsFor(t)),
           \A s \in Shards : s \in OwnAt(WaitsFor(t))' => s \in OwnAt(WaitsFor(t))
    PROVE  InPools(t)'
<1> DEFINE a == WaitsFor(t)
<1>1. InAt(a) \subseteq Shards /\ InAt(a)' \subseteq Shards
      /\ OwnAt(a) \subseteq Shards /\ OwnAt(a)' \subseteq Shards
  BY DEF InAt, OwnAt
<1> QED BY <1>1 DEF InPools

LEMMA FollowInit == Init => FollowInv
<1> SUFFICES ASSUME Init PROVE FollowInv
  OBVIOUS
<1>1. ASSUME NEW t \in Txs, WaitsFor(t) \in Accounts PROVE InPools(t)
  <2>1. OwnAt(WaitsFor(t)) = {Home[WaitsFor(t)]} /\ InAt(WaitsFor(t)) = {}
    BY <1>1, EpochConstants DEF Init, OwnAt, InAt
  <2> QED BY <1>1, <2>1, EpochConstants DEF Init, InPools
<1> QED BY <1>1 DEF Init, FollowInv

LEMMA FollowStep ==
    ASSUME IInv, FollowInv, [Next]_vars
    PROVE  FollowInv'
<1> DEFINE Kept(t) == /\ \A s \in Shards : t \in queue[s] => t \in queue'[s]
                      /\ \A s \in Shards : t \in intx_pool[s] => t \in intx_pool'[s]
           Where(a) == /\ \A s \in Shards : s \in InAt(a)' => s \in InAt(a)
                       /\ \A s \in Shards : s \in OwnAt(a)' => s \in OwnAt(a)
           News == \A m \in msgs' : m.type = "BalanceAndPending" => m \in msgs
<1>t. Typed
  BY DEF IInv
<1>0. ASSUME DOMAIN queue' = Shards, DOMAIN intx_pool' = Shards,
             packed \subseteq packed', News,
             \A t \in Txs \ packed' : Kept(t) /\ Where(WaitsFor(t))
      PROVE  FollowInv'
  <2>1. ASSUME NEW t \in Txs \ packed', WaitsFor(t) \in Accounts PROVE InPools(t)'
    <3>1. InPools(t) /\ Home[WaitsFor(t)] \in Shards
      BY <1>0, <2>1, EpochConstants DEF FollowInv
    <3>2. Kept(t) /\ Where(WaitsFor(t)) /\ News
      BY <1>0, <2>1
    <3> QED BY <3>1, <3>2, InPoolsKept
  <2>2. ASSUME NEW t \in Txs \ packed', WaitsFor(t)' \in Accounts PROVE InPools(t)'
    BY <2>1, <2>2 DEF WaitsFor
  <2> QED BY <1>0, <2>2 DEF FollowInv
<1> HIDE DEF Kept, Where, News
\* Blocks.
<1>1. ASSUME NEW s \in Shards, CommitBlock(s) PROVE FollowInv'
  <2>0. PICK block \in SUBSET queue[s] : \E left \in SUBSET block :
            /\ queue' = [queue EXCEPT ![s] = (@ \ block) \cup left]
            /\ packed' = packed \cup block
    BY <1>1 DEF CommitBlock
  <2>1. PICK left \in SUBSET block :
            /\ queue' = [queue EXCEPT ![s] = (@ \ block) \cup left]
            /\ packed' = packed \cup block
    BY <2>0
  <2>2. UNCHANGED <<AccountInOwnShard, inacc_pool, intx_pool, msgs>>
    BY <1>1 DEF CommitBlock, owned, intake
  <2>3. DOMAIN queue' = Shards /\ DOMAIN intx_pool' = Shards
    BY <2>1, <2>2 DEF FollowInv
  <2>4. \A t \in Txs \ packed' : Kept(t)
    BY <2>1, <2>2 DEF Kept, FollowInv
  <2>5. News /\ \A a : Where(a)
    BY <2>2 DEF News, Where, InAt, OwnAt
  <2> QED BY <1>0, <2>1, <2>3, <2>4, <2>5
\* Steps that leave pools and places alone.
<1>2. ASSUME UNCHANGED <<AccountInOwnShard, queue, packed, intake>>, News PROVE FollowInv'
  <2>1. \A a : Where(a)
    BY <1>2 DEF Where, InAt, OwnAt, intake
  <2>2. \A t : Kept(t)
    BY <1>2 DEF Kept, intake
  <2> QED BY <1>0, <1>2, <2>1, <2>2 DEF FollowInv, intake
<1>3. ASSUME NEW s \in Shards, mpropose(s) PROVE FollowInv'
  <2>1. /\ AccountInOwnShard' = [AccountInOwnShard EXCEPT ![s] = @ \ Leaving(s, maps[taken[s][msequenceID[s] + 1]])]
        /\ UNCHANGED <<queue, packed, inacc_pool, intx_pool, msgs>>
    BY <1>3 DEF mpropose, CommitEpochChange, pool
  <2>2. \A a : Where(a)
    BY <2>1, <1>t DEF Where, InAt, OwnAt, Typed
  <2>3. News /\ \A t : Kept(t)
    BY <2>1 DEF Kept, News
  <2> QED BY <1>0, <2>1, <2>2, <2>3 DEF FollowInv
\* What SendOut sends for an account comes from its first home.
<1>4. ASSUME NEW s \in Shards, NEW out \in outs[s], SendOut(s, out) PROVE FollowInv'
  <2>1. UNCHANGED <<AccountInOwnShard, queue, packed, inacc_pool, intx_pool>>
    BY <1>4 DEF SendOut, owned, pool, intake
  <2>2. ASSUME NEW t \in Txs \ packed', WaitsFor(t) \in Accounts PROVE InPools(t)'
    <3> DEFINE a == WaitsFor(t)
    <3>1. InPools(t) /\ t \notin packed
      BY <2>1, <2>2 DEF FollowInv
    <3>2. ASSUME NEW m \in msgs', m.type = "BalanceAndPending", m \notin msgs,
                 NEW b \in m.list, b.addr = a
          PROVE  t \in b.pending
      <4>1. m \in {[type |-> "BalanceAndPending", from |-> s, to |-> r,
                    list |-> {BalanceAndPending(s, c) : c \in {d \in DOMAIN out : out[d] = r}}]
                      : r \in {out[d] : d \in DOMAIN out}}
        BY <1>4, <3>2 DEF SendOut
      <4>2. PICK r : m.list = {BalanceAndPending(s, c) : c \in {d \in DOMAIN out : out[d] = r}}
        BY <4>1
      <4>3. PICK c \in DOMAIN out : b = BalanceAndPending(s, c)
        BY <3>2, <4>2
      <4>4. c = a /\ b.pending = {u \in queue[s] : Collected(u, a)}
        BY <3>2, <4>3 DEF BalanceAndPending
      <4>5. s \in OutAt(a)
        BY <4>4 DEF OutAt
      <4>6. Placed(a)
        BY <2>2 DEF IInv
      <4>7. OutAt(a) = {} \/ OutAt(a) = {Home[a]}
        BY <4>6 DEF Placed, AtHome, Out, Sent, Come, Taken
      <4>8. s = Home[a]
        BY <4>5, <4>7
      <4>9. t \in queue[s]
        BY <3>1, <4>8 DEF InPools
      <4> QED BY <2>2, <4>4, <4>9, WaiterCollects
    <3>3. InAt(a)' = InAt(a) /\ OwnAt(a)' = OwnAt(a)
      BY <2>1 DEF InAt, OwnAt
    <3> QED BY <2>1, <3>1, <3>2, <3>3 DEF InPools
  <2>3. ASSUME NEW t \in Txs \ packed', WaitsFor(t)' \in Accounts PROVE InPools(t)'
    BY <2>2, <2>3 DEF WaitsFor
  <2> QED BY <2>1, <2>3 DEF FollowInv
\* What a message brings goes to the intake ...
<1>5. ASSUME NEW s \in Shards, NEW m \in msgs, handleBalancesAndPendings(s, m) PROVE FollowInv'
  <2>1. /\ UNCHANGED <<AccountInOwnShard, queue, packed>> /\ msgs' = msgs \ {m}
        /\ inacc_pool' = [inacc_pool EXCEPT ![s] =
                            @ \cup {[addr |-> b.addr, balance |-> b.balance] : b \in m.list}]
        /\ intx_pool' = [intx_pool EXCEPT ![s] = @ \cup UNION {b.pending : b \in m.list}]
        /\ m.type = "BalanceAndPending"
    BY <1>5 DEF handleBalancesAndPendings, owned, pool
  <2>2. ASSUME NEW t \in Txs \ packed', WaitsFor(t) \in Accounts PROVE InPools(t)'
    <3> DEFINE a == WaitsFor(t)
    <3>1. InPools(t)
      BY <2>1, <2>2 DEF FollowInv
    <3>2. ASSUME NEW r \in InAt(a)' PROVE t \in intx_pool'[r]
      <4>1. r \in Shards /\ \E b \in inacc_pool'[r] : b.addr = a
        BY <3>2 DEF InAt
      <4>2. PICK b \in inacc_pool'[r] : b.addr = a
        BY <4>1
      <4>3. intx_pool[r] \subseteq intx_pool'[r]
        BY <2>1, <4>1 DEF FollowInv
      <4>4. CASE b \in inacc_pool[r]
        <5>1. r \in InAt(a)
          BY <4>1, <4>2, <4>4 DEF InAt
        <5> QED BY <3>1, <5>1, <4>3 DEF InPools
      <4>5. CASE b \notin inacc_pool[r]
        <5>1. r = s /\ b \in {[addr |-> c.addr, balance |-> c.balance] : c \in m.list}
          BY <2>1, <4>1, <4>5, <1>t DEF Typed
        <5>2. PICK c \in m.list : b = [addr |-> c.addr, balance |-> c.balance]
          BY <5>1
        <5>3. c.addr = a
          BY <4>2, <5>2
        <5>4. t \in c.pending
          BY <3>1, <2>1, <5>3 DEF InPools
        <5> QED BY <2>1, <5>1, <5>4 DEF FollowInv
      <4> QED BY <4>4, <4>5
    <3>3. OwnAt(a)' = OwnAt(a)
      BY <2>1 DEF OwnAt
    <3> QED BY <2>1, <3>1, <3>2, <3>3 DEF InPools
  <2>3. ASSUME NEW t \in Txs \ packed', WaitsFor(t)' \in Accounts PROVE InPools(t)'
    BY <2>2, <2>3 DEF WaitsFor
  <2> QED BY <2>1, <2>3 DEF FollowInv
\* ... and from there to the pool of the new owner.
<1>6. ASSUME NEW s \in Shards, spropose(s) PROVE FollowInv'
  <2>1. /\ AccountInOwnShard' = [AccountInOwnShard EXCEPT ![s] = @ \cup {b.addr : b \in inacc_pool[s]}]
        /\ queue' = [queue EXCEPT ![s] = @ \cup intx_pool[s]]
        /\ UNCHANGED <<packed, inacc_pool, intx_pool, msgs>>
    BY <1>6 DEF spropose, CommitAccState, intake
  <2>2. ASSUME NEW t \in Txs \ packed', WaitsFor(t) \in Accounts PROVE InPools(t)'
    <3> DEFINE a == WaitsFor(t)
    <3>1. InPools(t) /\ Home[a] \in Shards
      BY <2>1, <2>2, EpochConstants DEF FollowInv
    <3>2. \A r \in Shards : queue[r] \subseteq queue'[r]
      BY <2>1 DEF FollowInv
    <3>3. ASSUME NEW r \in OwnAt(a)' PROVE t \in queue'[r]
      <4>1. r \in Shards /\ a \in AccountInOwnShard'[r]
        BY <3>3 DEF OwnAt
      <4>2. CASE a \in AccountInOwnShard[r]
        <5>1. r \in OwnAt(a)
          BY <4>1, <4>2 DEF OwnAt
        <5> QED BY <3>1, <3>2, <4>1, <5>1 DEF InPools
      <4>3. CASE a \notin AccountInOwnShard[r]
        <5>1. r = s /\ \E b \in inacc_pool[s] : b.addr = a
          BY <2>1, <4>1, <4>3, <1>t DEF Typed
        <5>2. s \in InAt(a)
          BY <5>1 DEF InAt
        <5>3. t \in intx_pool[s]
          BY <3>1, <5>2 DEF InPools
        <5> QED BY <2>1, <5>1, <5>3 DEF FollowInv
      <4> QED BY <4>2, <4>3
    <3>4. InAt(a)' = InAt(a)
      BY <2>1 DEF InAt
    <3> QED BY <2>1, <3>1, <3>2, <3>3, <3>4 DEF InPools
  <2>3. ASSUME NEW t \in Txs \ packed', WaitsFor(t)' \in Accounts PROVE InPools(t)'
    BY <2>2, <2>3 DEF WaitsFor
  <2> QED BY <2>1, <2>3 DEF FollowInv
<1>7. ASSUME NEW s \in Shards, SendSure(s) PROVE FollowInv'
  <2>1. News /\ UNCHANGED <<AccountInOwnShard, queue, packed, intake>>
    BY <1>7 DEF SendSure, News, owned, pool
  <2> QED BY <1>2, <2>1
\* The two pools are emptied together.
<1>8. ASSUME NEW s \in Shards, CountOwnSure(s) PROVE FollowInv'
  <2>1. /\ UNCHANGED <<AccountInOwnShard, queue, packed, msgs>>
        /\ \/ UNCHANGED <<inacc_pool, intx_pool>>
           \/ /\ inacc_pool' = [inacc_pool EXCEPT ![s] = {}]
              /\ intx_pool' = [intx_pool EXCEPT ![s] = {}]
    BY <1>8 DEF CountOwnSure, owned, pool
  <2>2. ASSUME NEW t \in Txs \ packed', WaitsFor(t) \in Accounts PROVE InPools(t)'
    <3> DEFINE a == WaitsFor(t)
    <3>1. InPools(t)
      BY <2>1, <2>2 DEF FollowInv
    <3>2. OwnAt(a)' = OwnAt(a)
      BY <2>1 DEF OwnAt
    <3>3. ASSUME NEW r \in InAt(a)' PROVE t \in intx_pool'[r]
      <4>1. r \in Shards /\ \E b \in inacc_pool'[r] : b.addr = a
        BY <3>3 DEF InAt
      <4>2. inacc_pool'[r] = inacc_pool[r] /\ intx_pool'[r] = intx_pool[r]
        BY <2>1, <4>1, <1>t DEF Typed, FollowInv
      <4>3. r \in InAt(a)
        BY <4>1, <4>2 DEF InAt
      <4> QED BY <3>1, <4>2, <4>3 DEF InPools
    <3> QED BY <2>1, <3>1, <3>2, <3>3 DEF InPools
  <2>3. ASSUME NEW t \in Txs \ packed', WaitsFor(t)' \in Accounts PROVE InPools(t)'
    BY <2>2, <2>3 DEF WaitsFor
  <2> QED BY <2>1, <2>3 DEF FollowInv
<1>9. ASSUME NEW s \in Shards, NEW m \in msgs, handleSure(s, m) PROVE FollowInv'
  <2>1. News /\ UNCHANGED <<AccountInOwnShard, queue, packed, intake>>
    BY <1>9 DEF handleSure, News, owned, pool
  <2> QED BY <1>2, <2>1
<1>10. ASSUME NEW s \in Shards, NEW m \in msgs, handleNewMap(s, m) PROVE FollowInv'
  <2>1. News /\ UNCHANGED <<AccountInOwnShard, queue, packed, intake>>
    BY <1>10 DEF handleNewMap, News, owned, pool
  <2> QED BY <1>2, <2>1
<1>11. ASSUME NEW s \in Shards, ProposeStart(s) PROVE FollowInv'
  <2>1. News /\ UNCHANGED <<AccountInOwnShard, queue, packed, intake>>
    BY <1>11 DEF ProposeStart, News, owned, pool
  <2> QED BY <1>2, <2>1
<1>12. ASSUME SendNewAddr2Shard PROVE FollowInv'
  <2>1. News /\ UNCHANGED <<AccountInOwnShard, queue, packed, intake>>
    BY <1>12 DEF SendNewAddr2Shard, News, owned, pool
  <2> QED BY <1>2, <2>1
<1>13. ASSUME UNCHANGED vars PROVE FollowInv'
  <2>1. News /\ UNCHANGED <<AccountInOwnShard, queue, packed, intake>>
    BY <1>13 DEF vars, News, intake
  <2> QED BY <1>2, <2>1
<1> QED BY <1>1, <1>3, <1>4, <1>5, <1>6, <1>7, <1>8, <1>9, <1>10, <1>11, <1>12, <1>13
        DEF Next, Epoch, StartEpoch

LEMMA FollowSuffices == IInv /\ FollowInv => PendingFollows
<1> SUFFICES ASSUME IInv, FollowInv, NEW t \in Txs \ packed, NEW s \in Shards,
                    WaitsFor(t) \in AccountInOwnShard[s]
             PROVE  t \in queue[s]
  BY DEF PendingFollows
<1>1. WaitsFor(t) \in Accounts
  BY DEF IInv, Typed
<1>2. InPools(t) /\ s \in OwnAt(WaitsFor(t))
  BY <1>1 DEF FollowInv, OwnAt
<1> QED BY <1>2 DEF InPools

\* The transactions that SendOut collects for an account go with it: when it
\* has arrived, each that no block has taken yet is in its new owner's pool.
THEOREM PendingAlwaysFollows == Spec => []PendingFollows
<1>1. IInv /\ FollowInv /\ [Next]_vars => FollowInv'
  BY FollowStep
<1> QED BY <1>1, FollowInit, FollowSuffices, EpochInvariant, PTL DEF Spec
=============================================================================
