--------------------------- MODULE MigrationProofs ---------------------------
(***************************************************************************)
(* What is proved of live migration, for every set of shards and accounts, *)
(* every quota and every workload:                                         *)
(*   - the invariants of the abstract specification, for any number of     *)
(*     moves;                                                              *)
(*   - types and the agreement of maps and trie, for any number of rounds; *)
(*   - and, when the client migrates at most once, the inductive invariant *)
(*     of MigrationInv, the safety properties that follow from it, the     *)
(*     step simulation of Ownership and the client's counters, which are   *)
(*     the numbers of accounts whose move is not yet counted.              *)
(***************************************************************************)
EXTENDS MigrationRefinement, FiniteSetTheorems, TLAPS

\* Of picks a transaction of the account it is asked for.
LEMMA OfIsIn ==
    ASSUME NEW txs, NEW a \in Addrs(txs)
    PROVE  Of(txs, a) \in txs /\ Of(txs, a).addr = a
  BY DEF Of, Addrs

\* The number of shards is a number.
LEMMA CardinalShards == Cardinality(Shards) \in Nat
  BY ConstantsAssumption, FS_CardinalityType

\* A block touches finitely many accounts.
LEMMA TxCountType ==
    ASSUME NEW f
    PROVE  Cardinality({a \in Accounts : f[a] # 0}) \in Nat
  <1>1. IsFiniteSet({a \in Accounts : f[a] # 0})
    BY ConstantsAssumption, FS_Subset
  <1> QED BY <1>1, FS_CardinalityType

\* What a generated block is made of.
LEMMA BlockParts ==
    ASSUME TypeOK, NEW s \in Shards, NEW b \in GenerateBlock(s)
    PROVE  /\ b.TXmig1s \subseteq TXmig1_pool[s] /\ b.TXmig1s \subseteq TXmig1
           /\ b.TXmig2s \subseteq TXmig2_pool[s] /\ b.TXmig2s \subseteq TXmig2
           /\ b.Anns \subseteq TXann_pool[s] /\ b.Anns \subseteq TXann
           /\ b.NSs \subseteq TXns_pool[s] /\ b.NSs \subseteq TXns
           /\ b.Txs \in [Accounts -> Int]
           /\ \A a \in Accounts : b.Txs[a] < 0 => a \in AccountInOwnShard[s]
  BY ConstantsAssumption DEF GenerateBlock, TypeOK

\* The values a block computes have the right types.
LEMMA BlockTypes ==
    ASSUME TypeOK, NEW s \in Shards, NEW b \in GenerateBlock(s),
           NEW last \in LastAnns(b.Anns), NEW a \in Accounts
    PROVE  /\ Executed(s, b, a) \in Int
           /\ OutBalance(s, b, a) \in Int
           /\ NewBalance(s, b, a) \in Int
           /\ NewMigrate(s, b, a) \in Shards \cup {NoShard}
           /\ NewLocation(s, b, last, a) \in Shards
  <1> USE BlockParts
  <1>1. Executed(s, b, a) \in Int
    BY DEF Executed
  <1>2. MigratedIn(s, b, a) \in Int
    <2>1. CASE a \in Addrs(b.TXmig2s)
      BY <2>1, OfIsIn DEF MigratedIn, TXmig2
    <2>2. CASE a \notin Addrs(b.TXmig2s)
      BY <2>2 DEF MigratedIn, TypeOK
    <2> QED BY <2>1, <2>2
  <1>3. OutBalance(s, b, a) \in Int
    BY <1>1, <1>2 DEF OutBalance
  <1>4. NewBalance(s, b, a) \in Int
    <2>1. CASE a \in Addrs(b.NSs)
      BY <2>1, <1>3, OfIsIn DEF NewBalance, TXns
    <2>2. CASE a \notin Addrs(b.NSs)
      BY <2>2, <1>3 DEF NewBalance
    <2> QED BY <2>1, <2>2
  <1>5. NewMigrate(s, b, a) \in Shards \cup {NoShard}
    <2>1. a \in Addrs(b.TXmig1s) => Of(b.TXmig1s, a).to \in Shards
      BY OfIsIn DEF TXmig1
    <2>2. Migrate[s][a] \in Shards \cup {NoShard}
      BY DEF TypeOK
    <2> QED BY <2>1, <2>2 DEF NewMigrate
  <1>6. NewLocation(s, b, last, a) \in Shards
    <2>1. a \in Addrs(b.Anns) => last[a].to \in Shards
      BY DEF LastAnns, TXann
    <2> QED BY <2>1 DEF NewLocation, TypeOK
  <1> QED BY <1>1, <1>3, <1>4, <1>5, <1>6

-----------------------------------------------------------------------------
(* Type correctness *)

\* The initial state is well typed.
LEMMA InitType == Init => TypeOK
  <1> SUFFICES ASSUME Init PROVE TypeOK
    OBVIOUS
  <1>1. Cardinality(Shards) \in Int
    BY CardinalShards
  <1> QED BY <1>1, ConstantsAssumption DEF Init, TypeOK, Reqs

\* A block, with all that commit1 does after it, keeps every type.
LEMMA BlockType ==
    ASSUME TypeOK, NEW s \in Shards, ProduceBlock(s)
    PROVE  TypeOK'
  <1>1. PICK b \in GenerateBlock(s) : \E last \in LastAnns(b.Anns) :
           FetchedFromPools(s, b) /\ commit1(s, b, last)
    BY DEF ProduceBlock
  <1>2. PICK last \in LastAnns(b.Anns) : FetchedFromPools(s, b) /\ commit1(s, b, last)
    BY <1>1
  <1>p. /\ b.TXmig1s \subseteq TXmig1 /\ b.TXmig2s \subseteq TXmig2
        /\ b.Anns \subseteq TXann /\ b.NSs \subseteq TXns
    BY BlockParts
  <1>v. \A a \in Accounts :
           /\ Executed(s, b, a) \in Int
           /\ OutBalance(s, b, a) \in Int
           /\ NewBalance(s, b, a) \in Int
           /\ NewMigrate(s, b, a) \in Shards \cup {NoShard}
           /\ NewLocation(s, b, last, a) \in Shards
    BY BlockTypes
  <1>3. Balance' \in [Shards -> [Accounts -> Int]]
    BY <1>2, <1>v DEF commit1, UpdateTree, TypeOK
  <1>4. Migrate' \in [Shards -> [Accounts -> Shards \cup {NoShard}]]
    BY <1>2, <1>v DEF commit1, UpdateTree, TypeOK
  <1>5. Location' \in [Shards -> [Accounts -> Shards]]
    BY <1>2, <1>v DEF commit1, UpdateTree, TypeOK
  <1>6. ledger' \in [Accounts -> Int] /\ executed' \in Nat
    <2>1. ledger' \in [Accounts -> Int]
      BY <1>2, <1>v DEF commit1, UpdateTree, TypeOK
    <2>2. Cardinality({a \in Accounts : b.Txs[a] # 0}) \in Nat
      BY TxCountType, Zenon
    <2>3. executed' \in Nat
      BY <1>2, <2>2 DEF commit1, UpdateTree, TypeOK
    <2> QED BY <2>1, <2>3
  <1>7. AccountInOwnShard' \in [Shards -> SUBSET Accounts]
    BY <1>2, <1>p DEF commit1, UpdateMaps, NewOwn, NewShard, TypeOK, Addrs, TXmig2
  <1>8. Account2Shard' \in [Shards -> [Accounts -> Shards]]
    <2>1. \A a \in Addrs(b.Anns) : last[a].to \in Shards
      BY <1>p DEF LastAnns, TXann
    <2> QED BY <1>2, <2>1 DEF commit1, UpdateMaps, NewOwn, NewShard, TypeOK
  <1>9. /\ BalanceBeforeOut' \in [Shards -> [Accounts -> Int \cup {NoBalance}]]
        /\ Outing_Acc_Before_Announce' \in [Shards -> SUBSET Accounts]
        /\ Outing_Acc_After_Announce' \in [Shards -> SUBSET Accounts]
    <2>1. BalanceBeforeOut' \in [Shards -> [Accounts -> Int \cup {NoBalance}]]
      BY <1>2, <1>v DEF commit1, UpdateFlags, HandedOver, TypeOK
    <2>2. Outing_Acc_Before_Announce' \in [Shards -> SUBSET Accounts]
      BY <1>2, <1>p DEF commit1, UpdateFlags, HandedOver, TypeOK, Addrs, TXmig1
    <2>3. Outing_Acc_After_Announce' \in [Shards -> SUBSET Accounts]
      BY <1>2 DEF commit1, UpdateFlags, HandedOver, TypeOK
    <2> QED BY <2>1, <2>2, <2>3
  <1>10. /\ TXmig1_pool' \in [Shards -> SUBSET TXmig1]
         /\ TXmig2_pool' \in [Shards -> SUBSET TXmig2]
         /\ TXann_pool' \in [Shards -> SUBSET TXann]
         /\ TXns_pool' \in [Shards -> SUBSET TXns]
         /\ cReply' \subseteq SUBSET TXns
    BY <1>2, <1>p DEF FetchedFromPools, commit1, TypeOK
  <1>11. mpAndSends' \in [Shards -> SUBSET Job]
    <2> DEFINE job == [anns  |-> {t \in b.Anns : t.addr \in Deleted(s, b)},
                       state |-> [a \in Accounts |-> NewBalance(s, b, a)]]
    <2>1. job \in Job
      BY <1>p, <1>v DEF Job
    <2>2. \/ mpAndSends' = mpAndSends
          \/ mpAndSends' = [mpAndSends EXCEPT ![s] = @ \cup {job}]
      BY <1>2 DEF commit1, GoMpAndSend, StateOf
    <2>3. mpAndSends \in [Shards -> SUBSET Job]
      BY DEF TypeOK
    <2> HIDE DEF job
    <2> QED BY <2>1, <2>2, <2>3
  <1>12. cTXmig1' \subseteq TXmig2
    <2>1. \A t \in b.TXmig1s :
             [addr |-> t.addr, from |-> t.from, to |-> t.to, req |-> t.req,
              value |-> OutBalance(s, b, t.addr)] \in TXmig2
      BY <1>p, <1>v DEF TXmig1, TXmig2
    <2> QED BY <1>2, <2>1 DEF commit1, TryTXmig1, ToTXmig2, TypeOK
  <1>13. cAnnounce' \subseteq AnnounceMsg
    <2> DEFINE anns == {[addr |-> t.addr, to |-> s, req |-> t.req] : t \in b.TXmig2s}
    <2>1. anns \subseteq TXann
      BY <1>p DEF TXmig2, TXann
    <2>2. \A d \in (Shards \ {s}) \cup {Client} :
             [dst |-> d, shard |-> s, TXanns |-> anns] \in AnnounceMsg
      BY <2>1 DEF AnnounceMsg
    <2>3. cAnnounce' \subseteq cAnnounce \cup
             {[dst |-> d, shard |-> s, TXanns |-> anns] : d \in (Shards \ {s}) \cup {Client}}
      BY <1>2 DEF commit1, TryAnnounce, Told
    <2> HIDE DEF anns
    <2> QED BY <2>2, <2>3 DEF TypeOK
  <1>14. /\ clientMap' \in [Accounts -> Shards] /\ OnlyOnce' \in Reqs
         /\ num_of_shard_not_sending_pending' \in Int
         /\ cMigrateWanted' \subseteq Shards /\ cPendingTXs' \subseteq Shards
         /\ cNewMap' \subseteq NewMapMsg /\ cCaP' \subseteq CaPMsg
         /\ cNumOfMigratedTXsAddrs' \subseteq SUBSET TXann
         /\ cUnchangedState' \subseteq SUBSET TXann
         /\ crashed' \subseteq Shards \cup {Client}
    BY <1>2 DEF commit1, TypeOK, counters
  <1> QED
    BY <1>3, <1>4, <1>5, <1>6, <1>7, <1>8, <1>9, <1>10, <1>11, <1>12, <1>13, <1>14 DEF TypeOK

\* mpAndSend keeps every type, whether or not it meets a nil pointer.
LEMMA MpAndSendType ==
    ASSUME TypeOK, NEW s \in Shards, NEW job \in mpAndSends[s], mpAndSend(s, job)
    PROVE  TypeOK'
  <1>1. job \in Job
    BY DEF TypeOK
  <1>2. mpAndSends' \in [Shards -> SUBSET Job]
    BY DEF mpAndSend, TypeOK
  <1>3. CASE crashed' = crashed \cup {s} /\ UNCHANGED <<BalanceBeforeOut, cCaP, cUnchangedState>>
    BY <1>2, <1>3 DEF mpAndSend, TypeOK, tries, pools, counters, history
  <1>4. CASE ~(crashed' = crashed \cup {s} /\ UNCHANGED <<BalanceBeforeOut, cCaP, cUnchangedState>>)
    <2> DEFINE changed == {t \in job.anns : Change(s, job, t) # 0}
               ns(t) == [addr |-> t.addr, to |-> t.to, req |-> t.req,
                         change |-> Change(s, job, t)]
               msg(d) == [to |-> d, List |-> {t \in job.anns : t.to = d},
                          TXnss |-> {ns(t) : t \in {u \in changed : u.to = d}}]
    <2>1. /\ \A t \in job.anns : BalanceBeforeOut[s][t.addr] # NoBalance
          /\ BalanceBeforeOut' =
               [BalanceBeforeOut EXCEPT ![s] =
                  [a \in Accounts |-> IF a \in Addrs(job.anns) THEN NoBalance ELSE @[a]]]
          /\ cCaP' = cCaP \cup {msg(d) : d \in {t.to : t \in job.anns}}
          /\ cUnchangedState' = cUnchangedState \cup ({job.anns \ changed} \ {{}})
          /\ UNCHANGED crashed
      BY <1>4 DEF mpAndSend
    <2>2. BalanceBeforeOut' \in [Shards -> [Accounts -> Int \cup {NoBalance}]]
      BY <2>1 DEF TypeOK
    <2>3. \A t \in job.anns : ns(t) \in TXns
      <3> SUFFICES ASSUME NEW t \in job.anns PROVE ns(t) \in TXns
        OBVIOUS
      <3>1. t \in TXann /\ t.addr \in Accounts /\ job.state[t.addr] \in Int
        BY <1>1 DEF Job, TXann
      <3>2. BalanceBeforeOut[s][t.addr] \in Int
        <4>1. BalanceBeforeOut[s][t.addr] # NoBalance
          BY <2>1
        <4>2. BalanceBeforeOut[s][t.addr] \in Int \cup {NoBalance}
          BY <3>1 DEF TypeOK
        <4> QED BY <4>1, <4>2
      <3>3. Change(s, job, t) \in Int
        BY <3>1, <3>2 DEF Change
      <3> QED BY <3>1, <3>3 DEF TXann, TXns
    <2>4. \A d \in {t.to : t \in job.anns} : msg(d) \in CaPMsg
      <3> HIDE DEF ns
      <3> QED BY <1>1, <2>3 DEF CaPMsg, Job, TXann
    <2>5. cCaP' \subseteq CaPMsg
      <3> HIDE DEF msg
      <3> QED BY <2>1, <2>4 DEF TypeOK
    <2>6. cUnchangedState' \subseteq SUBSET TXann
      <3> HIDE DEF changed
      <3> QED BY <2>1, <1>1 DEF TypeOK, Job
    <2>7. crashed' \subseteq Shards \cup {Client}
      BY <2>1 DEF TypeOK
    <2> HIDE DEF changed, ns, msg
    <2> QED BY <1>2, <2>2, <2>5, <2>6, <2>7 DEF mpAndSend, TypeOK, tries, pools, counters, history
  <1> QED BY <1>3, <1>4

\* The leaders' message handlers keep every type.
LEMMA ShardHandlersType ==
    ASSUME TypeOK
    PROVE  /\ \A s \in Shards : handleMigrateWanted(s) => TypeOK'
           /\ \A m \in cNewMap : handleNewMap(m) => TypeOK'
           /\ \A t \in cTXmig1 : handleMig2(t) => TypeOK'
           /\ \A m \in cAnnounce : handleAnnounce(m) => TypeOK'
           /\ \A m \in cCaP : handleChangesAndPendings(m) => TypeOK'
  <1> USE DEF tries, flags, pools, counters, toClient, history
  <1>1. ASSUME NEW s \in Shards, handleMigrateWanted(s) PROVE TypeOK'
    BY <1>1 DEF handleMigrateWanted, TypeOK
  <1>2. ASSUME NEW m \in cNewMap, handleNewMap(m) PROVE TypeOK'
    <2>1. m \in NewMapMsg
      BY DEF TypeOK
    <2> DEFINE new == {[addr |-> a, from |-> m.shard, to |-> m.map[a], req |-> m.req] :
                         a \in {a \in AccountInOwnShard[m.shard] : m.map[a] \notin {m.shard, NoShard}}}
    <2>2. new \subseteq TXmig1
      BY <2>1 DEF NewMapMsg, TXmig1, TypeOK
    <2>3. TXmig1_pool' = [TXmig1_pool EXCEPT ![m.shard] = @ \cup new]
      BY <1>2 DEF handleNewMap
    <2> HIDE DEF new
    <2>4. TXmig1_pool' \in [Shards -> SUBSET TXmig1]
      BY <2>2, <2>3 DEF TypeOK
    <2> QED BY <1>2, <2>4 DEF handleNewMap, TypeOK
  <1>3. ASSUME NEW t \in cTXmig1, handleMig2(t) PROVE TypeOK'
    <2>1. TXmig2_pool' \in [Shards -> SUBSET TXmig2]
      BY <1>3 DEF handleMig2, TypeOK
    <2> QED BY <1>3, <2>1 DEF handleMig2, TypeOK
  <1>4. ASSUME NEW m \in cAnnounce, handleAnnounce(m) PROVE TypeOK'
    <2>1. m.TXanns \subseteq TXann
      BY DEF TypeOK, AnnounceMsg
    <2>2. TXann_pool' \in [Shards -> SUBSET TXann]
      BY <1>4, <2>1 DEF handleAnnounce, TypeOK
    <2>3. Outing_Acc_After_Announce' \in [Shards -> SUBSET Accounts]
      BY <1>4 DEF handleAnnounce, TypeOK
    <2> QED BY <1>4, <2>2, <2>3 DEF handleAnnounce, TypeOK
  <1>5. ASSUME NEW m \in cCaP, handleChangesAndPendings(m) PROVE TypeOK'
    <2>1. m \in CaPMsg
      BY DEF TypeOK
    <2>2. CASE m.TXnss = {} /\ cCaP' = cCaP \ {m} /\ UNCHANGED TXns_pool
                /\ cNumOfMigratedTXsAddrs' = cNumOfMigratedTXsAddrs \cup {m.List}
      BY <1>5, <2>1, <2>2 DEF handleChangesAndPendings, TypeOK, CaPMsg
    <2>3. ASSUME NEW ns \in m.TXnss,
                 cCaP' = (cCaP \ {m}) \cup {[m EXCEPT !.TXnss = @ \ {ns}]},
                 TXns_pool' = [TXns_pool EXCEPT ![m.to] = @ \cup {ns}],
                 UNCHANGED cNumOfMigratedTXsAddrs
          PROVE  TypeOK'
      <3>1. ns \in TXns /\ [m EXCEPT !.TXnss = @ \ {ns}] \in CaPMsg
        BY <2>1 DEF CaPMsg
      <3>2. cCaP' \subseteq CaPMsg
        BY <3>1, <2>3 DEF TypeOK
      <3>3. TXns_pool' \in [Shards -> SUBSET TXns]
        <4>1. TXns_pool \in [Shards -> SUBSET TXns] /\ m.to \in Shards
          BY <2>1 DEF TypeOK, CaPMsg
        <4> QED BY <4>1, <3>1, <2>3
      <3> QED BY <1>5, <2>3, <3>2, <3>3 DEF handleChangesAndPendings, TypeOK
    <2> QED BY <1>5, <2>2, <2>3 DEF handleChangesAndPendings
  <1> QED BY <1>1, <1>2, <1>3, <1>4, <1>5

\* The client's handlers keep every type.
LEMMA ClientType ==
    ASSUME TypeOK, ClientStep
    PROVE  TypeOK'
  <1> USE DEF shardVars, tries, flags, pools, counters, toShards, toClient, history
  <1>1. ASSUME NEW nss \in cReply \cup {{}}, NEW due \in BOOLEAN, HandleReply(nss, due)
        PROVE  TypeOK'
    <2>1. OnlyOnce' \in Reqs
      BY <1>1, ConstantsAssumption DEF HandleReply, RoundDue, TypeOK, Reqs
    <2> QED BY <1>1, <2>1 DEF HandleReply, RoundDue, TypeOK
  <1>2. ASSUME NEW m \in cAnnounce, HandleAnnounce(m) PROVE TypeOK'
    <2>1. m.shard \in Shards
      BY DEF TypeOK, AnnounceMsg
    <2>2. clientMap' \in [Accounts -> Shards]
      BY <1>2, <2>1 DEF HandleAnnounce, TypeOK
    <2> QED BY <1>2, <2>2 DEF HandleAnnounce, TypeOK
  <1>3. ASSUME NEW s \in cPendingTXs, HandlePendingTXs(s) PROVE TypeOK'
    <2>1. cNewMap' \subseteq NewMapMsg
      <3>1. CASE UNCHANGED cNewMap
        BY <3>1 DEF TypeOK
      <3>2. ASSUME NEW new_addr2shard \in [Accounts -> Shards \cup {NoShard}],
                   cNewMap' = cNewMap \cup
                     {[shard |-> d, map |-> new_addr2shard, req |-> OnlyOnce] : d \in Shards}
            PROVE  cNewMap' \subseteq NewMapMsg
        BY <3>2 DEF TypeOK, NewMapMsg
      <3> QED BY <1>3, <3>1, <3>2 DEF HandlePendingTXs
    <2>2. num_of_shard_not_sending_pending' \in Int
      BY <1>3, CardinalShards DEF HandlePendingTXs, TypeOK
    <2> QED BY <1>3, <2>1, <2>2 DEF HandlePendingTXs, TypeOK
  <1>4. ASSUME NEW list \in cNumOfMigratedTXsAddrs, HandleNumOfMigratedTXsAddrs(list)
        PROVE  TypeOK'
    BY <1>4 DEF HandleNumOfMigratedTXsAddrs, TypeOK
  <1>5. ASSUME NEW anns \in cUnchangedState, HandleUnchangedState(anns) PROVE TypeOK'
    BY <1>5 DEF HandleUnchangedState, TypeOK
  <1> QED BY <1>1, <1>2, <1>3, <1>4, <1>5 DEF ClientStep

\* Every step keeps every type.
LEMMA NextType == TypeOK /\ [Next]_vars => TypeOK'
  <1> SUFFICES ASSUME TypeOK, [Next]_vars PROVE TypeOK'
    OBVIOUS
  <1>1. CASE UNCHANGED vars
    BY <1>1 DEF vars, tries, flags, pools, counters, toShards, toClient, history, TypeOK
  <1>2. ASSUME NEW s \in Shards, Shard(s) PROVE TypeOK'
    BY <1>2, BlockType, MpAndSendType, ShardHandlersType DEF Shard
  <1>3. CASE Deliver
    BY <1>3, ShardHandlersType DEF Deliver
  <1>4. CASE ClientStep
    BY <1>4, ClientType
  <1> QED BY <1>1, <1>2, <1>3, <1>4 DEF Next

\* Every variable of the leaders, the client and the network keeps its type
\* under every interleaving of blocks, handlers and deliveries; in particular
\* every transaction that a block, mpAndSend or a handler derives from another
\* is well formed.
THEOREM TypeCorrect == Spec => []TypeOK
  BY InitType, NextType, PTL DEF Spec

-----------------------------------------------------------------------------
(* The shards' maps, for any number of rounds *)

\* A block moves the maps and the trie to the same place.
LEMMA BlockMaps ==
    ASSUME MapsInv, NEW s \in Shards, ProduceBlock(s)
    PROVE  TrieMatchesMemory' /\ AnnouncedElsewhere'
  <1>1. PICK b \in GenerateBlock(s) : \E last \in LastAnns(b.Anns) :
           FetchedFromPools(s, b) /\ commit1(s, b, last)
    BY DEF ProduceBlock
  <1>2. PICK last \in LastAnns(b.Anns) : FetchedFromPools(s, b) /\ commit1(s, b, last)
    BY <1>1
  <1>t. /\ TypeOK /\ TrieMatchesMemory /\ AnnouncedElsewhere
        /\ b.Anns \subseteq TXann_pool[s] /\ b.TXmig2s \subseteq TXmig2
    BY BlockParts DEF MapsInv
  <1>3. \A a \in Addrs(b.Anns) : last[a].to # s
    BY <1>t DEF LastAnns, AnnouncedElsewhere
  <1>4. Location'[s] = Account2Shard'[s]
    <2>1. Location'[s] = [a \in Accounts |-> NewLocation(s, b, last, a)]
      BY <1>2, <1>t DEF commit1, UpdateTree, TypeOK
    <2>2. Account2Shard'[s] = [a \in Accounts |->
             IF a \in Addrs(b.Anns) THEN last[a].to
             ELSE IF a \in Addrs(b.TXmig2s) THEN s ELSE Account2Shard[s][a]]
      BY <1>2, <1>t DEF commit1, UpdateMaps, NewOwn, NewShard, TypeOK
    <2>3. Location[s] = Account2Shard[s]
      BY <1>t DEF TrieMatchesMemory
    <2> QED BY <2>1, <2>2, <2>3 DEF NewLocation
  <1>5. AccountInOwnShard'[s] = {a \in Accounts : Location'[s][a] = s}
    <2>1. AccountInOwnShard'[s] = (AccountInOwnShard[s] \cup Addrs(b.TXmig2s)) \ Deleted(s, b)
      BY <1>2, <1>t DEF commit1, UpdateMaps, NewOwn, NewShard, TypeOK
    <2>2. \A a \in Accounts : Location'[s][a] = NewLocation(s, b, last, a)
      BY <1>2, <1>t DEF commit1, UpdateTree, TypeOK
    <2>3. /\ Addrs(b.TXmig2s) \subseteq Accounts
          /\ AccountInOwnShard[s] = {a \in Accounts : Location[s][a] = s}
      BY <1>t DEF Addrs, TXmig2, TrieMatchesMemory
    <2> QED BY <1>3, <2>1, <2>2, <2>3 DEF Deleted, NewLocation
  <1>6. \A r \in Shards \ {s} : /\ Location'[r] = Location[r]
                                /\ Account2Shard'[r] = Account2Shard[r]
                                /\ AccountInOwnShard'[r] = AccountInOwnShard[r]
    BY <1>2, <1>t DEF commit1, UpdateTree, UpdateMaps, NewOwn, NewShard, TypeOK
  <1>7. TrieMatchesMemory'
    BY <1>t, <1>4, <1>5, <1>6 DEF TrieMatchesMemory
  <1>8. \A r \in Shards : TXann_pool'[r] \subseteq TXann_pool[r]
    BY <1>2, <1>t DEF FetchedFromPools, TypeOK
  <1>9. \A m \in cAnnounce' : m.dst # m.shard /\ \A t \in m.TXanns : t.to = m.shard
    BY <1>2, <1>t, ConstantsAssumption DEF commit1, TryAnnounce, Told, AnnouncedElsewhere
  <1> QED BY <1>t, <1>7, <1>8, <1>9 DEF AnnouncedElsewhere

\* Every other step leaves the maps alone and announcements where they belong.
LEMMA NextMaps == MapsInv /\ [Next]_vars => MapsInv'
  <1> SUFFICES ASSUME MapsInv, [Next]_vars PROVE MapsInv'
    OBVIOUS
  <1> USE DEF tries, flags, pools, shardVars, vars, toShards
  <1>t. TypeOK /\ TypeOK' /\ TrieMatchesMemory /\ AnnouncedElsewhere
    BY NextType DEF MapsInv
  <1>1. ASSUME UNCHANGED <<Location, Account2Shard, AccountInOwnShard, TXann_pool, cAnnounce>>
        PROVE  MapsInv'
    BY <1>t, <1>1 DEF MapsInv, TrieMatchesMemory, AnnouncedElsewhere
  <1>2. ASSUME NEW s \in Shards, Shard(s) PROVE MapsInv'
    <2>1. CASE ProduceBlock(s)
      BY <1>t, <2>1, BlockMaps DEF MapsInv
    <2>2. CASE handleMigrateWanted(s) \/ \E job \in mpAndSends[s] : mpAndSend(s, job)
      BY <1>1, <2>2 DEF handleMigrateWanted, mpAndSend
    <2> QED BY <1>2, <2>1, <2>2 DEF Shard
  <1>3. ASSUME NEW m \in cAnnounce, handleAnnounce(m) PROVE MapsInv'
    <2>1. \A r \in Shards : \A t \in TXann_pool'[r] :
             t \in TXann_pool[r] \/ (r = m.dst /\ t \in m.TXanns)
      BY <1>t, <1>3 DEF handleAnnounce, TypeOK
    <2>2. /\ cAnnounce' \subseteq cAnnounce
          /\ UNCHANGED <<Location, Account2Shard, AccountInOwnShard>>
      BY <1>3 DEF handleAnnounce
    <2> QED BY <1>t, <2>1, <2>2 DEF MapsInv, TrieMatchesMemory, AnnouncedElsewhere
  <1>4. ASSUME NEW m \in cAnnounce, HandleAnnounce(m) PROVE MapsInv'
    <2>1. /\ cAnnounce' \subseteq cAnnounce
          /\ UNCHANGED <<Location, Account2Shard, AccountInOwnShard, TXann_pool>>
      BY <1>4 DEF HandleAnnounce
    <2> QED BY <1>t, <2>1 DEF MapsInv, TrieMatchesMemory, AnnouncedElsewhere
  <1>5. CASE Deliver
    BY <1>1, <1>3, <1>5 DEF Deliver, handleNewMap, handleMig2, handleChangesAndPendings
  <1>6. CASE ClientStep
    BY <1>1, <1>4, <1>6 DEF ClientStep, HandleReply, RoundDue, HandlePendingTXs,
                            HandleNumOfMigratedTXsAddrs, HandleUnchangedState
  <1>7. CASE UNCHANGED vars
    BY <1>1, <1>7
  <1> QED BY <1>2, <1>5, <1>6, <1>7 DEF Next

\* However many rounds the client starts and however late announcements are,
\* every leader's maps (AddBlock, handleAnns) and its trie
\* (getUpdatedTreeOfState) place every account on the same shard.
THEOREM MapsAgree == Spec => []TrieMatchesMemory
  <1>1. Init => MapsInv
    BY InitType DEF Init, MapsInv, TrieMatchesMemory, AnnouncedElsewhere
  <1>2. MapsInv => TrieMatchesMemory
    BY DEF MapsInv
  <1> QED BY <1>1, <1>2, NextMaps, PTL DEF Spec

-----------------------------------------------------------------------------
(* Frames: a step leaves one part of what matters to account a alone.      *)

FrameMig1(a) ==
    \A r \in Shards : \A t \in TXmig1 : t.addr = a =>
        (t \in TXmig1_pool'[r] <=> t \in TXmig1_pool[r])
FrameMig2(a) ==
    /\ \A t \in TXmig2 : t.addr = a => (t \in cTXmig1' <=> t \in cTXmig1)
    /\ \A r \in Shards : \A t \in TXmig2 : t.addr = a =>
          (t \in TXmig2_pool'[r] <=> t \in TXmig2_pool[r])
FrameAnn(a) ==
    /\ \A r \in Shards : \A t \in TXann : t.addr = a =>
          (t \in TXann_pool'[r] <=> t \in TXann_pool[r])
    /\ \A m \in cAnnounce' : m \in cAnnounce \/ \A t \in m.TXanns : t.addr # a
    /\ \A m \in cAnnounce : m \in cAnnounce' \/ \A t \in m.TXanns : t.addr # a
FrameJob(a) ==
    \A r \in Shards :
        /\ \A j \in mpAndSends'[r] : j \in mpAndSends[r] \/ \A t \in j.anns : t.addr # a
        /\ \A j \in mpAndSends[r] : j \in mpAndSends'[r] \/ \A t \in j.anns : t.addr # a
FrameNs(a) ==
    /\ \A r \in Shards : \A t \in TXns : t.addr = a =>
          (t \in TXns_pool'[r] <=> t \in TXns_pool[r])
    /\ \A m \in cCaP' : m \in cCaP \/ \A t \in m.TXnss : t.addr # a
    /\ \A m \in cCaP : m \in cCaP' \/ \A t \in m.TXnss : t.addr # a
FrameOwn(a) ==
    \A r \in Shards :
        /\ a \in AccountInOwnShard'[r] <=> a \in AccountInOwnShard[r]
        /\ Location'[r][a] = r <=> Location[r][a] = r
        /\ Migrate'[r][a] = Migrate[r][a]
        /\ a \in Outing_Acc_Before_Announce'[r] <=> a \in Outing_Acc_Before_Announce[r]
FrameKept(a) == \A r \in Shards : BalanceBeforeOut'[r][a] = BalanceBeforeOut[r][a]

\* Shard s, which owns a unless e = 0, adds e to its copy of a.
Adds(a, s, e) ==
    /\ ledger'[a] = ledger[a] + e
    /\ Balance'[s][a] = Balance[s][a] + e
    /\ \A r \in Shards \ {s} : Balance'[r][a] = Balance[r][a]
    /\ e # 0 => a \in AccountInOwnShard[s]

-----------------------------------------------------------------------------
(* Each part of a stage under its frame *)

\* A step that leaves a's TXmig1s alone keeps what a stage says of them.
LEMMA KeepMig1 ==
    ASSUME TypeOK, TypeOK', NEW a \in Accounts, NEW d \in Shards, FrameMig1(a)
    PROVE  /\ NoMig1(a) => NoMig1(a)'
           /\ Mig1Waits(a, d) => Mig1Waits(a, d)'
  <1>1. \A r \in Shards : TXmig1_pool[r] \subseteq TXmig1 /\ TXmig1_pool'[r] \subseteq TXmig1
    BY DEF TypeOK
  <1>2. NoMig1(a) => NoMig1(a)'
    BY <1>1 DEF NoMig1, FrameMig1
  <1>3. ASSUME Mig1Waits(a, d) PROVE Mig1Waits(a, d)'
    BY <1>1, <1>3, ConstantsAssumption DEF Mig1Waits, FrameMig1
  <1> QED BY <1>2, <1>3

\* The same for a's TXmig2s, whose value is the balance kept at home.
LEMMA KeepMig2 ==
    ASSUME TypeOK, TypeOK', NEW a \in Accounts, NEW d \in Shards, FrameMig2(a)
    PROVE  /\ NoMig2(a) => NoMig2(a)'
           /\ Mig2Waits(a, d) /\ FrameKept(a) => Mig2Waits(a, d)'
  <1>1. \A r \in Shards : TXmig2_pool[r] \subseteq TXmig2 /\ TXmig2_pool'[r] \subseteq TXmig2
    BY DEF TypeOK
  <1>2. cTXmig1 \subseteq TXmig2 /\ cTXmig1' \subseteq TXmig2
    BY DEF TypeOK
  <1>3. NoMig2(a) => NoMig2(a)'
    BY <1>1, <1>2 DEF NoMig2, FrameMig2
  <1>4. ASSUME Mig2Waits(a, d), FrameKept(a) PROVE Mig2Waits(a, d)'
    <2> DEFINE t0 == Mig2Of(a, d)
    <2>1. t0' = t0 /\ t0.addr = a
      BY <1>4, ConstantsAssumption DEF Mig2Of, FrameKept
    <2> HIDE DEF t0
    <2>2. /\ \A t \in cTXmig1 : t.addr = a => t = t0
          /\ \A s \in Shards : \A t \in TXmig2_pool[s] : t.addr = a => s = d /\ t = t0
          /\ t0 \in cTXmig1 \/ t0 \in TXmig2_pool[d]
          /\ ~(t0 \in cTXmig1 /\ t0 \in TXmig2_pool[d])
      BY <1>4 DEF t0, Mig2Waits
    <2>3. /\ \A t \in cTXmig1' : t.addr = a => t = t0
          /\ \A s \in Shards : \A t \in TXmig2_pool'[s] : t.addr = a => s = d /\ t = t0
          /\ t0 \in cTXmig1' \/ t0 \in TXmig2_pool'[d]
          /\ ~(t0 \in cTXmig1' /\ t0 \in TXmig2_pool'[d])
      BY <1>1, <1>2, <2>1, <2>2 DEF FrameMig2
    <2> QED BY <2>1, <2>3 DEF t0, Mig2Waits
  <1> QED BY <1>3, <1>4

\* The same for a's announcements.
LEMMA KeepAnn ==
    ASSUME TypeOK, TypeOK', NEW a \in Accounts, NEW d \in Shards, FrameAnn(a)
    PROVE  /\ NoAnn(a) => NoAnn(a)'
           /\ NoAnnAt(a, Genesis[a]) => NoAnnAt(a, Genesis[a])'
           /\ AnnsFrom(a, d) => AnnsFrom(a, d)'
           /\ AnnWaits(a, d) => AnnWaits(a, d)'
  <1>1. \A r \in Shards : TXann_pool[r] \subseteq TXann /\ TXann_pool'[r] \subseteq TXann
    BY DEF TypeOK
  <1>2. AnnOf(a, d)' = AnnOf(a, d) /\ AnnOf(a, d).addr = a /\ Genesis[a] \in Shards
    BY ConstantsAssumption DEF AnnOf
  <1>3. NoAnn(a) => NoAnn(a)'
    BY <1>1 DEF NoAnn, FrameAnn
  <1>4. NoAnnAt(a, Genesis[a]) => NoAnnAt(a, Genesis[a])'
    BY <1>1, <1>2 DEF NoAnnAt, FrameAnn
  <1>5. AnnsFrom(a, d) => AnnsFrom(a, d)'
    BY <1>1, <1>2 DEF AnnsFrom, FrameAnn
  <1>6. AnnWaits(a, d) => AnnWaits(a, d)'
    BY <1>1, <1>2 DEF AnnWaits, FrameAnn
  <1> QED BY <1>3, <1>4, <1>5, <1>6

\* The same for the goroutines that handle a.
LEMMA KeepJob ==
    ASSUME NEW a \in Accounts, FrameJob(a)
    PROVE  NoJob(a) => NoJob(a)'
  BY DEF NoJob, FrameJob

\* The same for a's TXnss.
LEMMA KeepNs ==
    ASSUME TypeOK, TypeOK', NEW a \in Accounts, FrameNs(a)
    PROVE  NoNs(a) => NoNs(a)'
  <1>1. \A r \in Shards : TXns_pool[r] \subseteq TXns /\ TXns_pool'[r] \subseteq TXns
    BY DEF TypeOK
  <1> QED BY <1>1 DEF NoNs, FrameNs

\* The same for a's owners and marks.
LEMMA KeepOwn ==
    ASSUME NEW a \in Accounts, NEW d, FrameOwn(a)
    PROVE  /\ \A owners : OwnedBy(a, owners) => OwnedBy(a, owners)'
           /\ Unmarked(a) => Unmarked(a)'
           /\ MarkedFor(a, d) => MarkedFor(a, d)'
  BY DEF FrameOwn, OwnedBy, Unmarked, MarkedFor

\* The same for the balance kept at home.
LEMMA KeepKept ==
    ASSUME NEW a \in Accounts, FrameKept(a)
    PROVE  /\ NothingKept(a) => NothingKept(a)'
           /\ KeptAtHome(a) => KeptAtHome(a)'
  BY DEF FrameKept, NothingKept, KeptAtHome

-----------------------------------------------------------------------------
(* A step that has nothing to do with the move of a keeps a's stage.       *)

KeepsMig2(a) ==
    /\ NoMig2(a) => NoMig2(a)'
    /\ \A d \in Shards : Mig2Waits(a, d) => Mig2Waits(a, d)'
KeepsAnn(a) ==
    /\ NoAnn(a) => NoAnn(a)'
    /\ NoAnnAt(a, Genesis[a]) => NoAnnAt(a, Genesis[a])'
    /\ \A d \in Shards : AnnsFrom(a, d) => AnnsFrom(a, d)'
    /\ \A d \in Shards : AnnWaits(a, d) => AnnWaits(a, d)'
KeepsNs(a) ==
    /\ NoNs(a) => NoNs(a)'
    /\ \A d \in Shards, ns \in TXns : ns.addr = a /\ NsIs(a, d, ns) => NsIs(a, d, ns)'

Untouched(a, s, e) ==
    /\ FrameMig1(a) /\ KeepsMig2(a) /\ KeepsAnn(a) /\ FrameJob(a) /\ KeepsNs(a)
    /\ FrameOwn(a) /\ FrameKept(a) /\ Adds(a, s, e)

\* The frames of the messages imply that the stages keep their messages.
LEMMA FramesKeep ==
    ASSUME TypeOK, TypeOK', NEW a \in Accounts
    PROVE  /\ FrameMig2(a) /\ FrameKept(a) => KeepsMig2(a)
           /\ FrameAnn(a) => KeepsAnn(a)
           /\ FrameNs(a) => KeepsNs(a)
  <1>1. FrameMig2(a) /\ FrameKept(a) => KeepsMig2(a)
    <2>1. Genesis[a] \in Shards
      BY ConstantsAssumption
    <2> QED BY <2>1, KeepMig2 DEF KeepsMig2
  <1>2. FrameAnn(a) => KeepsAnn(a)
    <2>1. Genesis[a] \in Shards
      BY ConstantsAssumption
    <2> QED BY <2>1, KeepAnn DEF KeepsAnn
  <1>3. ASSUME FrameNs(a) PROVE KeepsNs(a)
    <2>1. \A r \in Shards : TXns_pool[r] \subseteq TXns /\ TXns_pool'[r] \subseteq TXns
      BY DEF TypeOK
    <2>2. ASSUME NEW d \in Shards, NEW ns \in TXns, ns.addr = a, NsIs(a, d, ns)
          PROVE  NsIs(a, d, ns)'
      BY <1>3, <2>1, <2>2 DEF NsIs, FrameNs
    <2> QED BY <1>3, <2>2, KeepNs DEF KeepsNs
  <1> QED BY <1>1, <1>2, <1>3

\* Balances are integers.
LEMMA BalanceTypes ==
    ASSUME TypeOK, NEW a \in Accounts
    PROVE  ledger[a] \in Int /\ \A s \in Shards : Balance[s][a] \in Int
  BY DEF TypeOK

\* An account at home stays there under a step that only executes transactions on it.
LEMMA KeepsHome ==
    ASSUME TypeOK, TypeOK', NEW a \in Accounts, NEW s \in Shards, NEW e \in Int,
           Untouched(a, s, e), AtHome(a)
    PROVE  AtHome(a)'
  <1>1. Genesis[a] \in Shards
    BY ConstantsAssumption
  <1>2. /\ NoMig1(a)' /\ NoMig2(a)' /\ NoAnn(a)' /\ NoJob(a)' /\ NoNs(a)'
        /\ OwnedBy(a, {Genesis[a]})' /\ Unmarked(a)' /\ NothingKept(a)'
    BY <1>1, KeepMig1, KeepJob, KeepOwn, KeepKept
    DEF AtHome, Untouched, KeepsMig2, KeepsAnn, KeepsNs
  <1>3. (Balance[Genesis[a]][a] = ledger[a])'
    <2>1. e = 0 \/ s = Genesis[a]
      BY <1>1 DEF AtHome, OwnedBy, Untouched, Adds
    <2>2. Balance[Genesis[a]][a] \in Int /\ ledger[a] \in Int
      BY <1>1, BalanceTypes
    <2> QED BY <1>1, <2>1, <2>2 DEF AtHome, Untouched, Adds
  <1> QED BY <1>2, <1>3 DEF AtHome

KeepsStage(a, d) ==
    /\ Asked(a, d) => Asked(a, d)'
    /\ Sent(a, d) => Sent(a, d)'
    /\ Shared(a, d) => Shared(a, d)'
    /\ Leaving(a, d) => Leaving(a, d)'
    /\ Settling(a, d) => Settling(a, d)'
    /\ Moved(a, d) => Moved(a, d)'

\* An account that moves keeps its stage under a step that only executes
\* transactions on one of its owners' copies.
LEMMA KeepsUnder ==
    ASSUME TypeOK, TypeOK', NEW a \in Accounts, NEW s \in Shards, NEW e \in Int,
           NEW d \in Shards \ {Genesis[a]}, Untouched(a, s, e)
    PROVE  KeepsStage(a, d) /\ (Under(a, d) => Under(a, d)')
  <1>g. Genesis[a] \in Shards
    BY ConstantsAssumption
  <1>i. /\ Balance[Genesis[a]][a] \in Int /\ Balance[d][a] \in Int /\ ledger[a] \in Int
    BY <1>g, BalanceTypes
  <1>k. /\ FrameMig1(a) /\ KeepsMig2(a) /\ KeepsAnn(a) /\ FrameJob(a) /\ KeepsNs(a)
        /\ FrameOwn(a) /\ FrameKept(a) /\ Adds(a, s, e)
    BY DEF Untouched
  <1> USE KeepMig1, KeepJob, KeepOwn, KeepKept DEF KeepsMig2, KeepsAnn, KeepsNs
  <1>1. ASSUME Asked(a, d) PROVE Asked(a, d)'
    <2>1. e = 0 \/ s = Genesis[a]
      BY <1>1, <1>g, <1>k DEF Asked, OwnedBy, Adds
    <2>2. (Balance[Genesis[a]][a] = ledger[a])'
      BY <1>1, <1>g, <1>i, <1>k, <2>1 DEF Asked, Adds
    <2> QED BY <1>1, <1>k, <2>2 DEF Asked
  <1>2. ASSUME Sent(a, d) PROVE Sent(a, d)'
    <2>1. e = 0 \/ s = Genesis[a]
      BY <1>2, <1>g, <1>k DEF Sent, OwnedBy, Adds
    <2>2. (Balance[Genesis[a]][a] = ledger[a])'
      BY <1>2, <1>g, <1>i, <1>k, <2>1 DEF Sent, Adds
    <2> QED BY <1>2, <1>k, <2>2 DEF Sent
  <1>3. ASSUME Shared(a, d) PROVE Shared(a, d)'
    <2>1. e = 0 \/ s = Genesis[a] \/ s = d
      BY <1>3, <1>g, <1>k DEF Shared, OwnedBy, Adds
    <2>2. BalanceBeforeOut[Genesis[a]][a] \in Int
      BY <1>3, <1>g DEF Shared, KeptAtHome
    <2>3. BalanceBeforeOut'[Genesis[a]][a] = BalanceBeforeOut[Genesis[a]][a]
      BY <1>g, <1>k DEF FrameKept
    <2>4. (Balance[d][a] + (Balance[Genesis[a]][a] - BalanceBeforeOut[Genesis[a]][a])
              = ledger[a])'
      BY <1>3, <1>g, <1>i, <1>k, <2>1, <2>2, <2>3 DEF Shared, Adds
    <2> QED BY <1>3, <1>k, <2>4 DEF Shared
  <1>4. ASSUME Leaving(a, d) PROVE Leaving(a, d)'
    <2>1. e = 0 \/ s = d
      BY <1>4, <1>g, <1>k DEF Leaving, OwnedBy, Adds
    <2>2. Balance'[d][a] = Balance[d][a] + e /\ ledger'[a] = ledger[a] + e
      BY <1>i, <1>k, <2>1 DEF Adds
    <2>3. JobRuns(a, d)'
      <3>1. AnnOf(a, d)' = AnnOf(a, d) /\ AnnOf(a, d).addr = a
        BY DEF AnnOf
      <3>2. ASSUME NEW r \in Shards, NEW job \in mpAndSends'[r], NEW t \in job.anns, t.addr = a
            PROVE  /\ r = Genesis[a] /\ t = AnnOf(a, d)
                   /\ Balance'[d][a] + (job.state[a] - BalanceBeforeOut'[r][a]) = ledger'[a]
        <4>1. job \in mpAndSends[r]
          BY <1>k, <3>2 DEF FrameJob
        <4>2. /\ r = Genesis[a] /\ t = AnnOf(a, d)
              /\ Balance[d][a] + (job.state[a] - BalanceBeforeOut[r][a]) = ledger[a]
          BY <1>4, <3>2, <4>1 DEF Leaving, JobRuns
        <4>3. job.state[a] \in Int
          BY <4>1 DEF TypeOK, Job
        <4>4. BalanceBeforeOut[r][a] \in Int /\ BalanceBeforeOut'[r][a] = BalanceBeforeOut[r][a]
          BY <1>4, <1>k, <4>2 DEF Leaving, KeptAtHome, FrameKept
        <4> QED BY <1>i, <2>2, <4>2, <4>3, <4>4
      <3>3. \E job \in mpAndSends'[Genesis[a]] : AnnOf(a, d) \in job.anns
        BY <1>4, <1>g, <1>k, <3>1 DEF Leaving, JobRuns, FrameJob
      <3>4. \A j, k \in mpAndSends'[Genesis[a]] :
               AnnOf(a, d) \in j.anns /\ AnnOf(a, d) \in k.anns => j = k
        BY <1>4, <1>g, <1>k, <3>1 DEF Leaving, JobRuns, FrameJob
      <3> QED BY <3>1, <3>2, <3>3, <3>4 DEF JobRuns
    <2> QED BY <1>4, <1>k, <2>3 DEF Leaving
  <1>5. ASSUME Settling(a, d) PROVE Settling(a, d)'
    <2>1. e = 0 \/ s = d
      BY <1>5, <1>g, <1>k DEF Settling, OwnedBy, Adds
    <2>2. Balance'[d][a] = Balance[d][a] + e /\ ledger'[a] = ledger[a] + e
      BY <1>i, <1>k, <2>1 DEF Adds
    <2>3. NsOf(a, d)' = NsOf(a, d) /\ NsOf(a, d) \in TXns /\ NsOf(a, d).addr = a
      <3>1. ledger'[a] - Balance'[d][a] = ledger[a] - Balance[d][a]
        BY <1>i, <2>2
      <3>2. 0 \in Reqs /\ ledger[a] - Balance[d][a] \in Int
        BY <1>i, ConstantsAssumption DEF Reqs
      <3> QED BY <3>1, <3>2 DEF NsOf, TXns
    <2>4. NsWaits(a, d)'
      BY <1>5, <1>k, <2>3 DEF Settling, NsWaits
    <2> QED BY <1>5, <1>k, <2>4 DEF Settling
  <1>6. ASSUME Moved(a, d) PROVE Moved(a, d)'
    <2>1. e = 0 \/ s = d
      BY <1>6, <1>g, <1>k DEF Moved, OwnedBy, Adds
    <2>2. (Balance[d][a] = ledger[a])'
      BY <1>6, <1>i, <1>k, <2>1 DEF Moved, Adds
    <2> QED BY <1>6, <1>k, <2>2 DEF Moved
  <1> QED BY <1>1, <1>2, <1>3, <1>4, <1>5, <1>6 DEF Under, KeepsStage

-----------------------------------------------------------------------------
(* What a block does to account a *)

IsBlock(s, b, last) ==
    /\ s \in Shards /\ b \in GenerateBlock(s) /\ last \in LastAnns(b.Anns)
    /\ FetchedFromPools(s, b) /\ commit1(s, b, last)

\* A block without a transaction of one kind about a leaves that part of a alone.
LEMMA BlockFrames ==
    ASSUME TypeOK, NEW s, NEW b, NEW last, IsBlock(s, b, last), NEW a \in Accounts
    PROVE  /\ a \notin Addrs(b.TXmig1s) => FrameMig1(a) /\ FrameKept(a)
           /\ a \notin Addrs(b.TXmig1s) \cup Addrs(b.TXmig2s) => FrameMig2(a)
           /\ a \notin Addrs(b.TXmig2s) \cup Addrs(b.Anns) => FrameAnn(a)
           /\ a \notin Deleted(s, b) => FrameJob(a)
           /\ a \notin Addrs(b.NSs) => FrameNs(a)
           /\ a \notin Addrs(b.TXmig1s) \cup Addrs(b.TXmig2s) \cup Addrs(b.Anns) => FrameOwn(a)
  <1>b. /\ s \in Shards /\ b \in GenerateBlock(s) /\ last \in LastAnns(b.Anns)
        /\ FetchedFromPools(s, b) /\ commit1(s, b, last)
    BY DEF IsBlock
  <1>p. /\ b.TXmig1s \subseteq TXmig1 /\ b.TXmig2s \subseteq TXmig2
        /\ b.Anns \subseteq TXann /\ b.NSs \subseteq TXns
    BY <1>b, BlockParts
  <1>t. /\ TXmig1_pool \in [Shards -> SUBSET TXmig1] /\ TXmig2_pool \in [Shards -> SUBSET TXmig2]
        /\ TXann_pool \in [Shards -> SUBSET TXann] /\ TXns_pool \in [Shards -> SUBSET TXns]
        /\ mpAndSends \in [Shards -> SUBSET Job]
        /\ BalanceBeforeOut \in [Shards -> [Accounts -> Int \cup {NoBalance}]]
        /\ AccountInOwnShard \in [Shards -> SUBSET Accounts]
        /\ Location \in [Shards -> [Accounts -> Shards]]
        /\ Migrate \in [Shards -> [Accounts -> Shards \cup {NoShard}]]
        /\ Outing_Acc_Before_Announce \in [Shards -> SUBSET Accounts]
    BY DEF TypeOK
  <1>1. ASSUME a \notin Addrs(b.TXmig1s) PROVE FrameMig1(a) /\ FrameKept(a)
    <2>1. FrameMig1(a)
      BY <1>b, <1>t, <1>1 DEF FetchedFromPools, FrameMig1, Addrs
    <2>2. FrameKept(a)
      BY <1>b, <1>t, <1>1 DEF commit1, UpdateFlags, HandedOver, FrameKept
    <2> QED BY <2>1, <2>2
  <1>2. ASSUME a \notin Addrs(b.TXmig1s) \cup Addrs(b.TXmig2s) PROVE FrameMig2(a)
    <2>1. \A r \in Shards : \A t \in TXmig2 : t.addr = a =>
             (t \in TXmig2_pool'[r] <=> t \in TXmig2_pool[r])
      BY <1>b, <1>t, <1>2 DEF FetchedFromPools, Addrs
    <2>2. \A t \in TXmig2 : t.addr = a => (t \in cTXmig1' <=> t \in cTXmig1)
      BY <1>b, <1>2 DEF commit1, TryTXmig1, ToTXmig2, Addrs
    <2> QED BY <2>1, <2>2 DEF FrameMig2
  <1>3. ASSUME a \notin Addrs(b.TXmig2s) \cup Addrs(b.Anns) PROVE FrameAnn(a)
    <2>1. \A r \in Shards : \A t \in TXann : t.addr = a =>
             (t \in TXann_pool'[r] <=> t \in TXann_pool[r])
      BY <1>b, <1>t, <1>3 DEF FetchedFromPools, Addrs
    <2>2. cAnnounce \subseteq cAnnounce'
      BY <1>b DEF commit1, TryAnnounce, Told
    <2>3. \A m \in cAnnounce' : m \in cAnnounce \/ \A t \in m.TXanns : t.addr # a
      BY <1>b, <1>3 DEF commit1, TryAnnounce, Told, Addrs
    <2> QED BY <2>1, <2>2, <2>3 DEF FrameAnn
  <1>4. ASSUME a \notin Deleted(s, b) PROVE FrameJob(a)
    <2> DEFINE job == [anns  |-> {t \in b.Anns : t.addr \in Deleted(s, b)},
                       state |-> [x \in Accounts |-> NewBalance(s, b, x)]]
    <2>1. \A t \in job.anns : t.addr # a
      BY <1>4
    <2>2. \/ mpAndSends' = mpAndSends
          \/ mpAndSends' = [mpAndSends EXCEPT ![s] = @ \cup {job}]
      BY <1>b DEF commit1, GoMpAndSend, StateOf
    <2> HIDE DEF job
    <2>3. ASSUME mpAndSends' = [mpAndSends EXCEPT ![s] = @ \cup {job}], NEW r \in Shards
          PROVE  mpAndSends'[r] = IF r = s THEN mpAndSends[s] \cup {job} ELSE mpAndSends[r]
      BY <2>3, <1>b, <1>t
    <2> QED BY <2>1, <2>2, <2>3 DEF FrameJob
  <1>5. ASSUME a \notin Addrs(b.NSs) PROVE FrameNs(a)
    BY <1>b, <1>t, <1>5 DEF FetchedFromPools, commit1, FrameNs, Addrs
  <1>6. ASSUME a \notin Addrs(b.TXmig1s) \cup Addrs(b.TXmig2s) \cup Addrs(b.Anns)
        PROVE  FrameOwn(a)
    <2>1. a \notin Deleted(s, b) /\ NewMigrate(s, b, a) = Migrate[s][a]
          /\ NewLocation(s, b, last, a) = Location[s][a]
      BY <1>6 DEF Deleted, NewMigrate, NewLocation
    <2>2. \A r \in Shards : Migrate'[r][a] = Migrate[r][a] /\ Location'[r][a] = Location[r][a]
      BY <1>b, <1>t, <2>1 DEF commit1, UpdateTree
    <2>3. \A r \in Shards : a \in AccountInOwnShard'[r] <=> a \in AccountInOwnShard[r]
      BY <1>b, <1>t, <1>6, <2>1 DEF commit1, UpdateMaps, NewOwn, NewShard
    <2>4. \A r \in Shards :
             a \in Outing_Acc_Before_Announce'[r] <=> a \in Outing_Acc_Before_Announce[r]
      BY <1>b, <1>t, <1>6, <2>1 DEF commit1, UpdateFlags, HandedOver
    <2> QED BY <2>2, <2>3, <2>4 DEF FrameOwn
  <1> QED BY <1>1, <1>2, <1>3, <1>4, <1>5, <1>6

\* Only an owner, by its memory and its trie, executes transactions on a, and
\* the other shards' copies of a stay as they are.
LEMMA BlockBalances ==
    ASSUME TypeOK, NEW s, NEW b, NEW last, IsBlock(s, b, last), NEW a \in Accounts
    PROVE  /\ Executed(s, b, a) \in Int
           /\ ledger'[a] = ledger[a] + Executed(s, b, a)
           /\ Balance'[s][a] = NewBalance(s, b, a)
           /\ \A r \in Shards \ {s} : Balance'[r][a] = Balance[r][a]
           /\ a \notin Addrs(b.TXmig2s) =>
                /\ OutBalance(s, b, a) = Balance[s][a] + Executed(s, b, a)
                /\ Location[s][a] # s /\ a \notin AccountInOwnShard[s] => Executed(s, b, a) = 0
           /\ a \notin Addrs(b.NSs) => NewBalance(s, b, a) = OutBalance(s, b, a)
  <1>b. /\ s \in Shards /\ b \in GenerateBlock(s) /\ last \in LastAnns(b.Anns)
        /\ commit1(s, b, last)
    BY DEF IsBlock
  <1>t. /\ Balance \in [Shards -> [Accounts -> Int]] /\ ledger \in [Accounts -> Int]
    BY DEF TypeOK
  <1>p. b.Txs \in [Accounts -> Int] /\ (b.Txs[a] < 0 => a \in AccountInOwnShard[s])
    BY <1>b, BlockParts
  <1>1. Executed(s, b, a) \in Int /\ OutBalance(s, b, a) \in Int
    BY <1>b, BlockTypes
  <1>2. ledger'[a] = ledger[a] + Executed(s, b, a)
    BY <1>b DEF commit1, UpdateTree
  <1>3. Balance'[s][a] = NewBalance(s, b, a)
    BY <1>b, <1>t DEF commit1, UpdateTree
  <1>4. \A r \in Shards \ {s} : Balance'[r][a] = Balance[r][a]
    BY <1>b, <1>t DEF commit1, UpdateTree
  <1>5. ASSUME a \notin Addrs(b.TXmig2s)
        PROVE  /\ OutBalance(s, b, a) = Balance[s][a] + Executed(s, b, a)
               /\ Location[s][a] # s /\ a \notin AccountInOwnShard[s] => Executed(s, b, a) = 0
    BY <1>5, <1>p DEF OutBalance, MigratedIn, Executed
  <1>6. a \notin Addrs(b.NSs) => NewBalance(s, b, a) = OutBalance(s, b, a)
    BY <1>1 DEF NewBalance
  <1> QED BY <1>1, <1>2, <1>3, <1>4, <1>5, <1>6

\* A block without migration transactions about a only executes transactions on it.
LEMMA PlainBlock ==
    ASSUME TypeOK, TypeOK', NEW s, NEW b, NEW last, IsBlock(s, b, last), NEW a \in Accounts,
           a \notin Addrs(b.TXmig1s) \cup Addrs(b.TXmig2s) \cup Addrs(b.Anns) \cup Addrs(b.NSs),
           Location[s][a] = s <=> a \in AccountInOwnShard[s]
    PROVE  s \in Shards /\ Executed(s, b, a) \in Int /\ Untouched(a, s, Executed(s, b, a))
  <1>1. a \notin Deleted(s, b)
    BY DEF Deleted
  <1>2. Adds(a, s, Executed(s, b, a))
    BY BlockBalances DEF Adds
  <1> QED BY <1>1, <1>2, BlockFrames, BlockBalances, FramesKeep DEF Untouched, IsBlock

\* A block's migration transactions come from its shard's pools.
LEMMA BlockSubsets ==
    ASSUME TypeOK, NEW s, NEW b, NEW last, IsBlock(s, b, last)
    PROVE  /\ s \in Shards
           /\ b.TXmig1s \subseteq TXmig1_pool[s] /\ b.TXmig2s \subseteq TXmig2_pool[s]
           /\ b.Anns \subseteq TXann_pool[s] /\ b.NSs \subseteq TXns_pool[s]
           /\ b.TXmig1s \subseteq TXmig1 /\ b.TXmig2s \subseteq TXmig2
           /\ b.Anns \subseteq TXann /\ b.NSs \subseteq TXns
  BY BlockParts DEF IsBlock

\* A block keeps an account at home.
LEMMA BlockKeepsHome ==
    ASSUME TypeOK, TypeOK', NEW s, NEW b, NEW last, IsBlock(s, b, last),
           NEW a \in Accounts, AtHome(a)
    PROVE  AtHome(a)'
  <1>1. a \notin Addrs(b.TXmig1s) \cup Addrs(b.TXmig2s) \cup Addrs(b.Anns) \cup Addrs(b.NSs)
    BY BlockSubsets DEF AtHome, NoMig1, NoMig2, NoAnn, NoNs, Addrs
  <1>2. Location[s][a] = s <=> a \in AccountInOwnShard[s]
    BY BlockSubsets DEF AtHome, OwnedBy
  <1> QED BY <1>1, <1>2, PlainBlock, KeepsHome

\* TXmig1: the home shard hands over its balance.
LEMMA BlockSends ==
    ASSUME TypeOK, TypeOK', NEW s, NEW b, NEW last, IsBlock(s, b, last),
           NEW a \in Accounts, NEW d \in Shards \ {Genesis[a]}, Asked(a, d),
           a \in Addrs(b.TXmig1s)
    PROVE  Sent(a, d)'
  <1> DEFINE h  == Genesis[a]
             t1 == [addr |-> a, from |-> h, to |-> d, req |-> 0]
             t2 == [addr |-> a, from |-> h, to |-> d, req |-> 0, value |-> OutBalance(s, b, a)]
  <1>h. h \in Shards /\ h # d
    BY ConstantsAssumption
  <1>b. /\ FetchedFromPools(s, b) /\ commit1(s, b, last) /\ OutBalance(s, b, a) \in Int
        /\ s \in Shards /\ NewMigrate(s, b, a) \in Shards \cup {NoShard}
    BY BlockTypes DEF IsBlock
  <1>1. /\ s = h /\ t1 \in b.TXmig1s /\ Of(b.TXmig1s, a) = t1
        /\ \A t \in b.TXmig1s : t.addr = a => t = t1
        /\ \A r \in Shards : \A t \in TXmig1_pool[r] : t.addr = a => r = h /\ t = t1
    <2>1. \A r \in Shards : \A t \in TXmig1_pool[r] : t.addr = a => r = h /\ t = t1
      BY DEF Asked, Mig1Waits
    <2>2. \E t \in b.TXmig1s : t.addr = a
      BY DEF Addrs
    <2>3. Of(b.TXmig1s, a) \in b.TXmig1s /\ Of(b.TXmig1s, a).addr = a
      BY OfIsIn
    <2> HIDE DEF t1, h
    <2> QED BY <2>1, <2>2, <2>3, BlockSubsets
  <1>2. a \notin Addrs(b.TXmig2s) \cup Addrs(b.Anns) \cup Addrs(b.NSs)
    BY BlockSubsets DEF Asked, NoMig2, NoAnn, NoNs, Addrs
  <1>3. a \notin Deleted(s, b)
    BY <1>2 DEF Deleted
  <1>4. NoMig1(a)'
    <2>1. TXmig1_pool \in [Shards -> SUBSET TXmig1]
      BY DEF TypeOK
    <2>2. \A r \in Shards : TXmig1_pool'[r] = IF r = s THEN TXmig1_pool[s] \ b.TXmig1s
                                              ELSE TXmig1_pool[r]
      BY <1>b, <2>1 DEF FetchedFromPools
    <2> HIDE DEF t1, h
    <2> QED BY <1>1, <2>2 DEF NoMig1
  <1>5. BalanceBeforeOut'[h][a] = OutBalance(s, b, a)
    BY <1>b, <1>1 DEF commit1, UpdateFlags, HandedOver, TypeOK
  <1>6. KeptAtHome(a)'
    <2>1. \A r \in Shards \ {h} : BalanceBeforeOut'[r][a] = BalanceBeforeOut[r][a]
      BY <1>b, <1>1 DEF commit1, UpdateFlags, HandedOver, TypeOK
    <2> QED BY <1>b, <1>5, <2>1 DEF KeptAtHome, Asked, NothingKept
  <1>7. Mig2Waits(a, d)'
    <2>1. t2 = Mig2Of(a, d)'
      BY <1>5 DEF Mig2Of
    <2>2. cTXmig1' = cTXmig1 \cup
             {[addr |-> t.addr, from |-> t.from, to |-> t.to, req |-> t.req,
               value |-> OutBalance(s, b, t.addr)] : t \in {u \in b.TXmig1s : u.to # s}}
      BY <1>b DEF commit1, TryTXmig1, ToTXmig2
    <2>3. t2 \in cTXmig1'
      BY <1>1, <1>h, <2>2
    <2>4. ASSUME NEW t \in cTXmig1', t.addr = a PROVE t = t2
      <3>1. t \notin cTXmig1
        BY <2>4 DEF Asked, NoMig2
      <3>2. PICK u \in b.TXmig1s :
               t = [addr |-> u.addr, from |-> u.from, to |-> u.to, req |-> u.req,
                    value |-> OutBalance(s, b, u.addr)]
        BY <2>2, <2>4, <3>1
      <3>3. u = t1
        BY <1>1, <2>4, <3>2
      <3> QED BY <3>2, <3>3
    <2>5. \A r \in Shards : \A t \in TXmig2_pool'[r] : t.addr # a
      <3>1. TXmig2_pool \in [Shards -> SUBSET TXmig2]
        BY DEF TypeOK
      <3>2. \A r \in Shards : TXmig2_pool'[r] \subseteq TXmig2_pool[r]
        BY <1>b, <3>1 DEF FetchedFromPools
      <3> QED BY <3>2 DEF Asked, NoMig2
    <2>6. t2.addr = a
      OBVIOUS
    <2> HIDE DEF t2
    <2> QED BY <2>1, <2>3, <2>4, <2>5, <2>6 DEF Mig2Waits
  <1>8. NoAnn(a)' /\ NoJob(a)' /\ NoNs(a)'
    BY <1>2, <1>3, BlockFrames, KeepAnn, KeepJob, KeepNs DEF Asked
  <1>9. OwnedBy(a, {h})'
    <2>1. NewLocation(s, b, last, a) = Location[s][a]
      BY <1>2 DEF NewLocation
    <2>2. \A r \in Shards : Location'[r][a] = Location[r][a]
      BY <1>b, <2>1 DEF commit1, UpdateTree, TypeOK
    <2>3. \A r \in Shards : a \in AccountInOwnShard'[r] <=> a \in AccountInOwnShard[r]
      BY <1>b, <1>2, <1>3 DEF commit1, UpdateMaps, NewOwn, NewShard, TypeOK
    <2> QED BY <2>2, <2>3 DEF OwnedBy, Asked
  <1>10. MarkedFor(a, d)'
    <2>1. NewMigrate(s, b, a) = d
      BY <1>1, <1>2 DEF NewMigrate
    <2>2. \A r \in Shards : Migrate'[r][a] = IF r = h THEN d ELSE Migrate[r][a]
      BY <1>b, <1>1, <2>1 DEF commit1, UpdateTree, TypeOK
    <2>3. \A r \in Shards : a \in Outing_Acc_Before_Announce'[r] <=>
                               (r = h \/ a \in Outing_Acc_Before_Announce[r])
      BY <1>b, <1>1, <1>3 DEF commit1, UpdateFlags, HandedOver, TypeOK
    <2> QED BY <2>2, <2>3 DEF MarkedFor, Asked, Unmarked
  <1>11. Balance'[h][a] = ledger'[a]
    BY <1>1, <1>2, BlockBalances DEF Asked
  <1> QED BY <1>4, <1>6, <1>7, <1>8, <1>9, <1>10, <1>11 DEF Sent

\* TXmig2: the destination becomes an owner and announces it.
LEMMA BlockShares ==
    ASSUME TypeOK, TypeOK', NEW s, NEW b, NEW last, IsBlock(s, b, last),
           NEW a \in Accounts, NEW d \in Shards \ {Genesis[a]}, Sent(a, d),
           a \in Addrs(b.TXmig2s)
    PROVE  Shared(a, d)'
  <1> DEFINE h  == Genesis[a]
             t2 == Mig2Of(a, d)
             ann == AnnOf(a, d)
             anns == {[addr |-> t.addr, to |-> s, req |-> t.req] : t \in b.TXmig2s}
             msg(r) == [dst |-> r, shard |-> s, TXanns |-> anns]
  <1>h. h \in Shards /\ h # d
    BY ConstantsAssumption
  <1>b. FetchedFromPools(s, b) /\ commit1(s, b, last) /\ s \in Shards
    BY DEF IsBlock
  <1>i. /\ BalanceBeforeOut[h][a] \in Int /\ Balance[h][a] \in Int /\ ledger[a] \in Int
    BY <1>h, BalanceTypes DEF Sent, KeptAtHome
  <1>1. /\ s = d /\ t2 \in b.TXmig2s /\ Of(b.TXmig2s, a) = t2
        /\ \A t \in b.TXmig2s : t.addr = a => t = t2
        /\ \A r \in Shards : \A t \in TXmig2_pool[r] : t.addr = a => r = d /\ t = t2
        /\ t2 \in TXmig2_pool[d]
        /\ \A t \in cTXmig1 : t.addr # a
    <2>1. /\ \A r \in Shards : \A t \in TXmig2_pool[r] : t.addr = a => r = d /\ t = t2
          /\ \A t \in cTXmig1 : t.addr = a => t = t2
          /\ ~(t2 \in cTXmig1 /\ t2 \in TXmig2_pool[d])
      BY DEF Sent, Mig2Waits
    <2>2. \E t \in b.TXmig2s : t.addr = a
      BY DEF Addrs
    <2>3. Of(b.TXmig2s, a) \in b.TXmig2s /\ Of(b.TXmig2s, a).addr = a
      BY OfIsIn
    <2> HIDE DEF t2, h
    <2> QED BY <2>1, <2>2, <2>3, BlockSubsets
  <1>2. a \notin Addrs(b.TXmig1s) \cup Addrs(b.Anns) \cup Addrs(b.NSs)
    BY BlockSubsets DEF Sent, NoMig1, NoAnn, NoNs, Addrs
  <1>3. a \notin Deleted(s, b)
    BY <1>2 DEF Deleted
  <1>4. NoMig1(a)' /\ NoJob(a)' /\ NoNs(a)' /\ KeptAtHome(a)' /\ FrameKept(a)
    BY <1>2, <1>3, BlockFrames, KeepMig1, KeepJob, KeepNs, KeepKept DEF Sent
  <1>5. NoMig2(a)'
    <2>1. TXmig2_pool \in [Shards -> SUBSET TXmig2]
      BY DEF TypeOK
    <2>2. \A r \in Shards : TXmig2_pool'[r] = IF r = s THEN TXmig2_pool[s] \ b.TXmig2s
                                              ELSE TXmig2_pool[r]
      BY <1>b, <2>1 DEF FetchedFromPools
    <2>3. \A t \in cTXmig1' : t.addr # a
      BY <1>b, <1>1, <1>2 DEF commit1, TryTXmig1, ToTXmig2, Addrs
    <2> HIDE DEF t2, h
    <2> QED BY <1>1, <2>2, <2>3 DEF NoMig2
  <1>6. /\ ann' = ann /\ ann.addr = a /\ ann \in anns
        /\ \A t \in anns : t.addr = a => t = ann
    BY <1>1 DEF AnnOf, Mig2Of
  <1>7. cAnnounce' = cAnnounce \cup {msg(r) : r \in (Shards \ {s}) \cup {Client}}
    BY <1>b, <1>6 DEF commit1, TryAnnounce, Told
  <1>8. \A r \in Shards : \A t \in TXann_pool'[r] : t.addr # a
    <2>1. TXann_pool \in [Shards -> SUBSET TXann]
      BY DEF TypeOK
    <2>2. \A r \in Shards : TXann_pool'[r] \subseteq TXann_pool[r]
      BY <1>b, <2>1 DEF FetchedFromPools
    <2> QED BY <2>2 DEF Sent, NoAnn
  <1>9. AnnsFrom(a, d)' /\ AnnWaits(a, d)'
    <2>1. \A m \in cAnnounce : \A t \in m.TXanns : t.addr # a
      BY DEF Sent, NoAnn
    <2>2. \A r : msg(r).dst = r /\ msg(r).shard = s /\ msg(r).TXanns = anns
      OBVIOUS
    <2>3. d \notin (Shards \ {s}) \cup {Client} /\ h \in (Shards \ {s}) \cup {Client}
      BY <1>1, <1>h, ConstantsAssumption
    <2> HIDE DEF ann, anns, msg, h
    <2>4. \A m \in cAnnounce' : \A t \in m.TXanns : t.addr = a =>
             t = ann /\ m.dst # d /\ m.shard = d
      BY <1>1, <1>6, <1>7, <2>1, <2>2, <2>3
    <2>5. \A m, n \in cAnnounce' :
             m.dst = n.dst /\ ann \in m.TXanns /\ ann \in n.TXanns => m = n
      BY <1>6, <1>7, <2>1, <2>2
    <2>6. \E m \in cAnnounce' : m.dst = h /\ ann \in m.TXanns
      <3>1. msg(h) \in cAnnounce'
        BY <1>7, <2>3
      <3> QED BY <1>6, <2>2, <3>1
    <2>7. \A r \in Shards : ann \notin TXann_pool'[r]
      BY <1>6, <1>8
    <2>8. AnnsFrom(a, d)'
      BY <1>6, <1>8, <2>4, <2>5, <2>7 DEF AnnsFrom, ann
    <2>9. AnnWaits(a, d)'
      BY <1>6, <2>6 DEF AnnWaits, ann, h
    <2> QED BY <2>8, <2>9
  <1>10. OwnedBy(a, {h, d})'
    <2>1. NewLocation(s, b, last, a) = d
      BY <1>1, <1>2 DEF NewLocation
    <2>2. \A r \in Shards : Location'[r][a] = IF r = d THEN d ELSE Location[r][a]
      BY <1>b, <1>1, <2>1 DEF commit1, UpdateTree, TypeOK
    <2>3. \A r \in Shards : a \in AccountInOwnShard'[r] <=> (r = d \/ a \in AccountInOwnShard[r])
      BY <1>b, <1>1, <1>3 DEF commit1, UpdateMaps, NewOwn, NewShard, TypeOK
    <2> QED BY <2>2, <2>3 DEF OwnedBy, Sent
  <1>11. MarkedFor(a, d)'
    <2>1. NewMigrate(s, b, a) = NoShard
      BY <1>2 DEF NewMigrate
    <2>2. \A r \in Shards : Migrate'[r][a] = IF r = d THEN NoShard ELSE Migrate[r][a]
      BY <1>b, <1>1, <2>1 DEF commit1, UpdateTree, TypeOK
    <2>3. \A r \in Shards :
             a \in Outing_Acc_Before_Announce'[r] <=> a \in Outing_Acc_Before_Announce[r]
      BY <1>b, <1>2, <1>3 DEF commit1, UpdateFlags, HandedOver, TypeOK
    <2> QED BY <2>2, <2>3 DEF MarkedFor, Sent
  <1>12. Balance'[d][a] + (Balance'[h][a] - BalanceBeforeOut'[h][a]) = ledger'[a]
    <2>1. NewBalance(s, b, a) = BalanceBeforeOut[h][a] + Executed(s, b, a)
      BY <1>1, <1>2, BlockBalances DEF OutBalance, MigratedIn, Mig2Of
    <2>2. BalanceBeforeOut'[h][a] = BalanceBeforeOut[h][a]
      BY <1>4, <1>h DEF FrameKept
    <2>3. /\ Balance'[d][a] = NewBalance(s, b, a) /\ Balance'[h][a] = Balance[h][a]
          /\ ledger'[a] = ledger[a] + Executed(s, b, a) /\ Executed(s, b, a) \in Int
      BY <1>1, <1>h, BlockBalances
    <2>4. Balance[h][a] = ledger[a]
      BY DEF Sent
    <2> QED BY <1>i, <2>1, <2>2, <2>3, <2>4
  <1> QED BY <1>4, <1>5, <1>9, <1>10, <1>11, <1>12 DEF Shared

\* Blocks only take announcements of a out of the pools, unless they hold its
\* TXmig2.
LEMMA BlockAnns ==
    ASSUME TypeOK, NEW s, NEW b, NEW last, IsBlock(s, b, last), NEW a \in Accounts,
           NEW d \in Shards, a \notin Addrs(b.TXmig2s)
    PROVE  /\ AnnsFrom(a, d) => AnnsFrom(a, d)'
           /\ NoAnnAt(a, Genesis[a]) => NoAnnAt(a, Genesis[a])'
           /\ s # Genesis[a] /\ AnnWaits(a, d) => AnnWaits(a, d)'
           /\ /\ s = Genesis[a] /\ AnnsFrom(a, d) /\ AnnOf(a, d) \in b.Anns
              /\ \A t \in b.Anns : t.addr = a => t = AnnOf(a, d)
              => NoAnnAt(a, Genesis[a])'
  <1> DEFINE ann == AnnOf(a, d)
  <1>b. FetchedFromPools(s, b) /\ commit1(s, b, last) /\ s \in Shards /\ Genesis[a] \in Shards
    BY ConstantsAssumption DEF IsBlock
  <1>1. ann' = ann /\ ann.addr = a
    BY DEF AnnOf
  <1>2. /\ cAnnounce \subseteq cAnnounce'
        /\ \A m \in cAnnounce' : m \in cAnnounce \/ \A t \in m.TXanns : t.addr # a
    <2>1. cAnnounce \subseteq cAnnounce'
      BY <1>b DEF commit1, TryAnnounce, Told
    <2>2. \A m \in cAnnounce' : m \in cAnnounce \/ \A t \in m.TXanns : t.addr # a
      BY <1>b DEF commit1, TryAnnounce, Told, Addrs
    <2> QED BY <2>1, <2>2
  <1>3. \A r \in Shards : TXann_pool'[r] = IF r = s THEN TXann_pool[s] \ b.Anns
                                           ELSE TXann_pool[r]
    <2>1. TXann_pool \in [Shards -> SUBSET TXann]
      BY DEF TypeOK
    <2> QED BY <1>b, <2>1 DEF FetchedFromPools
  <1>4. AnnsFrom(a, d) => AnnsFrom(a, d)'
    BY <1>1, <1>2, <1>3 DEF AnnsFrom
  <1>5. NoAnnAt(a, Genesis[a]) => NoAnnAt(a, Genesis[a])'
    BY <1>b, <1>2, <1>3 DEF NoAnnAt
  <1>6. s # Genesis[a] /\ AnnWaits(a, d) => AnnWaits(a, d)'
    BY <1>b, <1>1, <1>2, <1>3 DEF AnnWaits
  <1>7. ASSUME s = Genesis[a], AnnsFrom(a, d), ann \in b.Anns,
               \A t \in b.Anns : t.addr = a => t = ann
        PROVE  NoAnnAt(a, Genesis[a])'
    <2>1. ann \in TXann_pool[s]
      BY <1>7, BlockSubsets
    <2>2. \A m \in cAnnounce' : m.dst = s => \A t \in m.TXanns : t.addr # a
      BY <1>b, <1>1, <1>2, <1>7, <2>1 DEF AnnsFrom
    <2>3. \A t \in TXann_pool'[s] : t.addr # a
      BY <1>b, <1>3, <1>7 DEF AnnsFrom
    <2> QED BY <1>7, <2>2, <2>3 DEF NoAnnAt
  <1> QED BY <1>4, <1>5, <1>6, <1>7

\* TXann at home: the home shard gives a up and computes what changed.
LEMMA BlockLeaves ==
    ASSUME TypeOK, TypeOK', NEW s, NEW b, NEW last, IsBlock(s, b, last),
           NEW a \in Accounts, NEW d \in Shards \ {Genesis[a]}, Shared(a, d),
           a \in Addrs(b.Anns), s = Genesis[a]
    PROVE  Leaving(a, d)'
  <1> DEFINE h  == Genesis[a]
             ann == AnnOf(a, d)
             job == [anns  |-> {t \in b.Anns : t.addr \in Deleted(s, b)},
                     state |-> [x \in Accounts |-> NewBalance(s, b, x)]]
  <1>h. h \in Shards /\ h # d
    BY ConstantsAssumption
  <1>b. /\ FetchedFromPools(s, b) /\ commit1(s, b, last) /\ s \in Shards
        /\ last \in LastAnns(b.Anns)
    BY DEF IsBlock
  <1>i. /\ BalanceBeforeOut[h][a] \in Int /\ Balance[h][a] \in Int /\ ledger[a] \in Int
        /\ Balance[d][a] \in Int
    BY <1>h, BalanceTypes DEF Shared, KeptAtHome
  <1>1. /\ ann' = ann /\ ann.addr = a /\ ann \in b.Anns
        /\ \A t \in b.Anns : t.addr = a => t = ann
        /\ ann \in TXann_pool[h]
        /\ \A t \in TXann_pool[h] : t.addr = a => t = ann
    <2>1. \A t \in TXann_pool[h] : t.addr = a => t = ann
      BY <1>h DEF Shared, AnnsFrom
    <2>2. \E t \in b.Anns : t.addr = a
      BY DEF Addrs
    <2>3. ann' = ann /\ ann.addr = a
      BY DEF AnnOf
    <2> HIDE DEF ann
    <2> QED BY <2>1, <2>2, <2>3, BlockSubsets
  <1>2. a \notin Addrs(b.TXmig1s) \cup Addrs(b.TXmig2s) \cup Addrs(b.NSs)
    BY BlockSubsets DEF Shared, NoMig1, NoMig2, NoNs, Addrs
  <1>3. a \in Deleted(s, b)
    BY <1>h DEF Deleted, Shared, OwnedBy
  <1>4. NoMig1(a)' /\ NoMig2(a)' /\ NoNs(a)' /\ KeptAtHome(a)' /\ FrameKept(a)
    BY <1>2, BlockFrames, KeepMig1, KeepMig2, KeepNs, KeepKept DEF Shared
  <1>5. AnnsFrom(a, d)' /\ NoAnnAt(a, h)'
    BY <1>1, <1>2, BlockAnns DEF Shared
  <1>6. OwnedBy(a, {d})'
    <2>1. NewLocation(s, b, last, a) = d
      <3>1. last[a] = ann
        BY <1>1, <1>b DEF LastAnns
      <3> QED BY <3>1 DEF NewLocation, AnnOf
    <2>2. \A r \in Shards : Location'[r][a] = IF r = h THEN d ELSE Location[r][a]
      BY <1>b, <2>1 DEF commit1, UpdateTree, TypeOK
    <2>3. \A r \in Shards : a \in AccountInOwnShard'[r] <=> (r # h /\ a \in AccountInOwnShard[r])
      BY <1>b, <1>3 DEF commit1, UpdateMaps, NewOwn, NewShard, TypeOK
    <2> QED BY <1>h, <2>2, <2>3 DEF OwnedBy, Shared
  <1>7. Unmarked(a)'
    <2>1. NewMigrate(s, b, a) = NoShard
      BY DEF NewMigrate
    <2>2. \A r \in Shards : Migrate'[r][a] = IF r = h THEN NoShard ELSE Migrate[r][a]
      BY <1>b, <2>1 DEF commit1, UpdateTree, TypeOK
    <2>3. \A r \in Shards : a \in Outing_Acc_Before_Announce'[r] <=>
                               (r # h /\ a \in Outing_Acc_Before_Announce[r])
      BY <1>b, <1>2, <1>3 DEF commit1, UpdateFlags, HandedOver, TypeOK
    <2> QED BY <2>2, <2>3 DEF Unmarked, MarkedFor, Shared
  <1>8. JobRuns(a, d)'
    <2>1. mpAndSends \in [Shards -> SUBSET Job]
      BY DEF TypeOK
    <2>2. mpAndSends' = [mpAndSends EXCEPT ![h] = @ \cup {job}]
      BY <1>b, <1>3 DEF commit1, GoMpAndSend, StateOf
    <2>3. /\ ann \in job.anns /\ \A t \in job.anns : t.addr = a => t = ann
          /\ job.state[a] = NewBalance(s, b, a)
      BY <1>1, <1>3
    <2> HIDE DEF job
    <2>4. \A r \in Shards : mpAndSends'[r] = IF r = h THEN mpAndSends[h] \cup {job}
                                             ELSE mpAndSends[r]
      BY <1>h, <2>1, <2>2
    <2>5. \A r \in Shards : \A j \in mpAndSends[r] : \A t \in j.anns : t.addr # a
      BY DEF Shared, NoJob
    <2>6. Balance'[d][a] + (job.state[a] - BalanceBeforeOut'[h][a]) = ledger'[a]
      <3>1. /\ NewBalance(s, b, a) = Balance[h][a] + Executed(s, b, a)
            /\ Balance'[d][a] = Balance[d][a]
            /\ ledger'[a] = ledger[a] + Executed(s, b, a) /\ Executed(s, b, a) \in Int
        BY <1>2, <1>h, BlockBalances
      <3>2. BalanceBeforeOut'[h][a] = BalanceBeforeOut[h][a]
        BY <1>4, <1>h DEF FrameKept
      <3>3. Balance[d][a] + (Balance[h][a] - BalanceBeforeOut[h][a]) = ledger[a]
        BY DEF Shared
      <3> QED BY <1>i, <2>3, <3>1, <3>2, <3>3
    <2>7. \A r \in Shards : \A j \in mpAndSends'[r] : \A t \in j.anns : t.addr = a =>
             /\ r = h /\ t = ann
             /\ Balance'[d][a] + (j.state[a] - BalanceBeforeOut'[r][a]) = ledger'[a]
      BY <2>3, <2>4, <2>5, <2>6
    <2>8. \E j \in mpAndSends'[h] : ann \in j.anns
      BY <1>h, <2>3, <2>4
    <2>9. \A j, k \in mpAndSends'[h] : ann \in j.anns /\ ann \in k.anns => j = k
      BY <1>h, <1>1, <2>3, <2>4, <2>5
    <2> HIDE DEF ann
    <2> QED BY <1>1, <2>7, <2>8, <2>9 DEF JobRuns, ann
  <1> QED BY <1>4, <1>5, <1>6, <1>7, <1>8 DEF Leaving

\* TXann elsewhere: a shard that neither owns nor receives a only updates its
\* map.
LEMMA BlockHears ==
    ASSUME TypeOK, TypeOK', NEW s, NEW b, NEW last, IsBlock(s, b, last),
           NEW a \in Accounts, NEW d \in Shards \ {Genesis[a]},
           a \in Addrs(b.Anns), AnnsFrom(a, d), s # Genesis[a],
           a \notin Addrs(b.TXmig1s) \cup Addrs(b.TXmig2s) \cup Addrs(b.NSs),
           OwnedBy(a, {Genesis[a], d}) \/ OwnedBy(a, {d}),
           MarkedFor(a, d) \/ Unmarked(a)
    PROVE  s \in Shards /\ Untouched(a, s, 0)
  <1>b. commit1(s, b, last) /\ s \in Shards /\ last \in LastAnns(b.Anns)
    BY DEF IsBlock
  <1>1. s # d /\ \A t \in b.Anns : t.addr = a => t = AnnOf(a, d)
    BY BlockSubsets DEF Addrs, AnnsFrom
  <1>2. a \notin AccountInOwnShard[s] /\ Location[s][a] # s
    BY <1>b, <1>1 DEF OwnedBy
  <1>3. a \notin Deleted(s, b)
    BY <1>2 DEF Deleted
  <1>4. Migrate[s][a] = NoShard
    BY <1>b DEF MarkedFor, Unmarked
  <1>5. FrameOwn(a)
    <2>1. NewLocation(s, b, last, a) = d /\ NewMigrate(s, b, a) = NoShard
      <3>1. last[a] = AnnOf(a, d)
        BY <1>1, <1>b DEF LastAnns
      <3> QED BY <3>1 DEF NewLocation, NewMigrate, AnnOf
    <2>2. \A r \in Shards : Location'[r][a] = IF r = s THEN d ELSE Location[r][a]
      BY <1>b, <2>1 DEF commit1, UpdateTree, TypeOK
    <2>3. \A r \in Shards : Migrate'[r][a] = Migrate[r][a]
      BY <1>b, <1>4, <2>1 DEF commit1, UpdateTree, TypeOK
    <2>4. \A r \in Shards : a \in AccountInOwnShard'[r] <=> a \in AccountInOwnShard[r]
      BY <1>b, <1>3 DEF commit1, UpdateMaps, NewOwn, NewShard, TypeOK
    <2>5. \A r \in Shards :
             a \in Outing_Acc_Before_Announce'[r] <=> a \in Outing_Acc_Before_Announce[r]
      BY <1>b, <1>3 DEF commit1, UpdateFlags, HandedOver, TypeOK
    <2> QED BY <1>1, <1>2, <2>2, <2>3, <2>4, <2>5 DEF FrameOwn
  <1>6. Adds(a, s, 0)
    <2>1. Executed(s, b, a) = 0 /\ NewBalance(s, b, a) = Balance[s][a] + 0
      BY <1>2, BlockBalances
    <2> QED BY <2>1, BlockBalances DEF Adds
  <1>7. KeepsAnn(a)
    <2>1. ~NoAnn(a)
      BY <1>b, BlockSubsets DEF NoAnn, Addrs
    <2> QED BY <2>1, BlockAnns DEF KeepsAnn
  <1> QED BY <1>b, <1>3, <1>5, <1>6, <1>7, BlockFrames, FramesKeep DEF Untouched

\* TXns: the destination adds what changed at home.
LEMMA BlockSettles ==
    ASSUME TypeOK, TypeOK', NEW s, NEW b, NEW last, IsBlock(s, b, last),
           NEW a \in Accounts, NEW d \in Shards \ {Genesis[a]}, Settling(a, d),
           a \in Addrs(b.NSs)
    PROVE  Moved(a, d)'
  <1> DEFINE t0 == NsOf(a, d)
  <1>b. FetchedFromPools(s, b) /\ commit1(s, b, last) /\ s \in Shards
    BY DEF IsBlock
  <1>i. Balance[d][a] \in Int /\ ledger[a] \in Int
    BY BalanceTypes
  <1>1. /\ s = d /\ t0 \in b.NSs /\ Of(b.NSs, a) = t0
        /\ \A r \in Shards : \A t \in TXns_pool[r] : t.addr = a => r = d /\ t = t0
        /\ \A m \in cCaP : \A t \in m.TXnss : t.addr # a
    <2>1. /\ \A r \in Shards : \A t \in TXns_pool[r] : t.addr = a => r = d /\ t = t0
          /\ \A m \in cCaP : \A t \in m.TXnss : t.addr = a => t = t0
          /\ \A m \in cCaP : t0 \in m.TXnss => t0 \notin TXns_pool[d]
      BY DEF Settling, NsWaits, NsIs
    <2>2. \E t \in b.NSs : t.addr = a
      BY DEF Addrs
    <2>3. Of(b.NSs, a) \in b.NSs /\ Of(b.NSs, a).addr = a
      BY OfIsIn
    <2> HIDE DEF t0
    <2> QED BY <2>1, <2>2, <2>3, BlockSubsets
  <1>2. a \notin Addrs(b.TXmig1s) \cup Addrs(b.TXmig2s) \cup Addrs(b.Anns)
    BY <1>1, BlockSubsets DEF Settling, NoMig1, NoMig2, AnnsFrom, Addrs
  <1>3. a \notin Deleted(s, b)
    BY <1>2 DEF Deleted
  <1>4. NoNs(a)'
    <2>1. TXns_pool \in [Shards -> SUBSET TXns]
      BY DEF TypeOK
    <2>2. \A r \in Shards : TXns_pool'[r] = IF r = s THEN TXns_pool[s] \ b.NSs ELSE TXns_pool[r]
      BY <1>b, <2>1 DEF FetchedFromPools
    <2>3. cCaP' = cCaP
      BY <1>b DEF commit1
    <2> HIDE DEF t0
    <2> QED BY <1>1, <2>2, <2>3 DEF NoNs
  <1>5. Balance'[d][a] = ledger'[a]
    <2>1. NewBalance(s, b, a) = OutBalance(s, b, a) + (ledger[a] - Balance[d][a])
      BY <1>1 DEF NewBalance, NsOf
    <2>2. /\ OutBalance(s, b, a) = Balance[d][a] + Executed(s, b, a)
          /\ Balance'[d][a] = NewBalance(s, b, a)
          /\ ledger'[a] = ledger[a] + Executed(s, b, a) /\ Executed(s, b, a) \in Int
      BY <1>1, <1>2, BlockBalances
    <2> QED BY <1>i, <2>1, <2>2
  <1>6. /\ FrameMig1(a) /\ FrameMig2(a) /\ FrameAnn(a) /\ FrameJob(a) /\ FrameOwn(a)
        /\ FrameKept(a)
    BY <1>2, <1>3, BlockFrames
  <1> QED
    BY <1>4, <1>5, <1>6, KeepMig1, KeepMig2, KeepAnn, KeepJob, KeepOwn, KeepKept
    DEF Settling, Moved

AdvancesStage(a, d, b) ==
    /\ Asked(a, d) => Asked(a, d)' \/ Sent(a, d)'
    /\ Sent(a, d) => Sent(a, d)' \/ Shared(a, d)'
    /\ Shared(a, d) => Shared(a, d)' \/ Leaving(a, d)'
    /\ Leaving(a, d) => Leaving(a, d)'
    /\ Settling(a, d) => IF a \in Addrs(b.NSs) THEN Moved(a, d)' ELSE Settling(a, d)'
    /\ Moved(a, d) => Moved(a, d)'

\* A block moves an account to the next stage or leaves it in its stage.
LEMMA BlockKeepsUnder ==
    ASSUME TypeOK, TypeOK', NEW s, NEW b, NEW last, IsBlock(s, b, last),
           NEW a \in Accounts, NEW d \in Shards \ {Genesis[a]}
    PROVE  AdvancesStage(a, d, b) /\ (Under(a, d) => Under(a, d)')
  <1>g. Genesis[a] \in Shards
    BY ConstantsAssumption
  <1>s. /\ s \in Shards
        /\ b.TXmig1s \subseteq TXmig1_pool[s] /\ b.TXmig2s \subseteq TXmig2_pool[s]
        /\ b.Anns \subseteq TXann_pool[s] /\ b.NSs \subseteq TXns_pool[s]
    BY BlockSubsets
  <1> DEFINE plain == a \notin Addrs(b.TXmig1s) \cup Addrs(b.TXmig2s) \cup Addrs(b.Anns)
                                \cup Addrs(b.NSs)
  <1>1. ASSUME Asked(a, d)
        PROVE  Asked(a, d)' \/ Sent(a, d)'
    <2>1. CASE a \in Addrs(b.TXmig1s)
      BY <1>1, <2>1, BlockSends
    <2>2. CASE a \notin Addrs(b.TXmig1s)
      <3>1. plain
        BY <1>1, <1>s, <2>2 DEF Asked, NoMig2, NoAnn, NoNs, Addrs
      <3>2. Location[s][a] = s <=> a \in AccountInOwnShard[s]
        BY <1>1, <1>s DEF Asked, OwnedBy
      <3> QED BY <1>1, <3>1, <3>2, PlainBlock, KeepsUnder DEF KeepsStage
    <2> QED BY <2>1, <2>2
  <1>2. ASSUME Sent(a, d)
        PROVE  Sent(a, d)' \/ Shared(a, d)'
    <2>1. CASE a \in Addrs(b.TXmig2s)
      BY <1>2, <2>1, BlockShares
    <2>2. CASE a \notin Addrs(b.TXmig2s)
      <3>1. plain
        BY <1>2, <1>s, <2>2 DEF Sent, NoMig1, NoAnn, NoNs, Addrs
      <3>2. Location[s][a] = s <=> a \in AccountInOwnShard[s]
        BY <1>2, <1>s DEF Sent, OwnedBy
      <3> QED BY <1>2, <3>1, <3>2, PlainBlock, KeepsUnder DEF KeepsStage
    <2> QED BY <2>1, <2>2
  <1>3. ASSUME Shared(a, d)
        PROVE  Shared(a, d)' \/ Leaving(a, d)'
    <2>1. CASE a \in Addrs(b.Anns) /\ s = Genesis[a]
      BY <1>3, <2>1, BlockLeaves
    <2>2. CASE a \in Addrs(b.Anns) /\ s # Genesis[a]
      <3>1. a \notin Addrs(b.TXmig1s) \cup Addrs(b.TXmig2s) \cup Addrs(b.NSs)
        BY <1>3, <1>s DEF Shared, NoMig1, NoMig2, NoNs, Addrs
      <3>2. s \in Shards /\ Untouched(a, s, 0)
        BY <1>3, <2>2, <3>1, BlockHears DEF Shared
      <3> QED BY <1>3, <3>2, KeepsUnder DEF KeepsStage
    <2>3. CASE a \notin Addrs(b.Anns)
      <3>1. plain
        BY <1>3, <1>s, <2>3 DEF Shared, NoMig1, NoMig2, NoNs, Addrs
      <3>2. Location[s][a] = s <=> a \in AccountInOwnShard[s]
        BY <1>3, <1>s DEF Shared, OwnedBy
      <3> QED BY <1>3, <3>1, <3>2, PlainBlock, KeepsUnder DEF KeepsStage
    <2> QED BY <2>1, <2>2, <2>3
  <1>4. ASSUME Leaving(a, d)
        PROVE  Leaving(a, d)'
    <2>1. a \notin Addrs(b.TXmig1s) \cup Addrs(b.TXmig2s) \cup Addrs(b.NSs)
      BY <1>4, <1>s DEF Leaving, NoMig1, NoMig2, NoNs, Addrs
    <2>2. CASE a \in Addrs(b.Anns)
      <3>1. s # Genesis[a]
        BY <1>4, <1>s, <2>2 DEF Leaving, NoAnnAt, Addrs
      <3>2. s \in Shards /\ Untouched(a, s, 0)
        BY <1>4, <2>1, <2>2, <3>1, BlockHears DEF Leaving
      <3> QED BY <1>4, <3>2, KeepsUnder DEF KeepsStage
    <2>3. CASE a \notin Addrs(b.Anns)
      <3>1. Location[s][a] = s <=> a \in AccountInOwnShard[s]
        BY <1>4, <1>s DEF Leaving, OwnedBy
      <3> QED BY <1>4, <2>1, <2>3, <3>1, PlainBlock, KeepsUnder DEF KeepsStage
    <2> QED BY <2>2, <2>3
  <1>5. ASSUME Settling(a, d)
        PROVE  IF a \in Addrs(b.NSs) THEN Moved(a, d)' ELSE Settling(a, d)'
    <2>1. a \notin Addrs(b.TXmig1s) \cup Addrs(b.TXmig2s)
      BY <1>5, <1>s DEF Settling, NoMig1, NoMig2, Addrs
    <2>2. CASE a \in Addrs(b.NSs)
      BY <1>5, <2>2, BlockSettles
    <2>3. CASE a \notin Addrs(b.NSs) /\ a \in Addrs(b.Anns)
      <3>1. s # Genesis[a]
        BY <1>5, <1>s, <2>3 DEF Settling, NoAnnAt, Addrs
      <3>2. s \in Shards /\ Untouched(a, s, 0)
        BY <1>5, <2>1, <2>3, <3>1, BlockHears DEF Settling
      <3> QED BY <1>5, <2>3, <3>2, KeepsUnder DEF KeepsStage
    <2>4. CASE a \notin Addrs(b.NSs) /\ a \notin Addrs(b.Anns)
      <3>1. Location[s][a] = s <=> a \in AccountInOwnShard[s]
        BY <1>5, <1>s DEF Settling, OwnedBy
      <3> QED BY <1>5, <2>1, <2>4, <3>1, PlainBlock, KeepsUnder DEF KeepsStage
    <2> QED BY <2>2, <2>3, <2>4
  <1>6. ASSUME Moved(a, d)
        PROVE  Moved(a, d)'
    <2>1. a \notin Addrs(b.TXmig1s) \cup Addrs(b.TXmig2s) \cup Addrs(b.NSs)
      BY <1>6, <1>s DEF Moved, NoMig1, NoMig2, NoNs, Addrs
    <2>2. CASE a \in Addrs(b.Anns)
      <3>1. s # Genesis[a]
        BY <1>6, <1>s, <2>2 DEF Moved, NoAnnAt, Addrs
      <3>2. s \in Shards /\ Untouched(a, s, 0)
        BY <1>6, <2>1, <2>2, <3>1, BlockHears DEF Moved
      <3> QED BY <1>6, <3>2, KeepsUnder DEF KeepsStage
    <2>3. CASE a \notin Addrs(b.Anns)
      <3>1. Location[s][a] = s <=> a \in AccountInOwnShard[s]
        BY <1>6, <1>s DEF Moved, OwnedBy
      <3> QED BY <1>6, <2>1, <2>3, <3>1, PlainBlock, KeepsUnder DEF KeepsStage
    <2> QED BY <2>2, <2>3
  <1> QED BY <1>1, <1>2, <1>3, <1>4, <1>5, <1>6 DEF Under, AdvancesStage

-----------------------------------------------------------------------------
(* The other steps of the shards *)

\* Unchanged variables satisfy their frames.
LEMMA SameFrames ==
    ASSUME NEW a \in Accounts
    PROVE  /\ UNCHANGED TXmig1_pool => FrameMig1(a)
           /\ UNCHANGED <<TXmig2_pool, cTXmig1>> => FrameMig2(a)
           /\ UNCHANGED <<TXann_pool, cAnnounce>> => FrameAnn(a)
           /\ UNCHANGED mpAndSends => FrameJob(a)
           /\ UNCHANGED <<TXns_pool, cCaP>> => FrameNs(a)
           /\ UNCHANGED <<AccountInOwnShard, Location, Migrate, Outing_Acc_Before_Announce>>
                => FrameOwn(a)
           /\ UNCHANGED BalanceBeforeOut => FrameKept(a)
  BY DEF FrameMig1, FrameMig2, FrameAnn, FrameJob, FrameNs, FrameOwn, FrameKept

\* Unchanged balances add nothing.
LEMMA SameMoney ==
    ASSUME TypeOK, NEW a \in Accounts, UNCHANGED <<Balance, ledger>>
    PROVE  Genesis[a] \in Shards /\ Adds(a, Genesis[a], 0)
  <1>1. Genesis[a] \in Shards
    BY ConstantsAssumption
  <1>2. ledger[a] \in Int /\ Balance[Genesis[a]][a] \in Int
    BY <1>1, BalanceTypes
  <1> QED BY <1>1, <1>2 DEF Adds

moveVars == <<AccountInOwnShard, Location, Migrate, Outing_Acc_Before_Announce,
              BalanceBeforeOut, Balance, ledger, TXmig1_pool, TXmig2_pool, TXann_pool,
              TXns_pool, mpAndSends, cTXmig1, cAnnounce, cCaP>>

\* A step that touches no variable of the moves leaves every account untouched.
LEMMA QuietStep ==
    ASSUME TypeOK, TypeOK', UNCHANGED moveVars, NEW a \in Accounts
    PROVE  Genesis[a] \in Shards /\ Untouched(a, Genesis[a], 0)
  BY SameFrames, SameMoney, FramesKeep DEF moveVars, Untouched

\* handleMig2 only moves a TXmig2 from the network to the pool of its destination.
LEMMA Mig2Arrives ==
    ASSUME TypeOK, TypeOK', NEW m \in cTXmig1, handleMig2(m), NEW a \in Accounts
    PROVE  Genesis[a] \in Shards /\ Untouched(a, Genesis[a], 0)
  <1> USE DEF tries, flags, history
  <1>1. /\ FrameMig1(a) /\ FrameAnn(a) /\ FrameJob(a) /\ FrameNs(a) /\ FrameOwn(a)
        /\ FrameKept(a) /\ Genesis[a] \in Shards /\ Adds(a, Genesis[a], 0)
    BY SameFrames, SameMoney DEF handleMig2
  <1>2. KeepsMig2(a)
    <2>1. /\ cTXmig1' = cTXmig1 \ {m} /\ m.to \in Shards
          /\ \A r \in Shards : \A t : t \in TXmig2_pool'[r] <=>
                t \in TXmig2_pool[r] \/ (r = m.to /\ t = m)
      <3>1. TXmig2_pool \in [Shards -> SUBSET TXmig2] /\ m \in TXmig2
        BY DEF TypeOK
      <3> QED BY <3>1 DEF handleMig2, TXmig2
    <2>2. NoMig2(a) => NoMig2(a)'
      BY <2>1 DEF NoMig2
    <2>3. ASSUME NEW d \in Shards, Mig2Waits(a, d) PROVE Mig2Waits(a, d)'
      <3> DEFINE t0 == Mig2Of(a, d)
      <3>1. t0' = t0 /\ t0.addr = a /\ t0.to = d
        BY DEF Mig2Of, handleMig2
      <3>2. /\ \A t \in cTXmig1 : t.addr = a => t = t0
            /\ \A s \in Shards : \A t \in TXmig2_pool[s] : t.addr = a => s = d /\ t = t0
            /\ t0 \in cTXmig1 \/ t0 \in TXmig2_pool[d]
            /\ ~(t0 \in cTXmig1 /\ t0 \in TXmig2_pool[d])
        BY <2>3 DEF Mig2Waits
      <3> HIDE DEF t0
      <3>3. /\ \A t \in cTXmig1' : t.addr = a => t = t0
            /\ \A s \in Shards : \A t \in TXmig2_pool'[s] : t.addr = a => s = d /\ t = t0
            /\ t0 \in cTXmig1' \/ t0 \in TXmig2_pool'[d]
            /\ ~(t0 \in cTXmig1' /\ t0 \in TXmig2_pool'[d])
        BY <2>1, <3>1, <3>2
      <3> QED BY <3>1, <3>3 DEF t0, Mig2Waits
    <2> QED BY <2>2, <2>3 DEF KeepsMig2
  <1> QED BY <1>1, <1>2, FramesKeep DEF Untouched

\* An announcement only moves from the network to a pool, or to the client.
LEMMA AnnounceArrives ==
    ASSUME TypeOK, TypeOK', NEW m \in cAnnounce, handleAnnounce(m) \/ HandleAnnounce(m),
           NEW a \in Accounts
    PROVE  Genesis[a] \in Shards /\ Untouched(a, Genesis[a], 0)
  <1> USE DEF tries, flags, pools, history, shardVars
  <1>1. /\ FrameMig1(a) /\ FrameMig2(a) /\ FrameJob(a) /\ FrameNs(a) /\ FrameOwn(a)
        /\ FrameKept(a) /\ Genesis[a] \in Shards /\ Adds(a, Genesis[a], 0)
    BY SameFrames, SameMoney DEF handleAnnounce, HandleAnnounce
  <1>2. KeepsAnn(a)
    <2>1. /\ cAnnounce' = cAnnounce \ {m}
          /\ \A r \in Shards : \A t : t \in TXann_pool'[r] <=>
                t \in TXann_pool[r] \/ (r = m.dst /\ t \in m.TXanns)
      <3>1. TXann_pool \in [Shards -> SUBSET TXann]
        BY DEF TypeOK
      <3> QED BY <3>1, ConstantsAssumption DEF handleAnnounce, HandleAnnounce
    <2>2. NoAnn(a) => NoAnn(a)'
      BY <2>1 DEF NoAnn
    <2>3. NoAnnAt(a, Genesis[a]) => NoAnnAt(a, Genesis[a])'
      BY <1>1, <2>1 DEF NoAnnAt
    <2>4. ASSUME NEW d \in Shards PROVE AnnOf(a, d)' = AnnOf(a, d) /\ AnnOf(a, d).addr = a
      BY DEF AnnOf
    <2>5. ASSUME NEW d \in Shards, AnnsFrom(a, d) PROVE AnnsFrom(a, d)'
      BY <2>1, <2>4, <2>5 DEF AnnsFrom
    <2>6. ASSUME NEW d \in Shards, AnnWaits(a, d) PROVE AnnWaits(a, d)'
      BY <1>1, <2>1, <2>4, <2>6 DEF AnnWaits
    <2> QED BY <2>2, <2>3, <2>5, <2>6 DEF KeepsAnn
  <1> QED BY <1>1, <1>2, FramesKeep DEF Untouched

\* handleChangesAndPendings only moves a TXns from the network to the pool.
LEMMA NsArrives ==
    ASSUME TypeOK, TypeOK', NEW m \in cCaP, handleChangesAndPendings(m), NEW a \in Accounts
    PROVE  Genesis[a] \in Shards /\ Untouched(a, Genesis[a], 0)
  <1> USE DEF tries, flags, pools, history
  <1>1. /\ FrameMig1(a) /\ FrameMig2(a) /\ FrameAnn(a) /\ FrameJob(a) /\ FrameOwn(a)
        /\ FrameKept(a) /\ Genesis[a] \in Shards /\ Adds(a, Genesis[a], 0)
    BY SameFrames, SameMoney DEF handleChangesAndPendings
  <1>2. KeepsNs(a)
    <2>0. TXns_pool \in [Shards -> SUBSET TXns] /\ m \in CaPMsg
      BY DEF TypeOK
    <2>1. CASE m.TXnss = {} /\ cCaP' = cCaP \ {m} /\ UNCHANGED TXns_pool
      <3>1. FrameNs(a)
        BY <2>1 DEF FrameNs
      <3> QED BY <3>1, FramesKeep
    <2>2. ASSUME NEW ns \in m.TXnss,
                 cCaP' = (cCaP \ {m}) \cup {[m EXCEPT !.TXnss = @ \ {ns}]},
                 TXns_pool' = [TXns_pool EXCEPT ![m.to] = @ \cup {ns}]
          PROVE  KeepsNs(a)
      <3> DEFINE m2 == [m EXCEPT !.TXnss = @ \ {ns}]
      <3>1. m2.TXnss = m.TXnss \ {ns} /\ m2.to = m.to /\ m.to \in Shards
        BY <2>0 DEF CaPMsg
      <3>2. cCaP' = (cCaP \ {m}) \cup {m2}
        BY <2>2
      <3>3. \A r \in Shards : \A t : t \in TXns_pool'[r] <=>
               t \in TXns_pool[r] \/ (r = m.to /\ t = ns)
        BY <2>0, <2>2
      <3> HIDE DEF m2
      <3>4. NoNs(a) => NoNs(a)'
        BY <3>1, <3>2, <3>3 DEF NoNs
      <3>5. ASSUME NEW d \in Shards, NEW n0 \in TXns, n0.addr = a, NsIs(a, d, n0)
            PROVE  NsIs(a, d, n0)'
        <4>1. \A m1 \in cCaP' : \A t \in m1.TXnss : t.addr = a => m1.to = d /\ t = n0
          BY <3>1, <3>2, <3>5 DEF NsIs
        <4>2. \A r \in Shards : \A t \in TXns_pool'[r] : t.addr = a => r = d /\ t = n0
          BY <3>3, <3>5 DEF NsIs
        <4>3. n0 \in TXns_pool'[d] \/ \E m1 \in cCaP' : n0 \in m1.TXnss
          BY <3>1, <3>2, <3>3, <3>5 DEF NsIs
        <4>4. \A m1 \in cCaP' : n0 \in m1.TXnss => n0 \notin TXns_pool'[d]
          BY <3>1, <3>2, <3>3, <3>5 DEF NsIs
        <4>5. \A m1, m3 \in cCaP' : n0 \in m1.TXnss /\ n0 \in m3.TXnss => m1 = m3
          BY <3>1, <3>2, <3>5 DEF NsIs
        <4> QED BY <4>1, <4>2, <4>3, <4>4, <4>5 DEF NsIs
      <3> QED BY <3>4, <3>5 DEF KeepsNs
    <2> QED BY <2>1, <2>2 DEF handleChangesAndPendings
  <1> QED BY <1>1, <1>2, FramesKeep DEF Untouched

\* A goroutine of mpAndSend only has announcements of accounts that leave its
\* shard, one each, with the balance that was handed over.
LEMMA JobStage ==
    ASSUME \A x \in Accounts : Stage(x), TypeOK, NEW s \in Shards, NEW job \in mpAndSends[s],
           NEW t \in job.anns
    PROVE  /\ t.addr \in Accounts /\ s = Genesis[t.addr]
           /\ \E d \in Shards \ {Genesis[t.addr]} : Leaving(t.addr, d) /\ t = AnnOf(t.addr, d)
           /\ BalanceBeforeOut[s][t.addr] \in Int
           /\ \A u \in job.anns : u.addr = t.addr => u = t
  <1>1. t.addr \in Accounts
    BY DEF TypeOK, Job, TXann
  <1>2. ~NoJob(t.addr)
    BY DEF NoJob
  <1>3. PICK d \in Shards \ {Genesis[t.addr]} : Leaving(t.addr, d)
    BY <1>1, <1>2 DEF Stage, AtHome, Under, Asked, Sent, Shared, Settling, Moved
  <1>4. /\ s = Genesis[t.addr] /\ t = AnnOf(t.addr, d)
        /\ \A u \in job.anns : u.addr = t.addr => u = AnnOf(t.addr, d)
    BY <1>3 DEF Leaving, JobRuns
  <1>5. BalanceBeforeOut[s][t.addr] \in Int
    BY <1>3, <1>4 DEF Leaving, KeptAtHome
  <1> QED BY <1>1, <1>3, <1>4, <1>5

\* mpAndSend never panics; it leaves accounts it does not handle untouched, and the
\* others arrive, with a TXns if their balance has changed.
LEMMA MpAndSendKeeps ==
    ASSUME \A x \in Accounts : Stage(x), TypeOK, TypeOK', NEW s \in Shards,
           NEW job \in mpAndSends[s], mpAndSend(s, job), NEW a \in Accounts
    PROVE  /\ UNCHANGED crashed
           /\ AtHome(a) => AtHome(a)'
           /\ \A d \in Shards \ {Genesis[a]} :
                 /\ Under(a, d) => Under(a, d)'
                 /\ a \notin Addrs(job.anns) => KeepsStage(a, d)
                 /\ \A t \in job.anns : t.addr = a /\ Under(a, d) =>
                       IF Change(s, job, t) = 0 THEN Moved(a, d)' ELSE Settling(a, d)'
  <1> USE DEF tries, flags, pools, history
  <1> DEFINE changed == {t \in job.anns : Change(s, job, t) # 0}
             ns(t) == [addr |-> t.addr, to |-> t.to, req |-> t.req,
                       change |-> Change(s, job, t)]
             msg(r) == [to |-> r, List |-> {t \in job.anns : t.to = r},
                        TXnss |-> {ns(t) : t \in {u \in changed : u.to = r}}]
             dests == {t.to : t \in job.anns}
  <1>n. /\ \A t \in job.anns : BalanceBeforeOut[s][t.addr] # NoBalance
        /\ \A t, u \in job.anns : t.addr = u.addr => t = u
    BY JobStage, ConstantsAssumption
  <1>1. /\ UNCHANGED crashed
        /\ BalanceBeforeOut' =
             [BalanceBeforeOut EXCEPT ![s] =
                [x \in Accounts |-> IF x \in Addrs(job.anns) THEN NoBalance ELSE @[x]]]
        /\ cCaP' = cCaP \cup {msg(r) : r \in dests}
        /\ mpAndSends' = [mpAndSends EXCEPT ![s] = @ \ {job}]
    BY <1>n DEF mpAndSend
  <1>2. /\ FrameMig1(a) /\ FrameMig2(a) /\ FrameAnn(a) /\ FrameOwn(a)
        /\ Genesis[a] \in Shards /\ Adds(a, Genesis[a], 0) /\ UNCHANGED <<Balance, ledger, TXns_pool>>
    BY SameFrames, SameMoney DEF mpAndSend
  <1>3. \A r : /\ msg(r).to = r
               /\ \A t : t \in msg(r).TXnss <=> \E u \in changed : u.to = r /\ t = ns(u)
    OBVIOUS
  <1>4. \A r \in Shards : mpAndSends'[r] = IF r = s THEN mpAndSends[s] \ {job}
                                           ELSE mpAndSends[r]
    <2>1. mpAndSends \in [Shards -> SUBSET Job]
      BY DEF TypeOK
    <2> QED BY <1>1, <2>1
  <1>5. \A r \in Shards : BalanceBeforeOut'[r][a] =
             IF r = s /\ a \in Addrs(job.anns) THEN NoBalance ELSE BalanceBeforeOut[r][a]
    <2>1. BalanceBeforeOut \in [Shards -> [Accounts -> Int \cup {NoBalance}]]
      BY DEF TypeOK
    <2> QED BY <1>1, <2>1
  <1>6. \A u : ns(u).addr = u.addr
    OBVIOUS
  <1>7. CASE a \notin Addrs(job.anns)
    <2>1. \A t \in job.anns : t.addr # a
      BY <1>7 DEF Addrs
    <2>2. FrameKept(a)
      BY <1>5, <1>7 DEF FrameKept
    <2>3. FrameJob(a)
      BY <1>4, <2>1 DEF FrameJob
    <2>4. \A r : \A t \in msg(r).TXnss : t.addr # a
      <3>1. \A u \in changed : u.addr # a
        BY <2>1
      <3> HIDE DEF ns, msg, changed
      <3> QED BY <1>3, <1>6, <3>1
    <2>5. FrameNs(a)
      <3> HIDE DEF msg, dests
      <3> QED BY <1>1, <1>2, <2>4 DEF FrameNs
    <2>6. Untouched(a, Genesis[a], 0)
      BY <1>2, <2>2, <2>3, <2>5, FramesKeep DEF Untouched
    <2> QED BY <1>1, <1>2, <2>1, <2>6, KeepsHome, KeepsUnder
  <1>8. CASE a \in Addrs(job.anns)
    <2>1. PICK t0 \in job.anns : t0.addr = a
      BY <1>8 DEF Addrs
    <2>2. ~NoJob(a)
      BY <2>1 DEF NoJob
    <2>3. ~AtHome(a)
      BY <2>2 DEF AtHome
    <2>4. ASSUME NEW d \in Shards \ {Genesis[a]}, Under(a, d)
          PROVE  IF Change(s, job, t0) = 0 THEN Moved(a, d)' ELSE Settling(a, d)'
      <3> DEFINE c == Change(s, job, t0)
      <3>1. Leaving(a, d)
        BY <2>2, <2>4 DEF Under, Asked, Sent, Shared, Settling, Moved
      <3>2. /\ s = Genesis[a] /\ t0 = AnnOf(a, d)
            /\ Balance[d][a] + (job.state[a] - BalanceBeforeOut[s][a]) = ledger[a]
            /\ \A j \in mpAndSends[s] : AnnOf(a, d) \in j.anns => j = job
            /\ \A r \in Shards : \A j \in mpAndSends[r] : \A t \in j.anns : t.addr = a =>
                  r = s /\ t = t0
        BY <2>1, <3>1 DEF Leaving, JobRuns
      <3>3. c \in Int /\ c = ledger[a] - Balance[d][a]
        <4>1. BalanceBeforeOut[s][a] \in Int
          BY <3>1, <3>2 DEF Leaving, KeptAtHome
        <4>2. job.state[a] \in Int
          BY DEF TypeOK, Job
        <4>3. Balance[d][a] \in Int /\ ledger[a] \in Int
          BY BalanceTypes
        <4> QED BY <2>1, <3>2, <4>1, <4>2, <4>3 DEF Change
      <3>4. NoJob(a)'
        BY <1>4, <3>2 DEF NoJob
      <3>5. NothingKept(a)'
        BY <1>5, <1>8, <3>1, <3>2 DEF NothingKept, Leaving, KeptAtHome
      <3>6. /\ NoMig1(a)' /\ NoMig2(a)' /\ AnnsFrom(a, d)' /\ NoAnnAt(a, Genesis[a])'
            /\ OwnedBy(a, {d})' /\ Unmarked(a)'
        BY <1>2, <3>1, KeepMig1, KeepMig2, KeepAnn, KeepOwn DEF Leaving
      <3>7. \A u \in changed : u.addr = a => u = t0
        BY <1>n, <2>1
      <3>8. /\ \A m \in cCaP : \A t \in m.TXnss : t.addr # a
            /\ \A r \in Shards : \A t \in TXns_pool'[r] : t.addr # a
        BY <1>2, <3>1 DEF Leaving, NoNs
      <3>9. CASE c = 0
        <4>1. t0 \notin changed
          BY <3>9
        <4>2. \A r : \A t \in msg(r).TXnss : t.addr # a
          <5> HIDE DEF ns, msg, changed
          <5> QED BY <1>3, <1>6, <3>7, <4>1
        <4>3. NoNs(a)'
          <5> HIDE DEF msg, dests
          <5> QED BY <1>1, <3>8, <4>2 DEF NoNs
        <4>4. Balance'[d][a] = ledger'[a]
          <5>1. Balance[d][a] \in Int /\ ledger[a] \in Int
            BY BalanceTypes
          <5> QED BY <1>2, <3>3, <3>9, <5>1
        <4>5. Moved(a, d)'
          BY <3>4, <3>5, <3>6, <4>3, <4>4 DEF Moved
        <4> QED BY <3>9, <4>5
      <3>10. CASE c # 0
        <4>0. PICK n0 : n0 = ns(t0)
          OBVIOUS
        <4>1. t0 \in changed /\ t0.to = d /\ d \in dests
          BY <3>2, <3>10 DEF AnnOf
        <4>2. n0 = NsOf(a, d)' /\ n0.addr = a
          BY <4>0, <1>2, <3>2, <3>3 DEF NsOf, AnnOf
        <4>3. \A r : \A t \in msg(r).TXnss : t.addr = a => r = d /\ t = n0
          <5> HIDE DEF ns, msg, changed, dests
          <5> QED BY <1>3, <1>6, <3>7, <4>0, <4>1
        <4>4. n0 \in msg(d).TXnss
          <5> HIDE DEF ns, msg, changed, dests
          <5> QED BY <1>3, <4>0, <4>1
        <4>5. \A r : msg(r).to = r
          BY <1>3
        <4> HIDE DEF ns, msg, changed, dests
        <4>6. \A m \in cCaP' : \A t \in m.TXnss : t.addr = a => m.to = d /\ t = n0
          BY <1>1, <3>8, <4>3, <4>5
        <4>7. msg(d) \in cCaP'
          BY <1>1, <4>1
        <4>8. \A m \in cCaP' : n0 \in m.TXnss => m = msg(d)
          BY <1>1, <3>8, <4>2, <4>3
        <4>9. NsIs(a, d, n0)'
          BY <3>8, <4>2, <4>4, <4>6, <4>7, <4>8 DEF NsIs
        <4>10. NsWaits(a, d)'
          BY <4>2, <4>9 DEF NsWaits
        <4>11. Settling(a, d)'
          BY <3>4, <3>5, <3>6, <4>10 DEF Settling
        <4> QED BY <3>10, <4>11
      <3> QED BY <3>9, <3>10
    <2>5. \A t \in job.anns : t.addr = a => t = t0
      BY <1>n, <2>1
    <2> HIDE DEF changed, ns, msg, dests
    <2> QED BY <1>1, <1>8, <2>3, <2>4, <2>5 DEF Under
  <1> QED BY <1>7, <1>8

-----------------------------------------------------------------------------
(* The inductive invariant *)

Keeps ==
    \A a \in Accounts :
        /\ AtHome(a) => AtHome(a)'
        /\ \A d \in Shards \ {Genesis[a]} : Under(a, d) => Under(a, d)'

SameStages ==
    \A a \in Accounts :
        /\ AtHome(a) => AtHome(a)'
        /\ \A d \in Shards \ {Genesis[a]} : KeepsStage(a, d)

\* When a step leaves every account untouched, all stages stay.
LEMMA UntouchedKeeps ==
    ASSUME TypeOK, TypeOK',
           \A a \in Accounts : Genesis[a] \in Shards /\ Untouched(a, Genesis[a], 0)
    PROVE  Keeps /\ SameStages
  BY KeepsHome, KeepsUnder DEF Keeps, SameStages

\* Steps that neither start a round nor ask for a move.
LEMMA KeepsIInv ==
    ASSUME IInv, TypeOK', Keeps, crashed' \subseteq {Client},
           UNCHANGED <<OnlyOnce, num_of_shard_not_sending_pending, cMigrateWanted,
                       cPendingTXs, cNewMap>>
    PROVE  IInv'
  <1>1. \A a \in Accounts : Stage(a)'
    BY DEF IInv, Keeps, Stage
  <1>2. RoundInv'
    BY DEF IInv, RoundInv, Keeps, Wanted
  <1>3. NewMapInv'
    BY DEF IInv, NewMapInv, Keeps
  <1> QED BY <1>1, <1>2, <1>3 DEF IInv

\* Blocks keep the invariant.
LEMMA BlockIInv ==
    ASSUME IInv, TypeOK', NEW s \in Shards, ProduceBlock(s)
    PROVE  IInv'
  <1>1. PICK b \in GenerateBlock(s) : \E last \in LastAnns(b.Anns) :
           FetchedFromPools(s, b) /\ commit1(s, b, last)
    BY DEF ProduceBlock
  <1>2. PICK last \in LastAnns(b.Anns) : FetchedFromPools(s, b) /\ commit1(s, b, last)
    BY <1>1
  <1>3. IsBlock(s, b, last)
    BY <1>2 DEF IsBlock
  <1>4. Keeps
    BY <1>3, BlockKeepsHome, BlockKeepsUnder DEF Keeps, IInv
  <1>5. UNCHANGED <<OnlyOnce, num_of_shard_not_sending_pending, cMigrateWanted,
                    cPendingTXs, cNewMap, crashed>>
    BY <1>2 DEF commit1, counters
  <1> QED BY <1>4, <1>5, KeepsIInv DEF IInv

\* mpAndSend keeps the invariant.
LEMMA MpAndSendIInv ==
    ASSUME IInv, TypeOK', NEW s \in Shards, NEW job \in mpAndSends[s], mpAndSend(s, job)
    PROVE  IInv'
  <1>1. Keeps /\ (Accounts # {} => UNCHANGED crashed)
    BY MpAndSendKeeps DEF Keeps, IInv
  <1>2. CASE Accounts = {}
    <2>1. job.anns = {}
      <3>1. job \in Job
        BY DEF IInv, TypeOK
      <3> QED BY <1>2, <3>1 DEF Job, TXann
    <2>2. UNCHANGED crashed
      BY <2>1 DEF mpAndSend
    <2> QED BY <1>1, <2>2, KeepsIInv DEF mpAndSend, counters, IInv
  <1>3. CASE Accounts # {}
    BY <1>1, <1>3, KeepsIInv DEF mpAndSend, counters, IInv
  <1> QED BY <1>2, <1>3

\* The delivery of a TXmig2, an announcement or a TXns keeps the invariant.
LEMMA DeliveryIInv ==
    ASSUME IInv, TypeOK',
           \/ \E t \in cTXmig1 : handleMig2(t)
           \/ \E m \in cAnnounce : handleAnnounce(m) \/ HandleAnnounce(m)
           \/ \E m \in cCaP : handleChangesAndPendings(m)
    PROVE  IInv'
  <1>1. \A a \in Accounts : Genesis[a] \in Shards /\ Untouched(a, Genesis[a], 0)
    BY Mig2Arrives, AnnounceArrives, NsArrives DEF IInv
  <1>2. Keeps
    BY <1>1, UntouchedKeeps DEF IInv
  <1>3. UNCHANGED <<OnlyOnce, num_of_shard_not_sending_pending, cMigrateWanted,
                    cPendingTXs, cNewMap, crashed>>
    BY DEF handleMig2, handleAnnounce, HandleAnnounce, handleChangesAndPendings, counters, toClient
  <1> QED BY <1>2, <1>3, KeepsIInv DEF IInv

\* The accounts for which handleNewMap makes a TXmig1.
Accepts(m) == {a \in AccountInOwnShard[m.shard] : m.map[a] \notin {m.shard, NoShard}}

\* The home shard accepts the move of an account that it owns.
LEMMA NewMapStages ==
    ASSUME IInv, TypeOK', NEW m \in cNewMap, handleNewMap(m), NEW a \in Accounts
    PROVE  IF a \in Accepts(m)
           THEN /\ m.shard = Genesis[a] /\ AtHome(a)
                /\ m.map[a] \in Shards \ {Genesis[a]} /\ Asked(a, m.map[a])'
           ELSE /\ AtHome(a) => AtHome(a)'
                /\ \A d \in Shards \ {Genesis[a]} :
                      KeepsStage(a, d) /\ (Under(a, d) => Under(a, d)')
  <1> USE DEF tries, flags, history
  <1> DEFINE h == m.shard
             leaving == Accepts(m)
             new(x) == [addr |-> x, from |-> h, to |-> m.map[x], req |-> 0]
  <1>t. TypeOK /\ m.req = 0 /\ m \in NewMapMsg
    BY DEF IInv, NewMapInv, TypeOK
  <1>1. \A r \in Shards : \A t : t \in TXmig1_pool'[r] <=>
           t \in TXmig1_pool[r] \/ (r = h /\ \E x \in leaving : t = new(x))
    <2>1. TXmig1_pool \in [Shards -> SUBSET TXmig1] /\ h \in Shards
      BY <1>t DEF TypeOK, NewMapMsg
    <2>2. TXmig1_pool' = [TXmig1_pool EXCEPT ![h] = @ \cup {new(x) : x \in leaving}]
      BY <1>t DEF handleNewMap, Accepts
    <2> HIDE DEF new, leaving, h
    <2> QED BY <2>1, <2>2
  <1>2. \A x : new(x).addr = x
    OBVIOUS
  <1>3. /\ FrameMig2(a) /\ FrameAnn(a) /\ FrameJob(a) /\ FrameNs(a) /\ FrameOwn(a)
        /\ FrameKept(a) /\ Genesis[a] \in Shards /\ Adds(a, Genesis[a], 0)
        /\ UNCHANGED <<Balance, ledger>>
    BY <1>t, SameFrames, SameMoney DEF handleNewMap
  <1>4. ASSUME a \in leaving
        PROVE  /\ h = Genesis[a] /\ AtHome(a)
               /\ m.map[a] \in Shards \ {Genesis[a]} /\ Asked(a, m.map[a])'
    <2>1. \/ AtHome(a)
          \/ m.shard # Genesis[a] /\ m.map[a] \in Shards \ {Genesis[a]} /\ Under(a, m.map[a])
      BY DEF IInv, NewMapInv
    <2>2. h \in Shards /\ a \in AccountInOwnShard[h] /\ m.map[a] # h /\ m.map[a] \in Shards
      BY <1>t, <1>4 DEF NewMapMsg, Accepts
    <2>3. ASSUME Under(a, m.map[a]) PROVE h = Genesis[a] \/ h = m.map[a]
      BY <2>2, <2>3 DEF Under, Asked, Sent, Shared, Leaving, Settling, Moved, OwnedBy
    <2>4. AtHome(a)
      BY <2>1, <2>2, <2>3
    <2>5. h = Genesis[a]
      BY <2>2, <2>4 DEF AtHome, OwnedBy
    <2>6. Mig1Waits(a, m.map[a])'
      <3>1. new(a) \in TXmig1_pool'[h]
        BY <1>1, <1>4, <2>2
      <3>2. \A r \in Shards : \A t \in TXmig1_pool'[r] : t.addr = a => r = h /\ t = new(a)
        BY <1>1, <1>2, <2>4 DEF AtHome, NoMig1
      <3> QED BY <1>2, <2>5, <3>1, <3>2 DEF Mig1Waits
    <2>7. Asked(a, m.map[a])'
      BY <1>t, <1>3, <2>2, <2>4, <2>6, KeepMig2, KeepAnn, KeepJob, KeepNs, KeepOwn, KeepKept
      DEF AtHome, Asked
    <2> QED BY <2>2, <2>4, <2>5, <2>7
  <1>5. ASSUME a \notin leaving
        PROVE  /\ AtHome(a) => AtHome(a)'
               /\ \A d \in Shards \ {Genesis[a]} :
                     KeepsStage(a, d) /\ (Under(a, d) => Under(a, d)')
    <2>1. FrameMig1(a)
      <3> HIDE DEF new, leaving, h
      <3> QED BY <1>1, <1>2, <1>5 DEF FrameMig1
    <2>2. Untouched(a, Genesis[a], 0)
      BY <1>t, <1>3, <2>1, FramesKeep DEF Untouched
    <2> QED BY <1>t, <1>3, <2>2, KeepsHome, KeepsUnder
  <1> QED BY <1>4, <1>5

\* A new map keeps the invariant.
LEMMA NewMapIInv ==
    ASSUME IInv, TypeOK', NEW m \in cNewMap, handleNewMap(m)
    PROVE  IInv'
  <1>4. ASSUME NEW a \in Accounts, a \in Accepts(m)
        PROVE  /\ m.shard = Genesis[a] /\ AtHome(a)
               /\ m.map[a] \in Shards \ {Genesis[a]} /\ Under(a, m.map[a])'
    BY <1>4, NewMapStages DEF Under
  <1>5. ASSUME NEW a \in Accounts, a \notin Accepts(m)
        PROVE  /\ AtHome(a) => AtHome(a)'
               /\ \A d \in Shards \ {Genesis[a]} : Under(a, d) => Under(a, d)'
    BY <1>5, NewMapStages
  <1>6. \A a \in Accounts : Stage(a)'
    BY <1>4, <1>5 DEF IInv, Stage
  <1>7. cNewMap' = cNewMap \ {m} /\ UNCHANGED <<OnlyOnce, num_of_shard_not_sending_pending,
                                                cMigrateWanted, cPendingTXs, crashed>>
    BY DEF handleNewMap, counters, toClient
  <1>8. RoundInv'
    BY <1>7 DEF IInv, RoundInv, Wanted
  <1>9. NewMapInv'
    <2>1. /\ \A n \in cNewMap' : n.req = 0
          /\ \A n, k \in cNewMap' : n.map = k.map /\ (n.shard = k.shard => n = k)
      BY <1>7 DEF IInv, NewMapInv
    <2>2. ASSUME NEW n \in cNewMap', NEW a \in Accounts
          PROVE  \/ AtHome(a)'
                 \/ /\ n.shard # Genesis[a] /\ n.map[a] \in Shards \ {Genesis[a]}
                    /\ Under(a, n.map[a])'
      <3>1. n \in cNewMap /\ n.map = m.map /\ n.shard # m.shard
        BY <1>7 DEF IInv, NewMapInv
      <3>2. CASE a \in Accepts(m)
        BY <1>4, <3>1, <3>2
      <3>3. CASE a \notin Accepts(m)
        BY <1>5, <3>1, <3>3 DEF IInv, NewMapInv
      <3> QED BY <3>2, <3>3
    <2> QED BY <2>1, <2>2 DEF NewMapInv
  <1> QED BY <1>6, <1>7, <1>8, <1>9 DEF IInv

-----------------------------------------------------------------------------
(* The client's steps *)

\* Steps that leave every account, its messages and its pools alone.
LEMMA QuietKeeps ==
    ASSUME TypeOK, TypeOK', UNCHANGED moveVars
    PROVE  Keeps /\ SameStages
  BY QuietStep, UntouchedKeeps

\* A leader answers the client's request with its pending transactions.
LEMMA MigrateWantedIInv ==
    ASSUME IInv, TypeOK', NEW s \in Shards, handleMigrateWanted(s)
    PROVE  IInv'
  <1>1. Keeps
    BY QuietKeeps DEF handleMigrateWanted, moveVars, tries, flags, pools, history, IInv
  <1>2. /\ s \in cMigrateWanted /\ cMigrateWanted' = cMigrateWanted \ {s}
        /\ cPendingTXs' = cPendingTXs \cup {s}
        /\ UNCHANGED <<OnlyOnce, num_of_shard_not_sending_pending, cNewMap, crashed>>
    BY DEF handleMigrateWanted, counters
  <1>3. Wanted' = Wanted
    BY <1>2 DEF Wanted
  <1>4. RoundInv'
    BY <1>1, <1>2, <1>3 DEF IInv, RoundInv, Keeps
  <1>5. NewMapInv' /\ \A a \in Accounts : Stage(a)'
    BY <1>1, <1>2 DEF IInv, NewMapInv, Keeps, Stage
  <1> QED BY <1>2, <1>4, <1>5 DEF IInv

\* The client starts its only round while every account is at home.
LEMMA ReplyIInv ==
    ASSUME IInv, TypeOK', Rounds <= 1, NEW nss, NEW due, HandleReply(nss, due)
    PROVE  IInv'
  <1>1. Keeps
    BY QuietKeeps DEF HandleReply, RoundDue, moveVars, shardVars, tries, flags, pools, history, IInv
  <1>2. /\ crashed' \subseteq {Client}
        /\ UNCHANGED <<num_of_shard_not_sending_pending, cPendingTXs, cNewMap>>
    BY DEF HandleReply, RoundDue, IInv
  <1>3. CASE UNCHANGED <<OnlyOnce, cMigrateWanted>>
    BY <1>1, <1>2, <1>3, KeepsIInv
  <1>4. CASE OnlyOnce > 0 /\ OnlyOnce' = OnlyOnce - 1 /\ cMigrateWanted' = Shards
    <2>1. OnlyOnce' = 0
      BY <1>4, ConstantsAssumption DEF IInv, TypeOK, Reqs
    <2>2. /\ Wanted = {} /\ cPendingTXs = {} /\ cNewMap = {}
          /\ \A a \in Accounts : AtHome(a)
          /\ num_of_shard_not_sending_pending = Cardinality(Shards)
      BY <1>4 DEF IInv, RoundInv, Wanted
    <2>3. Wanted' = Shards
      BY <1>2, <1>4, <2>2 DEF Wanted
    <2>4. \A a \in Accounts : AtHome(a)'
      BY <1>1, <2>2 DEF Keeps
    <2>5. RoundInv'
      BY <1>2, <1>4, <2>1, <2>2, <2>3, <2>4, ConstantsAssumption DEF RoundInv
    <2>6. NewMapInv' /\ \A a \in Accounts : Stage(a)'
      BY <1>2, <2>2, <2>4 DEF NewMapInv, Stage
    <2> QED BY <1>2, <2>5, <2>6 DEF IInv
  <1> QED BY <1>3, <1>4 DEF HandleReply, RoundDue

\* The last shard's answer makes the client send the new map.
LEMMA PendingTXsIInv ==
    ASSUME IInv, TypeOK', NEW s \in cPendingTXs, HandlePendingTXs(s)
    PROVE  IInv'
  <1>1. Keeps
    BY QuietKeeps DEF HandlePendingTXs, moveVars, shardVars, tries, flags, pools, history, IInv
  <1>2. /\ cPendingTXs' = cPendingTXs \ {s}
        /\ UNCHANGED <<OnlyOnce, cMigrateWanted, crashed>>
    BY DEF HandlePendingTXs
  <1>3. s \in Wanted /\ Wanted' = Wanted \ {s}
    BY <1>2 DEF Wanted, IInv, RoundInv
  <1>4. /\ ~(OnlyOnce > 0) /\ OnlyOnce = 0 /\ cNewMap = {}
        /\ num_of_shard_not_sending_pending = Cardinality(Wanted)
    BY <1>3, ConstantsAssumption DEF IInv, RoundInv, TypeOK, Reqs
  <1>5. \A a \in Accounts : AtHome(a)'
    BY <1>1, <1>3 DEF IInv, RoundInv, Keeps
  <1>6. IsFiniteSet(Wanted) /\ Cardinality(Wanted) \in Nat
    <2>1. Wanted \in SUBSET Shards
      BY DEF IInv, TypeOK, Wanted
    <2> QED BY <2>1, ConstantsAssumption, FS_Subset, FS_CardinalityType
  <1>7. IsFiniteSet(Wanted \ {s}) /\ Cardinality(Wanted \ {s}) = Cardinality(Wanted) - 1
    BY <1>3, <1>6, FS_RemoveElement
  <1>8. Cardinality(Wanted \ {s}) = 0 <=> Wanted \ {s} = {}
    BY <1>7, FS_EmptySet
  <1>9. (cMigrateWanted \cap cPendingTXs)' = {}
    BY <1>2 DEF IInv, RoundInv
  <1>10. \A a \in Accounts : Stage(a)'
    BY <1>5 DEF Stage
  <1>11. CASE /\ num_of_shard_not_sending_pending > 1
              /\ num_of_shard_not_sending_pending' = num_of_shard_not_sending_pending - 1
              /\ UNCHANGED cNewMap
    <2>1. RoundInv'
      BY <1>2, <1>3, <1>4, <1>5, <1>6, <1>7, <1>8, <1>9, <1>11 DEF RoundInv
    <2>2. NewMapInv'
      BY <1>4, <1>11 DEF NewMapInv
    <2> QED BY <1>2, <1>10, <2>1, <2>2 DEF IInv
  <1>12. ASSUME num_of_shard_not_sending_pending = 1,
                num_of_shard_not_sending_pending' = Cardinality(Shards),
                NEW map,
                cNewMap' = cNewMap \cup
                    {[shard |-> d, map |-> map, req |-> OnlyOnce] : d \in Shards}
         PROVE  IInv'
    <2>1. Wanted' = {}
      BY <1>3, <1>4, <1>6, <1>7, <1>8, <1>12
    <2>2. RoundInv'
      BY <1>2, <1>4, <1>9, <1>12, <2>1 DEF RoundInv
    <2>3. NewMapInv'
      BY <1>4, <1>5, <1>12 DEF NewMapInv
    <2> QED BY <1>2, <1>10, <2>2, <2>3 DEF IInv
  <1> QED BY <1>11, <1>12 DEF HandlePendingTXs

\* The client's bookkeeping concerns no shard.
LEMMA BookkeepingIInv ==
    ASSUME IInv, TypeOK',
           \/ \E list \in cNumOfMigratedTXsAddrs : HandleNumOfMigratedTXsAddrs(list)
           \/ \E anns \in cUnchangedState : HandleUnchangedState(anns)
           \/ UNCHANGED vars
    PROVE  IInv'
  <1> USE DEF vars, shardVars, tries, flags, pools, history, counters, toShards, toClient
  <1>1. Keeps
    BY QuietKeeps DEF HandleNumOfMigratedTXsAddrs, HandleUnchangedState, moveVars, IInv
  <1>2. UNCHANGED <<OnlyOnce, num_of_shard_not_sending_pending, cMigrateWanted,
                    cPendingTXs, cNewMap, crashed>>
    BY DEF HandleNumOfMigratedTXsAddrs, HandleUnchangedState
  <1> QED BY <1>1, <1>2, KeepsIInv DEF IInv

-----------------------------------------------------------------------------
(* The theorems *)

\* In the initial state every account is at home and nothing is in flight.
LEMMA InitIInv == Init => IInv
  <1> SUFFICES ASSUME Init PROVE IInv
    OBVIOUS
  <1>1. TypeOK
    BY InitType
  <1>2. ASSUME NEW a \in Accounts PROVE AtHome(a)
    <2>1. Genesis[a] \in Shards
      BY ConstantsAssumption
    <2>2. NoMig1(a) /\ NoMig2(a) /\ NoAnn(a) /\ NoJob(a) /\ NoNs(a)
      BY DEF Init, NoMig1, NoMig2, NoAnn, NoJob, NoNs
    <2>3. OwnedBy(a, {Genesis[a]}) /\ Unmarked(a) /\ NothingKept(a)
      BY <2>1 DEF Init, OwnedBy, Unmarked, NothingKept
    <2> QED BY <2>1, <2>2, <2>3 DEF Init, AtHome
  <1>3. RoundInv /\ NewMapInv
    BY <1>2 DEF Init, RoundInv, NewMapInv, Wanted
  <1> QED BY <1>1, <1>2, <1>3 DEF Init, IInv, Stage

\* Every step of the leaders, the network and the client keeps the invariant.
LEMMA NextIInv == Rounds <= 1 /\ IInv /\ [Next]_vars => IInv'
  <1> SUFFICES ASSUME Rounds <= 1, IInv, [Next]_vars PROVE IInv'
    OBVIOUS
  <1>1. TypeOK'
    BY NextType DEF IInv
  <1>2. ASSUME NEW s \in Shards, Shard(s) PROVE IInv'
    BY <1>1, <1>2, BlockIInv, MigrateWantedIInv, MpAndSendIInv DEF Shard
  <1>3. CASE Deliver
    BY <1>1, <1>3, NewMapIInv, DeliveryIInv DEF Deliver
  <1>4. CASE ClientStep
    BY <1>1, <1>4, ReplyIInv, DeliveryIInv, PendingTXsIInv, BookkeepingIInv DEF ClientStep
  <1>5. CASE UNCHANGED vars
    BY <1>1, <1>5, BookkeepingIInv
  <1> QED BY <1>2, <1>3, <1>4, <1>5 DEF Next

\* The stages of MigrationInv are all that can happen to an account while a
\* client that migrates at most once runs its round, whatever the order of
\* blocks, handlers, goroutines and messages.
THEOREM Inductive == Rounds <= 1 /\ Spec => []IInv
  <1>1. Rounds <= 1 => [](Rounds <= 1)
    OBVIOUS
  <1> QED BY <1>1, InitIInv, NextIInv, PTL DEF Spec

\* In every stage the account has an owner, a second owner is the destination
\* of a marked account, and the shard's memory agrees with its trie.
LEMMA StageOwners ==
    ASSUME IInv, NEW a \in Accounts
    PROVE  /\ Owners(a) # {}
           /\ \A s \in Shards : a \in AccountInOwnShard[s] <=> Location[s][a] = s
           /\ \A s, d \in Owners(a) : s # d =>
                \/ s = Genesis[a] /\ MarkedFor(a, d)
                \/ d = Genesis[a] /\ MarkedFor(a, s)
  <1>1. Genesis[a] \in Shards
    BY ConstantsAssumption
  <1>2. CASE AtHome(a) \/ \E d \in Shards \ {Genesis[a]} : Asked(a, d) \/ Sent(a, d)
    BY <1>1, <1>2 DEF AtHome, Asked, Sent, OwnedBy, Owners
  <1>3. ASSUME NEW d \in Shards \ {Genesis[a]}, Shared(a, d)
        PROVE  /\ Owners(a) = {Genesis[a], d} /\ MarkedFor(a, d)
               /\ \A s \in Shards : a \in AccountInOwnShard[s] <=> Location[s][a] = s
    BY <1>1, <1>3 DEF Shared, OwnedBy, Owners
  <1>4. ASSUME NEW d \in Shards \ {Genesis[a]}, Leaving(a, d) \/ Settling(a, d) \/ Moved(a, d)
        PROVE  /\ Owners(a) = {d}
               /\ \A s \in Shards : a \in AccountInOwnShard[s] <=> Location[s][a] = s
    BY <1>4 DEF Leaving, Settling, Moved, OwnedBy, Owners
  <1>5. AtHome(a) \/ \E d \in Shards \ {Genesis[a]} : Under(a, d)
    BY DEF IInv, Stage
  <1> QED BY <1>2, <1>3, <1>4, <1>5 DEF Under

\* An account at rest is at home or has arrived, with all its money.
LEMMA StageMoney ==
    ASSUME IInv, NEW a \in Accounts, Settled(a), NEW s \in Owners(a)
    PROVE  Balance[s][a] = ledger[a]
  <1>1. Genesis[a] \in Shards
    BY ConstantsAssumption
  <1>2. CASE AtHome(a)
    BY <1>2 DEF AtHome, OwnedBy, Owners
  <1>3. ASSUME NEW d \in Shards \ {Genesis[a]}, Under(a, d) PROVE Balance[s][a] = ledger[a]
    <2>1. ~Asked(a, d)
      BY <1>1 DEF Settled, Asked, Mig1Waits, Addrs
    <2>2. ~Sent(a, d) /\ ~Shared(a, d)
      BY <1>1, ConstantsAssumption DEF Settled, Sent, Shared, MarkedFor
    <2>3. ~Leaving(a, d)
      <3>1. AnnOf(a, d).addr = a
        BY DEF AnnOf
      <3> QED BY <1>1, <3>1 DEF Settled, Leaving, JobRuns, Addrs
    <2>4. ~Settling(a, d)
      <3>1. NsOf(a, d).addr = a
        BY DEF NsOf
      <3> QED BY <3>1 DEF Settled, Settling, NsWaits, NsIs, Addrs
    <2> QED BY <1>3, <2>1, <2>2, <2>3, <2>4 DEF Under, Moved, OwnedBy, Owners
  <1> QED BY <1>2, <1>3 DEF IInv, Stage

\* No interleaving leaves an account without an owner (AddBlock, handleAnns).
THEOREM OwnershipNeverLost == Rounds <= 1 /\ Spec => []AlwaysOwned
  <1>1. IInv => AlwaysOwned
    BY StageOwners DEF AlwaysOwned
  <1> QED BY <1>1, Inductive, PTL

\* Two shards own an account only during its hand-over, and then exactly one
\* of them is half locked (commit1, AddBlock, handleAnns).
THEOREM SharedOnlyInHandover == Rounds <= 1 /\ Spec => []Handover
  <1>1. ASSUME IInv PROVE Handover
    <2> SUFFICES ASSUME NEW a \in Accounts, NEW s \in Owners(a), NEW d \in Owners(a), s # d
                 PROVE \/ /\ Migrate[s][a] = d /\ a \in Outing_Acc_Before_Announce[s]
                          /\ Migrate[d][a] = NoShard /\ a \notin Outing_Acc_Before_Announce[d]
                       \/ /\ Migrate[d][a] = s /\ a \in Outing_Acc_Before_Announce[d]
                          /\ Migrate[s][a] = NoShard /\ a \notin Outing_Acc_Before_Announce[s]
      BY DEF Handover
    <2> QED BY <1>1, StageOwners DEF MarkedFor, Owners
  <1> QED BY <1>1, Inductive, PTL

\* No payment or receipt is lost or counted twice by a move, for every number
\* of shards and accounts and every workload (TXmig2.Value, BalanceBeforeOut,
\* TXns.Change).
THEOREM MoneyIsConserved == Rounds <= 1 /\ Spec => []MoneyConserved
  <1>1. IInv => MoneyConserved
    BY StageMoney DEF MoneyConserved
  <1> QED BY <1>1, Inductive, PTL

\* mpAndSend never finds BalanceBeforeOut missing.
THEOREM LeadersNeverPanic == Rounds <= 1 /\ Spec => []NoLeaderPanic
  <1>1. IInv => NoLeaderPanic
    BY ConstantsAssumption DEF IInv, NoLeaderPanic
  <1> QED BY <1>1, Inductive, PTL

-----------------------------------------------------------------------------
(* The action properties *)

\* Only blocks change balances and owners.
LEMMA OnlyBlocksWrite ==
    ASSUME [Next]_vars
    PROVE  \/ UNCHANGED <<Balance, AccountInOwnShard>>
           \/ \E s \in Shards : ProduceBlock(s)
  <1> USE DEF tries, shardVars, vars
  <1>1. ASSUME NEW s \in Shards, Shard(s), ~ProduceBlock(s)
        PROVE  UNCHANGED <<Balance, AccountInOwnShard>>
    BY <1>1 DEF Shard, handleMigrateWanted, mpAndSend
  <1>2. CASE Deliver
    BY <1>2 DEF Deliver, handleNewMap, handleMig2, handleAnnounce, handleChangesAndPendings
  <1>3. CASE ClientStep
    BY <1>3 DEF ClientStep, HandleReply, RoundDue, HandleAnnounce, HandlePendingTXs,
                HandleNumOfMigratedTXsAddrs, HandleUnchangedState
  <1> QED BY <1>1, <1>2, <1>3 DEF Next

\* A block's transactions about a meet a in the stage they belong to.
LEMMA BlockStages ==
    ASSUME IInv, NEW s, NEW b, NEW last, IsBlock(s, b, last), NEW a \in Accounts
    PROVE  /\ a \in Addrs(b.TXmig2s) => a \notin Addrs(b.Anns)
           /\ a \in Addrs(b.NSs) => a \in AccountInOwnShard[s]
           /\ a \in Addrs(b.Anns) /\ a \in AccountInOwnShard[s] =>
                \E d \in Shards \ {s} : Shared(a, d) /\ \A t \in b.Anns : t.addr = a => t.to = d
  <1>t. TypeOK /\ Genesis[a] \in Shards
    BY ConstantsAssumption DEF IInv
  <1>s. /\ s \in Shards
        /\ b.TXmig2s \subseteq TXmig2_pool[s] /\ b.Anns \subseteq TXann_pool[s]
        /\ b.NSs \subseteq TXns_pool[s]
    BY <1>t, BlockSubsets
  <1>u. AtHome(a) \/ \E d \in Shards \ {Genesis[a]} : Under(a, d)
    BY DEF IInv, Stage
  <1>1. a \in Addrs(b.TXmig2s) => a \notin Addrs(b.Anns)
    <2>1. ASSUME a \in Addrs(b.TXmig2s) PROVE NoAnn(a)
      <3>1. ~NoMig2(a)
        BY <1>s, <2>1 DEF NoMig2, Addrs
      <3> QED BY <1>u, <3>1 DEF AtHome, Under, Asked, Sent, Shared, Leaving, Settling, Moved
    <2> QED BY <1>s, <2>1 DEF NoAnn, Addrs
  <1>2. ASSUME a \in Addrs(b.NSs) PROVE a \in AccountInOwnShard[s]
    <2>1. ~NoNs(a)
      BY <1>s, <1>2 DEF NoNs, Addrs
    <2>2. PICK d \in Shards \ {Genesis[a]} : Settling(a, d)
      BY <1>u, <2>1 DEF AtHome, Under, Asked, Sent, Shared, Leaving, Moved
    <2>3. s = d
      BY <1>s, <1>2, <2>2 DEF Settling, NsWaits, NsIs, Addrs
    <2> QED BY <2>2, <2>3 DEF Settling, OwnedBy
  <1>3. ASSUME a \in Addrs(b.Anns), a \in AccountInOwnShard[s]
        PROVE  \E d \in Shards \ {s} : Shared(a, d) /\ \A t \in b.Anns : t.addr = a => t.to = d
    <2>1. ~NoAnn(a)
      BY <1>s, <1>3 DEF NoAnn, Addrs
    <2>2. PICK d \in Shards \ {Genesis[a]} :
             Shared(a, d) \/ Leaving(a, d) \/ Settling(a, d) \/ Moved(a, d)
      BY <1>u, <2>1 DEF AtHome, Under, Asked, Sent
    <2>3. s # d /\ \A t \in b.Anns : t.addr = a => t = AnnOf(a, d)
      BY <1>s, <1>3, <2>2 DEF Shared, Leaving, Settling, Moved, AnnsFrom, Addrs
    <2>4. Shared(a, d)
      BY <1>s, <1>3, <2>2, <2>3 DEF Leaving, Settling, Moved, OwnedBy
    <2> QED BY <1>s, <2>2, <2>3, <2>4 DEF AnnOf
  <1> QED BY <1>1, <1>2, <1>3

\* A shard's trie only changes the balance of an account that the shard owns
\* before or after the block (getUpdatedTreeOfState).
THEOREM OnlyOwnersChangeBalances == Rounds <= 1 /\ Spec => OnlyOwnersWrite
  <1>1. ASSUME IInv, [Next]_vars, NEW s \in Shards, NEW a \in Accounts,
               Balance[s][a]' # Balance[s][a]
        PROVE  a \in AccountInOwnShard[s] \cup AccountInOwnShard[s]'
    <2>t. TypeOK
      BY <1>1 DEF IInv
    <2>1. PICK r \in Shards : ProduceBlock(r)
      BY <1>1, OnlyBlocksWrite
    <2>2. PICK b \in GenerateBlock(r) : \E last \in LastAnns(b.Anns) :
             FetchedFromPools(r, b) /\ commit1(r, b, last)
      BY <2>1 DEF ProduceBlock
    <2>3. PICK last \in LastAnns(b.Anns) : FetchedFromPools(r, b) /\ commit1(r, b, last)
      BY <2>2
    <2>4. IsBlock(r, b, last)
      BY <2>3 DEF IsBlock
    <2>5. r = s
      BY <1>1, <2>t, <2>4, BlockBalances
    <2>6. CASE a \in Addrs(b.TXmig2s)
      <3>1. a \notin Deleted(s, b)
        BY <1>1, <2>4, <2>6, BlockStages DEF Deleted
      <3> QED BY <2>t, <2>3, <2>5, <2>6, <3>1 DEF commit1, UpdateMaps, NewOwn, NewShard, TypeOK
    <2>7. CASE a \in Addrs(b.NSs)
      BY <1>1, <2>4, <2>5, <2>7, BlockStages
    <2>8. CASE a \notin Addrs(b.TXmig2s) \cup Addrs(b.NSs)
      <3>1. Executed(s, b, a) # 0
        <4>1. Balance'[s][a] = Balance[s][a] + Executed(s, b, a) /\ Balance[s][a] \in Int
          BY <2>t, <2>4, <2>5, <2>8, BlockBalances, BalanceTypes
        <4> QED BY <1>1, <4>1
      <3>2. Location[s][a] = s \/ a \in AccountInOwnShard[s]
        BY <2>t, <2>4, <2>5, <2>8, <3>1, BlockBalances
      <3> QED BY <1>1, <3>2, StageOwners
    <2> QED BY <2>6, <2>7, <2>8
  <1>2. IInv /\ [Next]_vars =>
          [\A s \in Shards, a \in Accounts :
              Balance[s][a]' # Balance[s][a] =>
                  a \in AccountInOwnShard[s] \cup AccountInOwnShard[s]']_vars
    BY <1>1
  <1> QED BY <1>2, Inductive, PTL DEF Spec, OnlyOwnersWrite

\* A shard only gives an account up to a shard that owns it already: handleAnns
\* never deletes the last copy.
THEOREM OwnershipMovesWithHandover == Rounds <= 1 /\ Spec => NoGap
  <1>1. ASSUME IInv, [Next]_vars, NEW s \in Shards, NEW a \in Accounts,
               a \in AccountInOwnShard[s], a \notin AccountInOwnShard[s]'
        PROVE  Account2Shard[s][a]' # s /\ a \in AccountInOwnShard[Account2Shard[s][a]']
    <2>t. TypeOK
      BY <1>1 DEF IInv
    <2>1. PICK r \in Shards : ProduceBlock(r)
      BY <1>1, OnlyBlocksWrite
    <2>2. PICK b \in GenerateBlock(r) : \E last \in LastAnns(b.Anns) :
             FetchedFromPools(r, b) /\ commit1(r, b, last)
      BY <2>1 DEF ProduceBlock
    <2>3. PICK last \in LastAnns(b.Anns) : FetchedFromPools(r, b) /\ commit1(r, b, last)
      BY <2>2
    <2>4. IsBlock(r, b, last)
      BY <2>3 DEF IsBlock
    <2>5. r = s /\ a \in Deleted(s, b)
      BY <1>1, <2>t, <2>3 DEF commit1, UpdateMaps, NewOwn, NewShard, TypeOK
    <2>6. a \in Addrs(b.Anns)
      BY <2>5 DEF Deleted
    <2>7. PICK d \in Shards \ {s} : Shared(a, d) /\ \A t \in b.Anns : t.addr = a => t.to = d
      BY <1>1, <2>4, <2>5, <2>6, BlockStages
    <2>8. last[a].to = d
      BY <2>3, <2>6, <2>7 DEF LastAnns
    <2>9. Account2Shard'[s][a] = d
      BY <2>t, <2>3, <2>5, <2>6, <2>8 DEF commit1, UpdateMaps, NewOwn, NewShard, TypeOK
    <2>10. a \in AccountInOwnShard[d]
      BY <2>7 DEF Shared, OwnedBy
    <2> QED BY <2>7, <2>9, <2>10
  <1>2. IInv /\ [Next]_vars =>
          [\A s \in Shards, a \in Accounts :
              a \in AccountInOwnShard[s] /\ a \notin AccountInOwnShard[s]' =>
                  Account2Shard[s][a]' # s /\ a \in AccountInOwnShard[Account2Shard[s][a]']]_vars
    BY <1>1
  <1> QED BY <1>2, Inductive, PTL DEF Spec, NoGap

-----------------------------------------------------------------------------
(* The step simulation of Ownership *)

\* A TXmig1 in a block of s is for an account that s owns alone and unmarked.
LEMMA Mig1Stage ==
    ASSUME IInv, NEW s, NEW b, NEW last, IsBlock(s, b, last), NEW a \in Accounts,
           a \in Addrs(b.TXmig1s)
    PROVE  /\ Owners(a) = {s} /\ Migrate[s][a] = NoShard
           /\ a \notin Addrs(b.TXmig2s) /\ a \notin Addrs(b.Anns)
           /\ Of(b.TXmig1s, a).to \in Shards \ {s}
  <1>t. TypeOK /\ Genesis[a] \in Shards
    BY ConstantsAssumption DEF IInv
  <1>s. /\ s \in Shards /\ b.TXmig1s \subseteq TXmig1_pool[s]
        /\ b.TXmig2s \subseteq TXmig2_pool[s] /\ b.Anns \subseteq TXann_pool[s]
    BY <1>t, BlockSubsets
  <1>1. ~NoMig1(a)
    BY <1>s DEF NoMig1, Addrs
  <1>2. PICK d \in Shards \ {Genesis[a]} : Asked(a, d)
    BY <1>1 DEF IInv, Stage, AtHome, Under, Sent, Shared, Leaving, Settling, Moved
  <1>3. s = Genesis[a] /\ \A t \in b.TXmig1s : t.addr = a => t.to = d
    BY <1>s, <1>2 DEF Asked, Mig1Waits, Addrs
  <1>4. Of(b.TXmig1s, a) \in b.TXmig1s /\ Of(b.TXmig1s, a).addr = a
    BY OfIsIn
  <1>5. Owners(a) = {s} /\ Migrate[s][a] = NoShard
    BY <1>t, <1>2, <1>3 DEF Asked, OwnedBy, Owners, Unmarked
  <1>6. a \notin Addrs(b.TXmig2s) /\ a \notin Addrs(b.Anns)
    BY <1>s, <1>2 DEF Asked, NoMig2, NoAnn, Addrs
  <1> QED BY <1>2, <1>3, <1>4, <1>5, <1>6

\* A TXmig2 in a block of s is for an account marked for s by its only owner.
LEMMA Mig2Stage ==
    ASSUME IInv, NEW s, NEW b, NEW last, IsBlock(s, b, last), NEW a \in Accounts,
           a \in Addrs(b.TXmig2s)
    PROVE  /\ \E x \in Shards \ {s} : Owners(a) = {x} /\ Migrate[x][a] = s
           /\ a \notin Addrs(b.TXmig1s) /\ a \notin Addrs(b.Anns)
  <1>t. TypeOK /\ Genesis[a] \in Shards
    BY ConstantsAssumption DEF IInv
  <1>s. /\ s \in Shards /\ b.TXmig1s \subseteq TXmig1_pool[s]
        /\ b.TXmig2s \subseteq TXmig2_pool[s] /\ b.Anns \subseteq TXann_pool[s]
    BY <1>t, BlockSubsets
  <1>1. ~NoMig2(a)
    BY <1>s DEF NoMig2, Addrs
  <1>2. PICK d \in Shards \ {Genesis[a]} : Sent(a, d)
    BY <1>1 DEF IInv, Stage, AtHome, Under, Asked, Shared, Leaving, Settling, Moved
  <1>3. s = d
    BY <1>s, <1>2 DEF Sent, Mig2Waits, Addrs
  <1>4. Owners(a) = {Genesis[a]} /\ Migrate[Genesis[a]][a] = s
    BY <1>t, <1>2, <1>3 DEF Sent, OwnedBy, Owners, MarkedFor
  <1>5. a \notin Addrs(b.TXmig1s) /\ a \notin Addrs(b.Anns)
    BY <1>s, <1>2 DEF Sent, NoMig1, NoAnn, Addrs
  <1> QED BY <1>t, <1>2, <1>3, <1>4, <1>5

\* An announcement in a block of s names an owner of the account; if s itself
\* owns it, that is the shard the account is marked for.
LEMMA AnnStage ==
    ASSUME IInv, NEW s, NEW b, NEW last, IsBlock(s, b, last), NEW a \in Accounts,
           a \in Addrs(b.Anns)
    PROVE  LET d == last[a].to
           IN  /\ d \in Shards \ {s} /\ d \in Owners(a)
               /\ s \in Owners(a) => Owners(a) = {s, d} /\ Migrate[s][a] = d
               /\ a \notin Addrs(b.TXmig1s) /\ a \notin Addrs(b.TXmig2s)
  <1>t. TypeOK /\ Genesis[a] \in Shards
    BY ConstantsAssumption DEF IInv
  <1>s. /\ s \in Shards /\ b.TXmig1s \subseteq TXmig1_pool[s]
        /\ b.TXmig2s \subseteq TXmig2_pool[s] /\ b.Anns \subseteq TXann_pool[s]
    BY <1>t, BlockSubsets
  <1>l. last[a] \in b.Anns /\ last[a].addr = a
    BY DEF IsBlock, LastAnns
  <1>1. ~NoAnn(a)
    BY <1>s DEF NoAnn, Addrs
  <1>2. PICK d \in Shards \ {Genesis[a]} :
           Shared(a, d) \/ Leaving(a, d) \/ Settling(a, d) \/ Moved(a, d)
    BY <1>1 DEF IInv, Stage, AtHome, Under, Asked, Sent
  <1>3. s # d /\ last[a] = AnnOf(a, d)
    BY <1>s, <1>l, <1>2 DEF Shared, Leaving, Settling, Moved, AnnsFrom
  <1>4. last[a].to = d
    BY <1>3 DEF AnnOf
  <1>5. d \in Owners(a)
    BY <1>2 DEF Shared, Leaving, Settling, Moved, OwnedBy, Owners
  <1>6. a \notin Addrs(b.TXmig1s) /\ a \notin Addrs(b.TXmig2s)
    BY <1>s, <1>2 DEF Shared, Leaving, Settling, Moved, NoMig1, NoMig2, Addrs
  <1>7. ASSUME s \in Owners(a) PROVE Owners(a) = {s, d} /\ Migrate[s][a] = d
    <2>1. Shared(a, d) /\ s = Genesis[a]
      BY <1>s, <1>2, <1>3, <1>7 DEF Shared, Leaving, Settling, Moved, OwnedBy, Owners
    <2> QED BY <1>t, <2>1 DEF Shared, OwnedBy, Owners, MarkedFor
  <1> QED BY <1>2, <1>3, <1>4, <1>5, <1>6, <1>7

\* A block does one of Ownership's steps to each account.
LEMMA BlockSimulates ==
    ASSUME IInv, TypeOK', NEW s, NEW b, NEW last, IsBlock(s, b, last)
    PROVE  Abstract!Next
  <1> DEFINE own  == NewOwn(s, b)
             map  == [a \in Accounts |-> NewShard(s, b, last, a)]
             mark == [a \in Accounts |-> NewMigrate(s, b, a)]
  <1>b. s \in Shards /\ commit1(s, b, last)
    BY DEF IsBlock
  <1>t. TypeOK
    BY DEF IInv
  <1>p. /\ AccountInOwnShard' = [AccountInOwnShard EXCEPT ![s] = own]
        /\ Account2Shard' = [Account2Shard EXCEPT ![s] = map]
        /\ Migrate' = [Migrate EXCEPT ![s] = mark]
    BY <1>b DEF commit1, UpdateMaps, UpdateTree
  <1>y. /\ own \in SUBSET Accounts /\ map \in [Accounts -> Shards]
        /\ mark \in [Accounts -> Shards \cup {NoShard}]
    <2>1. own = AccountInOwnShard'[s] /\ map = Account2Shard'[s] /\ mark = Migrate'[s]
      BY <1>b, <1>t, <1>p DEF TypeOK
    <2> HIDE DEF own, map, mark
    <2> QED BY <1>b, <2>1 DEF TypeOK
  <1>o. \A a : Abstract!Owners(a) = Owners(a)
    BY DEF Abstract!Owners, Owners
  <1>1. ASSUME NEW a \in Accounts
        PROVE  \/ Abstract!Keep(s, a, own, map, mark)
               \/ Abstract!Offer(s, a, own, map, mark)
               \/ Abstract!Take(s, a, own, map, mark)
               \/ Abstract!GiveUp(s, a, own, map, mark)
               \/ Abstract!Learn(s, a, own, map, mark)
    <2>v. /\ map[a] = NewShard(s, b, last, a) /\ mark[a] = NewMigrate(s, b, a)
          /\ a \in AccountInOwnShard[s] <=> s \in Owners(a)
      BY <1>b DEF Owners
    <2>1. CASE a \in Addrs(b.TXmig1s)
      <3>1. /\ Owners(a) = {s} /\ Migrate[s][a] = NoShard
            /\ a \notin Addrs(b.TXmig2s) /\ a \notin Addrs(b.Anns)
            /\ Of(b.TXmig1s, a).to \in Shards \ {s}
        BY <2>1, Mig1Stage
      <3>2. a \in own /\ map[a] = Account2Shard[s][a] /\ mark[a] = Of(b.TXmig1s, a).to
        BY <2>v, <2>1, <3>1 DEF NewOwn, Deleted, NewShard, NewMigrate
      <3> QED BY <1>o, <3>1, <3>2 DEF Abstract!Offer
    <2>2. CASE a \in Addrs(b.TXmig2s)
      <3>1. /\ \E x \in Shards \ {s} : Owners(a) = {x} /\ Migrate[x][a] = s
            /\ a \notin Addrs(b.TXmig1s) /\ a \notin Addrs(b.Anns)
        BY <2>2, Mig2Stage
      <3>2. a \in own /\ map[a] = s /\ mark[a] = NoShard
        BY <2>v, <2>2, <3>1 DEF NewOwn, Deleted, NewShard, NewMigrate
      <3> QED BY <1>o, <3>1, <3>2 DEF Abstract!Take
    <2>3. CASE a \in Addrs(b.Anns)
      <3> DEFINE d == last[a].to
      <3>1. /\ d \in Shards \ {s} /\ d \in Owners(a)
            /\ s \in Owners(a) => Owners(a) = {s, d} /\ Migrate[s][a] = d
            /\ a \notin Addrs(b.TXmig1s) /\ a \notin Addrs(b.TXmig2s)
        BY <2>3, AnnStage
      <3>2. a \notin own /\ map[a] = d /\ mark[a] = NoShard
        BY <2>v, <2>3, <3>1 DEF NewOwn, Deleted, NewShard, NewMigrate
      <3> HIDE DEF d
      <3> QED BY <1>o, <3>1, <3>2 DEF Abstract!GiveUp, Abstract!Learn
    <2>4. CASE a \notin Addrs(b.TXmig1s) \cup Addrs(b.TXmig2s) \cup Addrs(b.Anns)
      <3>1. /\ a \in own <=> a \in AccountInOwnShard[s]
            /\ map[a] = Account2Shard[s][a] /\ mark[a] = Migrate[s][a]
        BY <2>v, <2>4 DEF NewOwn, Deleted, NewShard, NewMigrate
      <3> QED BY <3>1 DEF Abstract!Keep
    <2> QED BY <2>1, <2>2, <2>3, <2>4
  <1> HIDE DEF own, map, mark
  <1>2. Abstract!Block(s, own, map, mark)
    BY <1>p, <1>1 DEF Abstract!Block
  <1> QED BY <1>b, <1>y, <1>2 DEF Abstract!Next

\* Only blocks change owners, maps and marks.
LEMMA OnlyBlocksMove ==
    ASSUME [Next]_vars
    PROVE  UNCHANGED Abstract!ownershipVars \/ \E s \in Shards : ProduceBlock(s)
  <1> USE DEF tries, shardVars, vars, Abstract!ownershipVars
  <1>1. ASSUME NEW s \in Shards, Shard(s), ~ProduceBlock(s)
        PROVE  UNCHANGED Abstract!ownershipVars
    BY <1>1 DEF Shard, handleMigrateWanted, mpAndSend
  <1>2. CASE Deliver
    BY <1>2 DEF Deliver, handleNewMap, handleMig2, handleAnnounce, handleChangesAndPendings
  <1>3. CASE ClientStep
    BY <1>3 DEF ClientStep, HandleReply, HandleAnnounce, HandlePendingTXs,
                HandleNumOfMigratedTXsAddrs, HandleUnchangedState
  <1> QED BY <1>1, <1>2, <1>3 DEF Next

\* Every behaviour of live migration with at most one round is, seen from its
\* ownership, a behaviour of Ownership: no block of any shard (AddBlock,
\* handleAnns, getUpdatedTreeOfState) does anything else to an account.
THEOREM Implementation == Rounds <= 1 /\ Spec => ImplementsOwnership
  <1>1. Init => Abstract!Init
    BY DEF Init, Abstract!Init
  <1>2. ASSUME IInv, IInv', [Next]_vars PROVE [Abstract!Next]_(Abstract!ownershipVars)
    <2>1. CASE UNCHANGED Abstract!ownershipVars
      BY <2>1
    <2>2. ASSUME NEW s \in Shards, ProduceBlock(s) PROVE Abstract!Next
      <3>1. PICK b \in GenerateBlock(s) : \E last \in LastAnns(b.Anns) :
               FetchedFromPools(s, b) /\ commit1(s, b, last)
        BY <2>2 DEF ProduceBlock
      <3>2. PICK last \in LastAnns(b.Anns) : FetchedFromPools(s, b) /\ commit1(s, b, last)
        BY <3>1
      <3>3. IsBlock(s, b, last)
        BY <3>2 DEF IsBlock
      <3>4. TypeOK'
        BY <1>2 DEF IInv
      <3> QED BY <1>2, <3>3, <3>4, BlockSimulates
    <2> QED BY <1>2, <2>1, <2>2, OnlyBlocksMove
  <1> QED BY <1>1, <1>2, Inductive, PTL DEF Spec, ImplementsOwnership, Abstract!Spec

-----------------------------------------------------------------------------
(* What Ownership guarantees, over any number of moves *)

OwnershipType ==
    /\ AccountInOwnShard \in [Shards -> SUBSET Accounts]
    /\ Account2Shard \in [Shards -> [Accounts -> Shards]]
    /\ Migrate \in [Shards -> [Accounts -> Shards \cup {NoShard}]]

OwnershipInv == /\ Abstract!OwnershipConstants /\ OwnershipType
                /\ Abstract!OneOrTwoOwners /\ Abstract!RoutesEnd

\* Every account starts on the shard its address hashes to, which every shard knows.
LEMMA InitOwnership == Abstract!OwnershipConstants /\ Abstract!Init => OwnershipInv
  <1> SUFFICES ASSUME Abstract!OwnershipConstants, Abstract!Init PROVE OwnershipInv
    OBVIOUS
  <1>1. OwnershipType
    BY DEF Abstract!OwnershipConstants, Abstract!Init, OwnershipType
  <1>2. ASSUME NEW a \in Accounts PROVE Abstract!Owners(a) = {Genesis[a]} /\ Genesis[a] \in Shards
    BY DEF Abstract!OwnershipConstants, Abstract!Init, Abstract!Owners
  <1>3. Abstract!OneOrTwoOwners
    <2>1. ASSUME NEW a \in Accounts PROVE Abstract!Alone(a, Genesis[a])
      BY <1>2 DEF Abstract!OwnershipConstants, Abstract!Init, Abstract!Alone
    <2> QED BY <1>2, <2>1 DEF Abstract!OneOrTwoOwners
  <1>4. Abstract!RoutesEnd
    BY <1>2 DEF Abstract!Init, Abstract!RoutesEnd
  <1> QED BY <1>1, <1>3, <1>4 DEF OwnershipInv

OwnersAfter(s, own, a) ==
    Abstract!Owners(a)' = IF a \in own THEN Abstract!Owners(a) \cup {s}
                          ELSE Abstract!Owners(a) \ {s}

\* What a block of s does to account a: the others' maps and marks stay.
Effect(s, own, map, mark, a) ==
    /\ Account2Shard'[s][a] = map[a] /\ Migrate'[s][a] = mark[a]
    /\ \A x \in Shards \ {s} :
          Account2Shard'[x][a] = Account2Shard[x][a] /\ Migrate'[x][a] = Migrate[x][a]
    /\ OwnersAfter(s, own, a)
    /\ \/ Abstract!Keep(s, a, own, map, mark) \/ Abstract!Offer(s, a, own, map, mark)
       \/ Abstract!Take(s, a, own, map, mark) \/ Abstract!GiveUp(s, a, own, map, mark)
       \/ Abstract!Learn(s, a, own, map, mark)

\* A block has this effect on every account.
LEMMA BlockOwners ==
    ASSUME OwnershipType, NEW s \in Shards, NEW own \in SUBSET Accounts,
           NEW map \in [Accounts -> Shards], NEW mark \in [Accounts -> Shards \cup {NoShard}],
           Abstract!Block(s, own, map, mark), NEW a \in Accounts
    PROVE  Effect(s, own, map, mark, a)
  <1> USE DEF OwnersAfter
  <1>1. /\ AccountInOwnShard' = [AccountInOwnShard EXCEPT ![s] = own]
        /\ Account2Shard' = [Account2Shard EXCEPT ![s] = map]
        /\ Migrate' = [Migrate EXCEPT ![s] = mark]
    BY DEF Abstract!Block
  <1>2. \A x \in Shards : a \in AccountInOwnShard'[x] <=>
                             IF x = s THEN a \in own ELSE a \in AccountInOwnShard[x]
    BY <1>1 DEF OwnershipType
  <1>3. OwnersAfter(s, own, a)
    BY <1>2 DEF Abstract!Owners
  <1> QED BY <1>1, <1>3 DEF OwnershipType, Abstract!Block, Effect

\* A block keeps the owners of each account one or two.
LEMMA BlockKeepsOwners ==
    ASSUME OwnershipType, NEW s \in Shards, NEW own \in SUBSET Accounts,
           NEW map \in [Accounts -> Shards], NEW mark \in [Accounts -> Shards \cup {NoShard}],
           Abstract!Block(s, own, map, mark), Abstract!OwnershipConstants, Abstract!OneOrTwoOwners
    PROVE  Abstract!OneOrTwoOwners'
  <1> USE DEF OwnersAfter
  <1> SUFFICES ASSUME NEW a \in Accounts
               PROVE  \/ \E x \in Shards : Abstract!Alone(a, x)'
                      \/ \E x, d \in Shards : Abstract!Both(a, x, d)'
    BY DEF Abstract!OneOrTwoOwners
  <1>e. Effect(s, own, map, mark, a)
    BY BlockOwners
  <1>b. /\ Migrate'[s][a] = mark[a]
        /\ \A x \in Shards \ {s} : Migrate'[x][a] = Migrate[x][a]
        /\ OwnersAfter(s, own, a)
        /\ \/ Abstract!Keep(s, a, own, map, mark) \/ Abstract!Offer(s, a, own, map, mark)
           \/ Abstract!Take(s, a, own, map, mark) \/ Abstract!GiveUp(s, a, own, map, mark)
           \/ Abstract!Learn(s, a, own, map, mark)
    BY <1>e DEF Effect
  <1>o. Abstract!Owners(a) \subseteq Shards /\ (s \in Abstract!Owners(a) <=> a \in AccountInOwnShard[s])
    BY DEF Abstract!Owners
  <1>i. \/ \E x \in Shards : Abstract!Alone(a, x)
        \/ \E x, d \in Shards : Abstract!Both(a, x, d)
    BY DEF Abstract!OneOrTwoOwners
  <1>1. CASE Abstract!Keep(s, a, own, map, mark)
    <2>1. Abstract!Owners(a)' = Abstract!Owners(a) /\ \A x \in Shards : Migrate'[x][a] = Migrate[x][a]
      BY <1>b, <1>o, <1>1 DEF Abstract!Keep
    <2> QED BY <1>i, <2>1 DEF Abstract!Alone, Abstract!Both
  <1>2. CASE Abstract!Offer(s, a, own, map, mark)
    <2>1. Abstract!Alone(a, s)
      <3>1. Abstract!Owners(a) = {s}
        BY <1>2 DEF Abstract!Offer
      <3>2. \A x, d \in Shards : ~Abstract!Both(a, x, d)
        BY <3>1 DEF Abstract!Both
      <3> QED BY <1>i, <3>1, <3>2 DEF Abstract!Alone
    <2>2. Abstract!Alone(a, s)'
      BY <1>b, <1>2, <2>1 DEF Abstract!Offer, Abstract!Alone
    <2> QED BY <2>2
  <1>3. CASE Abstract!Take(s, a, own, map, mark)
    <2>1. PICK x \in Shards \ {s} : Abstract!Owners(a) = {x} /\ Migrate[x][a] = s
      BY <1>3 DEF Abstract!Take
    <2>2. Abstract!Alone(a, x)
      BY <1>i, <2>1 DEF Abstract!Alone, Abstract!Both
    <2>3. Abstract!Both(a, x, s)'
      BY <1>b, <1>3, <2>1, <2>2 DEF Abstract!Take, Abstract!Alone, Abstract!Both
    <2> QED BY <2>3
  <1>4. CASE Abstract!GiveUp(s, a, own, map, mark)
    <2>1. PICK d \in Shards \ {s} : Migrate[s][a] = d /\ Abstract!Owners(a) = {s, d}
      BY <1>4 DEF Abstract!GiveUp
    <2>2. Abstract!Both(a, s, d)
      BY <1>i, <2>1 DEF Abstract!OwnershipConstants, Abstract!Alone, Abstract!Both
    <2>3. Abstract!Alone(a, d)'
      BY <1>b, <1>4, <2>1, <2>2
         DEF Abstract!OwnershipConstants, Abstract!GiveUp, Abstract!Alone, Abstract!Both
    <2> QED BY <2>3
  <1>5. CASE Abstract!Learn(s, a, own, map, mark)
    <2>1. Abstract!Owners(a)' = Abstract!Owners(a)
      BY <1>b, <1>5 DEF Abstract!Learn
    <2>2. Migrate'[s][a] = NoShard
      BY <1>b, <1>5 DEF Abstract!Learn
    <2>3. ASSUME NEW x \in Shards, Abstract!Alone(a, x) PROVE Abstract!Alone(a, x)'
      BY <1>b, <1>5, <2>1, <2>2, <2>3 DEF Abstract!Learn, Abstract!Alone
    <2>4. ASSUME NEW x \in Shards, NEW d \in Shards, Abstract!Both(a, x, d)
          PROVE  Abstract!Both(a, x, d)'
      BY <1>b, <1>5, <2>1, <2>2, <2>4 DEF Abstract!Learn, Abstract!Both
    <2> QED BY <1>i, <2>3, <2>4
  <1> QED BY <1>b, <1>1, <1>2, <1>3, <1>4, <1>5

\* A block keeps the routes: a shard that stops owning an account, or learns of
\* its place, then points to an owner.
LEMMA BlockKeepsRoutes ==
    ASSUME OwnershipType, NEW s \in Shards, NEW own \in SUBSET Accounts,
           NEW map \in [Accounts -> Shards], NEW mark \in [Accounts -> Shards \cup {NoShard}],
           Abstract!Block(s, own, map, mark), Abstract!RoutesEnd
    PROVE  Abstract!RoutesEnd'
  <1> USE DEF OwnersAfter
  <1> SUFFICES ASSUME NEW a \in Accounts, NEW lost \in SUBSET (Shards \ Abstract!Owners(a)'), lost # {}
               PROVE  \E x \in lost : Account2Shard'[x][a] \notin lost
    BY DEF Abstract!RoutesEnd
  <1>e. Effect(s, own, map, mark, a)
    BY BlockOwners
  <1>b. /\ Account2Shard'[s][a] = map[a]
        /\ \A x \in Shards \ {s} : Account2Shard'[x][a] = Account2Shard[x][a]
        /\ OwnersAfter(s, own, a)
        /\ \/ Abstract!Keep(s, a, own, map, mark) \/ Abstract!Offer(s, a, own, map, mark)
           \/ Abstract!Take(s, a, own, map, mark) \/ Abstract!GiveUp(s, a, own, map, mark)
           \/ Abstract!Learn(s, a, own, map, mark)
    BY <1>e DEF Effect
  <1>o. s \in Abstract!Owners(a) <=> a \in AccountInOwnShard[s]
    BY DEF Abstract!Owners
  <1>1. CASE s \in lost /\ map[a] \notin lost
    BY <1>b, <1>1
  <1>2. CASE s \notin lost
    <2>1. lost \in SUBSET (Shards \ Abstract!Owners(a))
      BY <1>b, <1>2
    <2>2. PICK x \in lost : Account2Shard[x][a] \notin lost
      BY <2>1 DEF Abstract!RoutesEnd
    <2> QED BY <1>b, <1>2, <2>1, <2>2
  <1>3. CASE s \in lost /\ map[a] \in lost
    <2>1. a \notin own
      BY <1>b, <1>3
    <2>2. Abstract!Keep(s, a, own, map, mark)
      <3>1. ~Abstract!GiveUp(s, a, own, map, mark)
        BY <1>b, <1>3, <2>1 DEF Abstract!GiveUp
      <3>2. ~Abstract!Learn(s, a, own, map, mark)
        BY <1>b, <1>3, <2>1 DEF Abstract!Learn
      <3> QED BY <1>b, <2>1, <3>1, <3>2 DEF Abstract!Offer, Abstract!Take
    <2>3. Abstract!Owners(a)' = Abstract!Owners(a) /\ \A x \in Shards : Account2Shard'[x][a] = Account2Shard[x][a]
      BY <1>b, <1>o, <2>1, <2>2 DEF Abstract!Keep
    <2> QED BY <2>3 DEF Abstract!RoutesEnd
  <1> QED BY <1>1, <1>2, <1>3

\* Every step keeps the invariant.
LEMMA NextOwnership == OwnershipInv /\ [Abstract!Next]_(Abstract!ownershipVars) => OwnershipInv'
  <1> SUFFICES ASSUME OwnershipInv, [Abstract!Next]_(Abstract!ownershipVars) PROVE OwnershipInv'
    OBVIOUS
  <1>1. CASE UNCHANGED Abstract!ownershipVars
    <2>1. OwnershipType' /\ \A a : Abstract!Owners(a)' = Abstract!Owners(a)
      BY <1>1 DEF Abstract!ownershipVars, OwnershipInv, OwnershipType, Abstract!Owners
    <2>2. Abstract!OneOrTwoOwners' /\ Abstract!RoutesEnd'
      BY <1>1, <2>1
         DEF Abstract!ownershipVars, OwnershipInv, Abstract!OneOrTwoOwners, Abstract!Alone, Abstract!Both, Abstract!RoutesEnd
    <2>3. Abstract!OwnershipConstants'
      BY DEF OwnershipInv, Abstract!OwnershipConstants
    <2> QED BY <2>1, <2>2, <2>3 DEF OwnershipInv
  <1>2. ASSUME NEW s \in Shards, NEW own \in SUBSET Accounts, NEW map \in [Accounts -> Shards],
               NEW mark \in [Accounts -> Shards \cup {NoShard}], Abstract!Block(s, own, map, mark)
        PROVE  OwnershipInv'
    <2>1. OwnershipType'
      BY <1>2 DEF OwnershipInv, OwnershipType, Abstract!Block
    <2>2. Abstract!OneOrTwoOwners' /\ Abstract!RoutesEnd'
      BY <1>2, BlockKeepsOwners, BlockKeepsRoutes DEF OwnershipInv
    <2>3. Abstract!OwnershipConstants'
      BY DEF OwnershipInv, Abstract!OwnershipConstants
    <2> QED BY <2>1, <2>2, <2>3 DEF OwnershipInv
  <1> QED BY <1>1, <1>2 DEF Abstract!Next

\* Over any number of moves an account has one owner or the two of a hand-over.
THEOREM OwnersAreOneOrTwo == Abstract!OwnershipConstants /\ Abstract!Spec => []Abstract!OneOrTwoOwners
  <1>1. OwnershipInv => Abstract!OneOrTwoOwners
    BY DEF OwnershipInv
  <1> QED BY <1>1, InitOwnership, NextOwnership, PTL DEF Abstract!Spec

\* Over any number of moves, forwarding by the shards' maps reaches an owner.
THEOREM RoutesAlwaysEnd == Abstract!OwnershipConstants /\ Abstract!Spec => []Abstract!RoutesEnd
  <1>1. OwnershipInv => Abstract!RoutesEnd
    BY DEF OwnershipInv
  <1> QED BY <1>1, InitOwnership, NextOwnership, PTL DEF Abstract!Spec

\* From any shard, at any time of a round, forwarding by the account maps ends
\* at an owner (TrySendTX, TryRelay): inherited from Ownership.
THEOREM ForwardingEnds == Rounds <= 1 /\ Spec => []ForwardingReachesOwner
  <1>1. Abstract!OwnershipConstants
    BY ConstantsAssumption DEF Abstract!OwnershipConstants
  <1> QED BY <1>1, Implementation, RoutesAlwaysEnd, PTL
          DEF ImplementsOwnership, ForwardingReachesOwner

-----------------------------------------------------------------------------
(* Batches *)

\* What In collects.
LEMMA InBatch ==
    ASSUME NEW xs, NEW a
    PROVE  a \in In(xs) <=> \E x \in xs : \E t \in x : t.addr = a
  BY DEF In, Addrs

\* What Addrs collects.
LEMMA InAddrs ==
    ASSUME NEW x, NEW a
    PROVE  a \in Addrs(x) <=> \E t \in x : t.addr = a
  BY DEF Addrs

Unique(x) == \A t, u \in x : t.addr = u.addr => t = u

\* A batch has as many transactions as accounts.
LEMMA BatchSize ==
    ASSUME NEW x, Addrs(x) \subseteq Accounts,
           Unique(x)
    PROVE  IsFiniteSet(Addrs(x)) /\ Cardinality(x) = Cardinality(Addrs(x))
  <1> DEFINE f == [t \in x |-> t.addr]
  <1>1. IsFiniteSet(Addrs(x))
    BY ConstantsAssumption, FS_Subset
  <1>2. f \in Injection(x, Addrs(x)) /\ f \in Surjection(x, Addrs(x))
    BY DEF Injection, Surjection, IsInjective, Addrs, Unique
  <1> HIDE DEF f
  <1> QED BY <1>1, <1>2, FS_Injection

\* The two places of batches play the same part.
LEMMA TalliedSwap ==
    ASSUME NEW open, NEW xs, NEW ys
    PROVE  /\ Tallied(open, xs, ys) => Tallied(open, ys, xs)
           /\ Total(open, xs, ys) = Total(open, ys, xs)
  BY DEF Tallied, Total

\* Open accounts are reported by new batches.
LEMMA AddBatches ==
    ASSUME NEW open, NEW xs, NEW ys, NEW zs, NEW left, NEW sum,
           left = open \ In(zs), sum = xs \cup zs,
           Tallied(open, xs, ys), Distinct(zs), In(zs) \subseteq open
    PROVE  Tallied(left, sum, ys) /\ Total(left, sum, ys) = Total(open, xs, ys)
  <1>1. In(sum) = In(xs) \cup In(zs)
    BY DEF In
  <1>2. Distinct(sum)
    <2>1. \A x \in xs, z \in zs : \A t \in x, u \in z : t.addr # u.addr
      <3> SUFFICES ASSUME NEW x \in xs, NEW z \in zs, NEW t \in x, NEW u \in z,
                          t.addr = u.addr
                   PROVE  FALSE
        OBVIOUS
      <3>1. t.addr \in In(xs) /\ t.addr \in In(zs)
        BY InBatch
      <3> QED BY <3>1 DEF Tallied
    <2> QED BY <2>1 DEF Tallied, Distinct
  <1> QED BY <1>1, <1>2 DEF Tallied, Total

\* The accounts of a batch that is taken away.
LEMMA TakeBatch ==
    ASSUME NEW open, NEW xs, NEW ys, NEW x, x \in xs \/ x = {}, Tallied(open, xs, ys),
           NEW rest, rest = xs \ {x}
    PROVE  /\ Tallied(open, rest, ys)
           /\ Total(open, rest, ys) = Total(open, xs, ys) \ Addrs(x)
           /\ Addrs(x) \subseteq In(xs)
           /\ Unique(x)
           /\ In(rest) = In(xs) \ Addrs(x)
  <1>1. Addrs(x) \subseteq In(xs)
    BY DEF In, Addrs
  <1>2. In(rest) = In(xs) \ Addrs(x)
    <2>1. ASSUME NEW a PROVE a \in In(rest) <=> a \in In(xs) /\ a \notin Addrs(x)
      <3>1. ASSUME a \in In(rest) PROVE a \in In(xs) /\ a \notin Addrs(x)
        BY <3>1, InBatch, InAddrs DEF Tallied, Distinct
      <3>2. ASSUME a \in In(xs), a \notin Addrs(x) PROVE a \in In(rest)
        BY <3>2, InBatch, InAddrs
      <3> QED BY <3>1, <3>2
    <2> QED BY <2>1
  <1>3. Distinct(rest) /\ Unique(x)
    BY DEF Tallied, Distinct, Unique
  <1> QED BY <1>1, <1>2, <1>3 DEF Tallied, Total

\* A batch is passed on.
LEMMA PassBatch ==
    ASSUME NEW open, NEW xs, NEW ys, NEW x \in xs, Tallied(open, xs, ys),
           NEW rest, rest = xs \ {x}, NEW more, more = ys \cup {x}
    PROVE  Tallied(open, rest, more) /\ Total(open, rest, more) = Total(open, xs, ys)
  <1>1. /\ Addrs(x) \subseteq In(xs) /\ In(rest) = In(xs) \ Addrs(x)
        /\ Tallied(open, rest, ys) /\ Unique(x)
    BY TakeBatch
  <1>2. In(more) = In(ys) \cup Addrs(x)
    BY DEF In
  <1>3. Distinct(more)
    <2>1. \A y \in ys : \A t \in y, u \in x : t.addr # u.addr
      <3> SUFFICES ASSUME NEW y \in ys, NEW t \in y, NEW u \in x, t.addr = u.addr
                   PROVE  FALSE
        OBVIOUS
      <3>1. t.addr \in In(ys) /\ t.addr \in In(xs)
        BY InBatch
      <3> QED BY <3>1 DEF Tallied
    <2> QED BY <1>1, <2>1 DEF Tallied, Distinct, Unique
  <1> QED BY <1>1, <1>2, <1>3 DEF Tallied, Total

\* Counting down by a batch counts its accounts.
LEMMA CountDown ==
    ASSUME NEW open \in SUBSET Accounts, NEW xs, NEW ys, NEW x, x \in xs \/ x = {},
           Tallied(open, xs, ys), In(xs) \subseteq Accounts, In(ys) \subseteq Accounts,
           NEW rest, rest = xs \ {x}
    PROVE  /\ Cardinality(Total(open, xs, ys)) \in Nat
           /\ Cardinality(Total(open, rest, ys)) \in Nat
           /\ Cardinality(Total(open, rest, ys)) =
                Cardinality(Total(open, xs, ys)) - Cardinality(x)
  <1>t. /\ Total(open, rest, ys) = Total(open, xs, ys) \ Addrs(x)
        /\ Addrs(x) \subseteq In(xs) /\ Unique(x)
    <2>1. Total(open, rest, ys) = Total(open, xs, ys) \ Addrs(x)
      BY TakeBatch
    <2>2. Addrs(x) \subseteq In(xs)
      BY TakeBatch
    <2>3. Unique(x)
      BY TakeBatch, Zenon
    <2> QED BY <2>1, <2>2, <2>3
  <1> DEFINE all == Total(open, xs, ys)
  <1>1. all \in SUBSET Accounts /\ Addrs(x) \subseteq all
    BY <1>t DEF Total
  <1>2. IsFiniteSet(all)
    BY <1>1, ConstantsAssumption, FS_Subset
  <1>3. IsFiniteSet(all \ Addrs(x))
        /\ Cardinality(all \ Addrs(x)) = Cardinality(all) - Cardinality(Addrs(x))
    <2>1. all \cap Addrs(x) = Addrs(x)
      BY <1>1
    <2> HIDE DEF all
    <2> QED BY <1>2, <2>1, FS_Difference
  <1>4. Cardinality(x) = Cardinality(Addrs(x))
    <2>1. Addrs(x) \subseteq Accounts
      BY <1>1
    <2> QED BY <1>t, <2>1, BatchSize
  <1>6. Cardinality(all) \in Nat /\ Cardinality(all \ Addrs(x)) \in Nat
    BY <1>2, <1>3, FS_CardinalityType
  <1> QED BY <1>t, <1>3, <1>4, <1>6

-----------------------------------------------------------------------------
(* Open accounts *)

\* Which stages a's move goes through while it is open.
Early(a, d) == Asked(a, d) \/ Sent(a, d) \/ Shared(a, d) \/ Leaving(a, d)
Classified(a) ==
    /\ AtHome(a) => ~Moving(a) /\ NoNs(a)
    /\ \A d \in Shards \ {Genesis[a]} :
          /\ Early(a, d) => Moving(a) /\ NoNs(a)
          /\ Settling(a, d) => ~Moving(a) /\ ~NoNs(a)
          /\ Moved(a, d) => ~Moving(a) /\ NoNs(a)

\* An account's transactions are open until its goroutine sends them, its move
\* until its TXns is in a block.
LEMMA Classes == \A a \in Accounts : Classified(a)
  <1> SUFFICES ASSUME NEW a \in Accounts PROVE Classified(a)
    OBVIOUS
  <1>g. Genesis[a] \in Shards
    BY ConstantsAssumption
  <1>1. AtHome(a) => ~Moving(a) /\ NoNs(a)
    BY <1>g DEF AtHome, Moving, NoAnn, NoAnnAt
  <1> SUFFICES ASSUME NEW d \in Shards \ {Genesis[a]}
               PROVE  /\ Early(a, d) => Moving(a) /\ NoNs(a)
                      /\ Settling(a, d) => ~Moving(a) /\ ~NoNs(a)
                      /\ Moved(a, d) => ~Moving(a) /\ NoNs(a)
    BY <1>1 DEF Classified
  <1>2. ASSUME Asked(a, d) PROVE Moving(a) /\ NoNs(a)
    BY <1>g, <1>2 DEF Asked, Mig1Waits, Moving, NoMig1
  <1>3. ASSUME Sent(a, d) PROVE Moving(a) /\ NoNs(a)
    <2>1. Mig2Of(a, d).addr = a
      BY DEF Mig2Of
    <2> QED BY <1>3, <2>1 DEF Sent, Mig2Waits, Moving, NoMig2
  <1>4. ASSUME Shared(a, d) PROVE Moving(a) /\ NoNs(a)
    <2>1. AnnOf(a, d).addr = a
      BY DEF AnnOf
    <2> QED BY <1>4, <2>1 DEF Shared, AnnWaits, Moving, NoAnnAt
  <1>5. ASSUME Leaving(a, d) PROVE Moving(a) /\ NoNs(a)
    <2>1. AnnOf(a, d).addr = a
      BY DEF AnnOf
    <2> QED BY <1>g, <1>5, <2>1 DEF Leaving, JobRuns, Moving, NoJob
  <1>6. ASSUME Settling(a, d) PROVE ~Moving(a) /\ ~NoNs(a)
    <2>1. NsOf(a, d).addr = a
      BY DEF NsOf
    <2> QED BY <1>6, <2>1 DEF Settling, NsWaits, NsIs, Moving, NoNs
  <1>7. Moved(a, d) => ~Moving(a) /\ NoNs(a)
    BY DEF Moved, Moving
  <1> QED BY <1>2, <1>3, <1>4, <1>5, <1>6, <1>7 DEF Early

\* The same after a step.
LEMMA ClassesAfter == (\A a \in Accounts : Classified(a))'
  BY Classes, PTL

\* Only an account at home waits for its new map.
LEMMA AsksAtHome ==
    ASSUME IInv, NEW a \in Accounts, Asks(a)
    PROVE  AtHome(a)
  BY DEF IInv, NewMapInv, Asks

\* The reports are about accounts.
LEMMA ReportTypes ==
    ASSUME TypeOK
    PROVE  /\ In(cReply) \subseteq Accounts /\ In(cUnchangedState) \subseteq Accounts
           /\ In(Lists) \subseteq Accounts /\ In(cNumOfMigratedTXsAddrs) \subseteq Accounts
  <1>1. \A x \in cReply : \A t \in x : t.addr \in Accounts
    BY DEF TypeOK, TXns
  <1>2. \A x \in cUnchangedState \cup cNumOfMigratedTXsAddrs : \A t \in x : t.addr \in Accounts
    BY DEF TypeOK, TXann
  <1>3. \A x \in Lists : \A t \in x : t.addr \in Accounts
    BY DEF TypeOK, TXann, Lists, CaPMsg
  <1> QED BY <1>1, <1>2, <1>3, InBatch

\* What a step that keeps a's stage keeps.
LEMMA StageKept ==
    ASSUME NEW a \in Accounts, Stage(a), AtHome(a) => AtHome(a)',
           \A d \in Shards \ {Genesis[a]} : KeepsStage(a, d)
    PROVE  (Moving(a)' <=> Moving(a)) /\ (NoNs(a)' <=> NoNs(a))
  <1>c. Classified(a) /\ Classified(a)'
    BY Classes, ClassesAfter
  <1>1. CASE AtHome(a)
    BY <1>c, <1>1 DEF Classified
  <1>2. ASSUME NEW d \in Shards \ {Genesis[a]}, Under(a, d)
        PROVE  (Moving(a)' <=> Moving(a)) /\ (NoNs(a)' <=> NoNs(a))
    <2>1. KeepsStage(a, d)
      OBVIOUS
    <2>2. \/ Early(a, d) /\ Early(a, d)'
          \/ Settling(a, d) /\ Settling(a, d)'
          \/ Moved(a, d) /\ Moved(a, d)'
      BY <1>2, <2>1 DEF Under, KeepsStage, Early
    <2> QED BY <1>c, <2>2 DEF Classified
  <1> QED BY <1>1, <1>2 DEF Stage

\* A step that keeps every stage and the new maps leaves the same accounts open.
LEMMA SameOpen ==
    ASSUME IInv, SameStages, UNCHANGED cNewMap
    PROVE  UNCHANGED <<MovesOpen, TXsOpen>>
  <1>1. ASSUME NEW a \in Accounts
        PROVE  /\ Moving(a)' <=> Moving(a)
               /\ NoNs(a)' <=> NoNs(a)
               /\ Asks(a)' <=> Asks(a)
    <2>1. Asks(a)' <=> Asks(a)
      BY DEF Asks
    <2> QED BY <2>1, StageKept DEF IInv, SameStages
  <1> QED BY <1>1 DEF MovesOpen, TXsOpen

\* A block closes the moves whose TXns it holds.
LEMMA BlockOpen ==
    ASSUME IInv, TypeOK', NEW s, NEW b, NEW last, IsBlock(s, b, last)
    PROVE  /\ Addrs(b.NSs) \subseteq MovesOpen /\ Unique(b.NSs)
           /\ MovesOpen' = MovesOpen \ Addrs(b.NSs)
           /\ TXsOpen' = TXsOpen
  <1>s. s \in Shards /\ b.NSs \subseteq TXns_pool[s] /\ b.NSs \subseteq TXns /\ TypeOK
    BY BlockParts DEF IInv, IsBlock
  <1>1. ASSUME NEW a \in Accounts, NEW t \in b.NSs, t.addr = a
        PROVE  ~NoNs(a)
    BY <1>s, <1>1 DEF NoNs
  <1>2. ASSUME NEW a \in Accounts
        PROVE  /\ Asks(a)' <=> Asks(a)
               /\ Moving(a)' <=> Moving(a)
               /\ ~NoNs(a)' <=> ~NoNs(a) /\ a \notin Addrs(b.NSs)
               /\ a \in Addrs(b.NSs) => ~Asks(a) /\ ~Moving(a)
    <2>c. Classified(a) /\ Classified(a)'
      BY Classes, ClassesAfter
    <2>1. Asks(a)' <=> Asks(a)
      BY DEF Asks, IsBlock, commit1
    <2>2. a \in Addrs(b.NSs) => ~NoNs(a)
      BY <1>1, InAddrs
    <2>3. Asks(a) => NoNs(a)
      BY <2>c, AsksAtHome DEF Classified
    <2>4. CASE AtHome(a)
      <3>1. AtHome(a)'
        BY <1>s, <2>4, BlockKeepsHome
      <3> QED BY <2>c, <2>1, <2>2, <2>3, <2>4, <3>1 DEF Classified
    <2>5. ASSUME NEW d \in Shards \ {Genesis[a]}, Under(a, d)
          PROVE  /\ Moving(a)' <=> Moving(a)
                 /\ ~NoNs(a)' <=> ~NoNs(a) /\ a \notin Addrs(b.NSs)
                 /\ a \in Addrs(b.NSs) => ~Moving(a)
      <3>1. AdvancesStage(a, d, b)
        BY <1>s, BlockKeepsUnder
      <3>2. \/ Early(a, d) /\ Early(a, d)'
            \/ Settling(a, d) /\ (IF a \in Addrs(b.NSs) THEN Moved(a, d)' ELSE Settling(a, d)')
            \/ Moved(a, d) /\ Moved(a, d)'
        BY <2>5, <3>1 DEF Under, AdvancesStage, Early
      <3> QED BY <2>c, <2>2, <3>2 DEF Classified
    <2> QED BY <2>1, <2>2, <2>3, <2>4, <2>5 DEF IInv, Stage
  <1>3. Addrs(b.NSs) \subseteq Accounts
    BY <1>s, InAddrs DEF TXns
  <1>4. Addrs(b.NSs) \subseteq MovesOpen
    BY <1>1, <1>3, InAddrs DEF MovesOpen
  <1>5. MovesOpen' = MovesOpen \ Addrs(b.NSs) /\ TXsOpen' = TXsOpen
    BY <1>2 DEF MovesOpen, TXsOpen
  <1>6. ASSUME NEW t \in b.NSs, NEW u \in b.NSs, t.addr = u.addr
        PROVE  t = u
    <2>1. t.addr \in Accounts
      BY <1>s DEF TXns
    <2>2. ~NoNs(t.addr) /\ Classified(t.addr)
      BY <1>1, <2>1, Classes
    <2>3. PICK d \in Shards \ {Genesis[t.addr]} : Settling(t.addr, d)
      BY <2>1, <2>2 DEF IInv, Stage, Under, Classified, Early
    <2> QED BY <1>s, <1>6, <2>3 DEF Settling, NsWaits, NsIs
  <1> QED BY <1>4, <1>5, <1>6 DEF Unique

\* A new map opens no account, and what its home shard accepts stays open.
LEMMA NewMapOpen ==
    ASSUME IInv, TypeOK', \A n \in cNewMap, x \in Accounts : n.map[x] # Genesis[x],
           NEW m \in cNewMap, handleNewMap(m)
    PROVE  UNCHANGED <<MovesOpen, TXsOpen>>
  <1>0. cNewMap' = cNewMap \ {m}
    BY DEF handleNewMap
  <1>1. ASSUME NEW a \in Accounts, a \in Accepts(m)
        PROVE  Asks(a) /\ Moving(a)'
    <2>1. m.shard = Genesis[a] /\ m.map[a] \in Shards \ {Genesis[a]} /\ Asked(a, m.map[a])'
      BY <1>1, NewMapStages
    <2>2. Moving(a)'
      BY <2>1, ClassesAfter DEF Classified, Early
    <2> QED BY <2>1, <2>2, ConstantsAssumption DEF Asks
  <1>2. ASSUME NEW a \in Accounts, a \notin Accepts(m)
        PROVE  /\ Moving(a)' <=> Moving(a)
               /\ NoNs(a)' <=> NoNs(a)
               /\ Asks(a)' <=> Asks(a)
    <2>1. (Moving(a)' <=> Moving(a)) /\ (NoNs(a)' <=> NoNs(a))
      <3>1. /\ AtHome(a) => AtHome(a)'
            /\ \A d \in Shards \ {Genesis[a]} : KeepsStage(a, d)
        BY <1>2, NewMapStages
      <3> QED BY <3>1, StageKept DEF IInv
    <2>2. ASSUME NEW n \in cNewMap, n.shard = Genesis[a], n.map[a] # NoShard
          PROVE  n # m
      <3>1. AtHome(a)
        BY <2>2, AsksAtHome DEF Asks
      <3>2. Genesis[a] \in Shards /\ a \in AccountInOwnShard[Genesis[a]]
        BY <3>1, ConstantsAssumption DEF AtHome, OwnedBy
      <3> QED BY <1>2, <2>2, <3>2 DEF Accepts
    <2>3. Asks(a)' <=> Asks(a)
      BY <1>0, <2>2 DEF Asks
    <2> QED BY <2>1, <2>3
  <1> QED BY <1>1, <1>2 DEF MovesOpen, TXsOpen

\* The accounts that mpAndSend finds unchanged, and its lists for the destinations.
Same(s, job) == {t \in job.anns : Change(s, job, t) = 0}
ListFor(job, r) == {t \in job.anns : t.to = r}

\* mpAndSend closes the moves of unchanged accounts, and sends the transactions
\* of all of its accounts.
LEMMA MpAndSendOpen ==
    ASSUME IInv, TypeOK', NEW s \in Shards, NEW job \in mpAndSends[s], mpAndSend(s, job)
    PROVE  /\ Unique(job.anns) /\ Addrs(job.anns) \subseteq TXsOpen
           /\ TXsOpen' = TXsOpen \ Addrs(job.anns)
           /\ MovesOpen' = MovesOpen \ Addrs(Same(s, job))
  <1>j. ASSUME NEW t \in job.anns
        PROVE  /\ t.addr \in Accounts
               /\ \E d \in Shards \ {Genesis[t.addr]} : Leaving(t.addr, d)
               /\ \A u \in job.anns : u.addr = t.addr => u = t
    BY JobStage DEF IInv
  <1>n. UNCHANGED cNewMap
    BY DEF mpAndSend
  <1>1. Unique(job.anns)
    BY <1>j DEF Unique
  <1>2. ASSUME NEW a \in Accounts, a \notin Addrs(job.anns)
        PROVE  /\ Moving(a)' <=> Moving(a)
               /\ NoNs(a)' <=> NoNs(a)
               /\ Asks(a)' <=> Asks(a)
    <2>1. /\ AtHome(a) => AtHome(a)'
          /\ \A d \in Shards \ {Genesis[a]} : KeepsStage(a, d)
      BY <1>2, MpAndSendKeeps DEF IInv
    <2>2. Asks(a)' <=> Asks(a)
      BY <1>n DEF Asks
    <2> QED BY <2>1, <2>2, StageKept DEF IInv
  <1>3. ASSUME NEW t \in job.anns
        PROVE  /\ t.addr \in Accounts /\ Moving(t.addr)
               /\ ~Asks(t.addr)' /\ ~Moving(t.addr)'
               /\ NoNs(t.addr)' <=> Change(s, job, t) = 0
    <2>a. t.addr \in Accounts
      BY <1>j
    <2>c. Classified(t.addr) /\ Classified(t.addr)'
      BY <2>a, Classes, ClassesAfter
    <2>1. PICK d \in Shards \ {Genesis[t.addr]} : Leaving(t.addr, d)
      BY <1>j
    <2>2. Moving(t.addr)
      BY <2>1, <2>c DEF Classified, Early
    <2>3. ~Asks(t.addr)'
      <3>1. ~AtHome(t.addr)
        BY <2>2, <2>c DEF Classified
      <3>2. ~Asks(t.addr)
        BY <2>a, <3>1, AsksAtHome
      <3> QED BY <1>n, <3>2 DEF Asks
    <2>4. IF Change(s, job, t) = 0 THEN Moved(t.addr, d)' ELSE Settling(t.addr, d)'
      <3>1. Under(t.addr, d)
        BY <2>1 DEF Under
      <3> QED BY <2>a, <3>1, MpAndSendKeeps DEF IInv
    <2> QED BY <2>a, <2>c, <2>2, <2>3, <2>4 DEF Classified
  <1>4. Addrs(job.anns) \subseteq TXsOpen
    BY <1>3, InAddrs DEF TXsOpen
  <1>5. TXsOpen' = TXsOpen \ Addrs(job.anns)
    <2>1. ASSUME NEW a \in Accounts
          PROVE  a \in TXsOpen' <=> a \in TXsOpen /\ a \notin Addrs(job.anns)
      <3>1. CASE a \in Addrs(job.anns)
        BY <1>3, <3>1, InAddrs DEF TXsOpen
      <3>2. CASE a \notin Addrs(job.anns)
        BY <1>2, <3>2 DEF TXsOpen
      <3> QED BY <3>1, <3>2
    <2>2. TXsOpen \subseteq Accounts /\ TXsOpen' \subseteq Accounts
      BY DEF TXsOpen
    <2> QED BY <2>1, <2>2
  <1>6. MovesOpen' = MovesOpen \ Addrs(Same(s, job))
    <2>1. ASSUME NEW a \in Accounts
          PROVE  a \in MovesOpen' <=> a \in MovesOpen /\ a \notin Addrs(Same(s, job))
      <3>1. ASSUME NEW t \in job.anns, t.addr = a
            PROVE  a \in Addrs(Same(s, job)) <=> Change(s, job, t) = 0
        BY <1>1, <3>1, InAddrs DEF Same, Unique
      <3>2. CASE a \in Addrs(job.anns)
        <4>1. PICK t \in job.anns : t.addr = a
          BY <3>2, InAddrs
        <4> QED BY <1>3, <3>1, <4>1 DEF MovesOpen
      <3>3. CASE a \notin Addrs(job.anns)
        <4>1. a \notin Addrs(Same(s, job))
          BY <3>3, InAddrs DEF Same
        <4> QED BY <1>2, <3>3, <4>1 DEF MovesOpen
      <3> QED BY <3>2, <3>3
    <2>2. MovesOpen \subseteq Accounts /\ MovesOpen' \subseteq Accounts
      BY DEF MovesOpen
    <2> QED BY <2>1, <2>2
  <1> QED BY <1>1, <1>4, <1>5, <1>6

\* What mpAndSend reports.
LEMMA MpAndSendReports ==
    ASSUME IInv, NEW s \in Shards, NEW job \in mpAndSends[s], mpAndSend(s, job)
    PROVE  /\ cUnchangedState' = cUnchangedState \cup ({Same(s, job)} \ {{}})
           /\ \E msg : /\ cCaP' = cCaP \cup {msg[r] : r \in {t.to : t \in job.anns}}
                       /\ \A r \in {t.to : t \in job.anns} : msg[r].List = ListFor(job, r)
           /\ UNCHANGED <<crashed, counters, clientMap, cMigrateWanted, cPendingTXs, cNewMap,
                          cReply, cNumOfMigratedTXsAddrs>>
  <1>n. /\ \A t \in job.anns : BalanceBeforeOut[s][t.addr] # NoBalance
        /\ \A t, u \in job.anns : t.addr = u.addr => t = u
    BY JobStage, ConstantsAssumption DEF IInv
  <1> DEFINE changed == {t \in job.anns : Change(s, job, t) # 0}
             dests == {t.to : t \in job.anns}
             ns(t) == [addr |-> t.addr, to |-> t.to, req |-> t.req,
                       change |-> Change(s, job, t)]
             nss(d) == {ns(t) : t \in {u \in changed : u.to = d}}
             msg == [d \in dests |-> [to |-> d, List |-> {t \in job.anns : t.to = d},
                                      TXnss |-> nss(d)]]
  <1>1. /\ cUnchangedState' = cUnchangedState \cup ({job.anns \ changed} \ {{}})
        /\ cCaP' = cCaP \cup
             {[to |-> d, List |-> {t \in job.anns : t.to = d}, TXnss |-> nss(d)] : d \in dests}
        /\ UNCHANGED <<crashed, counters, clientMap, cMigrateWanted, cPendingTXs, cNewMap,
                       cReply, cNumOfMigratedTXsAddrs>>
    BY <1>n DEF mpAndSend
  <1>2. job.anns \ changed = Same(s, job)
    BY DEF Same
  <1>3. /\ cCaP' = cCaP \cup {msg[r] : r \in dests}
        /\ \A r \in dests : msg[r].List = ListFor(job, r)
    <2> HIDE DEF nss, changed, dests
    <2> QED BY <1>1 DEF ListFor
  <1> HIDE DEF msg
  <1> QED BY <1>1, <1>2, <1>3

-----------------------------------------------------------------------------
(* The counters *)

\* Before the new map no account is open.
LEMMA NothingOpen ==
    ASSUME IInv, OnlyOnce > 0 \/ Wanted # {}
    PROVE  MovesOpen = {} /\ TXsOpen = {}
  <1>1. cNewMap = {} /\ \A a \in Accounts : AtHome(a)
    BY DEF IInv, RoundInv
  <1>2. \A a \in Accounts : ~Moving(a) /\ NoNs(a) /\ ~Asks(a)
    BY <1>1, Classes DEF Classified, Asks
  <1> QED BY <1>2 DEF MovesOpen, TXsOpen

\* A step that counts nothing keeps the counters exact if it only passes reports on.
LEMMA ReportsPassed ==
    ASSUME CountersExact, OneList',
           UNCHANGED <<OnlyOnce, num_of_unfinished_migration, num_of_unfinished_migrated_TXs,
                       cMigrateWanted, cPendingTXs, crashed>>,
           cNewMap' \subseteq cNewMap,
           (OnlyOnce > 0 \/ Wanted # {}) /\ Fresh => Fresh',
           Tallied(MovesOpen', cReply', cUnchangedState'),
           Tallied(TXsOpen', Lists', cNumOfMigratedTXsAddrs'),
           Total(MovesOpen', cReply', cUnchangedState') =
             Total(MovesOpen, cReply, cUnchangedState),
           Total(TXsOpen', Lists', cNumOfMigratedTXsAddrs') =
             Total(TXsOpen, Lists, cNumOfMigratedTXsAddrs)
    PROVE  CountersExact'
  <1>1. Wanted' = Wanted
    BY DEF Wanted
  <1> QED BY <1>1 DEF CountersExact

\* A block.
LEMMA BlockCount ==
    ASSUME IInv, TypeOK', CountersExact, NEW s \in Shards, ProduceBlock(s)
    PROVE  CountersExact'
  <1>1. PICK b \in GenerateBlock(s) : \E last \in LastAnns(b.Anns) :
           FetchedFromPools(s, b) /\ commit1(s, b, last)
    BY DEF ProduceBlock
  <1>2. PICK last \in LastAnns(b.Anns) : FetchedFromPools(s, b) /\ commit1(s, b, last)
    BY <1>1
  <1>3. IsBlock(s, b, last)
    BY <1>2 DEF IsBlock
  <1>4. /\ Addrs(b.NSs) \subseteq MovesOpen /\ Unique(b.NSs)
        /\ MovesOpen' = MovesOpen \ Addrs(b.NSs) /\ TXsOpen' = TXsOpen
    BY <1>3, BlockOpen
  <1>5. PICK zs : zs = {b.NSs} \ {{}}
    OBVIOUS
  <1>6. /\ cReply' = cReply \cup zs
        /\ UNCHANGED <<OnlyOnce, num_of_unfinished_migration, num_of_unfinished_migrated_TXs,
                       cMigrateWanted, cPendingTXs, crashed, cNewMap, clientMap, cCaP,
                       cNumOfMigratedTXsAddrs, cUnchangedState>>
    BY <1>2, <1>5 DEF commit1, counters
  <1>7. In(zs) = Addrs(b.NSs) /\ Distinct(zs)
    BY <1>4, <1>5 DEF In, Distinct, Unique, Addrs
  <1>8. /\ Tallied(MovesOpen', cReply', cUnchangedState')
        /\ Total(MovesOpen', cReply', cUnchangedState') =
             Total(MovesOpen, cReply, cUnchangedState)
    <2>1. Tallied(MovesOpen, cReply, cUnchangedState)
      BY DEF CountersExact
    <2>2. /\ Tallied(MovesOpen', cReply', cUnchangedState)
          /\ Total(MovesOpen', cReply', cUnchangedState) =
               Total(MovesOpen, cReply, cUnchangedState)
      BY <1>4, <1>6, <1>7, <2>1, AddBatches
    <2> QED BY <1>6, <2>2
  <1>9. UNCHANGED <<Lists, OneList>>
    BY <1>6 DEF Lists, OneList
  <1>10. (OnlyOnce > 0 \/ Wanted # {}) /\ Fresh => Fresh'
    <2>1. ASSUME OnlyOnce > 0 \/ Wanted # {} PROVE zs = {}
      <3>1. Addrs(b.NSs) = {}
        BY <1>4, <2>1, NothingOpen
      <3>2. b.NSs = {}
        BY <3>1 DEF Addrs
      <3> QED BY <1>5, <3>2
    <2> QED BY <1>6, <2>1 DEF Fresh
  <1> QED BY <1>4, <1>6, <1>8, <1>9, <1>10, ReportsPassed DEF CountersExact

\* A goroutine of mpAndSend.
LEMMA MpAndSendCount ==
    ASSUME IInv, TypeOK', CountersExact, NEW s \in Shards, NEW job \in mpAndSends[s],
           mpAndSend(s, job)
    PROVE  CountersExact'
  <1>1. /\ Unique(job.anns) /\ Addrs(job.anns) \subseteq TXsOpen
        /\ TXsOpen' = TXsOpen \ Addrs(job.anns)
        /\ MovesOpen' = MovesOpen \ Addrs(Same(s, job))
    BY MpAndSendOpen
  <1>2. PICK dests : dests = {t.to : t \in job.anns}
    OBVIOUS
  <1>3. PICK msg : /\ cCaP' = cCaP \cup {msg[r] : r \in dests}
                   /\ \A r \in dests : msg[r].List = ListFor(job, r)
    BY <1>2, MpAndSendReports
  <1>4. PICK zs : zs = {Same(s, job)} \ {{}}
    OBVIOUS
  <1>5. PICK ls : ls = {ListFor(job, r) : r \in dests}
    OBVIOUS
  <1>6. /\ cUnchangedState' = cUnchangedState \cup zs
        /\ UNCHANGED <<OnlyOnce, num_of_unfinished_migration, num_of_unfinished_migrated_TXs,
                       cMigrateWanted, cPendingTXs, crashed, cNewMap, clientMap, cReply,
                       cNumOfMigratedTXsAddrs>>
    BY <1>4, MpAndSendReports DEF counters
  <1>7. Lists' = Lists \cup ls
    BY <1>3, <1>5 DEF Lists
  <1>8. In(zs) = Addrs(Same(s, job)) /\ Distinct(zs)
    BY <1>1, <1>4 DEF In, Distinct, Unique, Addrs, Same
  <1>9. In(ls) = Addrs(job.anns) /\ Distinct(ls)
    <2>1. \A x \in ls : \E r \in dests : x = ListFor(job, r)
      BY <1>5
    <2>2. \A t \in job.anns : t \in ListFor(job, t.to) /\ ListFor(job, t.to) \in ls
      BY <1>2, <1>5 DEF ListFor
    <2>3. ASSUME NEW a PROVE a \in In(ls) <=> a \in Addrs(job.anns)
      <3>1. ASSUME a \in In(ls) PROVE a \in Addrs(job.anns)
        <4>1. PICK x \in ls : \E t \in x : t.addr = a
          BY <3>1, InBatch
        <4>2. x \subseteq job.anns
          BY <2>1 DEF ListFor
        <4> QED BY <4>1, <4>2, InAddrs
      <3>2. ASSUME a \in Addrs(job.anns) PROVE a \in In(ls)
        <4>1. PICK t \in job.anns : t.addr = a
          BY <3>2, InAddrs
        <4> QED BY <2>2, <4>1, InBatch
      <3> QED BY <3>1, <3>2
    <2>4. ASSUME NEW x \in ls, NEW y \in ls, NEW t \in x, NEW u \in y, t.addr = u.addr
          PROVE  x = y /\ t = u
      <3>1. t \in job.anns /\ u \in job.anns /\ x = ListFor(job, t.to) /\ y = ListFor(job, u.to)
        BY <2>1 DEF ListFor
      <3>2. t = u
        BY <1>1, <2>4, <3>1 DEF Unique
      <3> QED BY <3>1, <3>2
    <2>5. Distinct(ls)
      BY <2>4 DEF Distinct
    <2> QED BY <2>3, <2>5
  <1>10. In(zs) \subseteq MovesOpen /\ In(ls) \subseteq TXsOpen
    <2>1. Addrs(Same(s, job)) \subseteq Addrs(job.anns)
      BY DEF Same, Addrs
    <2>2. TXsOpen \subseteq MovesOpen
      BY DEF TXsOpen, MovesOpen
    <2> QED BY <1>1, <1>8, <1>9, <2>1, <2>2
  <1>11. /\ Tallied(MovesOpen', cReply', cUnchangedState')
         /\ Total(MovesOpen', cReply', cUnchangedState') =
              Total(MovesOpen, cReply, cUnchangedState)
    <2>1. /\ Tallied(MovesOpen, cUnchangedState, cReply)
          /\ Total(MovesOpen, cUnchangedState, cReply) = Total(MovesOpen, cReply, cUnchangedState)
      BY TalliedSwap DEF CountersExact
    <2>2. /\ Tallied(MovesOpen', cUnchangedState', cReply)
          /\ Total(MovesOpen', cUnchangedState', cReply) =
               Total(MovesOpen, cUnchangedState, cReply)
      BY <1>1, <1>6, <1>8, <1>10, <2>1, AddBatches
    <2> QED BY <1>6, <2>1, <2>2, TalliedSwap
  <1>12. /\ Tallied(TXsOpen', Lists', cNumOfMigratedTXsAddrs')
         /\ Total(TXsOpen', Lists', cNumOfMigratedTXsAddrs') =
              Total(TXsOpen, Lists, cNumOfMigratedTXsAddrs)
    <2>1. Tallied(TXsOpen, Lists, cNumOfMigratedTXsAddrs)
      BY DEF CountersExact
    <2>2. /\ Tallied(TXsOpen', Lists', cNumOfMigratedTXsAddrs)
          /\ Total(TXsOpen', Lists', cNumOfMigratedTXsAddrs) =
               Total(TXsOpen, Lists, cNumOfMigratedTXsAddrs)
      BY <1>1, <1>7, <1>9, <1>10, <2>1, AddBatches
    <2> QED BY <1>6, <2>2
  <1>13. OneList'
    <2>1. OneList /\ TXsOpen \cap In(Lists) = {}
      BY DEF CountersExact, Tallied
    <2>2. \A r \in dests : ListFor(job, r) # {}
      BY <1>2 DEF ListFor
    <2>3. \A m \in cCaP, r \in dests : \A t \in m.List, u \in ListFor(job, r) : t.addr # u.addr
      <3> SUFFICES ASSUME NEW m \in cCaP, NEW r \in dests, NEW t \in m.List,
                          NEW u \in ListFor(job, r), t.addr = u.addr
                   PROVE  FALSE
        OBVIOUS
      <3>1. t.addr \in In(Lists)
        BY InBatch DEF Lists
      <3>2. t.addr \in TXsOpen
        BY <1>1, InAddrs DEF ListFor
      <3> QED BY <2>1, <3>1, <3>2
    <2>4. \A q, r \in dests : \A t \in ListFor(job, q), u \in ListFor(job, r) :
             t.addr = u.addr => q = r /\ t = u
      BY <1>1 DEF ListFor, Unique
    <2> QED BY <1>3, <2>1, <2>2, <2>3, <2>4 DEF OneList
  <1>14. (OnlyOnce > 0 \/ Wanted # {}) /\ Fresh => Fresh'
    <2>1. ASSUME OnlyOnce > 0 \/ Wanted # {} PROVE job.anns = {}
      <3>1. Addrs(job.anns) = {}
        BY <1>1, <2>1, NothingOpen
      <3> QED BY <3>1 DEF Addrs
    <2>2. job.anns = {} => zs = {} /\ dests = {}
      BY <1>2, <1>4 DEF Same
    <2> QED BY <1>3, <1>6, <2>1, <2>2 DEF Fresh
  <1> QED BY <1>6, <1>11, <1>12, <1>13, <1>14, ReportsPassed

\* Steps that touch no report.
LEMMA NoReport ==
    ASSUME CountersExact, UNCHANGED <<MovesOpen, TXsOpen, OnlyOnce, num_of_unfinished_migration,
                    num_of_unfinished_migrated_TXs, cMigrateWanted, cPendingTXs, crashed, cCaP,
                    cReply, cNumOfMigratedTXsAddrs, cUnchangedState>>,
           cNewMap' \subseteq cNewMap,
           (OnlyOnce > 0 \/ Wanted # {}) /\ clientMap = Genesis => clientMap' = Genesis
    PROVE  CountersExact'
  <1>1. UNCHANGED <<Lists, OneList>>
    BY DEF Lists, OneList
  <1>2. (OnlyOnce > 0 \/ Wanted # {}) /\ Fresh => Fresh'
    BY DEF Fresh
  <1>3. /\ Tallied(MovesOpen', cReply', cUnchangedState')
        /\ Tallied(TXsOpen', Lists', cNumOfMigratedTXsAddrs')
        /\ Total(MovesOpen', cReply', cUnchangedState') =
             Total(MovesOpen, cReply, cUnchangedState)
        /\ Total(TXsOpen', Lists', cNumOfMigratedTXsAddrs') =
             Total(TXsOpen, Lists, cNumOfMigratedTXsAddrs)
    BY <1>1 DEF CountersExact
  <1>4. OneList'
    BY <1>1 DEF CountersExact
  <1> QED BY <1>2, <1>3, <1>4, ReportsPassed

\* The delivery of a new map, a TXmig2 or an announcement.
LEMMA DeliveryCount ==
    ASSUME IInv, TypeOK', CountersExact,
           \/ \E m \in cNewMap : handleNewMap(m)
           \/ \E t \in cTXmig1 : handleMig2(t)
           \/ \E m \in cAnnounce : handleAnnounce(m) \/ HandleAnnounce(m)
           \/ UNCHANGED vars
    PROVE  CountersExact'
  <1> USE DEF counters, toClient
  <1>1. ASSUME NEW m \in cNewMap, handleNewMap(m) PROVE CountersExact'
    <2>1. UNCHANGED <<MovesOpen, TXsOpen>>
      BY <1>1, NewMapOpen DEF CountersExact
    <2> QED BY <1>1, <2>1, NoReport DEF handleNewMap
  <1>2. ASSUME NEW t \in cTXmig1, handleMig2(t) PROVE CountersExact'
    <2>1. SameStages
      BY <1>2, Mig2Arrives, UntouchedKeeps DEF IInv
    <2>2. UNCHANGED <<MovesOpen, TXsOpen>>
      BY <1>2, <2>1, SameOpen DEF handleMig2
    <2> QED BY <1>2, <2>2, NoReport DEF handleMig2
  <1>3. ASSUME NEW m \in cAnnounce, handleAnnounce(m) PROVE CountersExact'
    <2>1. SameStages
      BY <1>3, AnnounceArrives, UntouchedKeeps DEF IInv
    <2>2. UNCHANGED <<MovesOpen, TXsOpen>>
      BY <1>3, <2>1, SameOpen DEF handleAnnounce
    <2> QED BY <1>3, <2>2, NoReport DEF handleAnnounce
  <1>4. ASSUME NEW m \in cAnnounce, HandleAnnounce(m) PROVE CountersExact'
    <2>1. SameStages
      BY <1>4, AnnounceArrives, UntouchedKeeps DEF IInv
    <2>2. UNCHANGED <<MovesOpen, TXsOpen>>
      BY <1>4, <2>1, SameOpen DEF HandleAnnounce
    <2>3. ASSUME OnlyOnce > 0 \/ Wanted # {}, clientMap = Genesis PROVE clientMap' = Genesis
      <3>1. ASSUME NEW a \in Accounts PROVE a \notin Addrs(m.TXanns)
        <4>1. NoAnn(a)
          BY <2>3 DEF IInv, RoundInv, AtHome
        <4> QED BY <4>1, InAddrs DEF NoAnn
      <3> QED BY <1>4, <2>3, <3>1, ConstantsAssumption DEF HandleAnnounce
    <2> QED BY <1>4, <2>2, <2>3, NoReport DEF HandleAnnounce
  <1>5. ASSUME UNCHANGED vars PROVE CountersExact'
    <2>1. SameStages /\ UNCHANGED cNewMap
      BY <1>5, QuietKeeps DEF IInv, vars, moveVars, tries, flags, pools, history, toShards
    <2>2. UNCHANGED <<MovesOpen, TXsOpen>>
      BY <2>1, SameOpen
    <2> QED BY <1>5, <2>2, NoReport DEF vars, toShards
  <1> QED BY <1>1, <1>2, <1>3, <1>4, <1>5

\* handleChangesAndPendings reports the accounts of a list once, after their TXnss.
LEMMA ChangesCount ==
    ASSUME IInv, TypeOK', CountersExact, NEW m \in cCaP, handleChangesAndPendings(m)
    PROVE  CountersExact'
  <1> USE DEF counters
  <1>f. UNCHANGED <<OnlyOnce, num_of_unfinished_migration, num_of_unfinished_migrated_TXs,
                    cMigrateWanted, cPendingTXs, crashed, cNewMap, clientMap, cReply,
                    cUnchangedState>>
    BY DEF handleChangesAndPendings
  <1>1. UNCHANGED <<MovesOpen, TXsOpen>>
    <2>1. SameStages
      BY NsArrives, UntouchedKeeps DEF IInv
    <2> QED BY <1>f, <2>1, SameOpen
  <1>2. ~(OnlyOnce > 0 \/ Wanted # {})
    BY DEF CountersExact, Fresh
  <1>3. OneList /\ Tallied(TXsOpen, Lists, cNumOfMigratedTXsAddrs)
        /\ Tallied(MovesOpen', cReply', cUnchangedState')
        /\ Total(MovesOpen', cReply', cUnchangedState') =
             Total(MovesOpen, cReply, cUnchangedState)
    BY <1>f, <1>1 DEF CountersExact
  <1>4. ASSUME NEW ns \in m.TXnss, UNCHANGED cNumOfMigratedTXsAddrs,
               cCaP' = (cCaP \ {m}) \cup {[m EXCEPT !.TXnss = @ \ {ns}]}
        PROVE  CountersExact'
    <2>1. PICK m2 : m2 = [m EXCEPT !.TXnss = @ \ {ns}]
      OBVIOUS
    <2>2. m2.List = m.List
      BY <2>1 DEF IInv, TypeOK, CaPMsg
    <2>3. cCaP' = (cCaP \ {m}) \cup {m2}
      BY <1>4, <2>1
    <2>4. Lists' = Lists
      BY <2>2, <2>3 DEF Lists
    <2>5. OneList'
      BY <1>3, <2>2, <2>3 DEF OneList
    <2>6. /\ Tallied(TXsOpen', Lists', cNumOfMigratedTXsAddrs')
          /\ Total(TXsOpen', Lists', cNumOfMigratedTXsAddrs') =
               Total(TXsOpen, Lists, cNumOfMigratedTXsAddrs)
      BY <1>1, <1>3, <1>4, <2>4
    <2> QED BY <1>f, <1>2, <1>3, <2>5, <2>6, ReportsPassed
  <1>5. ASSUME cCaP' = cCaP \ {m},
               cNumOfMigratedTXsAddrs' = cNumOfMigratedTXsAddrs \cup {m.List}
        PROVE  CountersExact'
    <2>1. OneList'
      BY <1>3, <1>5 DEF OneList
    <2>2. m.List \in Lists /\ Lists' = Lists \ {m.List}
      <3>1. \A n \in cCaP : n.List = m.List => n = m
        BY <1>3 DEF OneList
      <3> QED BY <1>5, <3>1 DEF Lists
    <2>3. /\ Tallied(TXsOpen, Lists', cNumOfMigratedTXsAddrs')
          /\ Total(TXsOpen, Lists', cNumOfMigratedTXsAddrs') =
               Total(TXsOpen, Lists, cNumOfMigratedTXsAddrs)
      BY <1>3, <1>5, <2>2, PassBatch
    <2> QED BY <1>f, <1>1, <1>2, <1>3, <2>1, <2>3, ReportsPassed
  <1> QED BY <1>4, <1>5 DEF handleChangesAndPendings

\* A leader's answer to the client's request.
LEMMA MigrateWantedCount ==
    ASSUME IInv, TypeOK', CountersExact, NEW s \in Shards, handleMigrateWanted(s)
    PROVE  CountersExact'
  <1> USE DEF counters
  <1>1. SameStages
    BY QuietKeeps DEF handleMigrateWanted, moveVars, tries, flags, pools, history, IInv
  <1>2. UNCHANGED <<MovesOpen, TXsOpen>>
    BY <1>1, SameOpen DEF handleMigrateWanted
  <1>3. UNCHANGED <<Wanted, Lists, OneList, Fresh>>
    BY DEF handleMigrateWanted, Wanted, Lists, OneList, Fresh
  <1> QED BY <1>2, <1>3 DEF handleMigrateWanted, CountersExact

\* The reports of arrived transactions and of unchanged accounts are counted.
LEMMA BookkeepingCount ==
    ASSUME IInv, TypeOK', CountersExact,
           \/ \E list \in cNumOfMigratedTXsAddrs : HandleNumOfMigratedTXsAddrs(list)
           \/ \E anns \in cUnchangedState : HandleUnchangedState(anns)
    PROVE  CountersExact'
  <1> USE DEF toShards
  <1>f. UNCHANGED <<moveVars, cNewMap, clientMap, OnlyOnce, cMigrateWanted, cPendingTXs,
                    crashed, cCaP, cReply>>
    BY DEF HandleNumOfMigratedTXsAddrs, HandleUnchangedState, moveVars, shardVars, tries,
           flags, pools, history
  <1>1. UNCHANGED <<MovesOpen, TXsOpen>>
    BY <1>f, QuietKeeps, SameOpen DEF IInv
  <1>2. ~(OnlyOnce > 0 \/ Wanted # {}) /\ UNCHANGED <<Wanted, Lists, OneList>>
    BY <1>f DEF CountersExact, Fresh, Wanted, Lists, OneList
  <1>t. /\ In(cReply) \subseteq Accounts /\ In(cUnchangedState) \subseteq Accounts
        /\ In(Lists) \subseteq Accounts /\ In(cNumOfMigratedTXsAddrs) \subseteq Accounts
        /\ TXsOpen \in SUBSET Accounts /\ MovesOpen \in SUBSET Accounts
    BY ReportTypes DEF IInv, TXsOpen, MovesOpen
  <1>3. ASSUME NEW list \in cNumOfMigratedTXsAddrs, HandleNumOfMigratedTXsAddrs(list)
        PROVE  CountersExact'
    <2>1. /\ Tallied(TXsOpen, cNumOfMigratedTXsAddrs, Lists)
          /\ Total(TXsOpen, cNumOfMigratedTXsAddrs, Lists) =
               Total(TXsOpen, Lists, cNumOfMigratedTXsAddrs)
      BY TalliedSwap DEF CountersExact
    <2>2. /\ cNumOfMigratedTXsAddrs' = cNumOfMigratedTXsAddrs \ {list}
          /\ num_of_unfinished_migrated_TXs' = num_of_unfinished_migrated_TXs - Cardinality(list)
          /\ UNCHANGED <<num_of_unfinished_migration, cUnchangedState>>
      BY <1>3 DEF HandleNumOfMigratedTXsAddrs
    <2>3. Tallied(TXsOpen, cNumOfMigratedTXsAddrs', Lists)
      BY <2>1, <2>2, TakeBatch
    <2>4. Cardinality(Total(TXsOpen, cNumOfMigratedTXsAddrs', Lists)) =
            Cardinality(Total(TXsOpen, cNumOfMigratedTXsAddrs, Lists)) - Cardinality(list)
      BY <1>t, <2>1, <2>2, CountDown
    <2>5. /\ Tallied(TXsOpen, Lists, cNumOfMigratedTXsAddrs')
          /\ Total(TXsOpen, cNumOfMigratedTXsAddrs', Lists) =
               Total(TXsOpen, Lists, cNumOfMigratedTXsAddrs')
      BY <2>3, TalliedSwap
    <2>6. num_of_unfinished_migrated_TXs' =
            Cardinality(Total(TXsOpen, Lists, cNumOfMigratedTXsAddrs'))
      BY <1>2, <2>1, <2>2, <2>4, <2>5 DEF CountersExact
    <2> QED BY <1>f, <1>1, <1>2, <2>2, <2>5, <2>6 DEF CountersExact
  <1>4. ASSUME NEW anns \in cUnchangedState, HandleUnchangedState(anns)
        PROVE  CountersExact'
    <2>1. /\ Tallied(MovesOpen, cUnchangedState, cReply)
          /\ Total(MovesOpen, cUnchangedState, cReply) = Total(MovesOpen, cReply, cUnchangedState)
      BY TalliedSwap DEF CountersExact
    <2>2. /\ cUnchangedState' = cUnchangedState \ {anns}
          /\ num_of_unfinished_migration' = num_of_unfinished_migration - Cardinality(anns)
          /\ UNCHANGED <<num_of_unfinished_migrated_TXs, cNumOfMigratedTXsAddrs>>
      BY <1>4 DEF HandleUnchangedState
    <2>3. Tallied(MovesOpen, cUnchangedState', cReply)
      BY <2>1, <2>2, TakeBatch
    <2>4. Cardinality(Total(MovesOpen, cUnchangedState', cReply)) =
            Cardinality(Total(MovesOpen, cUnchangedState, cReply)) - Cardinality(anns)
      BY <1>t, <2>1, <2>2, CountDown
    <2>5. /\ Tallied(MovesOpen, cReply, cUnchangedState')
          /\ Total(MovesOpen, cUnchangedState', cReply) = Total(MovesOpen, cReply, cUnchangedState')
      BY <2>3, TalliedSwap
    <2>6. num_of_unfinished_migration' = Cardinality(Total(MovesOpen, cReply, cUnchangedState'))
      BY <1>2, <2>1, <2>2, <2>4, <2>5 DEF CountersExact
    <2> QED BY <1>f, <1>1, <1>2, <2>2, <2>5, <2>6 DEF CountersExact
  <1> QED BY <1>3, <1>4

\* cReply counts the settled moves, never below zero, and may start the round.
LEMMA ReplyCount ==
    ASSUME IInv, TypeOK', CountersExact, NEW nss \in cReply \cup {{}}, NEW due \in BOOLEAN,
           HandleReply(nss, due)
    PROVE  CountersExact'
  <1> DEFINE left == num_of_unfinished_migration - Cardinality(nss)
  <1>f. /\ UNCHANGED <<moveVars, cNewMap, clientMap, cPendingTXs, cCaP, cNumOfMigratedTXsAddrs,
                       cUnchangedState>>
        /\ cReply' = cReply \ {nss}
    BY DEF HandleReply, moveVars, shardVars, tries, flags, pools, history
  <1>1. UNCHANGED <<MovesOpen, TXsOpen, Lists, OneList>>
    <2>1. UNCHANGED <<MovesOpen, TXsOpen>>
      BY <1>f, QuietKeeps, SameOpen DEF IInv
    <2> QED BY <1>f, <2>1 DEF Lists, OneList
  <1>2. /\ Tallied(MovesOpen, cReply, cUnchangedState)
        /\ Tallied(TXsOpen, Lists, cNumOfMigratedTXsAddrs)
    BY DEF CountersExact
  <1>3. Tallied(MovesOpen, cReply', cUnchangedState)
    BY <1>f, <1>2, TakeBatch
  <1>4. Fresh => Fresh'
    BY <1>f DEF Fresh
  <1>5. CASE RoundDue(left, due)
    <2>1. OnlyOnce > 0 /\ left = 0
      BY <1>5 DEF RoundDue
    <2>2. /\ num_of_unfinished_migration' = 1 /\ num_of_unfinished_migrated_TXs' = 1
          /\ cMigrateWanted' = Shards /\ crashed' = crashed
      BY <1>5, <2>1 DEF HandleReply
    <2>3. Wanted' # {}
      BY <2>2, ConstantsAssumption DEF Wanted
    <2>4. Fresh'
      BY <1>4, <2>1 DEF CountersExact
    <2> QED BY <1>f, <1>1, <1>2, <1>3, <2>2, <2>3, <2>4 DEF CountersExact
  <1>6. CASE ~RoundDue(left, due)
    <2>1. /\ num_of_unfinished_migration' = left
          /\ UNCHANGED <<num_of_unfinished_migrated_TXs, OnlyOnce, cMigrateWanted>>
          /\ left >= 0 => crashed' = crashed
      BY <1>6 DEF HandleReply
    <2>2. Wanted' = Wanted
      BY <1>f, <2>1 DEF Wanted
    <2>3. CASE Wanted # {}
      <3>1. Fresh /\ Fresh' /\ num_of_unfinished_migration = 1
        BY <1>4, <2>3 DEF CountersExact
      <3>2. Cardinality(nss) = 0
        BY <3>1, FS_EmptySet DEF Fresh
      <3>3. left = 1
        BY <3>1, <3>2
      <3> HIDE DEF left
      <3> QED BY <1>f, <1>1, <1>2, <1>3, <2>1, <2>2, <2>3, <3>1, <3>3 DEF CountersExact
    <2>4. CASE Wanted = {}
      <3>1. /\ In(cReply) \subseteq Accounts /\ In(cUnchangedState) \subseteq Accounts
            /\ MovesOpen \in SUBSET Accounts
        BY ReportTypes DEF IInv, MovesOpen
      <3>2. /\ Cardinality(Total(MovesOpen, cReply', cUnchangedState)) \in Nat
            /\ Cardinality(Total(MovesOpen, cReply', cUnchangedState)) =
                 Cardinality(Total(MovesOpen, cReply, cUnchangedState)) - Cardinality(nss)
        BY <1>f, <1>2, <3>1, CountDown
      <3>3. /\ left = Cardinality(Total(MovesOpen, cReply', cUnchangedState))
            /\ left >= 0
        BY <2>4, <3>2 DEF CountersExact
      <3> HIDE DEF left
      <3> QED BY <1>f, <1>1, <1>2, <1>3, <1>4, <2>1, <2>2, <2>4, <3>3 DEF CountersExact
    <2> QED BY <2>3, <2>4
  <1> QED BY <1>5, <1>6

\* The last shard's answer fixes what the round has to count.
LEMMA PendingTXsCount ==
    ASSUME IInv, TypeOK', CountersExact, NEW s \in cPendingTXs, HandlePendingTXs(s)
    PROVE  CountersExact'
  <1>f. /\ UNCHANGED <<moveVars, clientMap, OnlyOnce, cMigrateWanted, cCaP, cReply,
                       cNumOfMigratedTXsAddrs, cUnchangedState, crashed>>
        /\ cPendingTXs' = cPendingTXs \ {s}
    BY DEF HandlePendingTXs, moveVars, shardVars, tries, flags, pools, history
  <1>1. s \in Wanted /\ Wanted' = Wanted \ {s}
    BY <1>f DEF Wanted, IInv, RoundInv
  <1>2. /\ Fresh /\ Fresh' /\ cNewMap = {} /\ \A a \in Accounts : AtHome(a)
        /\ num_of_shard_not_sending_pending = Cardinality(Wanted)
        /\ num_of_unfinished_migration = 1 /\ num_of_unfinished_migrated_TXs = 1
    BY <1>f, <1>1 DEF CountersExact, IInv, RoundInv, Fresh
  <1>3. \A a \in Accounts : ~Moving(a)' /\ NoNs(a)'
    <2>1. SameStages
      BY <1>f, QuietKeeps DEF IInv
    <2> QED BY <1>2, <2>1, ClassesAfter DEF SameStages, Classified
  <1>4. IsFiniteSet(Wanted) /\ Cardinality(Wanted) \in Nat
    <2>1. Wanted \in SUBSET Shards
      BY DEF IInv, TypeOK, Wanted
    <2> QED BY <2>1, ConstantsAssumption, FS_Subset, FS_CardinalityType
  <1>5. Cardinality(Wanted) = 1 <=> Wanted = {s}
    BY <1>1, <1>4, FS_Singleton
  <1>6. OneList' /\ Lists' = {} /\ cReply' = {} /\ cUnchangedState' = {}
        /\ cNumOfMigratedTXsAddrs' = {}
    BY <1>2 DEF Fresh, OneList, Lists
  <1>7. ASSUME NEW open
        PROVE  Tallied(open, {}, {}) /\ Total(open, {}, {}) = open
    BY DEF Tallied, Total, Distinct, In
  <1>8. CASE /\ num_of_shard_not_sending_pending > 1
             /\ UNCHANGED <<num_of_unfinished_migration, num_of_unfinished_migrated_TXs, cNewMap>>
    <2>1. Wanted' # {}
      BY <1>1, <1>2, <1>4, <1>5, <1>8
    <2> QED BY <1>f, <1>2, <1>6, <1>7, <1>8, <2>1 DEF CountersExact
  <1>9. ASSUME num_of_shard_not_sending_pending = 1,
               NEW map \in [Accounts -> Shards \cup {NoShard}],
               \A a \in Accounts : map[a] # clientMap[a],
               num_of_unfinished_migration' = Moves(map),
               num_of_unfinished_migrated_TXs' = Moves(map),
               cNewMap' = cNewMap \cup
                   {[shard |-> d, map |-> map, req |-> OnlyOnce] : d \in Shards}
        PROVE  CountersExact'
    <2>1. Wanted' = {}
      BY <1>1, <1>2, <1>5, <1>9
    <2>m. \A m : m \in cNewMap' <=>
             \E d \in Shards : m = [shard |-> d, map |-> map, req |-> OnlyOnce]
      BY <1>2, <1>9
    <2>2. ASSUME NEW a \in Accounts PROVE Asks(a)' <=> map[a] # NoShard
      <3>1. PICK m : m = [shard |-> Genesis[a], map |-> map, req |-> OnlyOnce]
        OBVIOUS
      <3>2. m \in cNewMap' /\ m.shard = Genesis[a] /\ m.map = map
        BY <2>m, <3>1, ConstantsAssumption
      <3>3. \A n \in cNewMap' : n.map = map
        BY <2>m
      <3> QED BY <3>2, <3>3 DEF Asks
    <2>3. /\ MovesOpen' = {a \in Accounts : map[a] # NoShard}
          /\ TXsOpen' = {a \in Accounts : map[a] # NoShard}
      BY <1>3, <2>2 DEF MovesOpen, TXsOpen
    <2>4. /\ num_of_unfinished_migration' = Cardinality(MovesOpen')
          /\ num_of_unfinished_migrated_TXs' = Cardinality(TXsOpen')
      BY <1>9, <2>3 DEF Moves
    <2>5. \A m \in cNewMap', a \in Accounts : m.map[a] # Genesis[a]
      BY <1>2, <1>9 DEF Fresh
    <2>6. Client \notin crashed'
      BY <1>f DEF CountersExact
    <2> QED BY <1>2, <1>6, <1>7, <2>1, <2>4, <2>5, <2>6 DEF CountersExact
  <1> QED BY <1>8, <1>9 DEF HandlePendingTXs

-----------------------------------------------------------------------------
(* The theorems *)

\* Initially there is nothing to count.
LEMMA InitCount == Init => CountersExact
  <1> SUFFICES ASSUME Init PROVE CountersExact
    OBVIOUS
  <1>1. \A a \in Accounts : ~Asks(a) /\ ~Moving(a) /\ NoNs(a)
    <2>1. \A a \in Accounts : Genesis[a] \in Shards
      BY ConstantsAssumption
    <2> QED BY <2>1 DEF Init, Asks, Moving, NoMig1, NoMig2, NoAnnAt, NoJob, NoNs
  <1>2. MovesOpen = {} /\ TXsOpen = {} /\ Lists = {}
    BY <1>1 DEF MovesOpen, TXsOpen, Lists, Init
  <1>3. Tallied({}, {}, {}) /\ Total({}, {}, {}) = {}
    BY DEF Tallied, Total, Distinct, In
  <1>4. Fresh /\ OneList /\ Wanted = {}
    BY DEF Init, Fresh, OneList, Wanted
  <1> QED BY <1>2, <1>3, <1>4, FS_EmptySet DEF Init, CountersExact

\* Every step keeps the counters exact.
LEMMA NextCount == IInv /\ TypeOK' /\ CountersExact /\ [Next]_vars => CountersExact'
  <1> SUFFICES ASSUME IInv, TypeOK', CountersExact, [Next]_vars PROVE CountersExact'
    OBVIOUS
  <1>1. ASSUME NEW s \in Shards, Shard(s) PROVE CountersExact'
    BY <1>1, BlockCount, MigrateWantedCount, MpAndSendCount DEF Shard
  <1>2. CASE Deliver
    BY <1>2, DeliveryCount, ChangesCount DEF Deliver
  <1>3. CASE ClientStep
    BY <1>3, ReplyCount, DeliveryCount, PendingTXsCount, BookkeepingCount DEF ClientStep
  <1>4. CASE UNCHANGED vars
    BY <1>4, DeliveryCount
  <1> QED BY <1>1, <1>2, <1>3, <1>4 DEF Next

\* After the new map, the client's two counters are the numbers of accounts whose
\* move, or whose transactions, have not been reported and counted: every batch
\* that commit1, mpAndSend and handleChangesAndPendings report is counted once,
\* in whatever order the batches arrive.
THEOREM CountersAreExact == Rounds <= 1 /\ Spec => []CountersExact
  <1>1. IInv => TypeOK
    BY DEF IInv
  <1> QED BY <1>1, Inductive, InitCount, NextCount, PTL DEF Spec

\* The numbers of unfinished accounts are numbers.
LEMMA TotalTypes ==
    ASSUME IInv
    PROVE  /\ IsFiniteSet(Total(MovesOpen, cReply, cUnchangedState))
           /\ Cardinality(Total(MovesOpen, cReply, cUnchangedState)) \in Nat
           /\ Cardinality(Total(TXsOpen, Lists, cNumOfMigratedTXsAddrs)) \in Nat
  <1>1. /\ Total(MovesOpen, cReply, cUnchangedState) \in SUBSET Accounts
        /\ Total(TXsOpen, Lists, cNumOfMigratedTXsAddrs) \in SUBSET Accounts
    BY ReportTypes DEF IInv, MovesOpen, TXsOpen, Total
  <1> QED BY <1>1, ConstantsAssumption, FS_Subset, FS_CardinalityType

\* The client never counts a move that it was not waiting for: its counters do
\* not fall below zero and it does not run into the log.Panic of cReply.
THEOREM ClientNeverPanics == Rounds <= 1 /\ Spec => []CounterNeverNegative
  <1>1. IInv /\ CountersExact => CounterNeverNegative
    BY TotalTypes DEF CountersExact, CounterNeverNegative
  <1> QED BY <1>1, Inductive, CountersAreExact, PTL

\* When both counters are zero every account is at rest: no migration
\* transaction is in a pool, a goroutine or a message, and no mark in a trie.
THEOREM RoundOverIsOver == Rounds <= 1 /\ Spec => []RoundOverMeansSettled
  <1>1. IInv /\ CountersExact => RoundOverMeansSettled
    <2> SUFFICES ASSUME IInv, CountersExact, num_of_unfinished_migration = 0,
                        num_of_unfinished_migrated_TXs = 0, NEW a \in Accounts
                 PROVE  Settled(a)
      BY DEF RoundOverMeansSettled
    <2>1. Cardinality(Total(MovesOpen, cReply, cUnchangedState)) = 0
      BY DEF CountersExact
    <2>2. MovesOpen = {}
      BY <2>1, TotalTypes, FS_EmptySet DEF Total
    <2>3. ~Moving(a) /\ NoNs(a)
      BY <2>2 DEF MovesOpen
    <2>4. AtHome(a) \/ \E d \in Shards \ {Genesis[a]} : Moved(a, d)
      BY <2>3, Classes DEF IInv, Stage, Under, Classified, Early
    <2>5. NoMig1(a) /\ NoMig2(a) /\ NoJob(a) /\ NoNs(a) /\ Unmarked(a)
      BY <2>4 DEF AtHome, Moved
    <2>6. \A x : a \in Addrs(x) => \E t \in x : t.addr = a
      BY InAddrs
    <2> QED BY <2>5, <2>6 DEF NoMig1, NoMig2, NoJob, NoNs, Unmarked, Settled
  <1> QED BY <1>1, Inductive, CountersAreExact, PTL
=============================================================================
