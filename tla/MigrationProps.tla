---------------------------- MODULE MigrationProps ----------------------------
(***************************************************************************)
(* What a correct migration guarantees.                                    *)
(***************************************************************************)
EXTENDS Migration

NewMapMsg   == [shard : Shards, map : [Accounts -> Shards \cup {NoShard}], req : Reqs]
AnnounceMsg == [dst : Shards \cup {Client}, shard : Shards, TXanns : SUBSET TXann]
CaPMsg      == [to : Shards, List : SUBSET TXann, TXnss : SUBSET TXns]
Job         == [anns : SUBSET TXann, state : [Accounts -> Int]]

\* The type of every variable but the client's two counters of unfinished
\* work, which CounterNeverNegative is about.
TypeOK ==
    /\ Account2Shard \in [Shards -> [Accounts -> Shards]]
    /\ AccountInOwnShard \in [Shards -> SUBSET Accounts]
    /\ Balance \in [Shards -> [Accounts -> Int]]
    /\ Migrate \in [Shards -> [Accounts -> Shards \cup {NoShard}]]
    /\ Location \in [Shards -> [Accounts -> Shards]]
    /\ Outing_Acc_Before_Announce \in [Shards -> SUBSET Accounts]
    /\ Outing_Acc_After_Announce \in [Shards -> SUBSET Accounts]
    /\ BalanceBeforeOut \in [Shards -> [Accounts -> Int \cup {NoBalance}]]
    /\ TXmig1_pool \in [Shards -> SUBSET TXmig1]
    /\ TXmig2_pool \in [Shards -> SUBSET TXmig2]
    /\ TXann_pool \in [Shards -> SUBSET TXann]
    /\ TXns_pool \in [Shards -> SUBSET TXns]
    /\ mpAndSends \in [Shards -> SUBSET Job]
    /\ clientMap \in [Accounts -> Shards]
    /\ OnlyOnce \in Reqs
    /\ num_of_shard_not_sending_pending \in Int
    /\ cMigrateWanted \subseteq Shards
    /\ cPendingTXs \subseteq Shards
    /\ cNewMap \subseteq NewMapMsg
    /\ cTXmig1 \subseteq TXmig2
    /\ cAnnounce \subseteq AnnounceMsg
    /\ cCaP \subseteq CaPMsg
    /\ cReply \subseteq SUBSET TXns
    /\ cNumOfMigratedTXsAddrs \subseteq SUBSET TXann
    /\ cUnchangedState \subseteq SUBSET TXann
    /\ crashed \subseteq Shards \cup {Client}
    /\ ledger \in [Accounts -> Int]
    /\ executed \in Nat

-----------------------------------------------------------------------------
Owners(a) == {s \in Shards : a \in AccountInOwnShard[s]}

\* No shard or message still has to do anything about a move of account a.
Settled(a) ==
    /\ \A s \in Shards :
         /\ a \notin Addrs(TXmig1_pool[s]) \cup Addrs(TXmig2_pool[s]) \cup Addrs(TXns_pool[s])
         /\ Migrate[s][a] = NoShard
         /\ \A job \in mpAndSends[s] : a \notin Addrs(job.anns)
    /\ a \notin Addrs(cTXmig1)
    /\ \A m \in cCaP : a \notin Addrs(m.TXnss)

\* Every account always has an owner: no interleaving of blocks, handlers and
\* late announcements makes the last owner give an account up
\* (AddBlock and handleAnns change AccountInOwnShard).
AlwaysOwned == \A a \in Accounts : Owners(a) # {}

\* Two shards own an account only while it moves from one to the other, and
\* then only the one it leaves is half locked and marked in the trie, with the
\* other as its destination (commit1, AddBlock, handleAnns).
Handover ==
    \A a \in Accounts : \A s, d \in Owners(a) : s # d =>
        \/ /\ Migrate[s][a] = d /\ a \in Outing_Acc_Before_Announce[s]
           /\ Migrate[d][a] = NoShard /\ a \notin Outing_Acc_Before_Announce[d]
        \/ /\ Migrate[d][a] = s /\ a \in Outing_Acc_Before_Announce[d]
           /\ Migrate[s][a] = NoShard /\ a \notin Outing_Acc_Before_Announce[s]

\* No payment or receipt is lost or counted twice by a move: an account at rest
\* holds at its owner what it would hold had it never moved, although two shards
\* executed transactions on it in the meantime (TXmig2.Value, BalanceBeforeOut
\* and TXns.Change).
MoneyConserved ==
    \A a \in Accounts : Settled(a) =>
        \A s \in Owners(a) : Balance[s][a] = ledger[a]

\* The shard's maps and its trie agree on where every account is, even when
\* announcements of different rounds arrive late, twice or out of order:
\* transactions are routed by the maps (AddBlock, handleAnns) and receipts
\* credited by the trie (getUpdatedTreeOfState).
TrieMatchesMemory ==
    \A s \in Shards :
        /\ Location[s] = Account2Shard[s]
        /\ AccountInOwnShard[s] = {a \in Accounts : Location[s][a] = s}

\* No leader runs into a nil pointer: mpAndSend, a goroutine that runs some time
\* after the block, always finds the balance that its shard handed over.
NoLeaderPanic == crashed \cap Shards = {}

\* The client counts every arriving move once: its counters of unfinished
\* migrations and of accounts whose transactions have not arrived never fall
\* below zero (the first would be the log.Panic of cReply).
CounterNeverNegative ==
    /\ num_of_unfinished_migration >= 0
    /\ num_of_unfinished_migrated_TXs >= 0
    /\ Client \notin crashed

\* The client only considers a round finished, and starts another, when every
\* account is at rest (its two counters in handle).
RoundOverMeansSettled ==
    num_of_unfinished_migration = 0 /\ num_of_unfinished_migrated_TXs = 0
        => \A a \in Accounts : Settled(a)

\* A shard's trie only changes the balance of an account that it owns before
\* or after the block (getUpdatedTreeOfState checks Location, not ownership).
OnlyOwnersWrite ==
    [][\A s \in Shards, a \in Accounts :
          Balance[s][a]' # Balance[s][a] =>
              a \in AccountInOwnShard[s] \cup AccountInOwnShard[s]']_vars

\* Ownership moves with a hand-over: a shard only gives an account up to a
\* shard that owns it already.
NoGap ==
    [][\A s \in Shards, a \in Accounts :
          a \in AccountInOwnShard[s] /\ a \notin AccountInOwnShard[s]' =>
              Account2Shard[s][a]' # s /\ a \in AccountInOwnShard[Account2Shard[s][a]']]_vars

-----------------------------------------------------------------------------

\* Every round that the client has started ends, so that the next can start.
RoundsEnd ==
    (num_of_unfinished_migration > 0) ~>
        (num_of_unfinished_migration = 0 /\ num_of_unfinished_migrated_TXs = 0)

\* In the end every shard and the client know where every account is.
MapsConverge ==
    <>[](\A a \in Accounts, s \in Shards :
            Owners(a) = {clientMap[a]} /\ Account2Shard[s][a] = clientMap[a])
=============================================================================
