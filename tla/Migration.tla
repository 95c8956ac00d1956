------------------------------ MODULE Migration ------------------------------
(***************************************************************************)
(* Live account migration between shards, in the emulator's default mode   *)
(* (Stop_When_Migrating = Lock_Acc_When_Migrating = FALSE: the accounts    *)
(* that leave are only "half locked" and keep receiving money).            *)
(*                                                                         *)
(* The client starts a round (cReply), every leader answers with its       *)
(* pending transactions (cPendingTXs), and the client sends the new map    *)
(* (cNewMap).  For an account a that moves from shard s to shard d:        *)
(*                                                                         *)
(*   TXmig1 in a block of s    s freezes the balance it hands over         *)
(*   TXmig2 in a block of d    d now owns a, with that balance             *)
(*   TXann  in a block of s    s gives a up and computes what changed      *)
(*   TXns   in a block of d    d adds the change                           *)
(*                                                                         *)
(* so that between TXmig2 and TXann BOTH shards execute transactions on    *)
(* their copy of a.  The leader N0 makes the blocks alone (propose1); the  *)
(* senders are goroutines (go utils.TcpDial), so messages are unordered.   *)
(***************************************************************************)
EXTENDS Integers, FiniteSets

CONSTANTS
    Shards,         \* the shards, each represented by its leader N0
    Accounts,       \* the accounts
    Genesis,        \* utils.Addr2Shard: where the address hash puts an account
    InitBalance,    \* params.Init_balance
    MaxMigSize,     \* config: migration transactions per block
    Rounds,         \* config.OnlyOnce: how many times the client may migrate
    Amounts,        \* what a block's transactions may add to a balance
    MaxTxs,         \* bound: account updates by transactions in a behaviour
    NoShard,        \* the -1 of AccountState.Migrate
    NoBalance,      \* a key that is absent from BalanceBeforeOut
    Client

ASSUME ConstantsAssumption ==
    /\ IsFiniteSet(Shards) /\ Shards # {} /\ IsFiniteSet(Accounts)
    /\ Genesis \in [Accounts -> Shards]
    /\ InitBalance \in Int
    /\ MaxMigSize \in Nat /\ Rounds \in Nat /\ MaxTxs \in Nat
    /\ Amounts \subseteq Int
    /\ NoShard \notin Shards /\ NoBalance \notin Int /\ Client \notin Shards

VARIABLES
    \* ---- each leader: account maps, state trie, migration flags and pools
    Account2Shard,              \* the shard's map of all accounts
    AccountInOwnShard,          \* the accounts the shard owns
    Balance, Migrate, Location, \* AccountState in the shard's state trie
    Outing_Acc_Before_Announce, \* half-locked accounts
    Outing_Acc_After_Announce,  \* accounts whose announcement has arrived
    BalanceBeforeOut,           \* balance handed over by TXmig1
    TXmig1_pool, TXmig2_pool, TXann_pool, TXns_pool,
    mpAndSends,                 \* running mpAndSend goroutines
    \* ---- the client
    clientMap,                  \* the client's Account2Shard
    OnlyOnce,                   \* rounds left
    num_of_unfinished_migration,
    num_of_unfinished_migrated_TXs,
    num_of_shard_not_sending_pending,
    \* ---- messages in flight, by command
    cMigrateWanted, cPendingTXs, cNewMap, cTXmig1, cAnnounce, cCaP,
    cReply, cNumOfMigratedTXsAddrs, cUnchangedState,
    \* ---- the processes that have hit a log.Panic or a nil pointer
    crashed,
    \* ---- history: what an account that never moved would hold, and how
    \*      many account updates the blocks' transactions have made
    ledger, executed

tries    == <<Balance, Migrate, Location>>
flags    == <<Outing_Acc_Before_Announce, Outing_Acc_After_Announce, BalanceBeforeOut>>
pools    == <<TXmig1_pool, TXmig2_pool, TXann_pool, TXns_pool>>
counters == <<OnlyOnce, num_of_unfinished_migration,
              num_of_unfinished_migrated_TXs, num_of_shard_not_sending_pending>>
toShards == <<cMigrateWanted, cNewMap, cTXmig1, cAnnounce, cCaP>>
toClient == <<cPendingTXs, cReply, cNumOfMigratedTXsAddrs, cUnchangedState>>
history  == <<ledger, executed>>
vars     == <<Account2Shard, AccountInOwnShard, tries, flags, pools, mpAndSends,
              clientMap, counters, toShards, toClient, crashed, history>>

-----------------------------------------------------------------------------
(* The migration transactions.  `req' is TXmig1.Request_Time, which every   *)
(* later transaction of the same move carries inside it: here the number of *)
(* rounds that were left.                                                   *)

Reqs   == 0 .. Rounds
TXmig1 == [addr : Accounts, from : Shards, to : Shards, req : Reqs]
TXmig2 == [addr : Accounts, from : Shards, to : Shards, req : Reqs, value : Int]
TXann  == [addr : Accounts, to : Shards, req : Reqs]
TXns   == [addr : Accounts, to : Shards, req : Reqs, change : Int]

Addrs(txs) == {t.addr : t \in txs}

\* The transaction of a block about account a: a pool holds at most one TXmig1,
\* TXmig2 and TXns of an account (IInv in MigrationInv).
Of(txs, a) == CHOOSE t \in txs : t.addr = a

\* A block may hold several announcements of one account; the last one wins.
LastAnns(anns) == {last \in [Addrs(anns) -> anns] : \A a \in Addrs(anns) : last[a].addr = a}

Init ==
    /\ Account2Shard = [s \in Shards |-> Genesis]
    /\ AccountInOwnShard = [s \in Shards |-> {a \in Accounts : Genesis[a] = s}]
    /\ Balance  = [s \in Shards |-> [a \in Accounts |-> InitBalance]]
    /\ Migrate  = [s \in Shards |-> [a \in Accounts |-> NoShard]]
    /\ Location = [s \in Shards |-> Genesis]
    /\ Outing_Acc_Before_Announce = [s \in Shards |-> {}]
    /\ Outing_Acc_After_Announce  = [s \in Shards |-> {}]
    /\ BalanceBeforeOut = [s \in Shards |-> [a \in Accounts |-> NoBalance]]
    /\ TXmig1_pool = [s \in Shards |-> {}]
    /\ TXmig2_pool = [s \in Shards |-> {}]
    /\ TXann_pool  = [s \in Shards |-> {}]
    /\ TXns_pool   = [s \in Shards |-> {}]
    /\ mpAndSends  = [s \in Shards |-> {}]
    /\ clientMap = Genesis
    /\ OnlyOnce = Rounds
    /\ num_of_unfinished_migration = 0
    /\ num_of_unfinished_migrated_TXs = 0
    /\ num_of_shard_not_sending_pending = Cardinality(Shards)
    /\ cMigrateWanted = {} /\ cPendingTXs = {} /\ cNewMap = {} /\ cTXmig1 = {}
    /\ cAnnounce = {} /\ cCaP = {} /\ cReply = {}
    /\ cNumOfMigratedTXsAddrs = {} /\ cUnchangedState = {}
    /\ crashed = {}
    /\ ledger = [a \in Accounts |-> InitBalance]
    /\ executed = 0

-----------------------------------------------------------------------------
(* Blocks *)

\* FetchTX...2Pack: a pool gives up to `quota' of its transactions (the oldest;
\* which ones is left open here, where pools are sets).
Fetched(pool, quota) == IF Cardinality(pool) < quota THEN Cardinality(pool) ELSE quota

\* The blocks leader s may generate: what is left of the quota passes from one
\* pool to the next.  Txs[a] is what the block's ordinary transactions do to
\* account a: a payer's transaction waits in the queue of the shard that owns
\* it, while a receipt may reach any shard.
GenerateBlock(s) ==
    {b \in [TXmig1s : SUBSET TXmig1_pool[s], TXmig2s : SUBSET TXmig2_pool[s],
            Anns : SUBSET TXann_pool[s], NSs : SUBSET TXns_pool[s],
            Txs : [Accounts -> Amounts]] :
        LET left1 == MaxMigSize - Cardinality(b.TXmig1s)
            left2 == left1 - Cardinality(b.TXmig2s)
            left3 == left2 - Cardinality(b.Anns)
        IN  /\ Cardinality(b.TXmig1s) = Fetched(TXmig1_pool[s], MaxMigSize)
            /\ Cardinality(b.TXmig2s) = Fetched(TXmig2_pool[s], left1)
            /\ Cardinality(b.Anns) = Fetched(TXann_pool[s], left2)
            /\ Cardinality(b.NSs) = Fetched(TXns_pool[s], left3)
            /\ \A a \in Accounts : b.Txs[a] < 0 => a \in AccountInOwnShard[s]}

\* getUpdatedTreeOfState, in the order of the code: TXmig2s, transactions (a
\* receipt only counts where the trie locates the account), TXmig1s, Anns, NSs.
MigratedIn(s, b, a) ==
    IF a \in Addrs(b.TXmig2s) THEN Of(b.TXmig2s, a).value ELSE Balance[s][a]
\* (mutant: a receipt counts wherever it is executed)
ExecutedAnywhere(s, b, a) == b.Txs[a]
Executed(s, b, a) ==
    IF b.Txs[a] < 0 \/ a \in Addrs(b.TXmig2s) \/ Location[s][a] = s THEN b.Txs[a] ELSE 0
OutBalance(s, b, a) == MigratedIn(s, b, a) + Executed(s, b, a)
NewBalance(s, b, a) ==
    OutBalance(s, b, a) + (IF a \in Addrs(b.NSs) THEN Of(b.NSs, a).change ELSE 0)
\* (mutant: an announcement does not clear the mark)
NewMigrateKept(s, b, a) ==
    IF a \in Addrs(b.TXmig1s) THEN Of(b.TXmig1s, a).to
    ELSE IF a \in Addrs(b.TXmig2s) THEN NoShard ELSE Migrate[s][a]
NewMigrate(s, b, a) ==
    IF a \in Addrs(b.Anns) THEN NoShard
    ELSE IF a \in Addrs(b.TXmig1s) THEN Of(b.TXmig1s, a).to
    ELSE IF a \in Addrs(b.TXmig2s) THEN NoShard ELSE Migrate[s][a]
\* (mutant: Location is not set by a TXmig2)
NewLocationNotIn(s, b, last, a) ==
    IF a \in Addrs(b.Anns) THEN last[a].to ELSE Location[s][a]
NewLocation(s, b, last, a) ==
    IF a \in Addrs(b.Anns) THEN last[a].to
    ELSE IF a \in Addrs(b.TXmig2s) THEN s ELSE Location[s][a]

\* getUpdatedTreeOfState(1, ...), called by AddBlock.
UpdateTree(s, b, last) ==
    /\ Balance'  = [Balance  EXCEPT ![s] = [a \in Accounts |-> NewBalance(s, b, a)]]
    /\ Migrate'  = [Migrate  EXCEPT ![s] = [a \in Accounts |-> NewMigrate(s, b, a)]]
    /\ Location' = [Location EXCEPT ![s] = [a \in Accounts |-> NewLocation(s, b, last, a)]]
    /\ ledger' = [a \in Accounts |-> ledger[a] + Executed(s, b, a)]
    /\ executed' = executed + Cardinality({a \in Accounts : b.Txs[a] # 0})

\* (mutant: handleAnns does not ask whether the account is the shard's own)
DeletedUnowned(s, b) == Addrs(b.Anns)

\* The accounts whose departure this block completes (isdelete in handleAnns):
\* AddBlock has already made the accounts of the TXmig2s the shard's own.
Deleted(s, b) == Addrs(b.Anns) \cap (AccountInOwnShard[s] \cup Addrs(b.TXmig2s))

\* AddBlock and handleAnns: the shard's maps.
\* (mutants: an account is given up with its TXmig1, or never)
NewOwnEarly(s, b) == (AccountInOwnShard[s] \cup Addrs(b.TXmig2s)) \ Addrs(b.TXmig1s)
NewOwnForever(s, b) == AccountInOwnShard[s] \cup Addrs(b.TXmig2s)
NewOwn(s, b) == (AccountInOwnShard[s] \cup Addrs(b.TXmig2s)) \ Deleted(s, b)

\* (mutants: an announcement does not change the map, or only the owner's)
NewShardUntold(s, b, last, a) ==
    IF a \in Addrs(b.TXmig2s) THEN s ELSE Account2Shard[s][a]
NewShardOwner(s, b, last, a) ==
    IF a \in Deleted(s, b) THEN last[a].to
    ELSE IF a \in Addrs(b.TXmig2s) THEN s ELSE Account2Shard[s][a]
NewShard(s, b, last, a) ==
    IF a \in Addrs(b.Anns) THEN last[a].to
    ELSE IF a \in Addrs(b.TXmig2s) THEN s ELSE Account2Shard[s][a]

UpdateMaps(s, b, last) ==
    /\ AccountInOwnShard' = [AccountInOwnShard EXCEPT ![s] = NewOwn(s, b)]
    /\ Account2Shard' =
         [Account2Shard EXCEPT ![s] = [a \in Accounts |-> NewShard(s, b, last, a)]]

\* commit1: the balance handed over with a TXmig1.
\* (mutant: it is forgotten with the half lock, before mpAndSend needs it)
HandedOverForgotten(s, b, a) ==
    IF a \in Deleted(s, b) THEN NoBalance
    ELSE IF a \in Addrs(b.TXmig1s) THEN OutBalance(s, b, a) ELSE BalanceBeforeOut[s][a]
HandedOver(s, b, a) ==
    IF a \in Addrs(b.TXmig1s) THEN OutBalance(s, b, a) ELSE BalanceBeforeOut[s][a]

\* commit1: balances handed over and half locks; handleAnns releases the locks.
UpdateFlags(s, b) ==
    /\ BalanceBeforeOut' =
         [BalanceBeforeOut EXCEPT ![s] = [a \in Accounts |-> HandedOver(s, b, a)]]
    /\ Outing_Acc_Before_Announce' =
         [Outing_Acc_Before_Announce EXCEPT ![s] = (@ \cup Addrs(b.TXmig1s)) \ Deleted(s, b)]
    /\ Outing_Acc_After_Announce' =
         [Outing_Acc_After_Announce EXCEPT ![s] = @ \ Deleted(s, b)]

\* The TXmig2 of a TXmig1, with the balance after this block.
\* (mutant: with the balance before it)
ToTXmig2Stale(s, b, t) == [addr |-> t.addr, from |-> t.from, to |-> t.to, req |-> t.req,
                           value |-> Balance[s][t.addr]]
ToTXmig2(s, b, t) == [addr |-> t.addr, from |-> t.from, to |-> t.to, req |-> t.req,
                      value |-> OutBalance(s, b, t.addr)]

\* TryTXmig1: the TXmig2s, which handleMig2 adds to the pool one by one.  The
\* code skips the shard itself and handleNewMap never asks for such a move.
TryTXmig1(s, b) ==
    cTXmig1' = cTXmig1 \cup {ToTXmig2(s, b, t) : t \in {u \in b.TXmig1s : u.to # s}}

\* Whom a shard tells about its new accounts.
Told(s) == (Shards \ {s}) \cup {Client}

\* TryAnnounce: one batch to the client and to every other shard.
TryAnnounce(s, b) ==
    LET anns == {[addr |-> t.addr, to |-> s, req |-> t.req] : t \in b.TXmig2s}
    IN  cAnnounce' = IF anns = {} THEN cAnnounce
                     ELSE cAnnounce \cup {[dst |-> d, shard |-> s, TXanns |-> anns] : d \in Told(s)}

\* The trie that mpAndSend reads: the one of this block.
StateOf(s, b) == [a \in Accounts |-> NewBalance(s, b, a)]

\* The end of handleAnns: go mpAndSend.  With nothing deleted the goroutine
\* only reports 0 unchanged accounts.
GoMpAndSend(s, b) ==
    mpAndSends' = IF Deleted(s, b) = {} THEN mpAndSends
                  ELSE [mpAndSends EXCEPT ![s] = @ \cup
                          {[anns  |-> {t \in b.Anns : t.addr \in Deleted(s, b)},
                            state |-> StateOf(s, b)]}]

\* (mutant: the TXnss stay in their pool)
FetchedButNSs(s, b) ==
    /\ TXmig1_pool' = [TXmig1_pool EXCEPT ![s] = @ \ b.TXmig1s]
    /\ TXmig2_pool' = [TXmig2_pool EXCEPT ![s] = @ \ b.TXmig2s]
    /\ TXann_pool'  = [TXann_pool  EXCEPT ![s] = @ \ b.Anns]
    /\ UNCHANGED TXns_pool

\* FetchTX...2Pack take the block's migration transactions out of the pools.
FetchedFromPools(s, b) ==
    /\ TXmig1_pool' = [TXmig1_pool EXCEPT ![s] = @ \ b.TXmig1s]
    /\ TXmig2_pool' = [TXmig2_pool EXCEPT ![s] = @ \ b.TXmig2s]
    /\ TXann_pool'  = [TXann_pool  EXCEPT ![s] = @ \ b.Anns]
    /\ TXns_pool'   = [TXns_pool   EXCEPT ![s] = @ \ b.NSs]

\* The reply to the client is a message of its own only when it carries TXnss:
\* the others do nothing to the client but `due' (HandleReply).
commit1(s, b, last) ==
    /\ UpdateTree(s, b, last)
    /\ UpdateMaps(s, b, last)
    /\ UpdateFlags(s, b)
    /\ GoMpAndSend(s, b)
    /\ TryTXmig1(s, b)
    /\ TryAnnounce(s, b)
    /\ cReply' = cReply \cup ({b.NSs} \ {{}})
    /\ UNCHANGED <<clientMap, counters, cMigrateWanted, cPendingTXs, cNewMap, cCaP,
                   cNumOfMigratedTXsAddrs, cUnchangedState, crashed>>

\* Propose, propose1 and commit1 under sequenceLock: a whole block.
ProduceBlock(s) ==
    /\ s \notin crashed
    /\ \E b \in GenerateBlock(s) : \E last \in LastAnns(b.Anns) :
         /\ executed + Cardinality({a \in Accounts : b.Txs[a] # 0}) <= MaxTxs
         /\ FetchedFromPools(s, b)
         /\ commit1(s, b, last)

-----------------------------------------------------------------------------
(* The handlers of a leader *)

\* The leader sends its queue to the client (under sequenceLock).
handleMigrateWanted(s) ==
    /\ s \notin crashed
    /\ s \in cMigrateWanted
    /\ cMigrateWanted' = cMigrateWanted \ {s}
    /\ cPendingTXs' = cPendingTXs \cup {s}
    /\ UNCHANGED <<Account2Shard, AccountInOwnShard, tries, flags, pools, mpAndSends,
                   clientMap, counters, cNewMap, cTXmig1, cAnnounce, cCaP, cReply,
                   cNumOfMigratedTXsAddrs, cUnchangedState, crashed, history>>

\* A TXmig1 for every account of the new map that the shard owns and must leave.
\* The code adds them one by one and without sequenceLock: a block may be made
\* in between.  Here all are added at once, before or after a block.
handleNewMap(m) ==
    LET s == m.shard
        leaving == {a \in AccountInOwnShard[s] : m.map[a] \notin {s, NoShard}}
    IN  /\ s \notin crashed
        /\ cNewMap' = cNewMap \ {m}
        /\ TXmig1_pool' = [TXmig1_pool EXCEPT ![s] = @ \cup
              {[addr |-> a, from |-> s, to |-> m.map[a], req |-> m.req] : a \in leaving}]
        /\ UNCHANGED <<Account2Shard, AccountInOwnShard, tries, flags, TXmig2_pool,
                       TXann_pool, TXns_pool, mpAndSends, clientMap, counters,
                       cMigrateWanted, cTXmig1, cAnnounce, cCaP, toClient, crashed, history>>

\* One account of a batch of TXmig2s enters the destination's pool.
handleMig2(t) ==
    /\ t.to \notin crashed
    /\ cTXmig1' = cTXmig1 \ {t}
    /\ TXmig2_pool' = [TXmig2_pool EXCEPT ![t.to] = @ \cup {t}]
    /\ UNCHANGED <<Account2Shard, AccountInOwnShard, tries, flags, TXmig1_pool,
                   TXann_pool, TXns_pool, mpAndSends, clientMap, counters,
                   cMigrateWanted, cNewMap, cAnnounce, cCaP, toClient, crashed, history>>

\* Every announcement enters the pool, whoever owns the account.
handleAnnounce(m) ==
    /\ m.dst \in Shards \ crashed
    /\ cAnnounce' = cAnnounce \ {m}
    /\ TXann_pool' = [TXann_pool EXCEPT ![m.dst] = @ \cup m.TXanns]
    /\ Outing_Acc_After_Announce' =
         [Outing_Acc_After_Announce EXCEPT ![m.dst] =
            @ \cup (Addrs(m.TXanns) \cap AccountInOwnShard[m.dst])]
    /\ UNCHANGED <<Account2Shard, AccountInOwnShard, tries, Outing_Acc_Before_Announce,
                   BalanceBeforeOut, TXmig1_pool, TXmig2_pool, TXns_pool, mpAndSends,
                   clientMap, counters, cMigrateWanted, cNewMap, cTXmig1, cCaP, toClient,
                   crashed, history>>

\* The goroutine of handleAnns: balance changes since TXmig1, one message per
\* destination (TrySendChangesAndPendings) and the number of unchanged accounts
\* to the client.  A missing BalanceBeforeOut is a nil pointer, and the second
\* announcement of an account in a block finds it deleted by the first.
Change(s, job, t) == job.state[t.addr] - BalanceBeforeOut[s][t.addr]

mpAndSend(s, job) ==
    LET nil == \/ \E t \in job.anns : BalanceBeforeOut[s][t.addr] = NoBalance
               \/ \E t, u \in job.anns : t # u /\ t.addr = u.addr
        changed == {t \in job.anns : Change(s, job, t) # 0}
        ns(t) == [addr |-> t.addr, to |-> t.to, req |-> t.req, change |-> Change(s, job, t)]
    IN  /\ s \notin crashed
        /\ mpAndSends' = [mpAndSends EXCEPT ![s] = @ \ {job}]
        /\ \/ /\ nil
              /\ crashed' = crashed \cup {s}
              /\ UNCHANGED <<BalanceBeforeOut, cCaP, cUnchangedState>>
           \/ /\ ~nil
              /\ BalanceBeforeOut' =
                   [BalanceBeforeOut EXCEPT ![s] =
                      [a \in Accounts |-> IF a \in Addrs(job.anns) THEN NoBalance ELSE @[a]]]
              /\ cCaP' = cCaP \cup
                   {[to |-> d, List |-> {t \in job.anns : t.to = d},
                     TXnss |-> {ns(t) : t \in {u \in changed : u.to = d}}] :
                        d \in {t.to : t \in job.anns}}
              /\ cUnchangedState' = cUnchangedState \cup ({job.anns \ changed} \ {{}})
              /\ UNCHANGED crashed
        /\ UNCHANGED <<Account2Shard, AccountInOwnShard, tries, Outing_Acc_Before_Announce,
                       Outing_Acc_After_Announce, pools, clientMap, counters,
                       cMigrateWanted, cNewMap, cTXmig1, cAnnounce, cPendingTXs, cReply,
                       cNumOfMigratedTXsAddrs, history>>

\* The destination adds the TXnss to the pool one by one, then tells the client
\* how many accounts have arrived with their pending transactions.
handleChangesAndPendings(m) ==
    /\ m.to \notin crashed
    /\ \/ \E ns \in m.TXnss :
            /\ cCaP' = (cCaP \ {m}) \cup {[m EXCEPT !.TXnss = @ \ {ns}]}
            /\ TXns_pool' = [TXns_pool EXCEPT ![m.to] = @ \cup {ns}]
            /\ UNCHANGED cNumOfMigratedTXsAddrs
       \/ /\ m.TXnss = {}
          /\ cCaP' = cCaP \ {m}
          /\ cNumOfMigratedTXsAddrs' = cNumOfMigratedTXsAddrs \cup {m.List}
          /\ UNCHANGED TXns_pool
    /\ UNCHANGED <<Account2Shard, AccountInOwnShard, tries, flags, TXmig1_pool,
                   TXmig2_pool, TXann_pool, mpAndSends, clientMap, counters,
                   cMigrateWanted, cNewMap, cTXmig1, cAnnounce, cPendingTXs, cReply,
                   cUnchangedState, crashed, history>>

-----------------------------------------------------------------------------
(* The client *)

shardVars == <<Account2Shard, AccountInOwnShard, tries, flags, pools, mpAndSends, history>>

\* A new round may start: rounds are left and the last one is over.
\* (mutant: OnlyOnce is not checked)
RoundDueAlways(left, due) == due /\ left = 0 /\ num_of_unfinished_migrated_TXs = 0
RoundDue(left, due) ==
    due /\ OnlyOnce > 0 /\ left = 0 /\ num_of_unfinished_migrated_TXs = 0

\* cReply for a block with the TXnss `nss': account for them, then start a
\* round if none is under way.  Whether max_commit_block has run down and the
\* block had committed transactions is left open (`due').
HandleReply(nss, due) ==
    LET left  == num_of_unfinished_migration - Cardinality(nss)
        start == RoundDue(left, due)
    IN  /\ Client \notin crashed
        /\ cReply' = cReply \ {nss}
        /\ crashed' = IF left < 0 THEN crashed \cup {Client} ELSE crashed
        /\ num_of_unfinished_migration' = IF start THEN 1 ELSE left
        /\ num_of_unfinished_migrated_TXs' =
             IF start THEN 1 ELSE num_of_unfinished_migrated_TXs
        /\ OnlyOnce' = IF start THEN OnlyOnce - 1 ELSE OnlyOnce
        /\ cMigrateWanted' = IF start THEN Shards ELSE cMigrateWanted
        /\ UNCHANGED <<shardVars, clientMap, num_of_shard_not_sending_pending, cNewMap,
                       cTXmig1, cAnnounce, cCaP, cPendingTXs, cNumOfMigratedTXsAddrs,
                       cUnchangedState>>

\* cAnnounce at the client.
HandleAnnounce(m) ==
    /\ Client \notin crashed /\ m.dst = Client
    /\ cAnnounce' = cAnnounce \ {m}
    /\ clientMap' = [a \in Accounts |-> IF a \in Addrs(m.TXanns) THEN m.shard ELSE clientMap[a]]
    /\ UNCHANGED <<shardVars, counters, cMigrateWanted, cNewMap, cTXmig1, cCaP, toClient,
                   crashed>>

\* How many moves the round has: one per address of the new map.
\* (mutant: one per destination)
MovesPerShard(new_addr2shard) == Cardinality({new_addr2shard[a] : a \in Accounts} \ {NoShard})
Moves(new_addr2shard) == Cardinality({a \in Accounts : new_addr2shard[a] # NoShard})

\* cPendingTXs: the last shard's answer makes the client run the partition
\* algorithm.  Its outcome is open, except that an account only appears with a
\* shard other than the one the client's map gives it.
HandlePendingTXs(s) ==
    /\ Client \notin crashed
    /\ cPendingTXs' = cPendingTXs \ {s}
    /\ \/ /\ num_of_shard_not_sending_pending > 1
          /\ num_of_shard_not_sending_pending' = num_of_shard_not_sending_pending - 1
          /\ UNCHANGED <<num_of_unfinished_migration, num_of_unfinished_migrated_TXs, cNewMap>>
       \/ /\ num_of_shard_not_sending_pending = 1
          /\ num_of_shard_not_sending_pending' = Cardinality(Shards)
          /\ \E new_addr2shard \in [Accounts -> Shards \cup {NoShard}] :
                /\ \A a \in Accounts : new_addr2shard[a] # clientMap[a]
                /\ num_of_unfinished_migration' = Moves(new_addr2shard)
                /\ num_of_unfinished_migrated_TXs' = Moves(new_addr2shard)
                /\ cNewMap' = cNewMap \cup
                     {[shard |-> d, map |-> new_addr2shard, req |-> OnlyOnce] : d \in Shards}
    /\ UNCHANGED <<shardVars, clientMap, OnlyOnce, cMigrateWanted, cTXmig1, cAnnounce, cCaP,
                   cReply, cNumOfMigratedTXsAddrs, cUnchangedState, crashed>>

\* cNumOfMigratedTXsAddrs
HandleNumOfMigratedTXsAddrs(list) ==
    /\ Client \notin crashed
    /\ cNumOfMigratedTXsAddrs' = cNumOfMigratedTXsAddrs \ {list}
    /\ num_of_unfinished_migrated_TXs' = num_of_unfinished_migrated_TXs - Cardinality(list)
    /\ UNCHANGED <<shardVars, clientMap, OnlyOnce, num_of_unfinished_migration,
                   num_of_shard_not_sending_pending, toShards, cPendingTXs, cReply,
                   cUnchangedState, crashed>>

\* (mutant: the accounts that arrive unchanged are not counted)
HandleUnchangedStateLost(anns) ==
    /\ Client \notin crashed
    /\ cUnchangedState' = cUnchangedState \ {anns}
    /\ UNCHANGED <<shardVars, clientMap, counters, toShards, cPendingTXs, cReply,
                   cNumOfMigratedTXsAddrs, crashed>>

\* cUnchangedState
HandleUnchangedState(anns) ==
    /\ Client \notin crashed
    /\ cUnchangedState' = cUnchangedState \ {anns}
    /\ num_of_unfinished_migration' = num_of_unfinished_migration - Cardinality(anns)
    /\ UNCHANGED <<shardVars, clientMap, OnlyOnce, num_of_unfinished_migrated_TXs,
                   num_of_shard_not_sending_pending, toShards, cPendingTXs, cReply,
                   cNumOfMigratedTXsAddrs, crashed>>

-----------------------------------------------------------------------------
Shard(s) ==
    \/ ProduceBlock(s)
    \/ handleMigrateWanted(s)
    \/ \E job \in mpAndSends[s] : mpAndSend(s, job)

Deliver ==
    \/ \E m \in cNewMap : handleNewMap(m)
    \/ \E t \in cTXmig1 : handleMig2(t)
    \/ \E m \in cAnnounce : handleAnnounce(m)
    \/ \E m \in cCaP : handleChangesAndPendings(m)

ClientStep ==
    \/ \E nss \in cReply \cup {{}} : \E due \in BOOLEAN : HandleReply(nss, due)
    \/ \E m \in cAnnounce : HandleAnnounce(m)
    \/ \E s \in cPendingTXs : HandlePendingTXs(s)
    \/ \E list \in cNumOfMigratedTXsAddrs : HandleNumOfMigratedTXsAddrs(list)
    \/ \E anns \in cUnchangedState : HandleUnchangedState(anns)

Next == (\E s \in Shards : Shard(s)) \/ Deliver \/ ClientStep

Spec == Init /\ [][Next]_vars

\* Every leader's Propose loop, handler goroutines and connections keep running.
Fairness ==
    /\ \A s \in Shards :
         /\ WF_vars(ProduceBlock(s))
         /\ WF_vars(handleMigrateWanted(s))
         /\ WF_vars(\E job \in mpAndSends[s] : mpAndSend(s, job))
    /\ WF_vars(\E m \in cNewMap : handleNewMap(m))
    /\ WF_vars(\E t \in cTXmig1 : handleMig2(t))
    /\ WF_vars(\E m \in cAnnounce : handleAnnounce(m))
    /\ WF_vars(\E m \in cCaP : handleChangesAndPendings(m))
    /\ WF_vars(\E nss \in cReply : HandleReply(nss, FALSE) \/ HandleReply(nss, TRUE))
    /\ WF_vars(\E m \in cAnnounce : HandleAnnounce(m))
    /\ WF_vars(\E s \in cPendingTXs : HandlePendingTXs(s))
    /\ WF_vars(\E list \in cNumOfMigratedTXsAddrs : HandleNumOfMigratedTXsAddrs(list))
    /\ WF_vars(\E anns \in cUnchangedState : HandleUnchangedState(anns))

FairSpec == Spec /\ Fairness

=============================================================================
