----------------------------- MODULE EpochChange -----------------------------
(***************************************************************************)
(* Migration with Stop_When_Migrating: the shards stop producing blocks,   *)
(* exchange the moved accounts and their pending transactions, and go on   *)
(* when every leader has told every other one that it is done.             *)
(*                                                                         *)
(* epochLock is the lock that stops a leader: a block takes it and gives   *)
(* it back, a new map takes it and the last "sure" gives it back.  The     *)
(* handlers run concurrently; SendOut and SendSure are goroutines.         *)
(* Of sequenceLock it is kept that what follows waits for the end of       *)
(* commit1.  What a block does to balances is left out.                    *)
(* A transaction pool is the set of the transactions that are in it, since *)
(* how often one is there is not told apart: what takes it out may take    *)
(* all its copies or leave some.                                           *)
(***************************************************************************)
EXTENDS Integers, FiniteSets, Sequences

CONSTANTS Shards, Accounts,
          Home,       \* [Accounts -> Shards] at the start
          Txs,        \* pending: [payer, recipients (a sequence), relay]
          MaxEpoch    \* bound: maps the client sends

ASSUME EpochConstants ==
    /\ IsFiniteSet(Shards) /\ IsFiniteSet(Accounts)
    /\ Home \in [Accounts -> Shards] /\ MaxEpoch \in Nat
    /\ \A t \in Txs : t.relay \in BOOLEAN /\ 1 \in DOMAIN t.recipients

VARIABLES
    Account2Shard,      \* [shard][account]
    AccountInOwnShard,  \* [shard]: a set of accounts
    state,              \* [shard][account]: balance under the current root, -1: none
    queue,              \* [shard]: the transactions in the pool
    epochLock,          \* [shard]: "free", or who holds it, "block" or "epoch"
    main,               \* [shard]: where the intake of the epoch change stands
    taken,              \* [shard]: the maps it has stopped for, in order, by number
    msequenceID,        \* [shard]: epoch changes committed
    outs,               \* [shard]: arguments of the SendOut goroutines not yet run
    sendoutfinish,      \* [shard]: SendOuts that wait to hand over their 1
    sureWait, sureDue,  \* [shard]: SendSure goroutines before and after sending
    inacc_count, inacc_pool, intx_pool,
    sure_count,
    maps,               \* the maps the client has sent
    msgs,
    done,               \* history, [shard]: epoch changes it has ended
    packed              \* history: transactions some block has taken

vars == <<Account2Shard, AccountInOwnShard, state, queue, epochLock, main, taken,
          msequenceID, outs, sendoutfinish, sureWait, sureDue, inacc_count,
          inacc_pool, intx_pool, sure_count, maps, msgs, done, packed>>
owned  == <<Account2Shard, AccountInOwnShard, state>>
intake == <<inacc_count, inacc_pool, intx_pool>>
sures  == <<sendoutfinish, sureWait, sureDue>>
counts == <<sure_count, done>>
pool   == <<queue, packed>>

\* Whom a transaction waits for: its payer, or a second half its recipient.
WaitsFor(t) == IF t.relay THEN t.recipients[1] ELSE t.payer

Init ==
    /\ Account2Shard = [s \in Shards |-> Home]
    /\ AccountInOwnShard = [s \in Shards |-> {a \in Accounts : Home[a] = s}]
    /\ state = [s \in Shards |-> [a \in Accounts |-> IF Home[a] = s THEN 1 ELSE -1]]
    /\ queue = [s \in Shards |-> {t \in Txs : Home[WaitsFor(t)] = s}]
    /\ epochLock = [s \in Shards |-> "free"]
    /\ main = [s \in Shards |-> "idle"]
    /\ taken = [s \in Shards |-> <<>>]
    /\ msequenceID = [s \in Shards |-> 0]
    /\ outs = [s \in Shards |-> {}]
    /\ sendoutfinish = [s \in Shards |-> 0]
    /\ sureWait = [s \in Shards |-> 0] /\ sureDue = [s \in Shards |-> 0]
    /\ inacc_count = [s \in Shards |-> 0]
    /\ inacc_pool = [s \in Shards |-> {}]
    /\ intx_pool = [s \in Shards |-> {}]
    /\ sure_count = [s \in Shards |-> 0]
    /\ maps = <<>> /\ msgs = {}
    /\ done = [s \in Shards |-> 0] /\ packed = {}
-----------------------------------------------------------------------------
\* Propose takes epochLock ...
ProposeStart(s) ==
    /\ epochLock[s] = "free"
    /\ epochLock' = [epochLock EXCEPT ![s] = "block"]
    /\ UNCHANGED <<owned, pool, main, taken, msequenceID, outs, sures, intake, counts,
                   maps, msgs>>

\* ... packs some of the pool, when commit1 of an AccState is over, and gives
\* the lock back at the end of its own.
CommitBlock(s) ==
    /\ epochLock[s] = "block" /\ main[s] # "count"
    /\ \E block \in SUBSET queue[s] : \E left \in SUBSET block :
          /\ queue' = [queue EXCEPT ![s] = (@ \ block) \cup left]
          /\ packed' = packed \cup block
    /\ epochLock' = [epochLock EXCEPT ![s] = "free"]
    /\ UNCHANGED <<owned, main, taken, msequenceID, outs, sures, intake, counts, maps, msgs>>

\* The client sends a map of the accounts that move.  In this mode nothing
\* lowers num_of_unfinished_migration, which is the number of accounts in the
\* last map: the client goes on to another round only after an empty one.  It
\* first asks the leaders for their pending transactions, which they answer
\* whether or not they have handled the map before.
SendNewAddr2Shard ==
    /\ Len(maps) < MaxEpoch
    /\ \A i \in 1..Len(maps) : DOMAIN maps[i] = {}
    /\ \E moved \in SUBSET Accounts : \E new \in [moved -> Shards] :
          /\ \A a \in moved : new[a] # Home[a]
          /\ maps' = Append(maps, new)
    /\ msgs' = msgs \cup {[type |-> "NewMap", epoch |-> Len(maps) + 1, to |-> s] : s \in Shards}
    /\ UNCHANGED <<owned, pool, epochLock, main, taken, msequenceID, outs, sures, intake, counts>>

\* (mutant: a map that finds epochLock taken is dropped)
handleNewMapOrDrop(s, m) ==
    /\ m \in msgs /\ m.type = "NewMap" /\ m.to = s
    /\ IF epochLock[s] = "free"
       THEN /\ epochLock' = [epochLock EXCEPT ![s] = "epoch"]
            /\ taken' = [taken EXCEPT ![s] = Append(@, m.epoch)]
       ELSE UNCHANGED <<epochLock, taken>>
    /\ msgs' = msgs \ {m}
    /\ UNCHANGED <<owned, pool, main, msequenceID, outs, sures, intake, counts, maps>>

\* (mutant: epochLock is given back when the handler returns)
handleNewMapUnlocks(s, m) ==
    /\ m \in msgs /\ m.type = "NewMap" /\ m.to = s /\ epochLock[s] = "free"
    /\ taken' = [taken EXCEPT ![s] = Append(@, m.epoch)]
    /\ msgs' = msgs \ {m}
    /\ UNCHANGED <<epochLock, owned, pool, main, msequenceID, outs, sures, intake, counts, maps>>

\* handleNewMap: the handler waits for epochLock and then proposes the map.
handleNewMap(s, m) ==
    /\ m \in msgs /\ m.type = "NewMap" /\ m.to = s /\ epochLock[s] = "free"
    /\ epochLock' = [epochLock EXCEPT ![s] = "epoch"]
    /\ taken' = [taken EXCEPT ![s] = Append(@, m.epoch)]
    /\ msgs' = msgs \ {m}
    /\ UNCHANGED <<owned, pool, main, msequenceID, outs, sures, intake, counts, maps>>

\* commit1 of an EpochChange: the new map is entered, the leaving accounts are
\* handed to SendOut and the coming ones are counted.
Leaving(s, new) == {a \in AccountInOwnShard[s] \cap DOMAIN new : new[a] # s}
Coming(s, new)  == {a \in DOMAIN new : new[a] = s /\ a \notin AccountInOwnShard[s]}

CommitEpochChange(s, new) ==
    /\ Account2Shard' = [Account2Shard EXCEPT ![s] =
                            [a \in Accounts |-> IF a \in DOMAIN new THEN new[a] ELSE @[a]]]
    /\ AccountInOwnShard' = [AccountInOwnShard EXCEPT ![s] = @ \ Leaving(s, new)]
    /\ outs' = [outs EXCEPT ![s] = @ \cup {[a \in Leaving(s, new) |-> new[a]]}]
    /\ msequenceID' = [msequenceID EXCEPT ![s] = @ + 1]
    /\ inacc_count' = [inacc_count EXCEPT ![s] = @ + Cardinality(Coming(s, new))]
    /\ IF Coming(s, new) = {}
       THEN /\ sureWait' = [sureWait EXCEPT ![s] = @ + 1]
            /\ UNCHANGED main
       ELSE /\ main' = [main EXCEPT ![s] = IF inacc_count'[s] = 0 THEN "spropose" ELSE "wait"]
            /\ UNCHANGED sureWait
    /\ UNCHANGED <<state, pool, epochLock, taken, sendoutfinish, sureDue, inacc_pool,
                   intx_pool, counts, maps, msgs>>

\* The map is proposed when commit1 of the AccState before it is over.
mpropose(s) ==
    /\ msequenceID[s] < Len(taken[s]) /\ main[s] = "idle"
    /\ CommitEpochChange(s, maps[taken[s][msequenceID[s] + 1]])
-----------------------------------------------------------------------------
\* (mutant: receipts stay behind)
CollectedPayersOnly(t, a) == t.payer = a /\ ~t.relay

\* SendOut collects a transaction for a leaving account that pays it, and a
\* second half for one of its recipients.
Collected(t, a) ==
    IF t.relay THEN \E i \in DOMAIN t.recipients : t.recipients[i] = a ELSE t.payer = a

\* What is sent for an account.  Its balance is looked up only when it has a
\* pending transaction; without one, zero is sent.
BalanceAndPending(s, a) ==
    [addr    |-> a,
     balance |-> IF \E t \in queue[s] : Collected(t, a) THEN state[s][a] ELSE 0,
     pending |-> {t \in queue[s] : Collected(t, a)}]

\* SendOut: one message to each shard that gets accounts.  The `continue' of the
\* collecting loop is that of the loop over the recipients, so a collected
\* transaction also stays in the pool.
SendOut(s, out) ==
    /\ out \in outs[s]
    /\ outs' = [outs EXCEPT ![s] = @ \ {out}]
    /\ msgs' = msgs \cup {[type |-> "BalanceAndPending", from |-> s, to |-> r,
                           list |-> {BalanceAndPending(s, a) : a \in {b \in DOMAIN out : out[b] = r}}]
                             : r \in {out[a] : a \in DOMAIN out}}
    /\ sendoutfinish' = [sendoutfinish EXCEPT ![s] = @ + 1]
    /\ UNCHANGED <<owned, pool, epochLock, main, taken, msequenceID, sureWait, sureDue,
                   intake, counts, maps>>

\* The moved accounts may come before the shard has counted them: inacc_count
\* is then negative for a while.
handleBalancesAndPendings(s, m) ==
    /\ m \in msgs /\ m.type = "BalanceAndPending" /\ m.to = s
    /\ inacc_pool' = [inacc_pool EXCEPT ![s] = @ \cup {[addr |-> b.addr, balance |-> b.balance] : b \in m.list}]
    /\ intx_pool' = [intx_pool EXCEPT ![s] = @ \cup UNION {b.pending : b \in m.list}]
    /\ inacc_count' = [inacc_count EXCEPT ![s] = @ - Cardinality(m.list)]
    /\ main' = [main EXCEPT ![s] = IF inacc_count'[s] = 0 THEN "spropose" ELSE @]
    /\ msgs' = msgs \ {m}
    /\ UNCHANGED <<owned, pool, epochLock, taken, msequenceID, outs, sures, counts, maps>>

\* commit1 of an AccState: the accounts are the shard's, their transactions are
\* in its pool.  The trie with their balances is committed, but no block has
\* its root: the state that the next block builds on does not change.
CommitAccState(s) ==
    /\ AccountInOwnShard' = [AccountInOwnShard EXCEPT ![s] = @ \cup {b.addr : b \in inacc_pool[s]}]
    /\ queue' = [queue EXCEPT ![s] = @ \cup intx_pool[s]]
    /\ main' = [main EXCEPT ![s] = "sure"]
    /\ UNCHANGED <<Account2Shard, state, epochLock, taken, msequenceID, outs, sures, intake,
                   counts, maps, msgs, packed>>

spropose(s) == main[s] = "spropose" /\ CommitAccState(s)
-----------------------------------------------------------------------------
\* SendSure waits for SendOut and tells the other leaders.
SendSure(s) ==
    /\ sendoutfinish[s] > 0
    /\ sendoutfinish' = [sendoutfinish EXCEPT ![s] = @ - 1]
    /\ msgs' = msgs \cup {[type |-> "Sure", from |-> s, to |-> r, epoch |-> msequenceID[s]]
                             : r \in Shards \ {s}}
    /\ \/ /\ sureWait[s] > 0            \* the goroutine of a shard nothing comes to
          /\ sureWait' = [sureWait EXCEPT ![s] = @ - 1]
          /\ sureDue' = [sureDue EXCEPT ![s] = @ + 1]
          /\ UNCHANGED main
       \/ /\ main[s] = "sure"           \* inside commit1 of the AccState
          /\ main' = [main EXCEPT ![s] = "count"]
          /\ UNCHANGED <<sureWait, sureDue>>
    /\ UNCHANGED <<owned, pool, epochLock, taken, msequenceID, outs, intake, counts, maps>>

\* (mutant: one confirmation less is enough)
CountSureEarly(s) ==
    IF sure_count[s] + 2 = Cardinality(Shards)
    THEN /\ sure_count' = [sure_count EXCEPT ![s] = 0]
         /\ epochLock' = [epochLock EXCEPT ![s] = "free"]
         /\ done' = [done EXCEPT ![s] = @ + 1]
    ELSE /\ sure_count' = [sure_count EXCEPT ![s] = @ + 1]
         /\ UNCHANGED <<epochLock, done>>

\* One more confirmation; the last one opens epochLock.
CountSure(s) ==
    IF sure_count[s] + 1 = Cardinality(Shards)
    THEN /\ sure_count' = [sure_count EXCEPT ![s] = 0]
         /\ epochLock' = [epochLock EXCEPT ![s] = "free"]
         /\ done' = [done EXCEPT ![s] = @ + 1]
    ELSE /\ sure_count' = [sure_count EXCEPT ![s] = @ + 1]
         /\ UNCHANGED <<epochLock, done>>

\* (mutant: SendSure itself empties the pools, also where nothing has come)
CountOwnSureEmpties(s) ==
    /\ CountSure(s)
    /\ \/ sureDue[s] > 0 /\ sureDue' = [sureDue EXCEPT ![s] = @ - 1] /\ UNCHANGED main
       \/ main[s] = "count" /\ main' = [main EXCEPT ![s] = "idle"] /\ UNCHANGED sureDue
    /\ inacc_pool' = [inacc_pool EXCEPT ![s] = {}] /\ intx_pool' = [intx_pool EXCEPT ![s] = {}]
    /\ UNCHANGED <<owned, pool, taken, msequenceID, outs, sendoutfinish, sureWait,
                   inacc_count, maps, msgs>>

\* The rest of SendSure; after an AccState the two pools are emptied.
CountOwnSure(s) ==
    /\ CountSure(s)
    /\ \/ /\ sureDue[s] > 0
          /\ sureDue' = [sureDue EXCEPT ![s] = @ - 1]
          /\ UNCHANGED <<main, inacc_pool, intx_pool>>
       \/ /\ main[s] = "count"
          /\ main' = [main EXCEPT ![s] = "idle"]
          /\ inacc_pool' = [inacc_pool EXCEPT ![s] = {}]
          /\ intx_pool' = [intx_pool EXCEPT ![s] = {}]
          /\ UNCHANGED sureDue
    /\ UNCHANGED <<owned, pool, taken, msequenceID, outs, sendoutfinish, sureWait,
                   inacc_count, maps, msgs>>

\* A confirmation says which shard it is from and nothing else.
handleSure(s, m) ==
    /\ m \in msgs /\ m.type = "Sure" /\ m.to = s
    /\ CountSure(s)
    /\ msgs' = msgs \ {m}
    /\ UNCHANGED <<owned, pool, main, taken, msequenceID, outs, sures, intake, maps>>

Epoch(s) ==
    \/ mpropose(s) \/ spropose(s) \/ SendSure(s) \/ CountOwnSure(s)
    \/ \E out \in outs[s] : SendOut(s, out)
    \/ \E m \in msgs : handleBalancesAndPendings(s, m) \/ handleSure(s, m)
StartEpoch(s) == \E m \in msgs : handleNewMap(s, m)

Next == \/ SendNewAddr2Shard
        \/ \E s \in Shards : ProposeStart(s) \/ CommitBlock(s) \/ Epoch(s) \/ StartEpoch(s)

Spec == Init /\ [][Next]_vars

\* Goroutines and handlers run at last; a handler that waits for epochLock gets
\* it although blocks take it again and again (a Go mutex is handed to the
\* longest waiter after a millisecond).
FairSpec == /\ Spec
            /\ \A s \in Shards : WF_vars(CommitBlock(s)) /\ WF_vars(Epoch(s)) /\ SF_vars(StartEpoch(s))
-----------------------------------------------------------------------------
TypeOK ==
    /\ Account2Shard \in [Shards -> [Accounts -> Shards]]
    /\ AccountInOwnShard \in [Shards -> SUBSET Accounts]
    /\ state \in [Shards -> [Accounts -> {-1, 1}]]
    /\ queue \in [Shards -> SUBSET Txs] /\ intx_pool \in [Shards -> SUBSET Txs]
    /\ epochLock \in [Shards -> {"free", "block", "epoch"}]
    /\ main \in [Shards -> {"idle", "wait", "spropose", "sure", "count"}]
    /\ taken \in [Shards -> Seq(1..MaxEpoch)] /\ msequenceID \in [Shards -> 0..MaxEpoch]
    /\ sendoutfinish \in [Shards -> Nat]
    /\ sureWait \in [Shards -> Nat] /\ sureDue \in [Shards -> Nat]
    /\ inacc_count \in [Shards -> -Cardinality(Accounts)..Cardinality(Accounts)]
    /\ \A s \in Shards : inacc_pool[s] \subseteq [addr : Accounts, balance : {0, 1}]
    /\ sure_count \in [Shards -> 0..(Cardinality(Shards) - 1)]
    /\ done \in [Shards -> 0..MaxEpoch]

\* The places where an account is while it moves.
Places(a) ==
    {<<"own", s>> : s \in {r \in Shards : a \in AccountInOwnShard[r]}}
    \cup {<<"out", s>> : s \in {r \in Shards : \E o \in outs[r] : a \in DOMAIN o}}
    \cup {<<"msg", m.to>> : m \in {n \in msgs : n.type = "BalanceAndPending"
                                                /\ \E b \in n.list : b.addr = a}}
    \cup {<<"in", s>> : s \in {r \in Shards : main[r] \notin {"sure", "count"}
                                              /\ \E b \in inacc_pool[r] : b.addr = a}}

\* An account is never lost and never at two shards: it is owned by one, or
\* waits in one SendOut, one message or one inacc_pool.
OnePlace == \A a \in Accounts : Cardinality(Places(a)) = 1

\* Two leaders take the maps one after the other in the same order.  Each map
\* has a goroutine of its own that waits for epochLock, so they need not.
SameOrder(s, r) ==
    \A i \in DOMAIN taken[s] \cap DOMAIN taken[r] : taken[s][i] = taken[r][i]

\* The maps a leader has gone on from, and those it has done its part for:
\* its accounts are sent and the coming ones are taken in.
Ended(s) == {taken[s][i] : i \in 1..done[s]}
Completed(s) ==
    IF main[s] \in {"wait", "spropose", "sure"} \/ outs[s] # {}
    THEN msequenceID[s] - 1 ELSE msequenceID[s]
Complete(s) == {taken[s][i] : i \in 1..Completed(s)}

\* No leader produces blocks again before every leader has sent its accounts
\* and taken in the ones that come, in as many epoch changes; and for the very
\* same maps, where two leaders take them in the same order.
StopUntilAllDone ==
    \A s, r \in Shards :
        /\ done[s] <= Completed(r)
        /\ SameOrder(s, r) => Ended(s) \subseteq Complete(r)

\* The confirmation that opens epochLock finds it taken by the epoch change:
\* otherwise Go stops the process (unlock of unlocked mutex), or a block is
\* being produced under it.
OnlyStoppedIsReleased ==
    \A s \in Shards :
        /\ sure_count[s] = Cardinality(Shards) - 1
        /\ \/ sureDue[s] > 0 \/ main[s] = "count"
           \/ \E m \in msgs : m.type = "Sure" /\ m.to = s
        => epochLock[s] = "epoch"

\* Every map that is sent is applied by every leader, which then goes on,
\* unless the leaders take the maps in different orders: again and again all
\* have ended as many epoch changes as the client has begun (handleNewMap,
\* commit1, SendSure, handleSure).
EpochEnds == [](\A s, r \in Shards : SameOrder(s, r))
                 => []<>(\A s \in Shards : done[s] = Len(maps))

\* When no account is on its way, a transaction that no block has taken is in
\* the pool of the shard that owns the account it waits for.
PendingFollows ==
    (\A a \in Accounts : \E s \in Shards : a \in AccountInOwnShard[s]) =>
        \A t \in Txs \ packed : \A s \in Shards :
            WaitsFor(t) \in AccountInOwnShard[s] => t \in queue[s]
=============================================================================
