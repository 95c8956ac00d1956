----------------------------- MODULE Transactions -----------------------------
(***************************************************************************)
(* The path of a payment through the shards while accounts move: from the  *)
(* client to the queue of the payer's shard (cClient), into a block that   *)
(* debits the payer, as a receipt to the shard of the payee (cRelay), into *)
(* a block that credits it.  When an account leaves, its waiting payments  *)
(* and receipts are merged into one transaction and follow it (cCaP).      *)
(*                                                                         *)
(* Default mode: no bank, Not_Lock_immediately, accounts that leave are    *)
(* half locked.                                                            *)
(* Every account moves at most once, so that a shard's Account2Shard,      *)
(* AccountInOwnShard and trie Location agree (TrieMatchesMemory of         *)
(* Migration) and one variable stands for the three.  A migration          *)
(* transaction in flight and one in a pool are not told apart: a block may *)
(* hold any of those that are due at the shard.                            *)
(***************************************************************************)
EXTENDS Naturals, FiniteSets, SequencesExt, Bags

CONSTANTS
    Shards, Accounts, Client,
    Genesis,        \* where the address hash puts an account
    Payments,       \* what the client injects, each with one recipient
    Payer, Payee,
    Moves,          \* the client's new map: accounts with source and destination
    MaxBlockSize    \* config: transactions of all kinds per block

ASSUME TransactionsAssumption ==
    /\ IsFiniteSet(Shards) /\ IsFiniteSet(Payments) /\ Client \notin Shards
    /\ Genesis \in [Accounts -> Shards]
    /\ Payer \in [Payments -> Accounts] /\ Payee \in [Payments -> Accounts]
    /\ Moves \subseteq [addr : Accounts, from : Shards, to : Shards]
    /\ \A m \in Moves : m.from = Genesis[m.addr] /\ m.to # m.from
    /\ \A m, n \in Moves : m.addr = n.addr => m = n
    /\ MaxBlockSize \in Nat \ {0}

VARIABLES
    Account2Shard,              \* each leader's map of the accounts
    Outing_Acc_Before_Announce, \* half-locked accounts
    TXmig1s, TXmig2s, TXanns,   \* migration transactions not yet in a block
    block,                      \* the block between GenerateBlock and commit1
    Queue,                      \* Tx_pool.Queue
    Outing_Before_Announce_TX_Pools,
    relaying,                   \* running TryRelay and TryRelay2 calls
    cClient, cRelay, cCaP,      \* messages in flight, by command
    clientMap, unsent,          \* the client: its map, payments not injected
    \* ---- history: how often a payment was debited and credited, and which
    \*      payments the client was told to be on chain
    debited, credited, committed

migration == <<Account2Shard, Outing_Acc_Before_Announce, TXmig1s, TXmig2s>>
history   == <<debited, credited, committed>>
vars == <<migration, TXanns, block, Queue, Outing_Before_Announce_TX_Pools, relaying,
          cClient, cRelay, cCaP, clientMap, unsent, history>>

\* A Transaction2 is [from, pays, IsRelay]: one or more payments, and a receipt
\* once its payer is debited.
NoBlock == [mig1 |-> {}, mig2 |-> {}, anns |-> {}, txs |-> <<>>]
Addrs(migs) == {m.addr : m \in migs}
Own(s) == {a \in Accounts : Account2Shard[s][a] = s}

\* The transactions of a list that are in the set `which', in their order.
Only(txs, which) ==
    FlattenSeq([k \in DOMAIN txs |-> IF txs[k] \in which THEN <<txs[k]>> ELSE <<>>])

Init ==
    /\ Account2Shard = [s \in Shards |-> Genesis]
    /\ Outing_Acc_Before_Announce = [s \in Shards |-> {}]
    /\ TXmig1s = Moves /\ TXmig2s = {} /\ TXanns = {}
    /\ block = [s \in Shards |-> NoBlock]
    /\ Queue = [s \in Shards |-> <<>>]
    /\ Outing_Before_Announce_TX_Pools = [s \in Shards |-> [a \in Accounts |-> <<>>]]
    /\ relaying = EmptyBag /\ cClient = {} /\ cRelay = EmptyBag /\ cCaP = {}
    /\ clientMap = Genesis /\ unsent = Payments
    /\ debited = [p \in Payments |-> 0]
    /\ credited = [p \in Payments |-> 0]
    /\ committed = {}

-----------------------------------------------------------------------------
(* The client *)

\* InjectTXS: a payment goes to the shard where the client believes its payer.
InjectTX(p) ==
    /\ p \in unsent
    /\ unsent' = unsent \ {p}
    /\ cClient' = cClient \cup
         {[dst |-> clientMap[Payer[p]],
           tx  |-> [from |-> Payer[p], pays |-> <<p>>, IsRelay |-> FALSE]]}
    /\ UNCHANGED <<migration, TXanns, block, Queue, Outing_Before_Announce_TX_Pools,
                   relaying, cRelay, cCaP, clientMap, history>>

\* cAnnounce at the client.
HandleAnnounce(ann) ==
    /\ ann.dst = Client
    /\ TXanns' = TXanns \ {ann}
    /\ clientMap' = [clientMap EXCEPT ![ann.addr] = ann.to]
    /\ UNCHANGED <<migration, block, Queue, Outing_Before_Announce_TX_Pools, relaying,
                   cClient, cRelay, cCaP, unsent, history>>

-----------------------------------------------------------------------------
(* Transactions that reach a leader *)

\* handleTxFromClient and TrySendTX: queue it, or send it on to where this
\* leader's map has the payer.
handleTxFromClient(m) ==
    LET home == Account2Shard[m.dst][m.tx.from]
    IN  /\ \/ /\ home = m.dst
              /\ Queue' = [Queue EXCEPT ![home] = Append(@, m.tx)]
              /\ cClient' = cClient \ {m}
           \/ /\ home # m.dst
              /\ cClient' = (cClient \ {m}) \cup {[m EXCEPT !.dst = home]}
              /\ UNCHANGED Queue
        /\ UNCHANGED <<migration, TXanns, block, Outing_Before_Announce_TX_Pools, relaying,
                       cRelay, cCaP, clientMap, unsent, history>>

\* Whether the receipts of tx are queued here: only the first recipient counts.
\* (mutant: every receipt is queued where it arrives)
QueuedAnywhere(s, tx) == TRUE
QueuedHere(s, tx) == Account2Shard[s][Payee[tx.pays[1]]] = s

\* A leader about to look up where the receipts `txs' go.
Relaying(s, txs) == IF txs = <<>> THEN EmptyBag ELSE SetToBag({[shard |-> s, txs |-> txs]})

\* Up to TryRelay2, which runs after Relaypoollock is released.
handleRelay(m) ==
    LET here == {tx \in ToSet(m.txs) : QueuedHere(m.dst, tx)}
    IN  /\ cRelay' = cRelay (-) SetToBag({m})
        /\ Queue' = [Queue EXCEPT ![m.dst] = @ \o Only(m.txs, here)]
        /\ relaying' = relaying (+) Relaying(m.dst, Only(m.txs, ToSet(m.txs) \ here))
        /\ UNCHANGED <<migration, TXanns, block, Outing_Before_Announce_TX_Pools, cClient,
                       cCaP, clientMap, unsent, history>>

\* The copies of `txs' for shard d: one for every recipient there.
Copies(s, d, txs) ==
    FlattenSeq([k \in DOMAIN txs |->
        [i \in 1 .. Cardinality({j \in DOMAIN txs[k].pays :
                                   Account2Shard[s][Payee[txs[k].pays[j]]] = d}) |-> txs[k]]])

\* TryRelay (a goroutine) and TryRelay2: one message to every other shard that
\* has a recipient; what is for the shard itself is not sent.  The code looks
\* each recipient up by itself; here all are looked up in one step.
TryRelay(job) ==
    LET s == job.shard
        targets == {d \in Shards \ {s} : Copies(s, d, job.txs) # <<>>}
    IN  /\ relaying' = relaying (-) SetToBag({job})
        /\ cRelay' = cRelay (+)
             SetToBag({[dst |-> d, txs |-> Copies(s, d, job.txs)] : d \in targets})
        /\ UNCHANGED <<migration, TXanns, block, Queue, Outing_Before_Announce_TX_Pools,
                       cClient, cCaP, clientMap, unsent, history>>

\* The transactions that follow an account enter the queue as they are.
handleChangesAndPendings(m) ==
    /\ cCaP' = cCaP \ {m}
    /\ Queue' = [Queue EXCEPT ![m.dst] = Append(@, m.tx)]
    /\ UNCHANGED <<migration, TXanns, block, Outing_Before_Announce_TX_Pools, relaying,
                   cClient, cRelay, clientMap, unsent, history>>

-----------------------------------------------------------------------------
(* Blocks *)

\* FetchTxs2Pack: how often a transaction enters the pool of its half-locked
\* payer.  The code's `continue' only leaves the loop over the recipients, so
\* that the transaction is packed all the same.
LockedTimes(s, tx) ==
    IF tx.from \notin Outing_Acc_Before_Announce[s] THEN 0
    ELSE Cardinality({i \in DOMAIN tx.pays :
            IF tx.IsRelay THEN Payee[tx.pays[i]] \in Own(s) ELSE tx.from \in Own(s)})

LockedOf(s, a, txs) ==
    FlattenSeq([k \in DOMAIN txs |->
        [i \in 1 .. (IF txs[k].from = a THEN LockedTimes(s, txs[k]) ELSE 0) |-> txs[k]]])

\* GenerateBlock: migration transactions that have reached the shard, then the
\* oldest transactions of the queue.  (An empty block changes nothing here.)
GenerateBlock(s) ==
    \E mig1 \in SUBSET {m \in TXmig1s : m.from = s},
       mig2 \in SUBSET {m \in TXmig2s : m.to = s},
       anns \in SUBSET {ann \in TXanns : ann.dst = s} :
        LET left == MaxBlockSize - Cardinality(mig1) - Cardinality(mig2) - Cardinality(anns)
            n    == IF Len(Queue[s]) < left THEN Len(Queue[s]) ELSE left
            b    == [mig1 |-> mig1, mig2 |-> mig2, anns |-> anns,
                     txs |-> SubSeq(Queue[s], 1, n)]
        IN  /\ block[s] = NoBlock /\ left \in Nat /\ b # NoBlock
            /\ block' = [block EXCEPT ![s] = b]
            /\ TXmig1s' = TXmig1s \ mig1 /\ TXmig2s' = TXmig2s \ mig2
            /\ TXanns' = TXanns \ anns
            /\ Queue' = [Queue EXCEPT ![s] = SubSeq(@, n + 1, Len(@))]
            /\ Outing_Before_Announce_TX_Pools' =
                 [Outing_Before_Announce_TX_Pools EXCEPT ![s] =
                    [a \in Accounts |-> @[a] \o LockedOf(s, a, b.txs)]]
            /\ UNCHANGED <<Account2Shard, Outing_Acc_Before_Announce, relaying, cClient,
                           cRelay, cCaP, clientMap, unsent, history>>

\* AddBlock: the map once the accounts of the TXmig2s are the shard's own, by
\* which the block's transactions are executed and sorted.
MapIn(s) == [a \in Accounts |-> IF a \in Addrs(block[s].mig2) THEN s ELSE Account2Shard[s][a]]

\* handleAnns: the accounts given up, and the map after the announcements.
Deleted(s) == {a \in Addrs(block[s].anns) : MapIn(s)[a] = s}
MapOut(s) ==
    [a \in Accounts |-> IF a \in Addrs(block[s].anns)
                        THEN (CHOOSE ann \in block[s].anns : ann.addr = a).to
                        ELSE MapIn(s)[a]]

\* How often the block debits and credits payment p (getUpdatedTreeOfState).
Occurrences(p, txs) ==
    UNION {{<<k, i>> : i \in {j \in DOMAIN txs[k].pays : txs[k].pays[j] = p}} : k \in DOMAIN txs}
Debits(s, p) ==
    Cardinality({ki \in Occurrences(p, block[s].txs) :
                    ~block[s].txs[ki[1]].IsRelay})
\* (mutant: credited wherever it is executed)
CreditsAnywhere(s, p) == Cardinality(Occurrences(p, block[s].txs))
Credits(s, p) ==
    IF MapIn(s)[Payee[p]] = s THEN Cardinality(Occurrences(p, block[s].txs)) ELSE 0

\* commit1 looks at the recipients up to the first one of its own shard.
Mine(s, tx) == {i \in DOMAIN tx.pays : MapIn(s)[Payee[tx.pays[i]]] = s}
Visited(s, tx) == {i \in DOMAIN tx.pays : \A j \in Mine(s, tx) : i <= j}

\* The transactions the client is told to be on chain.
\* (mutant: all of the block)
ToldAll(s, tx) == TRUE
Told(s, tx) == Mine(s, tx) # {}

\* The transactions to be relayed: a receipt only for a second foreign recipient.
Relayed(s, tx) ==
    \E i \in Visited(s, tx) \ Mine(s, tx) : tx.IsRelay => i > 1

\* handleAnns: the account that a queued transaction follows, if any: a receipt
\* its first payee that leaves, a payment its payer.
FollowsReceipts(s, tx) ==
    {Payee[tx.pays[i]] : i \in {j \in DOMAIN tx.pays : tx.IsRelay /\ Payee[tx.pays[j]] \in Deleted(s)
        /\ \A k \in 1 .. j - 1 : Payee[tx.pays[k]] \notin Deleted(s)}}
FollowsPayers(s, tx) == {tx.from} \cap IF tx.IsRelay THEN {} ELSE Deleted(s)
Follows(s, tx) == IF tx.IsRelay THEN FollowsReceipts(s, tx) ELSE FollowsPayers(s, tx)

\* TrySendChangesAndPendings: all that waits for an account becomes one
\* transaction, with the sender and the kind of the first.
Merged(txs) ==
    [txs[1] EXCEPT !.pays = FlattenSeq([k \in DOMAIN txs |-> txs[k].pays])]

Pendings(s, a) ==
    Outing_Before_Announce_TX_Pools[s][a]
        \o Only(Queue[s], {tx \in ToSet(Queue[s]) : a \in Follows(s, tx)})

\* The lock pools that are empty after the block: those of the accounts it half
\* locks, and those whose transactions go with the account.
Emptied(s) == Addrs(block[s].mig1) \cup Deleted(s)

\* commit1 with AddBlock, handleAnns and mpAndSend; TryRelay is left running.
commit1(s) ==
    LET blk == block[s]
        relaytxs == Only(blk.txs, {tx \in ToSet(blk.txs) : Relayed(s, tx)})
    IN  /\ blk # NoBlock
        /\ block' = [block EXCEPT ![s] = NoBlock]
        /\ debited' = [p \in Payments |-> debited[p] + Debits(s, p)]
        /\ credited' = [p \in Payments |-> credited[p] + Credits(s, p)]
        /\ committed' = committed \cup
             UNION {ToSet(tx.pays) : tx \in {u \in ToSet(blk.txs) : Told(s, u)}}
        /\ Account2Shard' = [Account2Shard EXCEPT ![s] = MapOut(s)]
        /\ Outing_Acc_Before_Announce' =
             [Outing_Acc_Before_Announce EXCEPT ![s] = (@ \cup Addrs(blk.mig1)) \ Deleted(s)]
        /\ Queue' = [Queue EXCEPT ![s] = Only(@, {tx \in ToSet(@) : Follows(s, tx) = {}})]
        /\ Outing_Before_Announce_TX_Pools' =
             [Outing_Before_Announce_TX_Pools EXCEPT ![s] =
                [a \in Accounts |-> IF a \in Emptied(s) THEN <<>> ELSE @[a]]]
        /\ cCaP' = cCaP \cup
             {[dst |-> MapOut(s)[a], tx |-> Merged(Pendings(s, a))] :
                a \in {d \in Deleted(s) : Pendings(s, d) # <<>>}}
        /\ relaying' = relaying (+)
             Relaying(s, [k \in DOMAIN relaytxs |-> [relaytxs[k] EXCEPT !.IsRelay = TRUE]])
        /\ TXmig2s' = TXmig2s \cup blk.mig1
        /\ TXanns' = TXanns \cup
             {[dst |-> d, addr |-> m.addr, to |-> s] : d \in (Shards \ {s}) \cup {Client}, m \in blk.mig2}
        /\ UNCHANGED <<TXmig1s, cClient, cRelay, clientMap, unsent>>

-----------------------------------------------------------------------------
Next ==
    \/ \E p \in Payments : InjectTX(p)
    \/ \E ann \in TXanns : HandleAnnounce(ann)
    \/ \E m \in cClient : handleTxFromClient(m)
    \/ \E m \in BagToSet(cRelay) : handleRelay(m)
    \/ \E job \in BagToSet(relaying) : TryRelay(job)
    \/ \E m \in cCaP : handleChangesAndPendings(m)
    \/ \E s \in Shards : GenerateBlock(s)
    \/ \E s \in Shards : commit1(s)

Spec == Init /\ [][Next]_vars

\* Leaders keep making blocks, handlers and goroutines keep running, and what
\* has been sent arrives.  The client injects all its payments.
Fairness ==
    /\ WF_vars(\E p \in Payments : InjectTX(p))
    /\ WF_vars(\E m \in cClient : handleTxFromClient(m))
    /\ WF_vars(\E m \in BagToSet(cRelay) : handleRelay(m))
    /\ WF_vars(\E job \in BagToSet(relaying) : TryRelay(job))
    /\ WF_vars(\E m \in cCaP : handleChangesAndPendings(m))
    /\ \A s \in Shards : WF_vars(GenerateBlock(s)) /\ WF_vars(commit1(s))

FairSpec == Spec /\ Fairness

-----------------------------------------------------------------------------
(* Properties *)

IsTx(tx) ==
    /\ tx.from \in Accounts /\ tx.IsRelay \in BOOLEAN
    /\ tx.pays # <<>> /\ ToSet(tx.pays) \subseteq Payments
AreTxs(txs) == \A tx \in ToSet(txs) : IsTx(tx)

\* The type of the maps, pools and messages.  Nobody relays nothing.
TypeOK ==
    /\ Account2Shard \in [Shards -> [Accounts -> Shards]]
    /\ Outing_Acc_Before_Announce \in [Shards -> SUBSET Accounts]
    /\ TXmig1s \subseteq Moves /\ TXmig2s \subseteq Moves
    /\ TXanns \subseteq [dst : Shards \cup {Client}, addr : Accounts, to : Shards]
    /\ \A s \in Shards :
         /\ AreTxs(Queue[s]) /\ AreTxs(block[s].txs)
         /\ \A a \in Accounts : AreTxs(Outing_Before_Announce_TX_Pools[s][a])
    /\ \A job \in BagToSet(relaying) : job.shard \in Shards /\ job.txs # <<>> /\ AreTxs(job.txs)
    /\ \A m \in BagToSet(cRelay) : m.dst \in Shards /\ m.txs # <<>> /\ AreTxs(m.txs)
    /\ \A m \in cClient \cup cCaP : m.dst \in Shards /\ IsTx(m.tx)
    /\ clientMap \in [Accounts -> Shards]
    /\ unsent \subseteq Payments /\ committed \subseteq Payments
    /\ debited \in [Payments -> Nat] /\ credited \in [Payments -> Nat]

\* A payment only waits where its payer is at home: when the payer leaves, no
\* payment that raced with the announcement stays behind in the queue, in the
\* lock pool or in the block under way, where FetchTxs2Pack would pack it
\* although its comment says that foreign transactions are ignored
\* (handleTxFromClient, handleAnns, handleChangesAndPendings).
PayersWaitAtHome ==
    \A s \in Shards :
        \A tx \in ToSet(Queue[s]) \cup ToSet(block[s].txs)
                    \cup UNION {ToSet(Outing_Before_Announce_TX_Pools[s][a]) : a \in Accounts} :
            tx.IsRelay \/ tx.from \in Own(s)

\* The payments whose payer stays where it is, and those of them whose payee does
\* not come to the payer's shard either.  The others are not safe in this code: a
\* payment of a half-locked account is packed and follows its account as well,
\* merging puts payments and receipts into one transaction, and a receipt whose
\* payee has come home before TryRelay looks it up is sent to nobody.
PayerStays == {p \in Payments : Payer[p] \notin Addrs(Moves)}
StaysApart == {p \in PayerStays : \A m \in Moves : m.addr = Payee[p] => m.to # Genesis[Payer[p]]}

\* Workloads in which merging keeps the payments of a payer that stays whole: an
\* account that moves does not both pay and receive, a payer that moves pays one
\* payee, and that payee does not come to the shard the payer leaves.
MoversApart ==
    /\ \A p, q \in Payments : Payer[p] \in Addrs(Moves) => Payee[q] # Payer[p]
    /\ \A p, q \in Payments : Payer[p] \in Addrs(Moves) /\ Payer[p] = Payer[q] => Payee[p] = Payee[q]
    /\ \A p \in Payments : \A m, n \in Moves :
         m.addr = Payer[p] /\ n.addr = Payee[p] => n.to # m.from

\* No payment of a payer that stays is debited or credited twice and nothing is
\* credited that was not debited, whichever shard executes the receipt while the
\* payee and the payers of other payments move
\* (getUpdatedTreeOfState, commit1, handleRelay, handleAnns).
CreditedOnce == \A p \in PayerStays : credited[p] <= debited[p] /\ debited[p] <= 1

\* A receipt of p that can still be credited: on its way, or queued or packed
\* where its payee is at home.
ReceiptUnderWay(p) ==
    LET receipt(tx) == tx.IsRelay /\ p \in ToSet(tx.pays)
    IN  \/ \E job \in BagToSet(relaying) \cup BagToSet(cRelay) : \E tx \in ToSet(job.txs) : receipt(tx)
        \/ \E m \in cCaP : receipt(m.tx)
        \/ \E s \in Shards : /\ Payee[p] \in Own(s)
                             /\ \E tx \in ToSet(Queue[s]) \cup ToSet(block[s].txs) : receipt(tx)

\* What was debited from a payer that stays apart is credited or can still be: no race between a receipt and
\* the moves of its payee strands it at a shard that has given the payee up,
\* where a block would drop it without a trace (commit1, handleAnns, TryRelay).
NothingLost ==
    \A p \in StaysApart : debited[p] > 0 /\ credited[p] = 0 => ReceiptUnderWay(p)

\* A payment of a payer that stays that the client is told to be on chain has been credited
\* (commit_txs in commit1).
CommittedMeansPaid == \A p \in committed \cap PayerStays : credited[p] > 0

\* Every payment of a payer that stays apart is credited in the end, however often
\* its receipt has to run after the payee.
EveryPaymentArrives == \A p \in StaysApart : <>(credited[p] > 0)
=============================================================================
