# Caravan / block-preempt in TLA+

The repository is a sharded-blockchain emulator that migrates accounts between
running shards. This directory holds TLA+ models of its parts, the TLC
configurations that check them on small instances and TLAPS proofs of the main
safety properties for every instance.

- [The system](#the-system)
- [The core model: live migration](#the-core-model-live-migration)
- [Properties of live migration](#properties-of-live-migration)
- [The other models](#the-other-models)
- [Runs](#runs)
- [Proofs](#proofs)
- [Findings](#findings)
- [Not modelled, and the plan](#not-modelled-and-the-plan)

## The system

A process is either a node of a shard (`shard/shard.go`, `pbft/`) or the client
(`pbft/client.go`). In the configuration that the repository runs
(`params/config.go`), the leader N0 of each shard makes the blocks alone:
`Propose` -> `propose1` -> `GenerateBlock` -> `commit1`. The three-phase protocol
is implemented but its entry point, `propose`, is commented out. Every send is a
goroutine (`go utils.TcpDial`), so messages overtake each other.

| component | state | operations | correct when |
|---|---|---|---|
| live migration (`pbft.go`, `pbftsingle.go`, `handleanns.go`) | half locks, balances handed over, pools of TXmig1/TXmig2/TXann/TXns, goroutines | `commit1`, `TryTXmig1`, `TryAnnounce`, `handleAnns`, `mpAndSend`, `handleMig2`, `handleAnnounce`, `handleChangesAndPendings`, `handleNewMap`, `handleMigrateWanted` | each account has an owner, no money is lost or doubled, every move completes |
| state trie and account maps (`chain/`, `account/`) | `Balance`, `Migrate`, `Location`; `Account2Shard`, `AccountInOwnShard` | `GenerateBlock`, `AddBlock`, `getUpdatedTreeOfState` | maps and trie agree; only owners write balances |
| migration pools (`core/*pool.go`) | queues | `Add...`, `Fetch...2Pack` with a shared quota | nothing is packed twice or starved |
| client (`pbft/client.go`) | its account map, `OnlyOnce`, counters of unfinished work, `max_commit_block`, `zero_count` | handlers of replies, announcements, pendings, counts | each move is counted once; a round ends; the next starts only when all is settled |
| partition algorithms (`algorithm/`) | a graph of accounts | CLPA, PageRank, LBF, METIS | a map of accounts to shards |
| transaction pool, relay, locking (`core/txpool.go`, `hanleTxFromClient.go`) | queue, lock pools, relay pools | `FetchTxs2Pack`, `LockTX`, `TryRelay`, `handleRelay`, `TrySendChangesAndPendings` | each transaction is executed once on each side |
| bank (`chain/`, `txpool.go`, `account_state.go`) | credit lines, aggregated payments | mortgage, settlement, `BankAgg` | money created for a move is paid back |
| three-phase PBFT (`pbft.go`) | message pools, votes, `sequenceID` | `handlePrePrepare`, `handlePrepare`, `handleCommit`, catch-up | nodes of a shard commit the same blocks |
| stop-the-world epoch change (`PBFTforMigrate.go`) | `epochLock`, sure counts | `mpropose`, `SendOut`, `SendSure`, `handleSure` | all shards switch maps together |
| storage (`storage/`, `chain/`) | blocks, newest hash, trie database | `AddBlock`, `GetNewestBlockHash`, `NewBlockChain` | a restart finds the last committed state |
| networking (`utils.go`, `tcp.go`) | connection table | `TcpDial`, `TcpListen` | a message reaches its handler |
| own trie (`trie/`) | nodes with an `Index` of children | `Get`, `Put`, `Delete` | it behaves like a map and its shape depends on the content alone |

**How they interact.** The client counts blocks by their replies (`cReply`) and,
when enough have come and the last round is over, asks all leaders for their
pending transactions (`cMigrateWanted`, `cPendingTXs`). The last answer makes it
run a partition algorithm and send the new map (`cNewMap`). Each leader puts a
TXmig1 into its pool for every own account that must leave. For an account *a*
that moves from shard *s* to *d*:

1. TXmig1 in a block of *s*: the trie marks *a* (`Migrate = d`), *a* is half
   locked, its balance after the block is kept in `BalanceBeforeOut` and sent to
   *d* in a TXmig2 (`cTXmig1`);
2. TXmig2 in a block of *d*: *d* owns *a*, with that balance, and announces it to
   every shard and to the client (`cAnnounce`);
3. TXann in a block of *s*: *s* gives *a* up; the goroutine `mpAndSend` computes
   how its copy's balance has changed since step 1 and sends the change and the
   pending transactions to *d* (`cCaP`), or reports to the client that nothing
   has changed (`cUnchangedState`); other shards only change their maps;
4. TXns in a block of *d*: *d* adds the change; the reply of that block, and
   `cNumOfMigratedTXsAddrs`, let the client count the move.

**What is hard.** Between steps 2 and 3 two shards execute transactions on two
copies of *a*. `mpAndSend` runs concurrently with later blocks. Announcements
carry nothing that tells rounds apart. The client decides that a round is over
from two counters fed by three kinds of messages, and it learns new locations
from a fourth. `PROJECT.json` lists these hazards with their source lines and
the properties that cover them.

## The core model: live migration

| module | what it is |
|---|---|
| `Migration` | the specification: leaders, messages and client |
| `MigrationProps` | the properties |
| `MigrationInv` | the inductive invariants: `MapsInv` (any number of rounds), `IInv` and `CountersExact` (at most one) |
| `MigrationProofs` | type correctness, `MapsInv`, `IInv`, the safety properties, the client's counters, the invariants of `Ownership` and the refinement, proved |
| `MCMigration` | constants for TLC |
| `Ownership` | the abstract specification: what migration promises about owners, maps and marks |
| `MigrationRefinement` | the refinement mapping (`INSTANCE Ownership WITH ...`; the three variables keep their meaning) |

Variables have the names of the code's fields; those of `account` and of the
pools are functions of the shard, since each leader process has its own copy.
`PROJECT.json` maps each definition to its lines. The main choices:

- **A block is one step** (`ProduceBlock`). `Propose` holds `sequenceLock` from
  `GenerateBlock` to the end of `commit1`, and `handleAnnounce` and
  `handleMigrateWanted` take the same lock. The handlers that do not take it
  commute with the block: `handleMig2` and `handleChangesAndPendings` only add to
  a pool (an addition during a block is one after it), and `mpAndSend` works on
  the trie of its own block and on entries of `BalanceBeforeOut` that no TXmig1
  of the running block writes. `handleNewMap` reads `AccountInOwnShard`, and
  could find an account that the running block is about to give up; this needs
  an announcement of an earlier round that is still pending at the owner when
  the next map arrives, which `RoundOverMeansSettled` excludes for two shards. It also
  adds its TXmig1s one by one (`pbft.go:1829`), so that a block may take the first before
  the second is there; in the model all are there at once, and the moves start apart only
  when the quota keeps them apart.
- **The order inside a block** is the code's: `getUpdatedTreeOfState` applies
  TXmig2s, transactions, TXmig1s, Anns, NSs; `AddBlock` makes the TXmig2 accounts
  the shard's own before `handleAnns` looks at ownership; `handleAnns` runs before
  `TryTXmig1` and `TryAnnounce`. `NewBalance`, `NewMigrate`, `NewLocation`,
  `NewOwn` and `NewShard` give the result per account.
- **Transactions** are abstracted to what a block does to an account's balance
  (`Txs[a]`). A negative amount is a payment: it needs the account in
  `AccountInOwnShard`, because `handleTxFromClient` routes by the account map and
  `handleAnns` takes the leaving account's transactions out of the queue in the
  same critical section that removes the account from the map. A positive amount
  is a receipt: a relay may reach any shard, and only counts where the trie
  locates the account. A half-locked payer may still pay in the model, as
  `FetchTxs2Pack` really packs such transactions (see the hazards).
- **Pools are sets** and a block takes any transactions up to its quota; the code
  takes the oldest. The model has more behaviours, so what it shows holds for the
  queue. When one block holds several announcements of an account, which one is
  last is open (`LastAnns`).
- **Messages** are sets, one per command, delivered once and in any order, as
  goroutines that dial do. Batches stay batches where they are handled under one
  lock (`cAnnounce`), and are handled item by item where they are not (`cTXmig1`
  is sent item by item; a `cCaP` message loses one TXns at a time, and the count
  to the client comes last).
- **The client's reply handler**: `max_commit_block` is abstracted to the choice
  `due`; a reply without TXnss has no other effect and is not a message, the
  step may happen at any time. The two critical sections of the handler are
  covered by a `HandleReply(nss, FALSE)` followed by a `HandleReply({}, TRUE)`.
- **The partition** may be any map in which no listed account stays where the
  client's map has it: the filter at the end of every algorithm.
- **Panics**: `crashed` records processes that reach a `log.Panic` or a nil
  pointer; a crashed process takes no further step.
- `req` stands for `Request_Time`, which keeps TXmig1s of different rounds apart
  as objects; the handlers never read it.
- `ledger` and `executed` are history variables: what an account would hold had it
  never moved, and the number of updates (bounded by `MaxTxs`).

**The abstract specification.** `Ownership` has only `AccountInOwnShard`,
`Account2Shard` and `Migrate`. A block of a shard does one of four things to an
account: `Offer` (TXmig1 at the only owner), `Take` (TXmig2 at the shard it is
marked for), `GiveUp` (TXann at the marked owner, once the other owns it), `Learn`
(TXann elsewhere, naming an owner), or nothing. It does not bound the number of
moves. `Migration` implements it while announcements are not overtaken by a second
round through a third shard; finding 1 is exactly a step that is none of the four.

## Properties of live migration

Safety: `AlwaysOwned` (no account without owner), `Handover` (two owners only
while the account moves from one to the other, exactly the source half locked and
marked), `MoneyConserved` (an account at rest holds what it would hold had it
never moved), `TrieMatchesMemory` (maps and trie agree), `NoLeaderPanic` (the
goroutine finds the balance handed over), `CounterNeverNegative` and
`RoundOverMeansSettled` (the client's counters; both follow, for one round, from
`CountersExact`: the counters are the numbers of unfinished accounts). Steps: `OnlyOwnersWrite`,
`NoGap` (an account is given up only to a shard that owns it already; proved, and a
case of the refinement that the runs check). Liveness:
`RoundsEnd` (with `RoundOverMeansSettled`: every move completes) and `MapsConverge`.

The abstract level: `OneOrTwoOwners`, and `RoutesEnd`: from any shard, following the
shards' maps ends at an owner, so that forwarding (`TrySendTX`, `TryRelay`) cannot
circulate. It is stated without recursion: no set of shards that do not own the
account points only to itself. Both are proved for the abstract specification; the
runs check `ImplementsOwnership`, the refinement, and `ForwardingReachesOwner`, the
route property on `Migration`'s own maps.

`TypeOK` leaves the client's two counters out: that they stay in their range is
`CounterNeverNegative`. The other modules have a `TypeOK` too, which describes their state;
their runs are about the properties below.

## The other models

Each of these modules models one part by itself; `Transactions` also replays the
ownership steps of `Migration` (one move per account), so that the maps, the trie
and the half locks change as they do there.

### Transactions: pool, relay, half lock, hand-over

A payment goes from the client to the queue of its payer's shard (`cClient`), is
packed and debited, travels as a receipt to the payee's shard (`cRelay`) and is
credited there. The account moves meanwhile: `FetchTxs2Pack` puts the payments of a
half-locked account into its lock pool, `handleAnns` takes what waits for an account
out of queue and pool, `TrySendChangesAndPendings` merges it into one transaction with
many recipients, which enters the destination's queue (`cCaP`). A block is two steps:
`GenerateBlock`, and `commit1` with `AddBlock`, `handleAnns` and `mpAndSend`; `TryRelay`
is a goroutine and looks recipients up later (all of a block in one step; the code takes the
map's lock for each, `pbft.go:1023`). Amounts are not modelled: a payment is
debited and credited a number of times, which the history variables count.

Abstractions: every account moves at most once, so one map stands for
`Account2Shard`, `AccountInOwnShard` and the trie's `Location` (proved equal in
`MigrationProofs`); migration transactions in flight and in pools are not told
apart; blocks are encoded and decoded, so a transaction in a block is never the
object in the pool. `Not_Lock_immediately` is on, as in the default configuration, and
`LockTX` is not called.

`PayersWaitAtHome` (the guard that `Migration`'s abstraction of payments relies on) is
about all payments. `CreditedOnce` and `CommittedMeansPaid` (what the client is told) are
about the payments whose payer stays where it is (`PayerStays`). `NothingLost` (what is
debited is credited or its receipt can still be) and `EveryPaymentArrives` exclude in
addition a payee that comes to its payer's shard (`StaysApart`). The instance has
payments inside and outside those sets, in the same queues and pools, so that the safe
payments are checked next to the unsafe ones, and is one of the workloads of
`MoversApart` for which the three are proved (see [Proofs](#proofs)); what happens to the others is in
observations 3 to 5.

### Shutdown: how a run ends

Leaders report blocks (`cReply`); the client counts empty ones in `zero_count`, wakes
`RunClient` over `all_finish` and `RunClient` sends `cStop` to every node. The read of a
closed connection and a failed write are `log.Fatal` in every process, so the end of
one process spreads along its connections; a failed first dial leaves `connMaplock`
locked. Leaders make blocks independently: `Propose` lets a leader make block *n* only *n*
intervals after the common start, but nothing makes it keep up, so that one leader may be
any number of blocks behind another. `SomeShardQuiet`: when the client stops the run, at
least one shard has sent five empty blocks in a row. That every shard has, as the client
prints, is not so (observation 9). `EveryProcessEnds` says that all processes end.

### ChainStorage: blocks on disk, crash and restart

The block, its header and the newest hash are three transactions of the block
database; the state trie is committed to another database afterwards, and the client
is told last. A crash may fall between any two writes, at start-up too.
`NewestChainStored`: the chain from the newest hash down is on disk.
`RepliedIsDurable`: a block that the client was told of is never lost.
`PanicsOnlyWhenTorn`: the one state from which no start succeeds is the crash between
newest hash and state commit. `StartUpEnds`: once crashes stop the node runs, or has
panicked for that reason.

### Connection: TcpDial and the readers

Concurrent `TcpDial` calls share `connMap` under `connMaplock`; a reader cuts the stream
by a four-byte prefix. TCP is external: bytes keep their order and become readable in
portions that end anywhere. The history variable `short` records the readers for which
one `Read` returned a part of a prefix; `MessagesIntact` says that with every other
reader messages stay whole and in order. A peer may start to listen late: a dial that
fails returns without unlocking (`Leaked`). `SilentAfterFailedDial` says how far the
damage goes (no other call gets through, to any address), and `AllDelivered` that it goes
no further: what has passed the lock is delivered, and without a failed dial everything.

### PBFT

The three phases for blocks with catch-up, as the handlers are written: messages in
any order, a vote that comes before its PrePrepare dropped, the node's own vote never
counted. So with at most `2f + 2` nodes every other node's Commit is needed and nobody
can fall behind; only from `2f + 3` nodes on can a node lag and the catch-up be used,
and the run takes the least such shard, three nodes with `f = 0`. `PrimaryHasRequested`:
the blocks a lagging node asks for are in the primary's pool. A handler that waits for
`requestLock` holds `p.lock`; `RequestOnTheWay` says that the answer which frees it is
under way, unless the handler serves the connection from N0, which must itself read the answer
(excluded in the module, a deadlock in the code). The vote maps are written without a
lock; Go's abort on concurrent map writes is not modelled. A handler checks the height and
counts the votes before it takes `p.lock`; the model does that and what follows under the
lock in one step, which the two properties do not tell apart.

### EpochChange: migration with Stop_When_Migrating

`epochLock` stops a leader: a block takes and releases it, a new map takes it and the
last "sure" releases it. Accounts that leave are collected (`SendOut`), accounts that
come are counted down, possibly before the shard has seen the map itself (the count is
then negative). Each map reaches a leader in a goroutine of its own that waits for
`epochLock`, and the client sends maps without waiting for the leaders to handle the last
one. So several maps may wait together, overtake each other, and be taken in another order
by another leader; `taken` records the order of each.

`OnePlace`: an account is owned by one shard or in one place in transit.
`OnlyStoppedIsReleased`: the confirmation that opens `epochLock` finds it held by an epoch
change. `StopUntilAllDone`: a leader that has gone on from *n* maps knows all others done
with *n*, although confirmations carry no epoch and late ones of one map are counted for
the next. That these are the very same *n* maps holds for leaders that take the maps in the
same order, and only for them. `PendingFollows`: a pending transaction is in the
pool of the shard that owns the account it waits for, its payer or, for a second half,
its first recipient. Pools and the lists of pending transactions are sets: how often a
transaction is in a pool is not told apart, a block that takes one may leave further
copies of it. `EpochEnds`: under fairness every map that is sent is carried out by all, if
the leaders take the maps in the same order; if they do not, they can wait for each other
for ever (observation 7).

The client never lowers `num_of_unfinished_migration` in this mode, so that only an
empty map can be followed by another round; the run has sequences of up to two empty maps
and one that moves accounts. `sequenceLock` is kept as far as it orders things: the next
block and the next map wait for the end of `commit1` of the AccState, which holds it.

### CLPA

The default partition algorithm on every multigraph within the bounds: the totals
that each move updates stay exact (`TotalsExact`), and no move leaves a shard without
edges, which would make `MinEdges2Shard` zero (`NeverFrozenByMoves`). Scores are
compared as integers; of equal ones any may win, since rounding decides.

### PatriciaTrie

The repository's own trie next to the map it stands for. `GetsWhatWasPut`, and
`ShapeOfContent`: after any history the shape, read through the `Index` of the branches,
is the one built from the content alone, which a root hash needs.
Hashing, encoding and printing are left out. `TrieAssumption` says that all keys have
the same length, as addresses do: `Delete` on a branch with a value and one child would
drop a subtree and `Put` of a key that ends inside an extension would panic, and such
keys cannot reach either.

## Runs

Each run's module is the `MC` module of its component; `stop_run` uses `Shutdown` itself.
In the `mig_` runs the amounts are -1, 0 and 2, so that no two updates cancel by
accident.

| run | instance | checks |
|---|---|---|
| `mig_two_shards` | 2 shards, 1 account, 2 rounds, 2 updates | `TypeOK`, the safety and step properties and the refinement; the account goes away and comes back |
| `mig_three_shards` | 3 shards, 1 account, 1 round, 2 updates, fair | `IInv`, `ForwardingReachesOwner`, `MapsConverge`; a bystander shard sees the announcements |
| `mig_batch` | 2 shards, 2 accounts together, quota 1, 1 round, 2 updates, fair | `CountersExact`, `RoundsEnd`; the accounts and the four pools compete for the quota |
| `mig_stale_announce` | 3 shards, 1 account, 2 rounds, no updates | `AlwaysOwned`, violated (finding 1) |
| `tx_payments` | 3 shards, alice on s0 and carol on s1 pay bob, who moves s1 -> s2 while carol moves s1 -> s0; blocks of 2; fair | the five properties of `Transactions` |
| `stop_run` | 2 shards, 5 empty blocks, 1 block with work, 2 replies of a leader in flight, fair | `SomeShardQuiet`, `EveryProcessEnds` |
| `storage_crash` | 4 blocks, 2 crashes, fair | three safety properties, `StartUpEnds` |
| `conn_dial` | 3 calls, two to one peer and one to a peer that may listen late, fair | intact, silence, delivery |
| `pbft_catch_up` | 3 nodes, f = 0, 2 blocks, symmetry of the backups | requests can be answered and are |
| `epoch_change` | 2 shards with an account each, 3 maps, a pending payment and a pending second half that names its recipient twice, fair | one place, the barrier with late confirmations and overtaking maps, pending follows, epochs end |
| `clpa_partition` | 4 accounts, 3 shards, up to 5 edges, 3 iterations | totals, edges |
| `trie_addresses` | 7 keys of 4 nibbles, 2 values | all sequences of Put and Delete |

**Bounds.** Accounts only interact through batches, the quota and the client's
counters; one account already meets every
order of its own transactions. With two accounts and a quota of one a block never holds all
that waits: a TXmig1 of one account competes with a TXmig2, an announcement or a TXns of the
other, which is when a pool could be starved. Batches of several transactions do not arise
at that quota; for those `CountersExact` rests on its proof, which holds for every quota. Two updates allow one on each copy while the
account is shared. Three shards are the least with a bystander. Two rounds are the
least in which messages of an old round meet a new one. For one round the proofs
remove all bounds. `RoundsEnd` and `MapsConverge` are checked for one round only; with a
second one `RoundsEnd` fails (observation 1). Deadlock is checked in all `mig_` runs; leaders can always make an
empty block. Elsewhere `CHECK_DEADLOCK FALSE` stands where the modelled work is finite
or the code may really stop: all payments credited, all blocks made, all processes
ended, partition returned, a node that panics at every start, leaders that have taken maps
in different orders and wait for each other.

In `Transactions` two payments from different shards meet in one queue, one payer moves
and one stays, and the payee moves to a third shard, so that a receipt may have to run
after it; a block of two lets both be in one block or in two. In `Connection` two calls
to one peer share a connection and a third one tests the lock; in `ChainStorage` a second
crash falls into the recovery of the first. In `EpochChange` two maps are the least with a
stale confirmation and with two orders, the third lets a leader be stopped for one while two
are still to come; with two shards the accounts can move both ways at once. Three shards
with two maps are beyond TLC's reach with transactions, but the safety properties are proved
for any number. In `PBFT` two blocks are the least with a node that is behind. Three shards and four accounts let CLPA
move an account, change the least total and move another. The seven keys of the trie
differ in the first, an inner and the last nibble, so that every kind of split and
collapse occurs. `Shutdown` keeps the code's five empty blocks; `MaxReplies`
bounds the replies of a leader that are under way, never how far one leader is ahead of
another: a leader whose replies are handled goes on while the other stands still. One block
with work is enough to reset the count at any point, also after the stop.

**Fairness.** Weak fairness of each leader's block, of each kind of handler and of
`mpAndSend`. The `Propose` loop makes blocks for ever, TCP delivers what is sent
between live processes, and each handler is a goroutine that only waits for locks
that are released at the end of a handler. Fairness of a handler is for the kind
of message, and messages of a kind are finitely many, so each one is handled. No
fairness is assumed for `due` (the client need not start a round) nor for
non-empty transactions. The other fair runs assume the same of their handlers,
goroutines and leaders. `epoch_change` also needs strong fairness of the handler that
waits for `epochLock`, which a block takes again and again: Go's mutex hands over to a
waiter after a millisecond. `storage_crash` is fair to the node only, crashes are
bounded and never obliged. That peers are up is part of the `tx_` and `mig_` models;
what happens otherwise is in `Connection` and `Shutdown`.

## Proofs

Assumption of `Migration`: `ConstantsAssumption` (finite sets of shards and accounts, at least
one shard, integer balances, distinct marker values), evaluated by TLC in each `mig_`
run. The theorems hold for any such constants.

- `TypeCorrect`: `Spec => []TypeOK`.
- `MapsAgree`: `Spec => []TrieMatchesMemory`, for **any** number of rounds, stale
  announcements included. It needs `AnnouncedElsewhere`: an announcement always
  names its sender and never reaches it; otherwise a shard could be told that it
  owns an account that is not in its `AccountInOwnShard`.
- For `Rounds <= 1`: `Inductive` (`[]IInv`), and from it `OwnershipNeverLost`,
  `SharedOnlyInHandover`, `MoneyIsConserved`, `LeadersNeverPanic`,
  `OnlyOwnersChangeBalances`, `OwnershipMovesWithHandover`.

- `OwnersAreOneOrTwo`, `RoutesAlwaysEnd`: the abstract specification keeps one or
  two owners and its routes end, over any number of moves, from `OwnershipConstants`
  (genesis puts accounts on shards, the marker `NoShard` is none), which
  `MigrationProofs` derives from `ConstantsAssumption`. `RoutesEnd` is inductive
  as stated: a shard that stops owning an account, or hears of it, then points to an
  owner, which is in no set of non-owners.
- For `Rounds <= 1`: `Implementation`, `Migration` implements `Ownership` (only
  blocks change the three variables, and `IInv` puts each migration transaction of a
  block in the stage whose abstract step it takes), and through it
  `ForwardingEnds`.

**The inductive invariant.** None of the properties is inductive: whether a shard
may give an account up depends on where its TXmig2 has been, and whether money is
conserved depends on the values in transit. `IInv` says that each account is in
one stage of its move,

    AtHome -> Asked -> Sent -> Shared -> Leaving -> Settling -> Moved

and each stage says which single transaction drives the move and where it is (pool
or message, never both), who owns the account, which shard is marked, and how the
account's money is split: for `Shared`, `Balance[d] + (Balance[home] -
BalanceBeforeOut[home]) = ledger`; for `Leaving` the goroutine's snapshot replaces
`Balance[home]`; for `Settling` the TXns carries exactly what is missing.
`RoundInv` and `NewMapInv` say that all accounts are at home until the new map is
out and that each home shard sees it once. The proof has one lemma per action and
inside it one case per stage that the action can change; the lemmas `Keep...`
show that a step that does not touch an account's variables keeps its stage.

**The counters**: `CountersAreExact`, and from it
`ClientNeverPanics` and `RoundOverIsOver`. A counter that is not negative, or zero too
early, is not an inductive fact: it depends on everything still under way.
`CountersExact` therefore names the unfinished accounts. A move is *open* while its
account waits for its home shard's copy of the new map or is in a stage from `Asked` to
`Settling` (for the counter of transactions: to `Leaving`, since `mpAndSend` sends them);
then it is *reported*, by the batch of a block's reply or of `cUnchangedState` (for
transactions: by the list of a `cCaP` message, then by `cNumOfMigratedTXsAddrs`), until
the client handles that batch. `Tallied` says that no account is in two batches, or in a
batch and still open, so the counter is the cardinality of the union, and a batch counts
as many accounts as it has transactions. The lemmas about batches (`AddBatches`,
`TakeBatch`, `PassBatch`, `CountDown`) are facts about sets; the shards' part is `IInv`
with the lemmas that say which stage each step leads to.

**Why at most one round.** With two rounds and three shards the properties are
false (`mig_stale_announce`). Two rounds between two shards are only model-checked.

### The other proved modules

| module | proves, for every value of the constants | from |
|---|---|---|
| `TransactionsProofs` | `TypeCorrect`, `PayersAlwaysWaitAtHome`; for workloads of `MoversApart`: `AlwaysCreditedOnce`, `NothingEverLost`, `CommittedAlwaysPaid` | the assumption of `Transactions` |
| `EpochChangeProofs` | `AllStopUntilAllDone`, `UnlocksWhatItLocked`, `AccountsInOnePlace`, `PendingAlwaysFollows` | `EpochConstants`: finitely many shards and accounts, each account at home on one shard, each transaction with a first recipient |
| `CLPAProofs` | `TotalsStayExact`, `MovesNeverFreeze` | `CLPAConstants`: finitely many accounts, at least one shard, each account on one |
| `ChainStorageProofs` | `StorageTypes`, `NewestChainAlwaysStored`, `RepliedAlwaysDurable`, `PanicsAlwaysTorn` | the assumption of `ChainStorage` |
| `PBFTProofs` | `PBFTTypes`, `PrimaryAlwaysHasRequested`, `RequestAlwaysOnTheWay`, `PrimaryChainInOrder` | the assumption of `PBFT` |
| `ShutdownProofs` | `StopsWhenSomeShardQuiet` | `ShutdownAssumption`: finitely many shards, at least one; the limit is positive |
| `ConnectionProofs` | `MessagesAlwaysIntact`, `SilentOnceADialFailed` | `ConnectionConstants`: contents are bytes, a message is shorter than 4 GiB (its length fits the prefix), the marker `Nobody` is no goroutine |

Each module has its inductive invariant (`IInv`; `IndInv` and `PaymentInv` for
`Transactions`), which TLC checked on small instances before it was proved, one lemma per
action, and a lemma or theorem that it always holds, from which the others follow.

- **Payments.** Where a payer waits follows from where the moves have got to: an
  announcement is only under way when the account has arrived (`MovesGoOn`), and only
  receipts are relayed (`ReceiptsTravel`); with `PayersWaitAtHome` itself these are
  inductive (`IndInv`). What happens to the money needs to know each payment's place.
  `Tracked(p)`: *p* is in one place (with the client, in a message, a queue, a block under
  way, a running `TryRelay`), in it once, and debited or not according to the place; or in
  none, and then debited and credited once. Merging puts several payments into one
  transaction, so `Shapes` says what such a transaction may hold: payments of one payer
  that moves, or receipts of one payee that has arrived. That is what `MoversApart` is for,
  and without any of its three clauses TLC finds a payment of a payer that stays debited or
  credited twice:
  an account that moves does not both pay and receive (or merging makes such a payment's
  receipt part of a payment); a payer that moves pays one payee (or a merged receipt with
  several payees is relayed again as a whole, and follows another of them to where it was
  credited already); and that payee does not come to the shard the payer leaves (or the
  merged receipt, which names that payer as its sender, is put into its lock pool and merged
  with its payments). The clauses are a hypothesis of the three theorems, not an assumption
  of the model; they do not restrict payers that stay, the
  number of payments, shards or moves, or the block size, and the instance of `tx_payments`
  satisfies it (`InstanceMoversApart`, evaluated by TLC). What a queue, a merged
  transaction or a relay holds is a flattened sequence, whose members are found by the
  least number for which they are not what they should be.

- **Epoch change.** The confirmations carry no epoch that a leader reads, and leaders may
  take the maps in different orders, so the barrier
  is an argument about numbers. Shard *r* has told of `SentNo(r)` epoch changes: those it has
  committed, less the present one while accounts are coming or its SendSure is waiting.
  `Told` are the pairs of a shard and a number it has told of, `Heard(s)` those whose
  message to *s* is no longer under way. `Counting`: `|Heard(s)|` is `done[s]` times the
  number of shards, plus `sure_count[s]`, plus the shard's own confirmation if it is about
  to be counted. `Barrier`: `done[s] <= SentNo(r)` for all *s*, *r*. Together they give
  `AllSent`: no shard is more than one epoch change ahead of the slowest, so that the number of
  confirmations up to the *n*-th can only be complete when every shard has given its own
  for its *n*-th. Which maps these are does not enter: no map is taken twice (`Steps`), and
  `Applied` are the shards that have committed the last map, the only one that moves
  accounts, as whichever of their maps. That a shard confirms only once depends on the accounts: a spurious zero of
  `inacc_count` would make it commit and confirm again. So the invariant also follows each
  account (`Placed`: at home, in a SendOut, in one message, in an `inacc_pool`, taken in)
  and says that `inacc_count` is what is expected less what has come (`Intake`),
  negative while the shard has not committed the map. `PendingFollows`
  follows from `FollowInv`: a transaction that no block has taken is in the pool of its
  home shard, in the list that carries its account, in the `intx_pool` of the shard where
  that account has arrived and in the pool of the shard that owns it; which of these there
  are is what `Placed` says. `SendOut` collects a transaction with the account it waits for
  (`WaiterCollects`), and neither a block nor a map takes one away unseen.
- **Storage.** `HashesUnique` (one block to a hash, below it a lower one), `NewestWhole` and
  `RepliedWhole` (the chains under the newest hash and under the last block reported are
  whole), `Progress` (each step of `AddBlock` finds the writes before it done).
- **Catch-up.** `PrimaryInOrder` (the primary's chain is 1, 2, ... up to its
  `sequenceID`), `OnlyProposed` (no message names a later block), `WaitingIsCommit`,
  `Routes` (which node a request and an answer come from) and `OneCatchUp` (at most one
  request or answer of a node under way, and only while it holds `requestLock`).
- **Connections.** `LockHeld`, and `Framed`: for a reader that has never met a short prefix
  the stream is the rest of the message being read followed by whole frames of the
  messages not yet read. `PrefixRoundTrip` proves that `Uint32` undoes `PutUint32`.
  After a failed dial the lock is held for good, so `SilentAfterFailedDial` is a step
  property with the lock's holder in its invariant.

- **Shutdown.** The client adds up empty blocks of all shards, in any order of replies, so
  that no shard's share is known from the counter alone. `Counting`: until some shard has
  had the full number of empty blocks in a row, `zero_count` is at most the number of pairs
  of a shard and a block of its present run (`Runs`); a block with transactions of one
  shard ends that shard's run only, but the whole count. If every run is
  shorter than the limit, there are too few such pairs to stop the client (`ShortRuns`).

- **CLPA.** The totals are sums over vertices of sums over adjacency lists. The first part
  of the proof is about such sums: a recursive sum over a finite set exists, any element
  may be taken out first, and sums are linear. Each fact is about all subsets of a finite
  set and is shown for a smallest one that breaks it (`SmallestSubset`). The second part is
  what one vertex that changes shards does to the entries between two shards
  (`EntriesMoved`), to the edges into a shard (`CrossMoved`) and to the totals (`EdgesMoved`,
  `AllCrossMoved`). The invariant is `BothEnds` (an edge is in the lists of both its ends,
  every vertex has one), `Counted` (`VertexsNumInShard` counts the vertices of each shard)
  and the two properties: a shard that keeps a vertex keeps an edge.

**Induction.** The library's induction theorems take an operator and cannot be used. Their
place is taken by the well-foundedness of inclusion of finite sets, which takes none:
`LeastNumber` for numbers, `SmallestSubset` for sets.

**Only model-checked**, and why: two rounds between two shards (three shards refute them, so
no invariant holds for all constants); `PatriciaTrie` (its tries are built by
RECURSIVE operators, and a proof about them would need induction over the data); and all
liveness (fairness and ENABLED are out of the prover's reach).

## Findings

1. **A late announcement removes the owner** (`mig_stale_announce`).
   `caravan_summary.md:110`: "Migration either fully completes or fully rolls
   back". An account goes S0 -> S1 -> S2 in two rounds. The first announcement,
   "at S1", reaches S2 after S2 has become the owner; `handleAnns` (line 47) sees
   an own account, deletes it and points to S1, which has given it up. No shard
   owns the account; `mpAndSend` at S2 then uses a missing `BalanceBeforeOut`.

### Observations met while modelling

These are not runs of the project. The models contain the behaviour where they
contain the code, and the properties say where they stop short of it.

1. **A round that never ends** (`client.go:506`, `:574`). If the client computes the
   next map before it handles the announcement of the last move, it counts a move to
   the shard that already owns the account. No shard makes a TXmig1 for it, the
   counter stays positive and no further round starts: `RoundsEnd` holds for one round
   and not for two.
2. **A late map starts a move nobody counts** (`pbft.go:1831`). Maps carry no round and
   are sent by goroutines. A leader that handles the map of round one after round two
   made it the owner moves the account once more; the client's counter falls below
   zero. It takes three shards and two rounds.
3. **A receipt for the own shard is sent to nobody** (`pbft.go:1044`, `:1080`). `TryRelay`
   looks recipients up after the block; one that has come home by then is skipped. The
   payer is debited, nobody is credited.
4. **Half-locked payments are packed** (`txpool.go:409`): the `continue` leaves the loop
   over recipients only, so a payment is both in the block and in the lock pool.
5. **Receipts are merged into payments** (`pbft.go:1617`): the account pays for what it
   should receive; and a merged transaction is reported after its first own recipient
   (`pbftsingle.go:113`), when the others are neither credited nor relayed. It is relayed
   whole, to the shard of each recipient, so that what it merged may be credited again.
6. **Storage and sockets**: a crash between the newest hash and the state commit leaves
   a node that panics at every start (`blockchain.go:144`, `:158`); a failed dial keeps
   `connMaplock` (`utils.go:79`); a length prefix that one `Read` returns in part
   desynchronises a stream (`tcp.go:86`). A restarted node continues from its newest block
   but builds its account maps from the genesis assignment (`shard.go:38`) and has empty
   pools, so that it disagrees with its own trie about every account that has moved;
   `ChainStorage` has the storage's side of a restart only.
7. **Stop mode loses state**: a zero balance is sent for accounts without pending
   transactions (`PBFTforMigrate.go:260`), states are written under a root that no block
   has (`pbftsingle.go:462`), transactions stay pending in both shards
   (`PBFTforMigrate.go:223`). No property covers the balances. Maps that overtake each other
   mix the epoch changes (`pbft.go:1819`): with the maps taken in different orders a leader
   is released from a map while another still moves its accounts for it, and
   leaders can wait for each other for ever, one for a confirmation from the other, which
   waits for the accounts that the first will only send after its own next map. TLC finds
   both when `StopUntilAllDone` and `EpochEnds` are stated without `SameOrder`.
8. **The three-phase code** does not count a node's own Commit (`pbft.go:431`), stores an
   old block again when its votes come late, and loses a block when votes overtake its
   PrePrepare (`pbft.go:364`). The running configuration does not call it.
9. **Smaller ones**: the bank's payments are not subtracted from what it paid for
   (`pbft.go:1667`); LBF weighs a receipt three times (`client.go:531`); a key that ends
   inside an extension panics (`trie.go:207`). The client prints "received 5
   consecutive empty blocks of each shard, stopping the system" (`client.go:382`), but counts
   the empty blocks of all shards together: since nothing makes a slow leader keep up
   (`pbft.go:246`), all ten may be of one of two shards while the other is making a block with
   transactions. The client may end before it has told every node (`client.go:299`).

## Not modelled, and the plan

Not modelled:

- the bank (`Enable_bank` is off by default). What of it runs regardless only renames the
  sender of merged payments: a TXmig1 finds the account's lock pool empty, so nothing is aggregated there, `cBankAggTX` is sent by
  nobody and the credit lines are not read;
- full-lock mode (`Locking_TX_Pools`, `LockTX`), the `Fail`, `Cross_Chain` and
  `Bu_Tong_...` experiment switches: off by default, and time-driven;
- LBF (a greedy filling in random order), PageRank (floating point) and METIS (an
  external program); `Migration` allows any map they could return;
- Merkle proofs (made, never verified), hashing and encoding;
- followers: they receive no blocks in the running configuration; the code by which
  they would is `PBFT`, which therefore models code that a run does not call, as
  `PatriciaTrie` does (the chain uses go-ethereum's trie, only `test/test_db.go` the own one);
- account maps and pools after a restart (observation 6);
- `max_commit_block` and the trigger inside the reply loop: `Migration` lets any reply
  start a round that the counters allow;
- the readers of transaction files, start-up, csv files, logging, `test/`, `METIS/` and
  scripts: I/O without protocol state.

What the plan has left is proof: the two properties of `PatriciaTrie`, which first needs its
tries written as functions over paths instead of RECURSIVE operators. Every other invariant
that a run checks is proved, those of live migration beyond types and maps for one round.
