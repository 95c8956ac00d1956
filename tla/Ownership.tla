------------------------------ MODULE Ownership ------------------------------
(***************************************************************************)
(* What live migration promises about the ownership of accounts, without   *)
(* pools, messages, balances or the client.  A block of shard s changes    *)
(* what s alone knows, and does one of four things to an account:          *)
(*                                                                         *)
(*   Offer    the only owner marks the account for another shard           *)
(*   Take     the shard that the account is marked for becomes an owner    *)
(*   GiveUp   the marked shard leaves the account to the new owner         *)
(*   Learn    a bystander hears of a shard that owns the account           *)
(***************************************************************************)
CONSTANTS Shards, Accounts, Genesis, NoShard

\* What the proofs assume of the constants.
OwnershipConstants == Genesis \in [Accounts -> Shards] /\ NoShard \notin Shards

VARIABLES
    AccountInOwnShard,  \* the accounts each shard owns
    Account2Shard,      \* where each shard believes the accounts to be
    Migrate             \* the destination of an account that leaves

ownershipVars == <<AccountInOwnShard, Account2Shard, Migrate>>

Owners(a) == {s \in Shards : a \in AccountInOwnShard[s]}

Init ==
    /\ AccountInOwnShard = [s \in Shards |-> {a \in Accounts : Genesis[a] = s}]
    /\ Account2Shard = [s \in Shards |-> Genesis]
    /\ Migrate = [s \in Shards |-> [a \in Accounts |-> NoShard]]

-----------------------------------------------------------------------------
(* After the block, s owns `own', believes `map' and has the marks `mark'.  *)

Keep(s, a, own, map, mark) ==
    /\ a \in own <=> a \in AccountInOwnShard[s]
    /\ map[a] = Account2Shard[s][a]
    /\ mark[a] = Migrate[s][a]

Offer(s, a, own, map, mark) ==
    /\ Owners(a) = {s} /\ Migrate[s][a] = NoShard
    /\ a \in own /\ map[a] = Account2Shard[s][a]
    /\ mark[a] \in Shards \ {s}

Take(s, a, own, map, mark) ==
    /\ \E x \in Shards \ {s} : Owners(a) = {x} /\ Migrate[x][a] = s
    /\ a \in own /\ map[a] = s /\ mark[a] = NoShard

GiveUp(s, a, own, map, mark) ==
    /\ Migrate[s][a] \in Shards \ {s}
    /\ Owners(a) = {s, Migrate[s][a]}
    /\ a \notin own /\ map[a] = Migrate[s][a] /\ mark[a] = NoShard

Learn(s, a, own, map, mark) ==
    /\ s \notin Owners(a) /\ map[a] \in Owners(a)
    /\ a \notin own /\ mark[a] = NoShard

Block(s, own, map, mark) ==
    /\ \A a \in Accounts : \/ Keep(s, a, own, map, mark)
                           \/ Offer(s, a, own, map, mark)
                           \/ Take(s, a, own, map, mark)
                           \/ GiveUp(s, a, own, map, mark)
                           \/ Learn(s, a, own, map, mark)
    /\ AccountInOwnShard' = [AccountInOwnShard EXCEPT ![s] = own]
    /\ Account2Shard' = [Account2Shard EXCEPT ![s] = map]
    /\ Migrate' = [Migrate EXCEPT ![s] = mark]

Next ==
    \E s \in Shards, own \in SUBSET Accounts, map \in [Accounts -> Shards],
       mark \in [Accounts -> Shards \cup {NoShard}] : Block(s, own, map, mark)

Spec == Init /\ [][Next]_ownershipVars

-----------------------------------------------------------------------------
\* The one owner of an account, which may have marked it, or the two of a
\* hand-over; no other shard has the account marked.
Alone(a, s) ==
    /\ Owners(a) = {s} /\ Migrate[s][a] # s
    /\ \A x \in Shards \ {s} : Migrate[x][a] = NoShard
Both(a, s, d) ==
    /\ s # d /\ Owners(a) = {s, d} /\ Migrate[s][a] = d
    /\ \A x \in Shards \ {s} : Migrate[x][a] = NoShard

\* Over any number of moves an account has one owner, or the two of a hand-over
\* of which the marked one is about to leave (AddBlock, handleAnns).
OneOrTwoOwners ==
    \A a \in Accounts : \/ \E s \in Shards : Alone(a, s)
                        \/ \E s, d \in Shards : Both(a, s, d)

\* Whatever a shard forwards for an account arrives: from any shard, following
\* the shards' maps leads to an owner after finitely many hops, since no set of
\* shards that do not own the account only points to itself (the forwarding of
\* TrySendTX and TryRelay by Account2Shard).
RoutesEnd ==
    \A a \in Accounts : \A lost \in SUBSET (Shards \ Owners(a)) :
        lost # {} => \E s \in lost : Account2Shard[s][a] \notin lost
=============================================================================
