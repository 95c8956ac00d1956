------------------------- MODULE MigrationRefinement -------------------------
(***************************************************************************)
(* Live migration implements Ownership.                                    *)
(***************************************************************************)
EXTENDS MigrationInv

\* The leaders' maps and the marks in their tries are the ownership; pools,
\* messages, balances and the client are hidden.
Abstract == INSTANCE Ownership
                WITH AccountInOwnShard <- AccountInOwnShard,
                     Account2Shard <- Account2Shard,
                     Migrate <- Migrate

\* Seen from its ownership alone, every step of live migration is one of the
\* four of Ownership or changes nothing: whatever pools, messages and goroutines
\* do, a shard only offers an account it owns alone, only the shard it is offered
\* to takes it, and it is given up only afterwards, to that shard
\* (getUpdatedTreeOfState, AddBlock, handleAnns).
ImplementsOwnership == Abstract!Spec

\* From any shard, at any time, forwarding by the account maps ends at an owner,
\* although each shard learns of a move at a different time.
ForwardingReachesOwner == Abstract!RoutesEnd
=============================================================================
