----------------------------- MODULE MigrationInv -----------------------------
(***************************************************************************)
(* Inductive invariants behind the safety properties: MapsInv for the      *)
(* shards' maps; IInv for the moves of a client that migrates at most once *)
(* (Rounds <= 1); and CountersExact for what that client counts.  IInv     *)
(* consists of the stages of an account's move, each saying where the one  *)
(* transaction that drives the move is, which shards own the account and   *)
(* how its money is split between them.                                    *)
(***************************************************************************)
EXTENDS MigrationProps

\* What makes TrieMatchesMemory inductive, for any number of rounds: a shard
\* announces its own accounts, to the others.
AnnouncedElsewhere ==
    /\ \A m \in cAnnounce : m.dst # m.shard /\ \A t \in m.TXanns : t.to = m.shard
    /\ \A s \in Shards : \A t \in TXann_pool[s] : t.to # s

MapsInv == TypeOK /\ TrieMatchesMemory /\ AnnouncedElsewhere

\* ---- the transactions of a's move that are NOT around
NoMig1(a) == \A s \in Shards : \A t \in TXmig1_pool[s] : t.addr # a
NoMig2(a) ==
    /\ \A t \in cTXmig1 : t.addr # a
    /\ \A s \in Shards : \A t \in TXmig2_pool[s] : t.addr # a
NoAnn(a) ==
    /\ \A m \in cAnnounce : \A t \in m.TXanns : t.addr # a
    /\ \A s \in Shards : \A t \in TXann_pool[s] : t.addr # a
NoAnnAt(a, s) ==
    /\ \A m \in cAnnounce : m.dst = s => \A t \in m.TXanns : t.addr # a
    /\ \A t \in TXann_pool[s] : t.addr # a
NoJob(a) == \A s \in Shards : \A job \in mpAndSends[s] : \A t \in job.anns : t.addr # a
NoNs(a) ==
    /\ \A m \in cCaP : \A t \in m.TXnss : t.addr # a
    /\ \A s \in Shards : \A t \in TXns_pool[s] : t.addr # a

\* ---- the ones that are
\* The TXmig1 waits at its home shard.
Mig1Waits(a, d) ==
    /\ \A s \in Shards : \A t \in TXmig1_pool[s] : t.addr = a =>
          s = Genesis[a] /\ t = [addr |-> a, from |-> Genesis[a], to |-> d, req |-> 0]
    /\ \E t \in TXmig1_pool[Genesis[a]] : t.addr = a

Mig2Of(a, d) == [addr |-> a, from |-> Genesis[a], to |-> d, req |-> 0,
                 value |-> BalanceBeforeOut[Genesis[a]][a]]

\* The TXmig2 is on its way or waits at the destination, with the balance the
\* home shard remembers.
Mig2Waits(a, d) ==
    /\ \A t \in cTXmig1 : t.addr = a => t = Mig2Of(a, d)
    /\ \A s \in Shards : \A t \in TXmig2_pool[s] : t.addr = a => s = d /\ t = Mig2Of(a, d)
    /\ Mig2Of(a, d) \in cTXmig1 \/ Mig2Of(a, d) \in TXmig2_pool[d]
    /\ ~(Mig2Of(a, d) \in cTXmig1 /\ Mig2Of(a, d) \in TXmig2_pool[d])

AnnOf(a, d) == [addr |-> a, to |-> d, req |-> 0]

\* All announcements of a come from d and go elsewhere, each shard's in one batch.
AnnsFrom(a, d) ==
    /\ \A m \in cAnnounce : \A t \in m.TXanns : t.addr = a =>
          t = AnnOf(a, d) /\ m.dst # d /\ m.shard = d
    /\ \A s \in Shards : \A t \in TXann_pool[s] : t.addr = a => t = AnnOf(a, d) /\ s # d
    /\ \A m, n \in cAnnounce :
          m.dst = n.dst /\ AnnOf(a, d) \in m.TXanns /\ AnnOf(a, d) \in n.TXanns => m = n
    /\ \A m \in cAnnounce :
          m.dst \in Shards /\ AnnOf(a, d) \in m.TXanns => AnnOf(a, d) \notin TXann_pool[m.dst]

\* The home shard's announcement is on its way or waits.
AnnWaits(a, d) ==
    \/ AnnOf(a, d) \in TXann_pool[Genesis[a]]
    \/ \E m \in cAnnounce : m.dst = Genesis[a] /\ AnnOf(a, d) \in m.TXanns

\* The home shard's goroutine holds its final balance of a: what has changed
\* there since TXmig1 is what the destination still lacks.
JobRuns(a, d) ==
    /\ \A s \in Shards : \A job \in mpAndSends[s] : \A t \in job.anns : t.addr = a =>
          /\ s = Genesis[a] /\ t = AnnOf(a, d)
          /\ Balance[d][a] + (job.state[a] - BalanceBeforeOut[s][a]) = ledger[a]
    /\ \E job \in mpAndSends[Genesis[a]] : AnnOf(a, d) \in job.anns
    /\ \A j, k \in mpAndSends[Genesis[a]] :
          AnnOf(a, d) \in j.anns /\ AnnOf(a, d) \in k.anns => j = k

NsOf(a, d) == [addr |-> a, to |-> d, req |-> 0, change |-> ledger[a] - Balance[d][a]]

\* The one TXns of a, ns, is on its way to d or waits there.
NsIs(a, d, ns) ==
    /\ \A m \in cCaP : \A t \in m.TXnss : t.addr = a => m.to = d /\ t = ns
    /\ \A s \in Shards : \A t \in TXns_pool[s] : t.addr = a => s = d /\ t = ns
    /\ ns \in TXns_pool[d] \/ \E m \in cCaP : ns \in m.TXnss
    /\ \A m \in cCaP : ns \in m.TXnss => ns \notin TXns_pool[d]
    /\ \A m, n \in cCaP : ns \in m.TXnss /\ ns \in n.TXnss => m = n

\* It carries what the destination lacks.
NsWaits(a, d) == NsIs(a, d, NsOf(a, d))

\* ---- ownership and marks
OwnedBy(a, owners) ==
    \A s \in Shards : /\ (a \in AccountInOwnShard[s]) <=> (s \in owners)
                      /\ (Location[s][a] = s) <=> (s \in owners)
Unmarked(a) ==
    \A s \in Shards : Migrate[s][a] = NoShard /\ a \notin Outing_Acc_Before_Announce[s]
MarkedFor(a, d) ==
    \A s \in Shards :
        IF s = Genesis[a] THEN Migrate[s][a] = d /\ a \in Outing_Acc_Before_Announce[s]
                          ELSE Migrate[s][a] = NoShard /\ a \notin Outing_Acc_Before_Announce[s]
NothingKept(a) == \A s \in Shards : BalanceBeforeOut[s][a] = NoBalance
KeptAtHome(a) ==
    \A s \in Shards :
        IF s = Genesis[a] THEN BalanceBeforeOut[s][a] \in Int
                          ELSE BalanceBeforeOut[s][a] = NoBalance

\* ---- the stages of the move of a from its home shard to d
AtHome(a) ==
    /\ NoMig1(a) /\ NoMig2(a) /\ NoAnn(a) /\ NoJob(a) /\ NoNs(a)
    /\ OwnedBy(a, {Genesis[a]}) /\ Unmarked(a) /\ NothingKept(a)
    /\ Balance[Genesis[a]][a] = ledger[a]
Asked(a, d) ==
    /\ Mig1Waits(a, d) /\ NoMig2(a) /\ NoAnn(a) /\ NoJob(a) /\ NoNs(a)
    /\ OwnedBy(a, {Genesis[a]}) /\ Unmarked(a) /\ NothingKept(a)
    /\ Balance[Genesis[a]][a] = ledger[a]
Sent(a, d) ==
    /\ NoMig1(a) /\ Mig2Waits(a, d) /\ NoAnn(a) /\ NoJob(a) /\ NoNs(a)
    /\ OwnedBy(a, {Genesis[a]}) /\ MarkedFor(a, d) /\ KeptAtHome(a)
    /\ Balance[Genesis[a]][a] = ledger[a]
Shared(a, d) ==
    /\ NoMig1(a) /\ NoMig2(a) /\ AnnsFrom(a, d) /\ AnnWaits(a, d) /\ NoJob(a) /\ NoNs(a)
    /\ OwnedBy(a, {Genesis[a], d}) /\ MarkedFor(a, d) /\ KeptAtHome(a)
    /\ Balance[d][a] + (Balance[Genesis[a]][a] - BalanceBeforeOut[Genesis[a]][a]) = ledger[a]
Leaving(a, d) ==
    /\ NoMig1(a) /\ NoMig2(a) /\ AnnsFrom(a, d) /\ NoAnnAt(a, Genesis[a]) /\ NoNs(a)
    /\ OwnedBy(a, {d}) /\ Unmarked(a) /\ KeptAtHome(a)
    /\ JobRuns(a, d)
Settling(a, d) ==
    /\ NoMig1(a) /\ NoMig2(a) /\ AnnsFrom(a, d) /\ NoAnnAt(a, Genesis[a]) /\ NoJob(a)
    /\ OwnedBy(a, {d}) /\ Unmarked(a) /\ NothingKept(a)
    /\ NsWaits(a, d)
Moved(a, d) ==
    /\ NoMig1(a) /\ NoMig2(a) /\ AnnsFrom(a, d) /\ NoAnnAt(a, Genesis[a]) /\ NoJob(a) /\ NoNs(a)
    /\ OwnedBy(a, {d}) /\ Unmarked(a) /\ NothingKept(a)
    /\ Balance[d][a] = ledger[a]

Under(a, d) ==
    Asked(a, d) \/ Sent(a, d) \/ Shared(a, d) \/ Leaving(a, d) \/ Settling(a, d) \/ Moved(a, d)
Stage(a) == AtHome(a) \/ \E d \in Shards \ {Genesis[a]} : Under(a, d)

\* ---- the client's round
Wanted == cMigrateWanted \cup cPendingTXs
RoundInv ==
    /\ OnlyOnce > 0 \/ Wanted # {} => cNewMap = {} /\ \A a \in Accounts : AtHome(a)
    /\ OnlyOnce > 0 => Wanted = {}
    /\ cMigrateWanted \cap cPendingTXs = {}
    /\ num_of_shard_not_sending_pending =
         IF Wanted = {} THEN Cardinality(Shards) ELSE Cardinality(Wanted)

\* The one new map: a copy for each shard.  A home shard that has handled its
\* copy will not see another, and the other copies agree with what it did.
NewMapInv ==
    /\ \A m \in cNewMap : m.req = 0
    /\ \A m, n \in cNewMap : m.map = n.map /\ (m.shard = n.shard => m = n)
    /\ \A m \in cNewMap, a \in Accounts :
          \/ AtHome(a)
          \/ /\ m.shard # Genesis[a]
             /\ m.map[a] \in Shards \ {Genesis[a]}
             /\ Under(a, m.map[a])

\* The inductive invariant.
IInv ==
    /\ TypeOK
    /\ RoundInv
    /\ NewMapInv
    /\ \A a \in Accounts : Stage(a)
    /\ crashed \subseteq {Client}
-----------------------------------------------------------------------------
(* What the client counts.  An account is unfinished from the new map to   *)
(* the moment the client subtracts the batch that reports it.              *)

\* Its home shard has not handled its new map, or has not yet sent what changed.
Asks(a) == \E m \in cNewMap : m.shard = Genesis[a] /\ m.map[a] # NoShard
Moving(a) == ~NoMig1(a) \/ ~NoMig2(a) \/ ~NoAnnAt(a, Genesis[a]) \/ ~NoJob(a)

\* The accounts that no batch of transactions, or of balances, reports yet.
TXsOpen == {a \in Accounts : Asks(a) \/ Moving(a)}
MovesOpen == {a \in Accounts : Asks(a) \/ Moving(a) \/ ~NoNs(a)}

\* The accounts that a set of batches reports.
In(batches) == UNION {Addrs(x) : x \in batches}
Total(open, xs, ys) == open \cup In(xs) \cup In(ys)

\* No account is reported twice, or reported and still open.
Distinct(batches) ==
    \A x, y \in batches : \A t \in x, u \in y : t.addr = u.addr => x = y /\ t = u
Tallied(open, xs, ys) ==
    /\ Distinct(xs) /\ Distinct(ys)
    /\ open \cap In(xs) = {} /\ open \cap In(ys) = {} /\ In(xs) \cap In(ys) = {}

\* Accounts whose transactions are on their way to the destination.
Lists == {m.List : m \in cCaP}
OneList ==
    /\ \A m \in cCaP : m.List # {}
    /\ \A m, n \in cCaP : \A t \in m.List, u \in n.List : t.addr = u.addr => m = n /\ t = u

\* Until the new map nothing has moved.
Fresh ==
    /\ clientMap = Genesis
    /\ cCaP = {} /\ cReply = {} /\ cNumOfMigratedTXsAddrs = {} /\ cUnchangedState = {}

\* The client's counters are the number of unfinished accounts at any moment
\* after the new map, whatever is still in pools, goroutines and messages, when
\* it migrates at most once; from the start of the round to the new map they are
\* the 1 of cReply.
CountersExact ==
    /\ OnlyOnce > 0 \/ Wanted # {} => Fresh
    /\ \A m \in cNewMap, a \in Accounts : m.map[a] # Genesis[a]
    /\ OneList
    /\ Tallied(MovesOpen, cReply, cUnchangedState)
    /\ Tallied(TXsOpen, Lists, cNumOfMigratedTXsAddrs)
    /\ IF Wanted # {}
       THEN num_of_unfinished_migration = 1 /\ num_of_unfinished_migrated_TXs = 1
       ELSE /\ num_of_unfinished_migration =
                 Cardinality(Total(MovesOpen, cReply, cUnchangedState))
            /\ num_of_unfinished_migrated_TXs =
                 Cardinality(Total(TXsOpen, Lists, cNumOfMigratedTXsAddrs))
    /\ Client \notin crashed
=============================================================================
