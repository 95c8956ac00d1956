-------------------------------- MODULE PBFT --------------------------------
(***************************************************************************)
(* The three-phase protocol of one shard: propose, handlePrePrepare,       *)
(* handlePrepare, handleCommit, and the catch-up of a node that missed a   *)
(* block (requestBlocks, handleRequestBlock, handleSendBlock).             *)
(*                                                                         *)
(* N0 is the primary for ever: there is no view change.  It proposes one   *)
(* block per height, so a height stands for the digest of its block.  A    *)
(* broadcast starts a goroutine per receiver: messages arrive once, in any *)
(* order.  Every handler is one step, except that handleCommit may wait    *)
(* for requestLock; it then holds p.lock, and the connection of the sender *)
(* it serves is not read.  What the primary does with a block it has added *)
(* (replies, relays, migration) is in the modules of those parts.          *)
(***************************************************************************)
EXTENDS Integers, FiniteSets, Sequences

CONSTANTS Nodes,          \* the nodes of the shard
          N0,             \* the primary
          malicious_num,  \* f
          MaxHeight       \* bound: blocks proposed

ASSUME PBFTConstants == N0 \in Nodes /\ malicious_num \in Nat /\ MaxHeight \in Nat

VARIABLES
    sequenceID,           \* next height of each node
    messagePool,          \* heights whose block the node has
    prePareConfirmCount,  \* [n][h]: the nodes whose Prepare n has counted
    commitConfirmCount,   \* [n][h]: the nodes whose Commit n has counted
    isCommitBordcast,     \* heights the node has broadcast a Commit for
    isReply,              \* heights the node has finished with
    chain,                \* the blocks the node has stored, in that order
    requestLock,          \* the nodes whose requestLock is locked
    waiting,              \* [n]: the Commit whose handler waits for requestLock
    msgs                  \* messages in flight

vars == <<sequenceID, messagePool, prePareConfirmCount, commitConfirmCount,
          isCommitBordcast, isReply, chain, requestLock, waiting, msgs>>
votes == <<prePareConfirmCount, commitConfirmCount>>

Heights == 1..MaxHeight
NoMsg   == [type |-> "none"]

\* broadcast: one message to every other node.
Broadcast(type, n, h) ==
    {[type |-> type, seq |-> h, from |-> n, to |-> m] : m \in Nodes \ {n}}

\* NewPBFT on an empty chain.
Init ==
    /\ sequenceID = [n \in Nodes |-> 1]
    /\ messagePool = [n \in Nodes |-> {}]
    /\ prePareConfirmCount = [n \in Nodes |-> [h \in Heights |-> {}]]
    /\ commitConfirmCount = [n \in Nodes |-> [h \in Heights |-> {}]]
    /\ isCommitBordcast = [n \in Nodes |-> {}]
    /\ isReply = [n \in Nodes |-> {}]
    /\ chain = [n \in Nodes |-> <<>>]
    /\ requestLock = {}
    /\ waiting = [n \in Nodes |-> NoMsg]
    /\ msgs = {}
-----------------------------------------------------------------------------
\* A message is read unless the handler of an earlier message of its sender
\* still waits on that connection.
Readable(m) == m \in msgs /\ ~(waiting[m.to] # NoMsg /\ waiting[m.to].from = m.from)

\* p.lock is free: no handler waits for requestLock with p.lock held.
LockFree(n) == waiting[n] = NoMsg

\* Propose and propose: sequenceLock makes the primary wait until it has added
\* its last block.
Propose ==
    /\ sequenceID[N0] \in Heights \ messagePool[N0]
    /\ messagePool' = [messagePool EXCEPT ![N0] = @ \cup {sequenceID[N0]}]
    /\ msgs' = msgs \cup Broadcast("PrePrepare", N0, sequenceID[N0])
    /\ UNCHANGED <<sequenceID, votes, isCommitBordcast, isReply, chain,
                   requestLock, waiting>>

\* A PrePrepare for another height than the next one is dropped.
handlePrePrepare(n, m) ==
    /\ Readable(m) /\ m.type = "PrePrepare" /\ m.to = n
    /\ IF m.seq = sequenceID[n]
       THEN /\ messagePool' = [messagePool EXCEPT ![n] = @ \cup {m.seq}]
            /\ msgs' = (msgs \ {m}) \cup Broadcast("Prepare", n, m.seq)
       ELSE /\ msgs' = msgs \ {m}
            /\ UNCHANGED messagePool
    /\ UNCHANGED <<sequenceID, votes, isCommitBordcast, isReply, chain,
                   requestLock, waiting>>

\* 2f Prepares, the node's own never among them.
Prepared(n, h) == Cardinality(prePareConfirmCount'[n][h]) >= 2 * malicious_num

\* A Prepare is dropped when its block is not known yet or is not the next
\* one; with enough of them the node broadcasts its Commit, once.  The code
\* checks and counts before it takes p.lock; here, and in CountCommit, that is
\* one step with what it does under the lock.
handlePrepare(n, m) ==
    /\ Readable(m) /\ m.type = "Prepare" /\ m.to = n
    /\ IF m.seq \in messagePool[n] /\ m.seq = sequenceID[n]
       THEN /\ LockFree(n)
            /\ prePareConfirmCount' = [prePareConfirmCount EXCEPT ![n][m.seq] = @ \cup {m.from}]
            /\ IF Prepared(n, m.seq) /\ m.seq \notin isCommitBordcast[n]
               THEN /\ msgs' = (msgs \ {m}) \cup Broadcast("Commit", n, m.seq)
                    /\ isCommitBordcast' = [isCommitBordcast EXCEPT ![n] = @ \cup {m.seq}]
               ELSE msgs' = msgs \ {m} /\ UNCHANGED isCommitBordcast
       ELSE msgs' = msgs \ {m} /\ UNCHANGED <<prePareConfirmCount, isCommitBordcast>>
    /\ UNCHANGED <<sequenceID, messagePool, commitConfirmCount, isReply, chain,
                   requestLock, waiting>>

\* More than 2f Commits, the node's own never among them.
Committed(n, h) == Cardinality(commitConfirmCount'[n][h]) > 2 * malicious_num

CountCommit(n, m) ==
    /\ Readable(m) /\ m.type = "Commit" /\ m.to = n /\ LockFree(n)
    /\ commitConfirmCount' = [commitConfirmCount EXCEPT ![n][m.seq] = @ \cup {m.from}]

\* handleCommit, too few Commits or the block already dealt with.
CommitCounted(n, m) ==
    /\ CountCommit(n, m)
    /\ ~Committed(n, m.seq) \/ m.seq \in isReply[n]
    /\ msgs' = msgs \ {m}
    /\ UNCHANGED <<sequenceID, messagePool, prePareConfirmCount, isCommitBordcast,
                   isReply, chain, requestLock, waiting>>

\* The end of handleCommit; the primary also frees sequenceLock.
BlockDone(n, h) ==
    /\ isReply' = [isReply EXCEPT ![n] = @ \cup {h}]
    /\ sequenceID' = [sequenceID EXCEPT ![n] = @ + 1]

\* handleCommit adds the block.  Neither the height nor the node's own Commit
\* is looked at (both checks are commented out).
CommitAddsBlock(n, m) ==
    /\ CountCommit(n, m)
    /\ Committed(n, m.seq) /\ m.seq \notin isReply[n] /\ m.seq \in messagePool[n]
    /\ chain' = [chain EXCEPT ![n] = Append(@, m.seq)]
    /\ BlockDone(n, m.seq)
    /\ msgs' = msgs \ {m}
    /\ UNCHANGED <<messagePool, prePareConfirmCount, isCommitBordcast, requestLock,
                   waiting>>

\* (mutant: one block more than was proposed)
RequestBlocksTooMany(n, h) ==
    /\ requestLock' = requestLock \cup {n}
    /\ msgs' = (msgs \ IF waiting[n] = NoMsg THEN {} ELSE {waiting[n]})
               \cup {[type |-> "RequestBlock", seq |-> h + 1, start |-> sequenceID[n],
                      from |-> n, to |-> N0]}

\* requestBlocks, with requestLock taken: it is released by handleSendBlock.
RequestBlocks(n, h) ==
    /\ requestLock' = requestLock \cup {n}
    /\ msgs' = (msgs \ IF waiting[n] = NoMsg THEN {} ELSE {waiting[n]})
               \cup {[type |-> "RequestBlock", seq |-> h, start |-> sequenceID[n],
                      from |-> n, to |-> N0]}

\* handleCommit finds that the node has missed the block and wants to ask the
\* primary; it waits here while an earlier request is not answered.  The
\* message stays at the head of its connection until the handler returns.
CommitMissesBlock(n, m) ==
    /\ CountCommit(n, m)
    /\ Committed(n, m.seq) /\ m.seq \notin isReply[n] /\ m.seq \notin messagePool[n]
    /\ isReply' = [isReply EXCEPT ![n] = @ \cup {m.seq}]
    /\ waiting' = [waiting EXCEPT ![n] = m]
    /\ UNCHANGED <<sequenceID, messagePool, prePareConfirmCount, isCommitBordcast,
                   chain, requestLock, msgs>>

\* requestLock is free, the request goes out and the handler returns.
CommitRequests(n) ==
    /\ waiting[n] # NoMsg /\ n \notin requestLock
    /\ RequestBlocks(n, waiting[n].seq)
    /\ waiting' = [waiting EXCEPT ![n] = NoMsg]
    /\ UNCHANGED <<sequenceID, messagePool, votes, isCommitBordcast, isReply, chain>>

\* The primary answers with the blocks of its messagePool.
handleRequestBlock(m) ==
    /\ Readable(m) /\ m.type = "RequestBlock"
    /\ m.start..m.seq \subseteq messagePool[N0]
    /\ msgs' = (msgs \ {m}) \cup {[type |-> "SendBlock", seq |-> m.seq, start |-> m.start,
                                   from |-> N0, to |-> m.from]}
    /\ UNCHANGED <<sequenceID, messagePool, votes, isCommitBordcast, isReply, chain,
                   requestLock, waiting>>

\* (mutant: requestLock is not given back)
handleSendBlockLocked(n, m) ==
    /\ Readable(m) /\ m.type = "SendBlock" /\ m.to = n
    /\ sequenceID' = [sequenceID EXCEPT ![n] = m.seq + 1]
    /\ msgs' = msgs \ {m}
    /\ UNCHANGED <<messagePool, votes, isCommitBordcast, isReply, chain, requestLock,
                   waiting>>

\* The blocks are added as they come, and the node's next height is the one
\* after the range it had asked for.
handleSendBlock(n, m) ==
    /\ Readable(m) /\ m.type = "SendBlock" /\ m.to = n
    /\ chain' = [chain EXCEPT ![n] =
                    @ \o [i \in 1..(IF m.seq < m.start THEN 0 ELSE m.seq - m.start + 1)
                             |-> m.start + i - 1]]
    /\ sequenceID' = [sequenceID EXCEPT ![n] = m.seq + 1]
    /\ requestLock' = requestLock \ {n}
    /\ msgs' = msgs \ {m}
    /\ UNCHANGED <<messagePool, votes, isCommitBordcast, isReply, waiting>>

NodeStep(n) ==
    \/ \E m \in msgs : \/ handlePrePrepare(n, m) \/ handlePrepare(n, m)
                       \/ CommitCounted(n, m) \/ CommitAddsBlock(n, m)
                       \/ CommitMissesBlock(n, m) \/ handleSendBlock(n, m)
    \/ CommitRequests(n)

Next == \/ Propose
        \/ \E n \in Nodes : NodeStep(n)
        \/ \E m \in msgs : handleRequestBlock(m)

Spec == Init /\ [][Next]_vars
-----------------------------------------------------------------------------
Messages ==
    [type : {"PrePrepare", "Prepare", "Commit"}, seq : Heights, from : Nodes, to : Nodes]
    \cup [type : {"RequestBlock", "SendBlock"}, seq : Heights, start : Nat \ {0},
          from : Nodes, to : Nodes]

\* sequenceID counts the blocks added, which are more than MaxHeight when one
\* is added again.
TypeOK ==
    /\ sequenceID \in [Nodes -> Nat \ {0}]
    /\ messagePool \in [Nodes -> SUBSET Heights]
    /\ prePareConfirmCount \in [Nodes -> [Heights -> SUBSET Nodes]]
    /\ commitConfirmCount \in [Nodes -> [Heights -> SUBSET Nodes]]
    /\ isCommitBordcast \in [Nodes -> SUBSET Heights]
    /\ isReply \in [Nodes -> SUBSET Heights]
    /\ chain \in [Nodes -> Seq(Heights)]
    /\ requestLock \subseteq Nodes
    /\ waiting \in [Nodes -> Messages \cup {NoMsg}]
    /\ msgs \subseteq Messages

\* handleRequestBlock never panics: a height some node asks for is one whose
\* block the primary has in its pool ("the primary is assumed to have every
\* block").
PrimaryHasRequested ==
    \A m \in msgs : m.type = "RequestBlock" => m.start..m.seq \subseteq messagePool[N0]

\* requestLock is held exactly while the request or its answer is on the way,
\* and the answer can be read, so that a handler waiting for the lock goes on:
\* except when it reads the primary's connection, where the answer comes.
RequestOnTheWay ==
    \A n \in Nodes : n \in requestLock <=>
        \E m \in msgs : /\ \/ m.type = "RequestBlock" /\ m.from = n
                           \/ m.type = "SendBlock" /\ m.to = n
                        /\ Readable(m) \/ waiting[n].from = N0

=============================================================================
