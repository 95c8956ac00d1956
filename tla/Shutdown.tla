------------------------------ MODULE Shutdown ------------------------------
(***************************************************************************)
(* How a run of the emulator ends.  Leaders report every block to the      *)
(* client; the client counts empty ones, wakes RunClient over all_finish   *)
(* and RunClient tells every node to stop.  The processes are tied         *)
(* together by their connections: a read that meets the end of a           *)
(* connection, and a write that fails, end the process (log.Fatal), so     *)
(* that the end of one process takes others with it.                       *)
(*                                                                         *)
(* One node per shard, as the running configuration has it.  Blocks carry  *)
(* no content here: `work' says whether the next one is empty.             *)
(***************************************************************************)
EXTENDS Naturals, Sequences, FiniteSets, FiniteSetsExt

CONSTANTS
    Shards, Client,
    EmptyBlocks,    \* the 5 of `5*params.Config.Shard_num'
    MaxWork,        \* bound on the non-empty blocks
    MaxReplies      \* bound on a leader's replies not yet handled

ASSUME ShutdownAssumption ==
    /\ IsFiniteSet(Shards) /\ Shards # {} /\ Client \notin Shards
    /\ EmptyBlocks \in Nat \ {0} /\ MaxWork \in Nat /\ MaxReplies \in Nat \ {0}

VARIABLES
    up,             \* the running processes
    conns,          \* open connections <<dialler, listener>>
    stuck,          \* processes whose connMaplock a failed dial has left locked
    work,           \* shards whose next block is not empty
    todo,           \* non-empty blocks still to come
    replies,        \* each leader's cReply messages: TRUE for an empty block
    zero_count, all_finish,     \* the client's; all_finish: a sender waits
    stopping,       \* RunClient is past <-all_finish
    told, cStop,    \* nodes cStop was sent to, nodes that have not handled it
    emptyRun        \* history: empty blocks in a row, up to EmptyBlocks

Procs == Shards \cup {Client}
Limit == EmptyBlocks * Cardinality(Shards)

network == <<conns, stuck>>
client  == <<zero_count, all_finish, stopping>>
chain   == <<work, todo, replies, emptyRun>>
vars    == <<up, network, client, chain, told, cStop>>

\* Sendtime has connected the client to every node.
Init ==
    /\ up = Procs
    /\ conns = {<<Client, s>> : s \in Shards} /\ stuck = {}
    /\ work = {} /\ todo = MaxWork
    /\ replies = [s \in Shards |-> <<>>]
    /\ zero_count = 0 /\ all_finish = FALSE /\ stopping = FALSE
    /\ told = {} /\ cStop = {}
    /\ emptyRun = [s \in Shards |-> 0]

-----------------------------------------------------------------------------
\* What a call TcpDial(_, q) of p does to the processes and connections: it
\* writes; or the first dial fails and connMaplock stays locked; or the write
\* to a closed connection fails, which the kernel need not report at once.
Reaches(p, q) == q \in up /\ conns' = conns \cup {<<p, q>>} /\ UNCHANGED <<up, stuck>>
Misses(p, q)  == q \notin up /\ <<p, q>> \in conns /\ UNCHANGED <<up, conns, stuck>>
Fatal(p, q)   == q \notin up /\ <<p, q>> \in conns /\ up' = up \ {p} /\ UNCHANGED <<conns, stuck>>
DialFails(p, q) ==
    q \notin up /\ <<p, q>> \notin conns /\ stuck' = stuck \cup {p} /\ UNCHANGED <<up, conns>>

TcpDial(p, q) ==
    /\ p \in up \ stuck
    /\ Reaches(p, q) \/ Misses(p, q) \/ Fatal(p, q) \/ DialFails(p, q)

\* handleConn and connHandler: the messages before the end are read first.
\* (mutant: handleConn returns, as an earlier version of it did)
ReadEOFReturns(p, q) ==
    /\ q = Client /\ q \in up /\ p \notin up /\ <<p, q>> \in conns
    /\ replies[p] = <<>>
    /\ up' = up \ {q}
    /\ UNCHANGED <<network, client, chain, told, cStop>>
ReadEOF(p, q) ==
    /\ q \in up /\ p \notin up /\ <<p, q>> \in conns
    /\ q = Client => replies[p] = <<>>
    /\ up' = up \ {q}
    /\ UNCHANGED <<network, client, chain, told, cStop>>

-----------------------------------------------------------------------------
(* Leaders *)

\* A transaction reaches the pool of s: from the client or from another shard.
NewWork(s) ==
    /\ s \in up /\ s \notin work /\ todo > 0
    /\ work' = work \cup {s} /\ todo' = todo - 1
    /\ UNCHANGED <<up, network, client, replies, emptyRun, told, cStop>>

\* A leader's next block.  Propose waits for the leader's own previous block
\* and its own clock, not for another leader: one may fall behind by any number
\* of blocks.
commit1(s) ==
    /\ Len(replies[s]) < MaxReplies
    /\ TcpDial(s, Client)
    /\ work' = work \ {s}
    /\ replies' = [replies EXCEPT ![s] = IF Client \in up THEN Append(@, s \notin work) ELSE @]
    /\ UNCHANGED <<client, todo, emptyRun, told, cStop>>

\* Any message from leader to leader.
SendToLeader(s, t) ==
    /\ s # t /\ TcpDial(s, t)
    /\ <<up, network>>' # <<up, network>>
    /\ UNCHANGED <<client, chain, told, cStop>>

handleStop(s) ==
    /\ s \in cStop \cap up
    /\ up' = up \ {s} /\ cStop' = cStop \ {s}
    /\ UNCHANGED <<network, client, chain, told>>

-----------------------------------------------------------------------------
(* The client *)

\* zero_count after a reply; only reaching Limit matters, so that larger values
\* are not told apart.  (mutant: a block with transactions does not reset it)
CountOnly(empty) == IF empty /\ zero_count <= Limit THEN zero_count + 1 ELSE zero_count
Counted(empty) == IF ~empty THEN 0 ELSE Min({zero_count + 1, Limit + 1})

\* cReply, up to all_finish <- 1, which waits with zero_count_lock held.
HandleReply(s) ==
    /\ Client \in up /\ ~all_finish /\ replies[s] # <<>>
    /\ replies' = [replies EXCEPT ![s] = Tail(@)]
    /\ zero_count' = Counted(Head(replies[s]))
    /\ all_finish' = (zero_count' = Limit)
    /\ emptyRun' = [emptyRun EXCEPT ![s] = IF Head(replies[s]) THEN Min({@ + 1, EmptyBlocks}) ELSE 0]
    /\ UNCHANGED <<up, network, stopping, work, todo, told, cStop>>

\* RunClient receives from all_finish, once.
ReceiveFinish ==
    /\ Client \in up /\ all_finish /\ ~stopping
    /\ all_finish' = FALSE /\ stopping' = TRUE
    /\ UNCHANGED <<up, network, zero_count, chain, told, cStop>>

SendStop(s) ==
    /\ stopping /\ s \notin told
    /\ TcpDial(Client, s)
    /\ told' = told \cup {s} /\ cStop' = cStop \cup ({s} \cap up)
    /\ UNCHANGED <<client, chain>>

\* RunClient returns, and main with it.
ClientEnds ==
    /\ Client \in up /\ stopping /\ told = Shards
    /\ up' = up \ {Client}
    /\ UNCHANGED <<network, client, chain, told, cStop>>

-----------------------------------------------------------------------------
Next ==
    \/ \E p, q \in Procs : ReadEOF(p, q)
    \/ \E s \in Shards : NewWork(s) \/ commit1(s) \/ handleStop(s) \/ HandleReply(s) \/ SendStop(s)
    \/ \E s, t \in Shards : SendToLeader(s, t)
    \/ ReceiveFinish \/ ClientEnds

Spec == Init /\ [][Next]_vars

\* Goroutines and processes keep running; nobody is obliged to send a message
\* to another leader or to find work.
Fairness ==
    /\ \A p, q \in Procs : WF_vars(ReadEOF(p, q))
    /\ \A s \in Shards : /\ WF_vars(commit1(s)) /\ WF_vars(handleStop(s))
                         /\ WF_vars(HandleReply(s)) /\ WF_vars(SendStop(s))
    /\ WF_vars(ReceiveFinish) /\ WF_vars(ClientEnds)

FairSpec == Spec /\ Fairness

-----------------------------------------------------------------------------
(* Properties *)

\* The type; cStop is only under way to nodes that were told.
TypeOK ==
    /\ up \subseteq Procs /\ conns \subseteq Procs \X Procs /\ stuck \subseteq Procs
    /\ work \subseteq Shards /\ todo \in 0 .. MaxWork
    /\ \A s \in Shards : replies[s] \in Seq(BOOLEAN) /\ Len(replies[s]) <= MaxReplies
    /\ emptyRun \in [Shards -> 0 .. EmptyBlocks]
    /\ zero_count \in 0 .. Limit + 1 /\ all_finish \in BOOLEAN /\ stopping \in BOOLEAN
    /\ told \subseteq Shards /\ cStop \subseteq told

\* The client counts the empty blocks of all shards together (client.go's
\* zero_count) and stops everyone when it has five for each shard.  Whichever
\* shards they came from, and though replies with transactions come in between,
\* one shard at least has then sent five in a row.  (Not every shard, as the
\* client prints: the others may have sent none.)
SomeShardQuiet ==
    all_finish /\ ~stopping => \E s \in Shards : emptyRun[s] = EmptyBlocks

\* A run ends: told by the client, or when a process they are connected to has
\* ended, all processes end, also those that are stuck in TcpDial.
EveryProcessEnds == <>(up = {})
=============================================================================
