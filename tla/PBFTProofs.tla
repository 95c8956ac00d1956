----------------------------- MODULE PBFTProofs -----------------------------
(***************************************************************************)
(* Catch-up in the three-phase protocol, proved for any number of nodes,   *)
(* faults and heights: the primary can answer every request, and a node    *)
(* whose requestLock is held has exactly one request or answer on the way. *)
(***************************************************************************)
EXTENDS PBFT, SequenceTheorems, TLAPS

\* The requests and answers of node n that are in flight.
CatchUp(n) == {m \in msgs : \/ m.type = "RequestBlock" /\ m.from = n
                            \/ m.type = "SendBlock" /\ m.to = n}

\* The primary adds the blocks it proposed one after the other: it is at most
\* one height ahead of its chain, and never waits for a block.
PrimaryInOrder ==
    /\ messagePool[N0] \in {1..(sequenceID[N0] - 1), 1..sequenceID[N0]}
    /\ isReply[N0] = 1..(sequenceID[N0] - 1)
    /\ chain[N0] = [i \in 1..(sequenceID[N0] - 1) |-> i]
    /\ waiting[N0] = NoMsg /\ N0 \notin requestLock

\* Every height a message is about was proposed.
OnlyProposed == \A m \in msgs : m.seq \in messagePool[N0]

\* A waiting handler serves a Commit, of a height that was proposed.
WaitingIsCommit ==
    \A n \in Nodes : waiting[n] # NoMsg =>
        waiting[n].type = "Commit" /\ waiting[n].seq \in messagePool[N0]

\* Requests go to the primary, answers come from it.
Routes == \A m \in msgs : /\ m.type = "RequestBlock" => m.to = N0
                          /\ m.type = "SendBlock" => m.from = N0

\* requestLock of n is held exactly while n has a request or answer in flight,
\* of which there is one.
OneCatchUp ==
    \A n \in Nodes : /\ n \in requestLock <=> CatchUp(n) # {}
                     /\ \A a, b \in CatchUp(n) : a = b

IInv == /\ TypeOK /\ PrimaryInOrder /\ OnlyProposed /\ WaitingIsCommit
        /\ Routes /\ OneCatchUp
-----------------------------------------------------------------------------
LEMMA MessageFields ==
    ASSUME NEW m \in Messages
    PROVE  /\ m.type \in {"PrePrepare", "Prepare", "Commit", "RequestBlock", "SendBlock"}
           /\ m.seq \in Heights /\ m.seq \in Nat \ {0}
           /\ m.from \in Nodes /\ m.to \in Nodes /\ m # NoMsg
           /\ m.type \in {"RequestBlock", "SendBlock"} => m.start \in Nat \ {0}
  BY PBFTConstants DEF Messages, Heights, NoMsg

LEMMA BroadcastTyped ==
    ASSUME NEW type \in {"PrePrepare", "Prepare", "Commit"},
           NEW n \in Nodes, NEW h \in Heights
    PROVE  /\ Broadcast(type, n, h) \subseteq Messages
           /\ \A m \in Broadcast(type, n, h) : m.type = type /\ m.seq = h
  BY DEF Broadcast, Messages

LEMMA CatchUpTyped ==
    ASSUME NEW type \in {"RequestBlock", "SendBlock"},
           NEW n \in Nodes, NEW k \in Nodes, NEW h \in Heights, NEW st \in Nat \ {0}
    PROVE  [type |-> type, seq |-> h, start |-> st, from |-> n, to |-> k] \in Messages
  BY DEF Messages

\* The blocks of an answer are heights.
LEMMA AnswerTyped ==
    ASSUME NEW h \in Heights, NEW st \in Nat \ {0}
    PROVE  [i \in 1..(IF h < st THEN 0 ELSE h - st + 1) |-> st + i - 1] \in Seq(Heights)
<1> DEFINE len == IF h < st THEN 0 ELSE h - st + 1
           f == [i \in 1..len |-> st + i - 1]
<1>1. len \in Nat /\ h \in Nat
  BY PBFTConstants DEF Heights
<1>2. \A i \in 1..len : st + i - 1 \in Heights
  BY PBFTConstants, <1>1 DEF Heights
<1>3. f \in [1..len -> Heights]
  BY <1>2
<1> HIDE DEF len, f
<1>4. f \in Seq(Heights)
  BY <1>1, <1>3
<1> QED BY <1>4 DEF f, len

LEMMA TypeInit == Init => TypeOK
<1> SUFFICES ASSUME Init PROVE TypeOK
  OBVIOUS
<1>1. chain \in [Nodes -> Seq(Heights)]
  BY DEF Init
<1> QED BY <1>1 DEF Init, TypeOK, NoMsg

LEMMA ProposeTypes == ASSUME TypeOK, Propose PROVE TypeOK'
<1>1. sequenceID[N0] \in Heights /\ N0 \in Nodes
  BY PBFTConstants DEF Propose
<1>2. msgs' \subseteq Messages
  BY <1>1, BroadcastTyped DEF Propose, TypeOK
<1>3. messagePool' \in [Nodes -> SUBSET Heights]
  BY <1>1 DEF Propose, TypeOK
<1> QED BY <1>2, <1>3 DEF Propose, TypeOK, votes

LEMMA handlePrePrepareTypes ==
    ASSUME TypeOK, NEW n \in Nodes, NEW m \in msgs, handlePrePrepare(n, m)
    PROVE  TypeOK'
<1>1. m.seq \in Heights
  BY MessageFields DEF TypeOK
<1>2. msgs' \subseteq Messages
  BY <1>1, BroadcastTyped DEF handlePrePrepare, TypeOK
<1>3. messagePool' \in [Nodes -> SUBSET Heights]
  <2>1. [messagePool EXCEPT ![n] = @ \cup {m.seq}] \in [Nodes -> SUBSET Heights]
    BY <1>1 DEF TypeOK
  <2>2. messagePool' = messagePool \/ messagePool' = [messagePool EXCEPT ![n] = @ \cup {m.seq}]
    BY DEF handlePrePrepare
  <2> QED BY <2>1, <2>2 DEF TypeOK
<1> QED BY <1>2, <1>3 DEF handlePrePrepare, TypeOK, votes

LEMMA handlePrepareTypes ==
    ASSUME TypeOK, NEW n \in Nodes, NEW m \in msgs, handlePrepare(n, m)
    PROVE  TypeOK'
<1>1. m.seq \in Heights /\ m.from \in Nodes
  BY MessageFields DEF TypeOK
<1>2. msgs' \subseteq Messages
  BY <1>1, BroadcastTyped DEF handlePrepare, TypeOK
<1>3. prePareConfirmCount' \in [Nodes -> [Heights -> SUBSET Nodes]]
  <2>1. [prePareConfirmCount EXCEPT ![n][m.seq] = @ \cup {m.from}]
            \in [Nodes -> [Heights -> SUBSET Nodes]]
    BY <1>1 DEF TypeOK
  <2>2. \/ prePareConfirmCount' = prePareConfirmCount
        \/ prePareConfirmCount' = [prePareConfirmCount EXCEPT ![n][m.seq] = @ \cup {m.from}]
    BY DEF handlePrepare
  <2> QED BY <2>1, <2>2 DEF TypeOK
<1>4. isCommitBordcast' \in [Nodes -> SUBSET Heights]
  <2>1. [isCommitBordcast EXCEPT ![n] = @ \cup {m.seq}] \in [Nodes -> SUBSET Heights]
    BY <1>1 DEF TypeOK
  <2>2. \/ isCommitBordcast' = isCommitBordcast
        \/ isCommitBordcast' = [isCommitBordcast EXCEPT ![n] = @ \cup {m.seq}]
    BY DEF handlePrepare
  <2> QED BY <2>1, <2>2 DEF TypeOK
<1> QED BY <1>2, <1>3, <1>4 DEF handlePrepare, TypeOK

LEMMA CountCommitTypes ==
    ASSUME TypeOK, NEW n \in Nodes, NEW m \in msgs, CountCommit(n, m)
    PROVE  /\ m.seq \in Heights /\ m.from \in Nodes /\ m.to = n /\ m.type = "Commit"
           /\ commitConfirmCount' \in [Nodes -> [Heights -> SUBSET Nodes]]
<1>1. m.seq \in Heights /\ m.from \in Nodes
  BY MessageFields DEF TypeOK
<1> QED BY <1>1 DEF CountCommit, TypeOK

LEMMA CommitCountedTypes ==
    ASSUME TypeOK, NEW n \in Nodes, NEW m \in msgs, CommitCounted(n, m)
    PROVE  TypeOK'
<1>1. commitConfirmCount' \in [Nodes -> [Heights -> SUBSET Nodes]]
  BY CountCommitTypes DEF CommitCounted
<1> QED BY <1>1 DEF CommitCounted, TypeOK

LEMMA CommitAddsBlockTypes ==
    ASSUME TypeOK, NEW n \in Nodes, NEW m \in msgs, CommitAddsBlock(n, m)
    PROVE  TypeOK'
<1>1. m.seq \in Heights /\ commitConfirmCount' \in [Nodes -> [Heights -> SUBSET Nodes]]
  BY CountCommitTypes DEF CommitAddsBlock
<1>2. chain' \in [Nodes -> Seq(Heights)]
  <2>1. Append(chain[n], m.seq) \in Seq(Heights)
    BY <1>1 DEF TypeOK
  <2> QED BY <2>1 DEF CommitAddsBlock, TypeOK
<1>3. isReply' \in [Nodes -> SUBSET Heights]
  BY <1>1 DEF CommitAddsBlock, BlockDone, TypeOK
<1>4. sequenceID' \in [Nodes -> Nat \ {0}]
  BY DEF CommitAddsBlock, BlockDone, TypeOK
<1> QED BY <1>1, <1>2, <1>3, <1>4 DEF CommitAddsBlock, TypeOK

LEMMA CommitMissesBlockTypes ==
    ASSUME TypeOK, NEW n \in Nodes, NEW m \in msgs, CommitMissesBlock(n, m)
    PROVE  TypeOK'
<1>1. m.seq \in Heights /\ commitConfirmCount' \in [Nodes -> [Heights -> SUBSET Nodes]]
  BY CountCommitTypes DEF CommitMissesBlock
<1>2. isReply' \in [Nodes -> SUBSET Heights]
  BY <1>1 DEF CommitMissesBlock, TypeOK
<1>3. waiting' \in [Nodes -> Messages \cup {NoMsg}]
  BY DEF CommitMissesBlock, TypeOK
<1> QED BY <1>1, <1>2, <1>3 DEF CommitMissesBlock, TypeOK, NoMsg

LEMMA CommitRequestsTypes ==
    ASSUME TypeOK, NEW n \in Nodes, CommitRequests(n)
    PROVE  TypeOK'
<1>1. waiting[n] \in Messages
  BY DEF CommitRequests, TypeOK
<1>2. waiting[n].seq \in Heights /\ sequenceID[n] \in Nat \ {0}
  BY <1>1, MessageFields DEF TypeOK
<1>3. [type |-> "RequestBlock", seq |-> waiting[n].seq, start |-> sequenceID[n],
       from |-> n, to |-> N0] \in Messages
  BY <1>2, PBFTConstants, CatchUpTyped
<1>4. msgs' \subseteq Messages
  BY <1>3 DEF CommitRequests, RequestBlocks, TypeOK
<1>5. requestLock' \subseteq Nodes
  BY DEF CommitRequests, RequestBlocks, TypeOK
<1>6. waiting' \in [Nodes -> Messages \cup {NoMsg}]
  BY DEF CommitRequests, TypeOK
<1> QED BY <1>4, <1>5, <1>6 DEF CommitRequests, TypeOK, votes, NoMsg

LEMMA handleRequestBlockTypes ==
    ASSUME TypeOK, NEW m \in msgs, handleRequestBlock(m)
    PROVE  TypeOK'
<1>1. m.seq \in Heights /\ m.start \in Nat \ {0} /\ m.from \in Nodes
  BY MessageFields DEF TypeOK, handleRequestBlock
<1>2. [type |-> "SendBlock", seq |-> m.seq, start |-> m.start,
       from |-> N0, to |-> m.from] \in Messages
  BY <1>1, PBFTConstants, CatchUpTyped
<1>3. msgs' \subseteq Messages
  BY <1>2 DEF handleRequestBlock, TypeOK
<1> QED BY <1>3 DEF handleRequestBlock, TypeOK, votes

LEMMA handleSendBlockTypes ==
    ASSUME TypeOK, NEW n \in Nodes, NEW m \in msgs, handleSendBlock(n, m)
    PROVE  TypeOK'
<1>1. m.seq \in Heights /\ m.seq \in Nat /\ m.start \in Nat \ {0}
  BY MessageFields DEF TypeOK, handleSendBlock
<1> DEFINE answer == [i \in 1..(IF m.seq < m.start THEN 0 ELSE m.seq - m.start + 1)
                         |-> m.start + i - 1]
<1>2. answer \in Seq(Heights)
  BY <1>1, AnswerTyped
<1>3. chain' = [chain EXCEPT ![n] = @ \o answer]
  BY DEF handleSendBlock
<1> HIDE DEF answer
<1>4. chain' \in [Nodes -> Seq(Heights)]
  <2>1. chain[n] \o answer \in Seq(Heights)
    BY <1>2, ConcatProperties DEF TypeOK
  <2> QED BY <1>3, <2>1 DEF TypeOK
<1>5. sequenceID' \in [Nodes -> Nat \ {0}]
  <2>1. m.seq + 1 \in Nat \ {0}
    BY <1>1
  <2> QED BY <2>1 DEF handleSendBlock, TypeOK
<1>6. requestLock' \subseteq Nodes /\ msgs' \subseteq Messages
  BY DEF handleSendBlock, TypeOK
<1> QED BY <1>4, <1>5, <1>6 DEF handleSendBlock, TypeOK, votes

LEMMA TypeStep == TypeOK /\ [Next]_vars => TypeOK'
<1> SUFFICES ASSUME TypeOK, [Next]_vars PROVE TypeOK'
  OBVIOUS
<1>1. CASE UNCHANGED vars
  BY <1>1 DEF TypeOK, vars
<1>2. ASSUME NEW n \in Nodes, NodeStep(n) PROVE TypeOK'
  BY <1>2, handlePrePrepareTypes, handlePrepareTypes, CommitCountedTypes,
     CommitAddsBlockTypes, CommitMissesBlockTypes, handleSendBlockTypes,
     CommitRequestsTypes DEF NodeStep
<1> QED
  BY <1>1, <1>2, ProposeTypes, handleRequestBlockTypes DEF Next

\* The node's variables, the messages in flight and the blocks stored keep
\* their types: in particular every block a node stores, out of a Commit or
\* out of an answer, is one of a height that may be proposed.
THEOREM PBFTTypes == Spec => []TypeOK
  BY TypeInit, TypeStep, PTL DEF Spec
-----------------------------------------------------------------------------
LEMMA InvInit == Init => IInv
<1> SUFFICES ASSUME Init PROVE IInv
  OBVIOUS
<1>1. TypeOK
  BY TypeInit
<1>2. N0 \in Nodes /\ sequenceID[N0] = 1 /\ 1..(sequenceID[N0] - 1) = {}
  BY PBFTConstants DEF Init
<1>3. PrimaryInOrder
  <2>1. <<>> = [i \in {} |-> i]
    OBVIOUS
  <2> QED BY <1>2, <2>1 DEF Init, PrimaryInOrder
<1>4. OnlyProposed /\ Routes /\ OneCatchUp /\ WaitingIsCommit
  BY DEF Init, OnlyProposed, Routes, OneCatchUp, CatchUp, WaitingIsCommit
<1> QED BY <1>1, <1>3, <1>4 DEF IInv

CatchUpTypes == {"RequestBlock", "SendBlock"}

\* A step of the three phases: it sends and receives no request or answer,
\* and what it sends is about a height that was proposed.
LEMMA ThreePhases ==
    ASSUME IInv, messagePool[N0] \subseteq messagePool'[N0], requestLock' = requestLock,
           \A x \in msgs \ msgs' : x.type \notin CatchUpTypes,
           \A x \in msgs' \ msgs : x.type \notin CatchUpTypes /\ x.seq \in messagePool'[N0]
    PROVE  OnlyProposed' /\ Routes' /\ OneCatchUp'
<1>1. OnlyProposed'
  BY DEF IInv, OnlyProposed
<1>2. Routes'
  BY DEF IInv, Routes, CatchUpTypes
<1>3. \A n \in Nodes : CatchUp(n)' = CatchUp(n)
  BY DEF CatchUp, CatchUpTypes
<1>4. OneCatchUp'
  BY <1>3 DEF IInv, OneCatchUp
<1> QED BY <1>1, <1>2, <1>4

LEMMA ProposeStep ==
    ASSUME IInv, Propose
    PROVE  PrimaryInOrder' /\ OnlyProposed' /\ WaitingIsCommit' /\ Routes' /\ OneCatchUp'
<1>1. /\ N0 \in Nodes /\ sequenceID[N0] \in Heights /\ sequenceID[N0] \in Nat \ {0}
      /\ sequenceID[N0] \notin messagePool[N0]
      /\ messagePool'[N0] = messagePool[N0] \cup {sequenceID[N0]}
  BY PBFTConstants DEF Propose, IInv, TypeOK
<1>2. messagePool[N0] = 1..(sequenceID[N0] - 1)
  BY <1>1 DEF IInv, PrimaryInOrder
<1>3. PrimaryInOrder'
  <2>1. messagePool'[N0] = 1..sequenceID[N0]
    BY <1>1, <1>2
  <2> QED BY <2>1 DEF IInv, PrimaryInOrder, Propose, NoMsg
<1>4. OnlyProposed' /\ Routes' /\ OneCatchUp'
  <2>1. \A x \in msgs' \ msgs : x.type = "PrePrepare" /\ x.seq = sequenceID[N0]
    BY <1>1, BroadcastTyped DEF Propose
  <2>2. msgs \subseteq msgs' /\ requestLock' = requestLock
    BY DEF Propose
  <2> QED BY <1>1, <2>1, <2>2, ThreePhases DEF CatchUpTypes
<1>5. WaitingIsCommit'
  BY <1>1 DEF IInv, WaitingIsCommit, Propose, NoMsg
<1> QED BY <1>3, <1>4, <1>5

LEMMA handlePrePrepareStep ==
    ASSUME IInv, NEW n \in Nodes, NEW m \in msgs, handlePrePrepare(n, m)
    PROVE  PrimaryInOrder' /\ OnlyProposed' /\ WaitingIsCommit' /\ Routes' /\ OneCatchUp'
<1>1. /\ N0 \in Nodes /\ m.seq \in messagePool[N0] /\ m.seq \in Heights
      /\ m.type = "PrePrepare"
  BY PBFTConstants, MessageFields DEF handlePrePrepare, IInv, TypeOK, OnlyProposed
<1>2. messagePool'[N0] = messagePool[N0]
  <2>1. [messagePool EXCEPT ![n] = @ \cup {m.seq}][N0] = messagePool[N0]
    BY <1>1 DEF IInv, TypeOK
  <2>2. \/ messagePool' = messagePool
        \/ messagePool' = [messagePool EXCEPT ![n] = @ \cup {m.seq}]
    BY DEF handlePrePrepare
  <2> QED BY <2>1, <2>2
<1>3. PrimaryInOrder' /\ WaitingIsCommit'
  BY <1>2 DEF IInv, PrimaryInOrder, WaitingIsCommit, handlePrePrepare, NoMsg
<1>4. OnlyProposed' /\ Routes' /\ OneCatchUp'
  <2>1. \A x \in msgs' \ msgs : x.type = "Prepare" /\ x.seq = m.seq
    BY <1>1, BroadcastTyped DEF handlePrePrepare
  <2>2. msgs \ msgs' \subseteq {m} /\ requestLock' = requestLock
    BY DEF handlePrePrepare
  <2> QED BY <1>1, <1>2, <2>1, <2>2, ThreePhases DEF CatchUpTypes
<1> QED BY <1>3, <1>4

LEMMA handlePrepareStep ==
    ASSUME IInv, NEW n \in Nodes, NEW m \in msgs, handlePrepare(n, m)
    PROVE  PrimaryInOrder' /\ OnlyProposed' /\ WaitingIsCommit' /\ Routes' /\ OneCatchUp'
<1>1. m.seq \in messagePool[N0] /\ m.seq \in Heights /\ m.type = "Prepare"
  BY MessageFields DEF handlePrepare, IInv, TypeOK, OnlyProposed
<1>2. PrimaryInOrder' /\ WaitingIsCommit'
  BY DEF IInv, PrimaryInOrder, WaitingIsCommit, handlePrepare, NoMsg
<1>3. OnlyProposed' /\ Routes' /\ OneCatchUp'
  <2>1. \A x \in msgs' \ msgs : x.type = "Commit" /\ x.seq = m.seq
    BY <1>1, BroadcastTyped DEF handlePrepare
  <2>2. msgs \ msgs' \subseteq {m} /\ UNCHANGED <<requestLock, messagePool>>
    BY DEF handlePrepare
  <2> QED BY <1>1, <2>1, <2>2, ThreePhases DEF CatchUpTypes
<1> QED BY <1>2, <1>3

LEMMA CommitCountedStep ==
    ASSUME IInv, NEW n \in Nodes, NEW m \in msgs, CommitCounted(n, m)
    PROVE  PrimaryInOrder' /\ OnlyProposed' /\ WaitingIsCommit' /\ Routes' /\ OneCatchUp'
<1>1. PrimaryInOrder' /\ WaitingIsCommit'
  BY DEF IInv, PrimaryInOrder, WaitingIsCommit, CommitCounted, NoMsg
<1>2. OnlyProposed' /\ Routes' /\ OneCatchUp'
  <2>1. m.type = "Commit" /\ msgs' = msgs \ {m} /\ UNCHANGED <<requestLock, messagePool>>
    BY DEF CommitCounted, CountCommit
  <2> QED BY <2>1, ThreePhases DEF CatchUpTypes
<1> QED BY <1>1, <1>2

LEMMA CommitAddsBlockStep ==
    ASSUME IInv, NEW n \in Nodes, NEW m \in msgs, CommitAddsBlock(n, m)
    PROVE  PrimaryInOrder' /\ OnlyProposed' /\ WaitingIsCommit' /\ Routes' /\ OneCatchUp'
<1> DEFINE h == sequenceID[N0]
<1>t. N0 \in Nodes /\ h \in Nat \ {0}
  BY PBFTConstants DEF IInv, TypeOK
<1>1. PrimaryInOrder'
  <2>1. CASE n # N0
    BY <1>t, <2>1 DEF IInv, TypeOK, PrimaryInOrder, CommitAddsBlock, BlockDone, NoMsg
  <2>2. CASE n = N0
    <3>1. m.seq \in messagePool[N0] \ (1..(h - 1))
      BY <2>2 DEF CommitAddsBlock, IInv, PrimaryInOrder
    <3>2. m.seq = h /\ messagePool[N0] = 1..h
      BY <1>t, <3>1 DEF IInv, PrimaryInOrder
    <3>3. /\ sequenceID'[N0] = h + 1 /\ isReply'[N0] = isReply[N0] \cup {h}
          /\ chain'[N0] = Append(chain[N0], h)
          /\ messagePool'[N0] = messagePool[N0] /\ UNCHANGED <<waiting, requestLock>>
      BY <1>t, <2>2, <3>2 DEF CommitAddsBlock, BlockDone, IInv, TypeOK
    <3>4. /\ isReply[N0] = 1..(h - 1) /\ chain[N0] = [i \in 1..(h - 1) |-> i]
          /\ waiting[N0] = NoMsg /\ N0 \notin requestLock
      BY DEF IInv, PrimaryInOrder
    <3> HIDE DEF h
    <3>5. isReply'[N0] = 1..h /\ sequenceID'[N0] - 1 = h
      BY <1>t, <3>3, <3>4
    <3>6. chain'[N0] = [i \in 1..h |-> i]
      <4>1. chain[N0] \in Seq(Nat) /\ Len(chain[N0]) = h - 1
        BY <1>t, <3>4
      <4>2. /\ Len(chain'[N0]) = h /\ chain'[N0] \in Seq(Nat)
            /\ \A i \in 1..h : chain'[N0][i] = i
        BY <1>t, <3>3, <3>4, <4>1
      <4> QED BY <4>2
    <3> QED BY <3>2, <3>3, <3>4, <3>5, <3>6 DEF PrimaryInOrder, NoMsg
  <2> QED BY <2>1, <2>2
<1>2. WaitingIsCommit'
  BY DEF IInv, WaitingIsCommit, CommitAddsBlock, NoMsg
<1>3. OnlyProposed' /\ Routes' /\ OneCatchUp'
  <2>1. m.type = "Commit" /\ msgs' = msgs \ {m} /\ UNCHANGED <<requestLock, messagePool>>
    BY DEF CommitAddsBlock, CountCommit
  <2> QED BY <2>1, ThreePhases DEF CatchUpTypes
<1> QED BY <1>1, <1>2, <1>3

\* The primary never comes here: it has every block a Commit is about.
LEMMA CommitMissesBlockStep ==
    ASSUME IInv, NEW n \in Nodes, NEW m \in msgs, CommitMissesBlock(n, m)
    PROVE  PrimaryInOrder' /\ OnlyProposed' /\ WaitingIsCommit' /\ Routes' /\ OneCatchUp'
<1>1. n # N0 /\ m.seq \in messagePool[N0] /\ m.type = "Commit"
  BY DEF CommitMissesBlock, CountCommit, IInv, OnlyProposed
<1>2. /\ isReply'[N0] = isReply[N0] /\ waiting'[N0] = waiting[N0]
      /\ \A k \in Nodes : waiting'[k] \in {waiting[k], m}
  BY <1>1, PBFTConstants DEF CommitMissesBlock, IInv, TypeOK
<1>3. PrimaryInOrder'
  BY <1>2 DEF IInv, PrimaryInOrder, CommitMissesBlock, NoMsg
<1>4. WaitingIsCommit'
  BY <1>1, <1>2 DEF IInv, WaitingIsCommit, CommitMissesBlock, NoMsg
<1>5. OnlyProposed' /\ Routes' /\ OneCatchUp'
  BY ThreePhases DEF CommitMissesBlock
<1> QED BY <1>3, <1>4, <1>5

LEMMA CommitRequestsStep ==
    ASSUME IInv, NEW n \in Nodes, CommitRequests(n)
    PROVE  PrimaryInOrder' /\ OnlyProposed' /\ WaitingIsCommit' /\ Routes' /\ OneCatchUp'
<1> DEFINE req == [type |-> "RequestBlock", seq |-> waiting[n].seq,
                   start |-> sequenceID[n], from |-> n, to |-> N0]
<1>1. /\ waiting[n] # NoMsg /\ waiting[n].type = "Commit" /\ waiting[n].seq \in messagePool[N0]
      /\ n # N0 /\ n \notin requestLock
  BY DEF CommitRequests, IInv, WaitingIsCommit, PrimaryInOrder
<1>2. msgs' = (msgs \ {waiting[n]}) \cup {req}
  BY <1>1 DEF CommitRequests, RequestBlocks
<1>3. req.type = "RequestBlock" /\ req.seq = waiting[n].seq /\ req.from = n /\ req.to = N0
  OBVIOUS
<1> HIDE DEF req
<1>4. /\ waiting'[N0] = waiting[N0] /\ \A k \in Nodes : waiting'[k] \in {waiting[k], NoMsg}
      /\ messagePool' = messagePool /\ requestLock' = requestLock \cup {n}
  BY <1>1, PBFTConstants DEF CommitRequests, RequestBlocks, IInv, TypeOK
<1>5. PrimaryInOrder'
  BY <1>1, <1>4 DEF IInv, PrimaryInOrder, CommitRequests, NoMsg
<1>6. WaitingIsCommit'
  BY <1>4 DEF IInv, WaitingIsCommit, NoMsg
<1>7. OnlyProposed' /\ Routes'
  BY <1>1, <1>2, <1>3, <1>4 DEF IInv, OnlyProposed, Routes
<1>8. OneCatchUp'
  <2>1. CatchUp(n) = {}
    BY <1>1 DEF IInv, OneCatchUp
  <2>2. CatchUp(n)' = {req}
    BY <1>1, <1>2, <1>3, <2>1 DEF CatchUp
  <2>3. \A k \in Nodes \ {n} : CatchUp(k)' = CatchUp(k)
    BY <1>1, <1>2, <1>3 DEF CatchUp
  <2> QED BY <1>4, <2>2, <2>3 DEF IInv, OneCatchUp
<1> QED BY <1>5, <1>6, <1>7, <1>8

LEMMA handleRequestBlockStep ==
    ASSUME IInv, NEW m \in msgs, handleRequestBlock(m)
    PROVE  PrimaryInOrder' /\ OnlyProposed' /\ WaitingIsCommit' /\ Routes' /\ OneCatchUp'
<1> DEFINE ans == [type |-> "SendBlock", seq |-> m.seq, start |-> m.start,
                   from |-> N0, to |-> m.from]
<1>1. m.type = "RequestBlock" /\ m.seq \in messagePool[N0] /\ m.from \in Nodes
  BY MessageFields DEF handleRequestBlock, IInv, TypeOK, OnlyProposed
<1>2. msgs' = (msgs \ {m}) \cup {ans} /\ UNCHANGED <<messagePool, requestLock>>
  BY DEF handleRequestBlock
<1>3. ans.type = "SendBlock" /\ ans.seq = m.seq /\ ans.from = N0 /\ ans.to = m.from
  OBVIOUS
<1> HIDE DEF ans
<1>4. PrimaryInOrder' /\ WaitingIsCommit'
  BY DEF IInv, PrimaryInOrder, WaitingIsCommit, handleRequestBlock, NoMsg
<1>5. OnlyProposed' /\ Routes'
  BY <1>1, <1>2, <1>3 DEF IInv, OnlyProposed, Routes
<1>6. OneCatchUp'
  <2>1. CatchUp(m.from) = {m}
    BY <1>1 DEF IInv, OneCatchUp, CatchUp
  <2>2. CatchUp(m.from)' = {ans}
    BY <1>1, <1>2, <1>3, <2>1 DEF CatchUp
  <2>3. \A k \in Nodes \ {m.from} : CatchUp(k)' = CatchUp(k)
    BY <1>1, <1>2, <1>3 DEF CatchUp
  <2> QED BY <1>1, <1>2, <2>1, <2>2, <2>3 DEF IInv, OneCatchUp
<1> QED BY <1>4, <1>5, <1>6

LEMMA handleSendBlockStep ==
    ASSUME IInv, NEW n \in Nodes, NEW m \in msgs, handleSendBlock(n, m)
    PROVE  PrimaryInOrder' /\ OnlyProposed' /\ WaitingIsCommit' /\ Routes' /\ OneCatchUp'
<1>1. /\ m.type = "SendBlock" /\ m.to = n /\ msgs' = msgs \ {m}
      /\ requestLock' = requestLock \ {n} /\ UNCHANGED <<messagePool, waiting, isReply>>
  BY DEF handleSendBlock
<1>2. CatchUp(n) = {m} /\ CatchUp(n)' = {}
  BY <1>1 DEF IInv, OneCatchUp, CatchUp
<1>3. n # N0 /\ N0 \in Nodes
  BY <1>2, PBFTConstants DEF IInv, OneCatchUp, PrimaryInOrder
<1>4. PrimaryInOrder'
  <2>1. sequenceID'[N0] = sequenceID[N0] /\ chain'[N0] = chain[N0]
    BY <1>3 DEF handleSendBlock, IInv, TypeOK
  <2> QED BY <1>1, <2>1 DEF IInv, PrimaryInOrder, NoMsg
<1>5. OnlyProposed' /\ Routes' /\ WaitingIsCommit'
  BY <1>1 DEF IInv, OnlyProposed, Routes, WaitingIsCommit, NoMsg
<1>6. OneCatchUp'
  <2>1. \A k \in Nodes \ {n} : CatchUp(k)' = CatchUp(k)
    BY <1>1 DEF CatchUp
  <2> QED BY <1>1, <1>2, <2>1 DEF IInv, OneCatchUp
<1> QED BY <1>4, <1>5, <1>6
-----------------------------------------------------------------------------
LEMMA InvStep == IInv /\ [Next]_vars => IInv'
<1> SUFFICES ASSUME IInv, [Next]_vars PROVE IInv'
  OBVIOUS
<1>1. TypeOK'
  BY TypeStep DEF IInv
<1> DEFINE Kept == /\ PrimaryInOrder' /\ OnlyProposed' /\ WaitingIsCommit'
                   /\ Routes' /\ OneCatchUp'
<1>2. ASSUME NEW n \in Nodes, NodeStep(n) PROVE Kept
  BY <1>2, handlePrePrepareStep, handlePrepareStep, CommitCountedStep,
     CommitAddsBlockStep, CommitMissesBlockStep, handleSendBlockStep,
     CommitRequestsStep DEF NodeStep
<1>3. CASE Next
  <2>1. Kept
    BY <1>2, <1>3, ProposeStep, handleRequestBlockStep DEF Next
  <2> QED BY <1>1, <2>1 DEF IInv
<1>4. CASE UNCHANGED vars
  <2>1. Kept
    BY <1>4 DEF vars, IInv, PrimaryInOrder, OnlyProposed, WaitingIsCommit, Routes,
                OneCatchUp, CatchUp, NoMsg
  <2> QED BY <1>1, <2>1 DEF IInv
<1> QED BY <1>3, <1>4

\* The inductive invariant: the primary is at most one proposal ahead of its
\* chain, every message is about a proposed height, and each node has at most
\* one request or answer in flight, while its requestLock is held.
THEOREM PBFTInvariant == Spec => []IInv
  BY InvInit, InvStep, PTL DEF Spec

LEMMA InvPrimary == IInv => PrimaryHasRequested
<1> SUFFICES ASSUME IInv, NEW m \in msgs, m.type = "RequestBlock"
             PROVE  m.start..m.seq \subseteq messagePool[N0]
  BY DEF PrimaryHasRequested
<1>1. m.start \in Nat \ {0} /\ m.seq \in Nat /\ m.seq \in messagePool[N0]
  BY MessageFields DEF IInv, TypeOK, OnlyProposed
<1>2. sequenceID[N0] \in Nat
  BY PBFTConstants DEF IInv, TypeOK
<1>3. PICK k \in Int : messagePool[N0] = 1..k
  BY <1>2 DEF IInv, PrimaryInOrder
<1> QED BY <1>1, <1>3

LEMMA InvRequest == IInv => RequestOnTheWay
<1> SUFFICES ASSUME IInv, NEW n \in Nodes
             PROVE  n \in requestLock <=>
                      \E m \in CatchUp(n) : Readable(m) \/ waiting[n].from = N0
  BY DEF RequestOnTheWay, CatchUp
<1>1. n \in requestLock <=> CatchUp(n) # {}
  BY DEF IInv, OneCatchUp
<1>2. ASSUME NEW m \in CatchUp(n)
      PROVE  Readable(m) \/ waiting[n].from = N0
  <2>1. CASE m.type = "RequestBlock"
    BY <1>2, <2>1 DEF CatchUp, IInv, Routes, PrimaryInOrder, Readable
  <2>2. CASE m.type = "SendBlock"
    BY <1>2, <2>2 DEF CatchUp, IInv, Routes, Readable
  <2> QED BY <1>2, <2>1, <2>2 DEF CatchUp
<1> QED BY <1>1, <1>2

\* handleRequestBlock of the primary always finds the blocks it is asked for
\* in its messagePool, whatever the nodes missed and in whatever order the
\* messages arrive.
THEOREM PrimaryAlwaysHasRequested == Spec => []PrimaryHasRequested
  BY PBFTInvariant, InvPrimary, PTL

\* A handler of handleCommit that waits for requestLock waits for a request or
\* an answer that is on the way and can be read, unless it blocks the very
\* connection the answer comes on.
THEOREM RequestAlwaysOnTheWay == Spec => []RequestOnTheWay
  BY PBFTInvariant, InvRequest, PTL

\* The primary stores every height exactly once and in order: the duplicate
\* and out-of-order blocks that handleCommit lets through are those of other
\* nodes.
THEOREM PrimaryChainInOrder ==
    Spec => [](chain[N0] = [i \in 1..(sequenceID[N0] - 1) |-> i])
<1>1. IInv => chain[N0] = [i \in 1..(sequenceID[N0] - 1) |-> i]
  BY DEF IInv, PrimaryInOrder
<1> QED BY <1>1, PBFTInvariant, PTL
=============================================================================
