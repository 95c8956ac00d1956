---------------------------- MODULE ChainStorage ----------------------------
(***************************************************************************)
(* How one node keeps its chain on disk and comes back after a crash.      *)
(*                                                                         *)
(* Two databases are written.  The block database (bbolt, storage.go) has  *)
(* a bucket of blocks, a bucket of headers and the hash of the newest      *)
(* block, each written in a transaction of its own.  The trie database     *)
(* (leveldb) holds the state tries, a trie being found by its root.  A     *)
(* crash may fall between any two of these writes; what is in memory is    *)
(* lost and what was written stays.                                        *)
(*                                                                         *)
(* A block is abstracted to its hash (a number no other block has), its    *)
(* height, the hashes of its ancestors (which its parent hash commits to)  *)
(* and its state root.                                                     *)
(***************************************************************************)
EXTENDS Naturals, FiniteSets

CONSTANTS MaxBlocks,   \* bound: blocks generated, the lost ones included
          MaxCrashes   \* bound: crashes

ASSUME StorageBounds == MaxBlocks \in Nat /\ MaxCrashes \in Nat

VARIABLES
    blocks,            \* blocksBucket
    headers,           \* blockHeaderBucket: the hashes it has a header for
    newestBlockHash,   \* newestBlockHashBucket: a hash, or NoHash
    triedb,            \* the roots whose trie is in the trie database
    CurrentBlock,      \* bc.CurrentBlock (memory)
    sequenceID,        \* p.sequenceID (memory)
    pc,                \* where the node is in start-up or in AddBlock
    adding,            \* the block start-up or AddBlock is writing
    made,              \* blocks generated so far: the next hash
    replied,           \* history: the blocks the client was told of
    crashes            \* crashes so far

vars == <<blocks, headers, newestBlockHash, triedb, CurrentBlock, sequenceID,
          pc, adding, made, replied, crashes>>
disk == <<blocks, headers, newestBlockHash, triedb>>

\* The genesis block has fixed contents, so it has the same hash every time.
Genesis == [hash |-> 1, num |-> 0, past |-> {}, root |-> 1]
NoHash  == 0
NoBlock == [hash |-> NoHash, num |-> 0, past |-> {}, root |-> 0]

Block == [hash : Nat, num : Nat, past : SUBSET Nat, root : Nat]

\* What GetBlock finds under a hash: one block at most, hashes being unique.
GetBlock(h) == {b \in blocks : b.hash = h}

Init ==
    /\ blocks = {} /\ headers = {} /\ newestBlockHash = NoHash /\ triedb = {}
    /\ CurrentBlock = NoBlock /\ sequenceID = 0
    /\ pc = "down" /\ adding = NoBlock
    /\ made = 1 /\ replied = {} /\ crashes = 0
-----------------------------------------------------------------------------
\* (mutant: a stored block without a newest hash is not taken for an empty chain)
StartFromGenesisFresh ==
    /\ pc = "down" /\ newestBlockHash = NoHash /\ blocks = {}
    /\ triedb' = triedb \cup {Genesis.root}
    /\ adding' = Genesis
    /\ pc' = "Storage.AddBlock"
    /\ UNCHANGED <<blocks, headers, newestBlockHash, CurrentBlock, sequenceID,
                   made, replied, crashes>>

\* NewBlockChain on an empty block database: the genesis trie is committed
\* first (genesisStateTree), then AddGenesisBlock writes the block.
StartFromGenesis ==
    /\ pc = "down" /\ newestBlockHash = NoHash
    /\ triedb' = triedb \cup {Genesis.root}
    /\ adding' = Genesis
    /\ pc' = "Storage.AddBlock"
    /\ UNCHANGED <<blocks, headers, newestBlockHash, CurrentBlock, sequenceID,
                   made, replied, crashes>>

\* NewBlockChain finds the newest block and its state trie.
StartFromDisk ==
    /\ pc = "down" /\ newestBlockHash # NoHash
    /\ \E b \in GetBlock(newestBlockHash) :
          /\ b.root \in triedb
          /\ CurrentBlock' = b
          /\ sequenceID' = b.num + 1
    /\ pc' = "idle"
    /\ UNCHANGED <<disk, adding, made, replied, crashes>>

\* NewBlockChain panics: no block under the newest hash, or no trie under its
\* state root.  Nothing on disk changes, so every later start does the same.
StartPanics ==
    /\ pc = "down" /\ newestBlockHash # NoHash
    /\ \A b \in GetBlock(newestBlockHash) : b.root \notin triedb
    /\ pc' = "panicked"
    /\ UNCHANGED <<disk, CurrentBlock, sequenceID, adding, made, replied, crashes>>

\* GenerateBlock builds on the state of CurrentBlock; the trie is hashed but
\* not written ("0" asks for that).  A block without effect keeps the root.
GenerateBlock ==
    /\ pc = "idle" /\ made <= MaxBlocks
    /\ \E root \in {made + 1, CurrentBlock.root} :
          adding' = [hash |-> made + 1, num |-> CurrentBlock.num + 1,
                     past |-> CurrentBlock.past \cup {CurrentBlock.hash},
                     root |-> root]
    /\ made' = made + 1
    /\ pc' = "Storage.AddBlock"
    /\ UNCHANGED <<disk, CurrentBlock, sequenceID, replied, crashes>>

\* Storage.AddBlock, first transaction: the block itself.
StorageAddBlock ==
    /\ pc = "Storage.AddBlock"
    /\ blocks' = blocks \cup {adding}
    /\ pc' = "AddBlockHeader"
    /\ UNCHANGED <<headers, newestBlockHash, triedb, CurrentBlock, sequenceID,
                   adding, made, replied, crashes>>

\* Second transaction: the header.
AddBlockHeader ==
    /\ pc = "AddBlockHeader"
    /\ headers' = headers \cup {adding.hash}
    /\ pc' = "UpdateNewestBlockHash"
    /\ UNCHANGED <<blocks, newestBlockHash, triedb, CurrentBlock, sequenceID,
                   adding, made, replied, crashes>>

\* (mutant: the client is told as soon as the block is stored)
UpdateNewestBlockHashAndReply ==
    /\ pc = "UpdateNewestBlockHash"
    /\ newestBlockHash' = adding.hash
    /\ replied' = replied \cup {adding.hash}
    /\ pc' = IF adding = Genesis THEN "CurrentBlock" ELSE "getUpdatedTreeOfState"
    /\ UNCHANGED <<blocks, headers, triedb, CurrentBlock, sequenceID, adding,
                   made, crashes>>

\* Third transaction: the newest hash.  For the genesis block AddGenesisBlock
\* is then left with reading the block back; its trie is already there.
UpdateNewestBlockHash ==
    /\ pc = "UpdateNewestBlockHash"
    /\ newestBlockHash' = adding.hash
    /\ pc' = IF adding = Genesis THEN "CurrentBlock" ELSE "getUpdatedTreeOfState"
    /\ UNCHANGED <<blocks, headers, triedb, CurrentBlock, sequenceID, adding,
                   made, replied, crashes>>

\* (mutant: the state is only hashed, as for a block being generated)
getUpdatedTreeOfStateHash ==
    /\ pc = "getUpdatedTreeOfState"
    /\ pc' = "CurrentBlock"
    /\ UNCHANGED <<disk, CurrentBlock, sequenceID, adding, made, replied, crashes>>

\* BlockChain.AddBlock writes the new state (commit = 1).  An empty node set
\* (the root did not change) writes nothing: that root is already there.
getUpdatedTreeOfState ==
    /\ pc = "getUpdatedTreeOfState"
    /\ triedb' = triedb \cup {adding.root}
    /\ pc' = "CurrentBlock"
    /\ UNCHANGED <<blocks, headers, newestBlockHash, CurrentBlock, sequenceID,
                   adding, made, replied, crashes>>

\* The block becomes CurrentBlock; after the genesis block NewPBFT sets the
\* sequence number, after any other commit1 goes on to the reply.
SetCurrentBlock ==
    /\ pc = "CurrentBlock"
    /\ CurrentBlock' = adding
    /\ IF adding = Genesis
       THEN pc' = "idle" /\ sequenceID' = adding.num + 1
       ELSE pc' = "reply" /\ UNCHANGED sequenceID
    /\ UNCHANGED <<disk, adding, made, replied, crashes>>

\* commit1 tells the client of the block and counts it.
Reply ==
    /\ pc = "reply"
    /\ replied' = replied \cup {CurrentBlock.hash}
    /\ sequenceID' = sequenceID + 1
    /\ pc' = "idle"
    /\ UNCHANGED <<disk, CurrentBlock, adding, made, crashes>>

\* The process dies: memory is lost, the databases stay as they are.
Crash ==
    /\ pc \notin {"down", "panicked"} /\ crashes < MaxCrashes
    /\ pc' = "down" /\ crashes' = crashes + 1
    /\ CurrentBlock' = NoBlock /\ sequenceID' = 0 /\ adding' = NoBlock
    /\ UNCHANGED <<disk, made, replied>>

NodeStep ==
    \/ StartFromGenesis \/ StartFromDisk \/ StartPanics
    \/ GenerateBlock \/ StorageAddBlock \/ AddBlockHeader
    \/ UpdateNewestBlockHash \/ getUpdatedTreeOfState \/ SetCurrentBlock \/ Reply

Next == NodeStep \/ Crash

Spec == Init /\ [][Next]_vars

\* A process that is not dead goes on; crashes are not fair.
FairSpec == Spec /\ WF_vars(NodeStep)
-----------------------------------------------------------------------------
TypeOK ==
    /\ blocks \subseteq Block
    /\ headers \subseteq Nat
    /\ newestBlockHash \in Nat
    /\ triedb \subseteq Nat
    /\ CurrentBlock \in Block /\ adding \in Block
    /\ sequenceID \in Nat /\ made \in Nat /\ crashes \in Nat
    /\ replied \subseteq Nat
    /\ pc \in {"down", "idle", "panicked", "Storage.AddBlock", "AddBlockHeader",
               "UpdateNewestBlockHash", "getUpdatedTreeOfState", "CurrentBlock",
               "reply"}

\* Whatever moment the node crashed at, the newest hash on disk leads to a
\* whole chain: its block is stored with a header, and so is each ancestor,
\* with a state trie for every ancestor.  The write order of Storage.AddBlock
\* and the commit of the state before the next block are what this is about.
NewestChainStored ==
    \A b \in GetBlock(newestBlockHash) \cup
             {c \in blocks : \E t \in GetBlock(newestBlockHash) : c.hash \in t.past} :
        /\ b.hash \in headers
        /\ b.hash # newestBlockHash => b.root \in triedb
        /\ \A h \in b.past : GetBlock(h) # {}

\* A block the client was told of is never lost, across crashes and restarts:
\* it is the newest block or one of its ancestors, and its state is on disk.
RepliedIsDurable ==
    \A h \in replied :
        \E t \in GetBlock(newestBlockHash), b \in GetBlock(h) :
            h \in t.past \cup {t.hash} /\ b.root \in triedb

\* The node fails to start only in one situation: the crash fell between
\* UpdateNewestBlockHash and the commit of that same block's state.
PanicsOnlyWhenTorn ==
    pc = "panicked" => \E b \in GetBlock(newestBlockHash) :
                          b.root \notin triedb /\ b.hash \notin replied

\* Once crashes stop, a node that is down runs again, or has panicked because
\* of a torn write: start-up itself never gets stuck.
StartUpEnds == pc = "down" ~> pc \in {"idle", "panicked"}
=============================================================================
