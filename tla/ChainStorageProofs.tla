------------------------- MODULE ChainStorageProofs -------------------------
(***************************************************************************)
(* What the block storage keeps through every crash and restart, proved    *)
(* for any number of blocks and crashes.                                   *)
(***************************************************************************)
EXTENDS ChainStorage, TLAPS

Writing == {"Storage.AddBlock", "AddBlockHeader", "UpdateNewestBlockHash",
            "getUpdatedTreeOfState", "CurrentBlock", "reply"}

\* The block under h is stored with its header and its state trie.
Whole(h) == h \in headers /\ \E b \in blocks : b.hash = h /\ b.root \in triedb

\* The blocks of the disk and the one being written.
Known == blocks \cup {b \in {adding} : pc \in Writing}

\* A hash is a number already given out, 1 being the genesis block's.
Numbered(b, n) ==
    b.hash \in 1..n /\ b.past \subseteq 1..n /\ (b.hash = Genesis.hash => b = Genesis)

\* Ancestors of an ancestor are ancestors.
Consistent(b, c) ==
    (b.hash = c.hash => b = c) /\ (c.hash \in b.past => c.past \subseteq b.past)

\* No two blocks share a hash.
HashesUnique ==
    /\ \A b \in Known : Numbered(b, made)
    /\ \A b, c \in Known : Consistent(b, c)

\* The newest hash leads to a stored block whose ancestors are whole.
NewestWhole ==
    newestBlockHash # NoHash =>
        \E t \in GetBlock(newestBlockHash) : /\ t.hash \in headers
                                             /\ \A h \in t.past : Whole(h)

\* The client was told only of whole blocks of the newest block's chain.
RepliedWhole ==
    \A h \in replied :
        Whole(h) /\ \E t \in GetBlock(newestBlockHash) : h \in t.past \cup {t.hash}

\* Memory agrees with the disk: CurrentBlock is the newest block, and whole.
AtNewest ==
    CurrentBlock \in blocks /\ CurrentBlock.hash = newestBlockHash /\ Whole(newestBlockHash)

\* The block being written extends the newest one, or is the genesis block of
\* a chain that has none.
Extends ==
    IF adding = Genesis
    THEN newestBlockHash = NoHash /\ Genesis.root \in triedb
    ELSE AtNewest /\ adding.past = CurrentBlock.past \cup {CurrentBlock.hash}

\* How far the write has come.
Progress ==
    /\ pc \in {"Storage.AddBlock", "AddBlockHeader", "UpdateNewestBlockHash"} => Extends
    /\ pc \in {"AddBlockHeader", "UpdateNewestBlockHash", "getUpdatedTreeOfState",
               "CurrentBlock"} => adding \in blocks
    /\ pc = "UpdateNewestBlockHash" => adding.hash \in headers
    /\ pc \in {"getUpdatedTreeOfState", "CurrentBlock"} => adding.hash = newestBlockHash
    /\ pc = "CurrentBlock" => Whole(newestBlockHash)
    /\ pc \in {"idle", "reply"} => AtNewest
    /\ pc = "panicked" => \E b \in GetBlock(newestBlockHash) : b.root \notin triedb

IInv == TypeOK /\ made > 0 /\ HashesUnique /\ NewestWhole /\ RepliedWhole /\ Progress
-----------------------------------------------------------------------------
LEMMA BlockFields ==
    ASSUME NEW b \in Block
    PROVE  b.hash \in Nat /\ b.num \in Nat /\ b.past \subseteq Nat /\ b.root \in Nat
  BY DEF Block

LEMMA TypeInit == Init => TypeOK
  BY DEF Init, TypeOK, NoBlock, NoHash, Block

LEMMA TypeStep == TypeOK /\ [Next]_vars => TypeOK'
<1> SUFFICES ASSUME TypeOK, [Next]_vars PROVE TypeOK'
  OBVIOUS
<1> USE DEF TypeOK, disk
<1>1. CASE StartFromGenesis
  BY <1>1 DEF StartFromGenesis, Genesis, Block
<1>2. CASE StartFromDisk
  <2>1. PICK b \in GetBlock(newestBlockHash) : CurrentBlock' = b /\ sequenceID' = b.num + 1
    BY <1>2 DEF StartFromDisk
  <2>2. b \in Block /\ b.num \in Nat
    BY <2>1 DEF GetBlock, Block
  <2> QED BY <1>2, <2>1, <2>2 DEF StartFromDisk
<1>3. CASE StartPanics
  BY <1>3 DEF StartPanics
<1>4. CASE GenerateBlock
  <2>1. PICK root \in {made + 1, CurrentBlock.root} :
          adding' = [hash |-> made + 1, num |-> CurrentBlock.num + 1,
                     past |-> CurrentBlock.past \cup {CurrentBlock.hash},
                     root |-> root]
    BY <1>4 DEF GenerateBlock
  <2>2. adding' \in Block
    BY <2>1 DEF Block
  <2> QED BY <1>4, <2>2 DEF GenerateBlock
<1>5. CASE StorageAddBlock
  BY <1>5 DEF StorageAddBlock
<1>6. CASE AddBlockHeader
  BY BlockFields, <1>6 DEF AddBlockHeader
<1>7. CASE UpdateNewestBlockHash
  BY BlockFields, <1>7 DEF UpdateNewestBlockHash
<1>8. CASE getUpdatedTreeOfState
  BY BlockFields, <1>8 DEF getUpdatedTreeOfState
<1>9. CASE SetCurrentBlock
  <2>1. adding.num \in Nat
    BY BlockFields
  <2>2. pc' \in {"idle", "reply"} /\ sequenceID' \in {adding.num + 1, sequenceID}
    BY <1>9 DEF SetCurrentBlock
  <2> QED BY <1>9, <2>1, <2>2 DEF SetCurrentBlock
<1>10. CASE Reply
  <2>1. CurrentBlock.hash \in Nat
    BY BlockFields
  <2>2. replied' \subseteq Nat
    BY <1>10, <2>1 DEF Reply
  <2>3. sequenceID' \in Nat
    BY <1>10 DEF Reply
  <2> QED BY <1>10, <2>2, <2>3 DEF Reply
<1>11. CASE Crash
  BY <1>11 DEF Crash, NoBlock, NoHash, Block
<1>12. CASE UNCHANGED vars
  BY <1>12 DEF vars
<1> QED
  BY <1>1, <1>2, <1>3, <1>4, <1>5, <1>6, <1>7, <1>8, <1>9, <1>10, <1>11, <1>12
     DEF Next, NodeStep

\* The variables of ChainStorage keep their types: in particular the newest
\* hash and the sequence number stay numbers through every crash and restart.
THEOREM StorageTypes == Spec => []TypeOK
  BY TypeInit, TypeStep, PTL DEF Spec
-----------------------------------------------------------------------------
LEMMA InvInit == Init => IInv
<1> SUFFICES ASSUME Init PROVE IInv
  OBVIOUS
<1>1. TypeOK /\ made > 0
  BY TypeInit DEF Init
<1>2. Known = {}
  BY DEF Init, Known, Writing
<1> QED
  BY <1>1, <1>2
     DEF Init, IInv, HashesUnique, NewestWhole, RepliedWhole, Progress, NoHash

\* The databases only grow: a whole block stays whole.
LEMMA WholeStays ==
    ASSUME blocks \subseteq blocks', headers \subseteq headers', triedb \subseteq triedb'
    PROVE  \A h : Whole(h) => Whole(h)'
  BY DEF Whole

\* A step that keeps the newest hash and tells the client nothing.
LEMMA ChainStays ==
    ASSUME NewestWhole, RepliedWhole,
           blocks \subseteq blocks', headers \subseteq headers', triedb \subseteq triedb',
           UNCHANGED <<newestBlockHash, replied>>
    PROVE  NewestWhole' /\ RepliedWhole'
<1>1. \A h : Whole(h) => Whole(h)'
  BY WholeStays
<1>2. GetBlock(newestBlockHash) \subseteq GetBlock(newestBlockHash)'
  BY DEF GetBlock
<1>3. NewestWhole'
  BY <1>1, <1>2 DEF NewestWhole
<1>4. RepliedWhole'
  BY <1>1, <1>2 DEF RepliedWhole
<1> QED BY <1>3, <1>4

\* A step that brings no new block.
LEMMA KnownStays ==
    ASSUME HashesUnique, Known' \subseteq Known, made' = made
    PROVE  HashesUnique'
  BY DEF HashesUnique

\* The block under the newest hash is the one, and it has a header.
LEMMA NewestBlock ==
    ASSUME IInv, NEW b \in GetBlock(newestBlockHash)
    PROVE  /\ newestBlockHash # NoHash /\ b \in blocks
           /\ b.hash = newestBlockHash /\ b.hash \in headers
           /\ \A h \in b.past : Whole(h)
           /\ \A c \in GetBlock(newestBlockHash) : c = b
<1>1. b \in blocks /\ b.hash = newestBlockHash /\ b \in Known
  BY DEF GetBlock, Known
<1>2. newestBlockHash # NoHash
  BY <1>1 DEF IInv, HashesUnique, Numbered, NoHash
<1>3. \A c \in GetBlock(newestBlockHash) : c = b
  BY <1>1 DEF IInv, HashesUnique, Consistent, GetBlock, Known
<1>4. b.hash \in headers /\ \A h \in b.past : Whole(h)
  BY <1>2, <1>3 DEF IInv, NewestWhole
<1> QED BY <1>1, <1>2, <1>3, <1>4

LEMMA StartFromGenesisStep ==
    ASSUME IInv, StartFromGenesis
    PROVE  HashesUnique' /\ NewestWhole' /\ RepliedWhole' /\ Progress'
<1>1. NewestWhole' /\ RepliedWhole'
  BY ChainStays DEF IInv, StartFromGenesis
<1>2. HashesUnique'
  <2>1. Known' \subseteq Known \cup {Genesis} /\ made' = made
    BY DEF StartFromGenesis, Known
  <2>2. Genesis.hash = 1 /\ Genesis.past = {} /\ 1 \in 1..made
    BY DEF Genesis, IInv, TypeOK
  <2>3. \A b \in Known \cup {Genesis} : Numbered(b, made)
    BY <2>2 DEF IInv, HashesUnique, Numbered
  <2>4. \A b, c \in Known \cup {Genesis} : Consistent(b, c)
    BY <2>2 DEF IInv, HashesUnique, Numbered, Consistent
  <2> QED BY <2>1, <2>3, <2>4 DEF HashesUnique
<1>3. Progress'
  BY DEF StartFromGenesis, Progress, Extends
<1> QED BY <1>1, <1>2, <1>3

LEMMA StartFromDiskStep ==
    ASSUME IInv, StartFromDisk
    PROVE  HashesUnique' /\ NewestWhole' /\ RepliedWhole' /\ Progress'
<1>1. NewestWhole' /\ RepliedWhole'
  BY ChainStays DEF IInv, StartFromDisk, disk
<1>2. HashesUnique'
  <2>1. Known' \subseteq Known
    BY DEF StartFromDisk, disk, Known, Writing
  <2> QED BY <2>1, KnownStays DEF IInv, StartFromDisk
<1>3. Progress'
  <2>1. PICK b \in GetBlock(newestBlockHash) : b.root \in triedb /\ CurrentBlock' = b
    BY DEF StartFromDisk
  <2>2. b \in blocks /\ b.hash = newestBlockHash /\ b.hash \in headers
    BY <2>1, NewestBlock
  <2>3. AtNewest'
    BY <2>1, <2>2 DEF AtNewest, Whole, StartFromDisk, disk
  <2> QED BY <2>3 DEF Progress, StartFromDisk
<1> QED BY <1>1, <1>2, <1>3

LEMMA StartPanicsStep ==
    ASSUME IInv, StartPanics
    PROVE  HashesUnique' /\ NewestWhole' /\ RepliedWhole' /\ Progress'
<1>1. NewestWhole' /\ RepliedWhole'
  BY ChainStays DEF IInv, StartPanics, disk
<1>2. HashesUnique'
  <2>1. Known' \subseteq Known
    BY DEF StartPanics, disk, Known, Writing
  <2> QED BY <2>1, KnownStays DEF IInv, StartPanics
<1>3. Progress'
  <2>1. PICK b \in GetBlock(newestBlockHash) : b.root \notin triedb
    BY DEF IInv, NewestWhole, StartPanics
  <2>2. \E c \in GetBlock(newestBlockHash)' : c.root \notin triedb'
    BY <2>1 DEF GetBlock, StartPanics, disk
  <2> QED BY <2>2 DEF Progress, StartPanics
<1> QED BY <1>1, <1>2, <1>3

LEMMA GenerateBlockStep ==
    ASSUME IInv, GenerateBlock
    PROVE  HashesUnique' /\ NewestWhole' /\ RepliedWhole' /\ Progress'
<1> DEFINE CB == CurrentBlock
<1>p. PICK root : adding' = [hash |-> made + 1, num |-> CB.num + 1,
                             past |-> CB.past \cup {CB.hash}, root |-> root]
  BY DEF GenerateBlock
<1>n. /\ adding'.hash = made + 1 /\ adding'.past = CB.past \cup {CB.hash}
      /\ made' = made + 1 /\ made \in Nat /\ made > 0
  BY <1>p DEF GenerateBlock, IInv, TypeOK
<1>c. AtNewest /\ CB \in Known
  BY DEF IInv, Progress, GenerateBlock, AtNewest, Known
<1> HIDE DEF CB
<1>1. NewestWhole' /\ RepliedWhole'
  BY ChainStays DEF IInv, GenerateBlock, disk
<1>2. HashesUnique'
  <2>1. Known' \subseteq Known \cup {adding'}
    BY DEF GenerateBlock, disk, Known
  <2>2. \A b \in Known : Numbered(b, made)
    BY DEF IInv, HashesUnique
  <2>3. \A b, c \in Known : Consistent(b, c)
    BY DEF IInv, HashesUnique
  <2>4. \A b \in Known : Numbered(b, made + 1)
    BY <1>n, <2>2 DEF Numbered
  <2>5. Numbered(adding', made + 1)
    BY <1>n, <1>c, <2>2 DEF Numbered, Genesis
  <2>6. \A b \in Known : Consistent(b, adding') /\ Consistent(adding', b)
    <3>1. SUFFICES ASSUME NEW b \in Known
                   PROVE  Consistent(b, adding') /\ Consistent(adding', b)
      OBVIOUS
    <3>2. b.hash # made + 1 /\ made + 1 \notin b.past
      BY <1>n, <2>2 DEF Numbered
    <3>3. Consistent(CB, b)
      BY <1>c, <2>3
    <3> QED BY <1>n, <3>2, <3>3 DEF Consistent
  <2>7. Consistent(adding', adding')
    BY DEF Consistent
  <2> QED BY <1>n, <2>1, <2>3, <2>4, <2>5, <2>6, <2>7 DEF HashesUnique
<1>3. Progress'
  <2>1. AtNewest'
    BY <1>c DEF AtNewest, Whole, GenerateBlock, disk
  <2>2. adding' # Genesis
    BY <1>n DEF Genesis
  <2>3. Extends'
    BY <1>n, <2>1, <2>2 DEF Extends, GenerateBlock, CB, Genesis
  <2> QED BY <2>3 DEF Progress, GenerateBlock
<1> QED BY <1>1, <1>2, <1>3

LEMMA StorageAddBlockStep ==
    ASSUME IInv, StorageAddBlock
    PROVE  HashesUnique' /\ NewestWhole' /\ RepliedWhole' /\ Progress'
<1>1. NewestWhole' /\ RepliedWhole'
  BY ChainStays DEF IInv, StorageAddBlock
<1>2. HashesUnique'
  <2>1. Known' \subseteq Known
    BY DEF StorageAddBlock, Known, Writing
  <2> QED BY <2>1, KnownStays DEF IInv, StorageAddBlock
<1>3. Progress'
  <2>1. \A h : Whole(h) => Whole(h)'
    BY WholeStays DEF StorageAddBlock
  <2>2. Extends'
    BY <2>1 DEF IInv, Progress, Extends, AtNewest, StorageAddBlock, Genesis
  <2> QED BY <2>2 DEF Progress, StorageAddBlock
<1> QED BY <1>1, <1>2, <1>3

LEMMA AddBlockHeaderStep ==
    ASSUME IInv, AddBlockHeader
    PROVE  HashesUnique' /\ NewestWhole' /\ RepliedWhole' /\ Progress'
<1>1. NewestWhole' /\ RepliedWhole'
  BY ChainStays DEF IInv, AddBlockHeader
<1>2. HashesUnique'
  <2>1. Known' \subseteq Known
    BY DEF AddBlockHeader, Known, Writing
  <2> QED BY <2>1, KnownStays DEF IInv, AddBlockHeader
<1>3. Progress'
  <2>1. \A h : Whole(h) => Whole(h)'
    BY WholeStays DEF AddBlockHeader
  <2>2. Extends'
    BY <2>1 DEF IInv, Progress, Extends, AtNewest, AddBlockHeader, Genesis
  <2> QED BY <2>2 DEF IInv, Progress, AddBlockHeader
<1> QED BY <1>1, <1>2, <1>3

\* The newest hash moves on to the block just stored: the old newest block is
\* whole by then, and joins the ancestors.
LEMMA UpdateNewestBlockHashStep ==
    ASSUME IInv, UpdateNewestBlockHash
    PROVE  HashesUnique' /\ NewestWhole' /\ RepliedWhole' /\ Progress'
<1>w. \A h : Whole(h) => Whole(h)'
  BY WholeStays DEF UpdateNewestBlockHash
<1>a. /\ adding \in blocks /\ adding.hash \in headers /\ Extends
      /\ newestBlockHash' = adding.hash /\ replied' = replied
  BY DEF IInv, Progress, UpdateNewestBlockHash
<1>t. adding \in GetBlock(newestBlockHash)'
  BY <1>a DEF GetBlock, UpdateNewestBlockHash
<1>2. HashesUnique'
  <2>1. Known' \subseteq Known
    BY DEF UpdateNewestBlockHash, Known, Writing
  <2> QED BY <2>1, KnownStays DEF IInv, UpdateNewestBlockHash
<1>g. ASSUME adding = Genesis
      PROVE  NewestWhole' /\ RepliedWhole' /\ Progress'
  <2>1. newestBlockHash = NoHash /\ Genesis.root \in triedb
    BY <1>a, <1>g DEF Extends
  <2>2. replied = {}
    BY <2>1, NewestBlock DEF IInv, RepliedWhole
  <2>3. RepliedWhole'
    BY <1>a, <2>2 DEF RepliedWhole
  <2>4. NewestWhole'
    BY <1>a, <1>t, <1>g DEF NewestWhole, Genesis, UpdateNewestBlockHash
  <2>5. Whole(newestBlockHash)'
    BY <1>a, <1>g, <2>1 DEF Whole, UpdateNewestBlockHash
  <2>6. Progress'
    BY <1>a, <1>g, <2>5 DEF Progress, UpdateNewestBlockHash
  <2> QED BY <2>3, <2>4, <2>6
<1>o. ASSUME adding # Genesis
      PROVE  NewestWhole' /\ RepliedWhole' /\ Progress'
  <2>1. AtNewest /\ adding.past = CurrentBlock.past \cup {CurrentBlock.hash}
    BY <1>a, <1>o DEF Extends
  <2>2. CurrentBlock \in GetBlock(newestBlockHash)
    BY <2>1 DEF AtNewest, GetBlock
  <2>3. \A h \in adding.past : Whole(h)
    BY <2>1, <2>2, NewestBlock DEF AtNewest
  <2>4. \A h \in replied : h \in adding.past /\ Whole(h)
    BY <2>1, <2>2, NewestBlock DEF IInv, RepliedWhole
  <2>5. RepliedWhole'
    BY <1>a, <1>t, <1>w, <2>4 DEF RepliedWhole
  <2>6. NewestWhole'
    BY <1>a, <1>t, <1>w, <2>3 DEF NewestWhole, UpdateNewestBlockHash
  <2>7. Progress'
    BY <1>a, <1>o DEF Progress, UpdateNewestBlockHash
  <2> QED BY <2>5, <2>6, <2>7
<1> QED BY <1>2, <1>g, <1>o

LEMMA getUpdatedTreeOfStateStep ==
    ASSUME IInv, getUpdatedTreeOfState
    PROVE  HashesUnique' /\ NewestWhole' /\ RepliedWhole' /\ Progress'
<1>1. NewestWhole' /\ RepliedWhole'
  BY ChainStays DEF IInv, getUpdatedTreeOfState
<1>2. HashesUnique'
  <2>1. Known' \subseteq Known
    BY DEF getUpdatedTreeOfState, Known, Writing
  <2> QED BY <2>1, KnownStays DEF IInv, getUpdatedTreeOfState
<1>3. Progress'
  <2>1. adding \in blocks /\ adding.hash = newestBlockHash
    BY DEF IInv, Progress, getUpdatedTreeOfState
  <2>2. adding.hash \in headers
    BY <2>1, NewestBlock DEF GetBlock
  <2>3. Whole(newestBlockHash)'
    BY <2>1, <2>2 DEF Whole, getUpdatedTreeOfState
  <2> QED BY <2>1, <2>3 DEF Progress, getUpdatedTreeOfState
<1> QED BY <1>1, <1>2, <1>3

LEMMA SetCurrentBlockStep ==
    ASSUME IInv, SetCurrentBlock
    PROVE  HashesUnique' /\ NewestWhole' /\ RepliedWhole' /\ Progress'
<1>1. NewestWhole' /\ RepliedWhole'
  BY ChainStays DEF IInv, SetCurrentBlock, disk
<1>2. HashesUnique'
  <2>1. Known' \subseteq Known
    BY DEF SetCurrentBlock, disk, Known, Writing
  <2> QED BY <2>1, KnownStays DEF IInv, SetCurrentBlock
<1>3. Progress'
  <2>1. adding \in blocks /\ adding.hash = newestBlockHash /\ Whole(newestBlockHash)
    BY DEF IInv, Progress, SetCurrentBlock
  <2>2. AtNewest'
    BY <2>1 DEF AtNewest, Whole, SetCurrentBlock, disk
  <2>3. pc' \in {"idle", "reply"}
    BY DEF SetCurrentBlock
  <2> QED BY <2>2, <2>3 DEF Progress
<1> QED BY <1>1, <1>2, <1>3

LEMMA ReplyStep ==
    ASSUME IInv, Reply
    PROVE  HashesUnique' /\ NewestWhole' /\ RepliedWhole' /\ Progress'
<1>a. AtNewest
  BY DEF IInv, Progress, Reply
<1>w. /\ \A h : Whole(h) => Whole(h)'
      /\ GetBlock(newestBlockHash)' = GetBlock(newestBlockHash)
  BY WholeStays DEF Reply, disk, GetBlock
<1>1. NewestWhole'
  BY <1>w DEF IInv, NewestWhole, Reply, disk
<1>2. HashesUnique'
  <2>1. Known' \subseteq Known
    BY DEF Reply, disk, Known, Writing
  <2> QED BY <2>1, KnownStays DEF IInv, Reply
<1>3. RepliedWhole'
  <2>1. CurrentBlock \in GetBlock(newestBlockHash) /\ Whole(CurrentBlock.hash)
    BY <1>a DEF AtNewest, GetBlock
  <2>2. \A h \in replied' : h \in replied \/ h = CurrentBlock.hash
    BY DEF Reply
  <2> QED BY <1>w, <2>1, <2>2 DEF IInv, RepliedWhole
<1>4. Progress'
  <2>1. AtNewest'
    BY <1>a, <1>w DEF AtNewest, Reply, disk
  <2> QED BY <2>1 DEF Progress, Reply
<1> QED BY <1>1, <1>2, <1>3, <1>4

LEMMA CrashStep ==
    ASSUME IInv, Crash
    PROVE  HashesUnique' /\ NewestWhole' /\ RepliedWhole' /\ Progress'
<1>1. NewestWhole' /\ RepliedWhole'
  BY ChainStays DEF IInv, Crash, disk
<1>2. HashesUnique'
  <2>1. Known' \subseteq Known
    BY DEF Crash, disk, Known, Writing
  <2> QED BY <2>1, KnownStays DEF IInv, Crash
<1>3. Progress'
  BY DEF Progress, Crash
<1> QED BY <1>1, <1>2, <1>3
-----------------------------------------------------------------------------
LEMMA InvStep == IInv /\ [Next]_vars => IInv'
<1> SUFFICES ASSUME IInv, [Next]_vars PROVE IInv'
  OBVIOUS
<1> DEFINE Kept == HashesUnique' /\ NewestWhole' /\ RepliedWhole' /\ Progress'
<1>t. TypeOK' /\ made' > 0
  <2>1. TypeOK'
    BY TypeStep DEF IInv
  <2>2. made' \in {made, made + 1}
    BY DEF Next, NodeStep, vars, StartFromGenesis, StartFromDisk, StartPanics,
           GenerateBlock, StorageAddBlock, AddBlockHeader, UpdateNewestBlockHash,
           getUpdatedTreeOfState, SetCurrentBlock, Reply, Crash
  <2> QED BY <2>1, <2>2 DEF IInv, TypeOK
<1>u. CASE UNCHANGED vars
  <2>1. Kept
    BY <1>u DEF IInv, vars, HashesUnique, NewestWhole, RepliedWhole, Progress, Known,
                GetBlock, Whole, AtNewest, Extends
  <2> QED BY <1>t, <2>1 DEF IInv
<1>n. CASE Next
  <2>1. Kept
    BY <1>n, StartFromGenesisStep, StartFromDiskStep, StartPanicsStep,
       GenerateBlockStep, StorageAddBlockStep, AddBlockHeaderStep,
       UpdateNewestBlockHashStep, getUpdatedTreeOfStateStep, SetCurrentBlockStep,
       ReplyStep, CrashStep DEF Next, NodeStep
  <2> QED BY <1>t, <2>1 DEF IInv
<1> QED BY <1>u, <1>n

\* The inductive invariant: hashes are unique, the newest hash leads to a block
\* whose ancestors are whole, the client knows of whole blocks only, and each
\* point of start-up and of AddBlock has written what comes before it.
THEOREM StorageInvariant == Spec => []IInv
  BY InvInit, InvStep, PTL DEF Spec

LEMMA InvNewest == IInv => NewestChainStored
<1> SUFFICES ASSUME IInv,
                    NEW t \in GetBlock(newestBlockHash),
                    NEW b \in blocks, b = t \/ b.hash \in t.past
             PROVE  /\ b.hash \in headers
                    /\ b.hash # newestBlockHash => b.root \in triedb
                    /\ \A h \in b.past : GetBlock(h) # {}
  BY DEF NewestChainStored, GetBlock
<1>1. /\ t \in blocks /\ t.hash = newestBlockHash /\ t.hash \in headers
      /\ \A h \in t.past : Whole(h)
  BY NewestBlock
<1>2. b.past \subseteq t.past
  BY <1>1 DEF IInv, HashesUnique, Consistent, Known
<1>3. \A h \in b.past : GetBlock(h) # {}
  BY <1>1, <1>2 DEF Whole, GetBlock
<1>4. CASE b = t
  BY <1>1, <1>3, <1>4
<1>5. CASE b.hash \in t.past
  <2>1. PICK c \in blocks : c.hash = b.hash /\ c.root \in triedb
    BY <1>1, <1>5 DEF Whole
  <2>2. c = b
    BY <2>1 DEF IInv, HashesUnique, Consistent, Known
  <2> QED BY <1>1, <1>3, <1>5, <2>1, <2>2 DEF Whole
<1> QED BY <1>4, <1>5

LEMMA InvReplied == IInv => RepliedIsDurable
  BY DEF IInv, RepliedWhole, Whole, RepliedIsDurable, GetBlock

LEMMA InvPanics == IInv => PanicsOnlyWhenTorn
<1> SUFFICES ASSUME IInv, pc = "panicked"
             PROVE  \E b \in GetBlock(newestBlockHash) :
                       b.root \notin triedb /\ b.hash \notin replied
  BY DEF PanicsOnlyWhenTorn
<1>1. PICK b \in GetBlock(newestBlockHash) : b.root \notin triedb
  BY DEF IInv, Progress
<1>2. ASSUME b.hash \in replied PROVE FALSE
  <2>1. PICK c \in blocks : c.hash = b.hash /\ c.root \in triedb
    BY <1>2 DEF IInv, RepliedWhole, Whole
  <2>2. c = b
    BY <2>1 DEF IInv, HashesUnique, Consistent, Known, GetBlock
  <2> QED BY <1>1, <2>1, <2>2
<1> QED BY <1>1, <1>2

\* Whatever moment a crash falls at, the newest hash of the block database
\* leads to a whole chain: Storage.AddBlock writes the block, the header and
\* the newest hash in that order, and the state of each block is committed
\* before the next block is generated.
THEOREM NewestChainAlwaysStored == Spec => []NewestChainStored
  BY StorageInvariant, InvNewest, PTL

\* No sequence of crashes and restarts loses a block that commit1 has told
\* the client of, or its state.
THEOREM RepliedAlwaysDurable == Spec => []RepliedIsDurable
  BY StorageInvariant, InvReplied, PTL

\* NewBlockChain fails only on a newest block, the genesis block or a later one,
\* whose state was never committed and of which the client was not told: the
\* node was stopped in AddBlock between the newest hash and the state commit.
THEOREM PanicsAlwaysTorn == Spec => []PanicsOnlyWhenTorn
  BY StorageInvariant, InvPanics, PTL
=============================================================================
