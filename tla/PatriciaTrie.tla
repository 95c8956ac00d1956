----------------------------- MODULE PatriciaTrie -----------------------------
(***************************************************************************)
(* The repository's own Merkle Patricia trie (package trie): Get, Put and  *)
(* Delete on a tree of leaf, extension and branch nodes, beside the map    *)
(* that the tree stands for.  A branch keeps its children in the slice     *)
(* Branches and, in Index, where the child of each nibble is (-1: nowhere).*)
(* Slices are values here; nodes that the code updates in place are        *)
(* replaced.                                                               *)
(***************************************************************************)
EXTENDS Integers, FiniteSets, SequencesExt

CONSTANTS
    Keys,       \* nibble sequences (FromBytes of the addresses in use)
    Nibbles,    \* the nibbles in use, a subset of 0..15
    Values,
    NoValue     \* a nil Value, and what Get returns for a missing key

\* Addresses have one length.  (Put indexes past the end of a key that ends
\* inside an extension.)
ASSUME TrieAssumption ==
    /\ Nibbles \subseteq 0 .. 15 /\ Keys \subseteq Seq(Nibbles) /\ NoValue \notin Values
    /\ \A j, k \in Keys : Len(j) = Len(k)

VARIABLES
    Root,       \* Trie.Root
    content     \* reference: the value last put under every key

vars == <<Root, content>>

-----------------------------------------------------------------------------
EmptyNode == [Flag |-> "empty"]
LeafNode(nibbles, value) == [Flag |-> "leaf", KeySlice |-> nibbles, Value |-> value]
ExtensionNode(nibbles, next) == [Flag |-> "extension", KeySlice |-> nibbles, Next |-> next]
NewBranchNode ==
    [Flag |-> "branch", Value |-> NoValue, Index |-> [n \in Nibbles |-> -1], Branches |-> <<>>]

Child(node, n) == node.Branches[node.Index[n] + 1]
Present(node) == {n \in Nibbles : node.Index[n] # -1}

PrefixMatchedLen(s, t) == Len(LongestCommonPrefix({s, t}))
Drop(s, n) == SubSeq(s, n + 1, Len(s))
Take(s, n) == SubSeq(s, 1, n)

\* SetBranch puts the child between those of the smaller and the larger nibbles;
\* Put only calls it on a branch that it has just made, for a new nibble.
SetBranch(b, nibble, node) ==
    LET larger == {n \in Present(b) : n > nibble}
        front  == Len(b.Branches) - Cardinality(larger)
    IN  [b EXCEPT !.Branches = InsertAt(@, front + 1, node),
                  !.Index = [n \in Nibbles |-> IF n = nibble THEN front
                                               ELSE IF n \in larger THEN @[n] + 1 ELSE @[n]]]

\* What Put does at a branch without a child for the nibble: append.
AddBranch(b, nibble, node) ==
    [b EXCEPT !.Branches = Append(@, node), !.Index[nibble] = Len(b.Branches)]

\* A leaf splits into a branch, below an extension for the shared nibbles.
\* (mutant: the new leaf keeps the nibble that the branch has consumed)
SplitLeafOffByOne(node, nibbles, value) ==
    LET matched == PrefixMatchedLen(node.KeySlice, nibbles)
        b1 == SetBranch(NewBranchNode, node.KeySlice[matched + 1],
                        LeafNode(Drop(node.KeySlice, matched + 1), node.Value))
        b2 == SetBranch(b1, nibbles[matched + 1], LeafNode(Drop(nibbles, matched), value))
    IN  IF matched > 0 THEN ExtensionNode(Take(nibbles, matched), b2) ELSE b2
SplitLeaf(node, nibbles, value) ==
    LET matched == PrefixMatchedLen(node.KeySlice, nibbles)
        b0 == [NewBranchNode EXCEPT
                 !.Value = IF matched = Len(nibbles) THEN value
                           ELSE IF matched = Len(node.KeySlice) THEN node.Value ELSE NoValue]
        b1 == IF matched = Len(node.KeySlice) THEN b0
              ELSE SetBranch(b0, node.KeySlice[matched + 1],
                             LeafNode(Drop(node.KeySlice, matched + 1), node.Value))
        b2 == IF matched = Len(nibbles) THEN b1
              ELSE SetBranch(b1, nibbles[matched + 1], LeafNode(Drop(nibbles, matched + 1), value))
    IN  IF matched > 0 THEN ExtensionNode(Take(nibbles, matched), b2) ELSE b2

\* So does an extension that the key leaves half-way.
SplitExtension(node, nibbles, value) ==
    LET matched == PrefixMatchedLen(node.KeySlice, nibbles)
        rest == Drop(node.KeySlice, matched + 1)
        b1 == SetBranch(NewBranchNode, node.KeySlice[matched + 1],
                        IF rest = <<>> THEN node.Next ELSE ExtensionNode(rest, node.Next))
        b2 == SetBranch(b1, nibbles[matched + 1], LeafNode(Drop(nibbles, matched + 1), value))
    IN  IF matched = 0 THEN b2 ELSE ExtensionNode(Take(nibbles, matched), b2)

\* An extension followed to its end.
Past(node, nibbles) == PrefixMatchedLen(node.KeySlice, nibbles) = Len(node.KeySlice)

RECURSIVE Get(_, _)
Get(node, nibbles) ==
    CASE node.Flag = "empty" -> NoValue
      [] node.Flag = "leaf" -> IF node.KeySlice = nibbles THEN node.Value ELSE NoValue
      [] node.Flag = "branch" ->
           IF nibbles = <<>> THEN node.Value
           ELSE IF node.Index[Head(nibbles)] = -1 THEN NoValue
           ELSE Get(Child(node, Head(nibbles)), Tail(nibbles))
      [] node.Flag = "extension" ->
           IF Past(node, nibbles) THEN Get(node.Next, Drop(nibbles, Len(node.KeySlice)))
           ELSE NoValue

\* The node that Put leaves in the place of `node'.
RECURSIVE PutNode(_, _, _)
PutNode(node, nibbles, value) ==
    CASE node.Flag = "empty" -> LeafNode(nibbles, value)
      [] node.Flag = "leaf" -> IF node.KeySlice = nibbles THEN LeafNode(nibbles, value)
                               ELSE SplitLeaf(node, nibbles, value)
      [] node.Flag = "branch" ->
           IF nibbles = <<>> THEN [node EXCEPT !.Value = value]
           ELSE IF node.Index[Head(nibbles)] = -1
           THEN AddBranch(node, Head(nibbles), LeafNode(Tail(nibbles), value))
           ELSE [node EXCEPT !.Branches[node.Index[Head(nibbles)] + 1] =
                               PutNode(@, Tail(nibbles), value)]
      [] node.Flag = "extension" ->
           IF Past(node, nibbles)
           THEN [node EXCEPT !.Next = PutNode(@, Drop(nibbles, Len(node.KeySlice)), value)]
           ELSE SplitExtension(node, nibbles, value)

-----------------------------------------------------------------------------
(* Delete *)

\* A node with the nibbles of its parent in front.
Prepend(nibbles, node) ==
    CASE node.Flag = "leaf" -> LeafNode(nibbles \o node.KeySlice, node.Value)
      [] node.Flag = "extension" -> ExtensionNode(nibbles \o node.KeySlice, node.Next)
      [] node.Flag = "branch" -> ExtensionNode(nibbles, node)

\* A branch with one child left and no value gives way to the child.
Collapse(b) == LET n == CHOOSE n \in Present(b) : TRUE
               IN  Prepend(<<n>>, Child(b, n))

\* A child is taken out of Branches; those behind it move up.
RemoveChild(b, nibble) ==
    [b EXCEPT !.Branches = RemoveAt(@, b.Index[nibble] + 1),
              !.Index = [n \in Nibbles |-> IF n = nibble THEN -1
                                           ELSE IF @[n] > b.Index[nibble] THEN @[n] - 1 ELSE @[n]]]

\* A leaf leaves its branch.
\* (mutant: the branch stays when one child is left)
DeleteLeafOnly(b, nibble) == RemoveChild(b, nibble)
DeleteLeaf(b, nibble) ==
    LET rest == RemoveChild(b, nibble)
    IN  IF Len(rest.Branches) = 1 /\ rest.Value = NoValue THEN Collapse(rest) ELSE rest

\* The node that Delete leaves in the place of `node', for a key that is there.
RECURSIVE DeleteNode(_, _)
DeleteNode(node, key) ==
    CASE node.Flag = "leaf" -> EmptyNode
      [] node.Flag = "extension" ->
           Prepend(node.KeySlice, DeleteNode(node.Next, Drop(key, Len(node.KeySlice))))
      [] node.Flag = "branch" /\ key = <<>> ->
           LET rest == [node EXCEPT !.Value = NoValue]
           IN  IF Len(node.Branches) = 1 THEN Collapse(rest) ELSE rest
      [] node.Flag = "branch" /\ key # <<>> ->
           IF Len(node.Branches) = 1 THEN LeafNode(<<>>, node.Value)
           ELSE IF Child(node, Head(key)).Flag = "leaf" THEN DeleteLeaf(node, Head(key))
           ELSE [node EXCEPT !.Branches[node.Index[Head(key)] + 1] = DeleteNode(@, Tail(key))]

-----------------------------------------------------------------------------
Init ==
    /\ Root = EmptyNode
    /\ content = [k \in Keys |-> NoValue]

Put(key, value) ==
    /\ Root' = PutNode(Root, key, value)
    /\ content' = [content EXCEPT ![key] = value]

\* An address that is not found is an error and changes nothing.
Delete(address) ==
    /\ Get(Root, address) # NoValue
    /\ Root' = DeleteNode(Root, address)
    /\ content' = [content EXCEPT ![address] = NoValue]

Next ==
    \/ \E key \in Keys, value \in Values : Put(key, value)
    \/ \E address \in Keys : Delete(address)

Spec == Init /\ [][Next]_vars

-----------------------------------------------------------------------------
(* Properties *)

\* Get returns what was last put and not deleted, for every key, after any
\* sequence of Put and Delete.
GetsWhatWasPut == \A k \in Keys : Get(Root, k) = content[k]

\* The trie of a map by its definition: the shared nibbles of all keys, then a
\* branch on the next nibble (children by nibble, not by place).
RECURSIVE Reference(_)
Reference(map) ==
    LET keys == DOMAIN map
        prefix == LongestCommonPrefix(keys)
        below(n) == LET under == {k \in keys : k[Len(prefix) + 1] = n}
                    IN  Reference([t \in {Drop(k, Len(prefix) + 1) : k \in under} |->
                                     map[prefix \o <<n>> \o t]])
    IN  IF keys = {} THEN <<"empty">>
        ELSE IF Cardinality(keys) = 1 THEN <<"leaf", prefix, map[prefix]>>
        ELSE <<"node", prefix, [n \in {k[Len(prefix) + 1] : k \in keys} |-> below(n)]>>

RECURSIVE Shape(_)
Shape(node) ==
    CASE node.Flag = "empty" -> <<"empty">>
      [] node.Flag = "leaf" -> <<"leaf", node.KeySlice, node.Value>>
      [] node.Flag = "branch" -> <<"node", <<>>, [n \in Present(node) |-> Shape(Child(node, n))]>>
      [] node.Flag = "extension" ->
           <<"node", node.KeySlice, Shape(node.Next)[3]>>

\* The tree depends on the map alone, not on the order in which keys came and
\* went, up to the order of Branches: the Index of a branch leads every nibble to
\* its own child, extensions are as long as they can be and Delete leaves no
\* branch with a single child.
ShapeOfContent ==
    Shape(Root) = Reference([k \in {q \in Keys : content[q] # NoValue} |-> content[k]])
=============================================================================
