-------------------------------- MODULE CLPA --------------------------------
(***************************************************************************)
(* The default partition algorithm.  The client builds a graph of accounts *)
(* from the pending transactions and CLPA_Partition visits the accounts in *)
(* turn, moving each to the neighbouring shard with the best score.        *)
(*                                                                         *)
(* A score is  e_k / d * (1 - penalty * Edges2Shard[k] / MinEdges2Shard)   *)
(* with penalty 1/2: scores of one account are compared by the integer     *)
(* 2 * d * MinEdges2Shard times that.  The order of equal scores depends   *)
(* on rounding, so any best shard may be taken.                            *)
(***************************************************************************)
EXTENDS Integers, FiniteSets, Functions, Sequences, SequencesExt

CONSTANTS Vertices,       \* the accounts
          ShardNum,
          Addr2Shard,     \* [Vertices -> shards]: where the client knows them to be
          MaxIterations,
          MaxUpdates,     \* the 1000 of updateTreshold
          MaxEdges        \* bound: edges of the graph

ShardIDs == 0..(ShardNum - 1)

ASSUME CLPAConstants == /\ IsFiniteSet(Vertices)
                        /\ ShardNum \in Nat \ {0}
                        /\ Addr2Shard \in [Vertices -> ShardIDs]
                        /\ MaxIterations \in Nat /\ MaxUpdates \in Nat

VARIABLES
    Vertexs,            \* the vertices in the order they came
    EdgeSet,            \* [v][u]: how often u is in the list of v
    PartitionMap,       \* [v]: its shard, while v is in Vertexs
    VertexsNumInShard, Edges2Shard, MinEdges2Shard, CrossShardEdgeNum,
    iter, pos,          \* the loops of CLPA_Partition
    updateTreshold,     \* [v]: moves of v
    res, addrs,         \* the result: a map, and its domain as a list
    phase               \* "graph", "partition", "done"

vars == <<Vertexs, EdgeSet, PartitionMap, VertexsNumInShard, Edges2Shard,
          MinEdges2Shard, CrossShardEdgeNum, iter, pos, updateTreshold, res, addrs, phase>>
graph  == <<Vertexs, EdgeSet>>
totals == <<Edges2Shard, MinEdges2Shard, CrossShardEdgeNum>>
result == <<updateTreshold, res, addrs>>

VertexSet == ToSet(Vertexs)

\* Init_CLPAState
Init ==
    /\ Vertexs = <<>>
    /\ EdgeSet = [v \in Vertices |-> [u \in Vertices |-> 0]]
    /\ PartitionMap = Addr2Shard
    /\ VertexsNumInShard = [k \in ShardIDs |-> 0]
    /\ Edges2Shard = [k \in ShardIDs |-> 0]
    /\ MinEdges2Shard = 0 /\ CrossShardEdgeNum = 0
    /\ iter = 0 /\ pos = 1
    /\ updateTreshold = [v \in Vertices |-> 0]
    /\ res = <<>> /\ addrs = <<>>
    /\ phase = "graph"
-----------------------------------------------------------------------------
\* The lists of both ends have the other; a repeated edge is there twice.
GraphAddEdge(u, v) ==
    EdgeSet' = [EdgeSet EXCEPT ![u][v] = @ + 1, ![v][u] = @ + 1]

\* An end of an edge, when it is a new vertex.
Fresh(w) == IF w \in VertexSet THEN <<>> ELSE <<w>>

\* AddEdge, for a transaction between two different accounts.
AddEdge(u, v) ==
    /\ phase = "graph" /\ u # v
    /\ SumFunctionOnSet([w \in Vertices |-> SumFunctionOnSet(EdgeSet[w], Vertices)], Vertices)
          < 2 * MaxEdges
    /\ Vertexs' = Vertexs \o Fresh(u) \o Fresh(v)
    /\ VertexsNumInShard' = [k \in ShardIDs |-> VertexsNumInShard[k] +
          Cardinality({w \in {u, v} \ VertexSet : PartitionMap[w] = k})]
    /\ GraphAddEdge(u, v)
    /\ UNCHANGED <<PartitionMap, totals, iter, pos, result, phase>>

Members(part, k) == {v \in VertexSet : part[v] = k}

\* The entries of v's list that lead to shard l, and of all lists of shard k.
ListEntries(part, v, l) == SumFunctionOnSet(EdgeSet[v], Members(part, l))
Entries(part, k, l) ==
    SumFunctionOnSet([v \in VertexSet |-> ListEntries(part, v, l)], Members(part, k))

\* ComputeEdges2Shard: edges that cross into a shard and edges inside it, each
\* inner one being seen from both ends.
CrossInto(part, k) ==
    SumFunctionOnSet([l \in ShardIDs |-> Entries(part, l, k)], ShardIDs \ {k})
EdgesOf(part) == [k \in ShardIDs |-> CrossInto(part, k) + Entries(part, k, k) \div 2]
CrossEdges(part) == SumFunctionOnSet([k \in ShardIDs |-> CrossInto(part, k)], ShardIDs) \div 2
Least(f) == CHOOSE n \in {f[k] : k \in DOMAIN f} : \A k \in DOMAIN f : n <= f[k]

StartPartition ==
    /\ phase = "graph"
    /\ Edges2Shard' = EdgesOf(PartitionMap)
    /\ CrossShardEdgeNum' = CrossEdges(PartitionMap)
    /\ MinEdges2Shard' = Least(Edges2Shard')
    /\ phase' = "partition"
    /\ UNCHANGED <<graph, PartitionMap, VertexsNumInShard, iter, pos, result>>
-----------------------------------------------------------------------------
EdgesTo(v, k) == ListEntries(PartitionMap, v, k)
OutDegree(v)  == SumFunctionOnSet([k \in ShardIDs |-> EdgesTo(v, k)], ShardIDs)

\* getShard_score, times 2 * outdegree * MinEdges2Shard.
getShard_score(v, k) == EdgesTo(v, k) * (2 * MinEdges2Shard - Edges2Shard[k])

\* The shards that may win: best among the neighbours' and above -9999.  When
\* MinEdges2Shard is zero every score is minus infinity, and none does.
Winners(v) ==
    LET near == {k \in ShardIDs : EdgesTo(v, k) > 0}
        high == {k \in near : getShard_score(v, k) > -9999 * 2 * OutDegree(v) * MinEdges2Shard}
    IN  IF MinEdges2Shard = 0 \/ high = {} THEN {PartitionMap[v]}
        ELSE {k \in near : \A l \in near : getShard_score(v, l) <= getShard_score(v, k)}

\* (mutant: only the new shard's total changes)
ComputeEdges2Shard1NewOnly(v, old, new) ==
    /\ Edges2Shard' = [Edges2Shard EXCEPT ![new] = @ + OutDegree(v) - EdgesTo(v, new)]
    /\ CrossShardEdgeNum' = CrossShardEdgeNum + EdgesTo(v, old) - EdgesTo(v, new)
    /\ MinEdges2Shard' = Least(Edges2Shard')

\* ComputeEdges2Shard1: the totals after v has moved from shard old to new.
ComputeEdges2Shard1(v, old, new) ==
    /\ Edges2Shard' = [Edges2Shard EXCEPT
          ![new] = @ + OutDegree(v) - EdgesTo(v, new),
          ![old] = @ - (OutDegree(v) - EdgesTo(v, old))]
    /\ CrossShardEdgeNum' = CrossShardEdgeNum + EdgesTo(v, old) - EdgesTo(v, new)
    /\ MinEdges2Shard' = Least(Edges2Shard')

\* One round of the inner loop; the last account of a shard stays.
Move(v, k) ==
    /\ PartitionMap' = [PartitionMap EXCEPT ![v] = k]
    /\ VertexsNumInShard' = [VertexsNumInShard EXCEPT ![PartitionMap[v]] = @ - 1, ![k] = @ + 1]
    /\ addrs' = IF v \in DOMAIN res THEN addrs ELSE Append(addrs, v)
    /\ res' = [w \in DOMAIN res \cup {v} |-> IF w = v THEN k ELSE res[w]]
    /\ updateTreshold' = [updateTreshold EXCEPT ![v] = @ + 1]
    /\ ComputeEdges2Shard1(v, PartitionMap[v], k)

\* (mutant: the last account of a shard moves too)
VisitMovesLast ==
    /\ phase = "partition" /\ iter < MaxIterations /\ pos <= Len(Vertexs)
    /\ LET v == Vertexs[pos]
       IN \E k \in Winners(v) :
             IF updateTreshold[v] < MaxUpdates /\ k # PartitionMap[v]
             THEN Move(v, k)
             ELSE UNCHANGED <<PartitionMap, VertexsNumInShard, totals, result>>
    /\ pos' = pos + 1
    /\ UNCHANGED <<graph, iter, phase>>

Visit ==
    /\ phase = "partition" /\ iter < MaxIterations /\ pos <= Len(Vertexs)
    /\ LET v == Vertexs[pos]
       IN \E k \in Winners(v) :
             IF /\ updateTreshold[v] < MaxUpdates
                /\ k # PartitionMap[v] /\ VertexsNumInShard[PartitionMap[v]] > 1
             THEN Move(v, k)
             ELSE UNCHANGED <<PartitionMap, VertexsNumInShard, totals, result>>
    /\ pos' = pos + 1
    /\ UNCHANGED <<graph, iter, phase>>

NextIteration ==
    /\ phase = "partition" /\ iter < MaxIterations /\ pos > Len(Vertexs)
    /\ iter' = iter + 1 /\ pos' = 1
    /\ UNCHANGED <<graph, PartitionMap, VertexsNumInShard, totals, result, phase>>

Return ==
    /\ phase = "partition" /\ iter = MaxIterations
    /\ phase' = "done"
    /\ UNCHANGED <<graph, PartitionMap, VertexsNumInShard, totals, iter, pos, result>>

Next == \/ \E u, v \in Vertices : AddEdge(u, v)
        \/ StartPartition \/ Visit \/ NextIteration \/ Return

Spec == Init /\ [][Next]_vars
-----------------------------------------------------------------------------
TypeOK ==
    /\ Vertexs \in Seq(Vertices)
    /\ EdgeSet \in [Vertices -> [Vertices -> Nat]]
    /\ PartitionMap \in [Vertices -> ShardIDs]
    /\ VertexsNumInShard \in [ShardIDs -> Nat] /\ Edges2Shard \in [ShardIDs -> Nat]
    /\ MinEdges2Shard \in Nat /\ CrossShardEdgeNum \in Nat
    /\ iter \in 0..MaxIterations /\ pos \in 1..(Cardinality(Vertices) + 1)
    /\ updateTreshold \in [Vertices -> 0..MaxUpdates]
    /\ DOMAIN res \subseteq Vertices /\ addrs \in Seq(Vertices)
    /\ phase \in {"graph", "partition", "done"}

\* The totals that ComputeEdges2Shard1 keeps up to date move by move are those
\* that ComputeEdges2Shard would compute from the partition as it is, and so are
\* the numbers of accounts that keep a shard from being emptied.
TotalsExact ==
    phase # "graph" => /\ \A k \in ShardIDs : VertexsNumInShard[k] =
                             Cardinality(Members(PartitionMap, k))
                       /\ Edges2Shard = EdgesOf(PartitionMap)
                       /\ CrossShardEdgeNum = CrossEdges(PartitionMap)
                       /\ MinEdges2Shard = Least(Edges2Shard)

\* A move never leaves a shard without edges, which would end every later move:
\* only a graph that has such a shard from the start is left as it is.
NeverFrozenByMoves == phase # "graph" /\ MinEdges2Shard = 0 => addrs = <<>>
=============================================================================
