----------------------------- MODULE CLPAProofs -----------------------------
(***************************************************************************)
(* CLPA for every set of accounts, number of shards, graph and starting    *)
(* partition: the totals that are updated move by move stay exact, and no  *)
(* move leaves a shard without edges.                                      *)
(*                                                                         *)
(* The totals are sums over the vertices of a shard of sums over adjacency *)
(* lists, so the first part is about sums over finite sets: they are       *)
(* linear, and any element may be taken out first.  The second part is     *)
(* what one vertex that changes shards does to the entries between two     *)
(* shards (EntriesMoved), the edges into a shard (CrossMoved) and the      *)
(* totals (EdgesMoved, AllCrossMoved); it needs each edge to be in both    *)
(* its ends' lists (BothEnds), which AddEdge maintains.                    *)
(***************************************************************************)
EXTENDS CLPA, FiniteSetTheorems, TLAPS

-----------------------------------------------------------------------------
(* Sums over finite sets *)

\* A family of subsets of a finite set has a smallest member.  This is the form
\* of induction that needs no operator as a parameter.
LEMMA SmallestSubset ==
    ASSUME NEW S, IsFiniteSet(S), NEW F \in SUBSET (SUBSET S), F # {}
    PROVE  \E T \in F : \A U \in F : U \subseteq T => U = T
<1> DEFINE R == StrictSubsetOrdering(S)
<1>1. IsWellFoundedOn(R, FiniteSubsetsOf(S))
  BY FS_StrictSubsetOrderingWellFounded
<1>2. \A T \in F : T \in FiniteSubsetsOf(S)
  BY FS_Subset DEF FiniteSubsetsOf
<1>3. \E T \in F : \A U \in F : ~ (<<U, T>> \in R)
  BY <1>1, <1>2, WFMin
<1> QED BY <1>3 DEF StrictSubsetOrdering

\* What is added up over T: g[T] is the sum over T, element by element in the
\* order in which CHOOSE takes them.
Pick(T) == CHOOSE x \in T : TRUE
Adds(f, g, D) == \A T \in D : g[T] = IF T = {} THEN 0 ELSE f[Pick(T)] + g[T \ {Pick(T)}]

\* What is added up over a set does not depend on what it is part of.
LEMMA SumsAgree ==
    ASSUME NEW f, NEW S, IsFiniteSet(S), NEW g, NEW h, Adds(f, g, SUBSET S), Adds(f, h, SUBSET S)
    PROVE  g[S] = h[S]
<1> DEFINE F == {T \in SUBSET S : g[T] # h[T]}
<1> SUFFICES ASSUME F # {} PROVE FALSE
  OBVIOUS
<1>0. F \in SUBSET (SUBSET S)
  OBVIOUS
<1>1. PICK T \in F : \A U \in F : U \subseteq T => U = T
  <2> HIDE DEF F
  <2> QED BY <1>0, SmallestSubset
<1>2. T # {}
  BY DEF Adds
<1>3. Pick(T) \in T
  BY <1>2 DEF Pick
<1>4. T \ {Pick(T)} \in SUBSET S /\ T \ {Pick(T)} # T
  BY <1>3
<1>5. g[T \ {Pick(T)}] = h[T \ {Pick(T)}]
  BY <1>1, <1>4
<1> QED BY <1>1, <1>2, <1>5 DEF Adds

\* The function by which MapThenFoldSet is defined exists: of the families of
\* subsets on which there is one, a largest one has all subsets.
Recursion(f, S, g) ==
    g = [T \in SUBSET S |-> IF T = {} THEN 0 ELSE f[Pick(T)] + g[T \ {Pick(T)}]]

LEMMA SumsExist ==
    ASSUME NEW f, NEW S, IsFiniteSet(S)
    PROVE  \E g : Recursion(f, S, g)
<1> DEFINE Closed(D) == \A T \in D : T # {} => T \ {Pick(T)} \in D
           Good == {D \in SUBSET (SUBSET S) : Closed(D) /\ \E g : Adds(f, g, D)}
           Rest == {(SUBSET S) \ D : D \in Good}
<1>1. Adds(f, <<>>, {}) /\ Closed({})
  BY DEF Adds
<1>2. {} \in Good
  <2>1. \E g : Adds(f, g, {})
    BY <1>1
  <2>2. {} \in SUBSET (SUBSET S)
    OBVIOUS
  <2> HIDE DEF Closed
  <2> QED BY <1>1, <2>1, <2>2
<1>3. IsFiniteSet(SUBSET S)
  BY FS_SUBSET
<1>4. Rest \in SUBSET (SUBSET (SUBSET S)) /\ Rest # {}
  <2> HIDE DEF Good
  <2> QED BY <1>2
<1> HIDE DEF Rest
<1>5. PICK W \in Rest : \A U \in Rest : U \subseteq W => U = W
  BY <1>3, <1>4, SmallestSubset
<1>6. PICK D \in Good : W = (SUBSET S) \ D
  BY <1>5 DEF Rest
<1>7. D \in SUBSET (SUBSET S) /\ Closed(D)
  BY <1>6
<1>8. PICK g : Adds(f, g, D)
  BY <1>6
<1>9. D = SUBSET S
  <2> SUFFICES ASSUME D # SUBSET S PROVE FALSE
    OBVIOUS
  <2> DEFINE M == (SUBSET S) \ D
  <2>1. PICK T \in M : \A U \in M : U \subseteq T => U = T
    <3>1. M \in SUBSET (SUBSET S) /\ M # {}
      BY <1>7
    <3> HIDE DEF M
    <3> QED BY <3>1, SmallestSubset
  <2>2. T # {} => Pick(T) \in T
    BY DEF Pick
  <2>3. T # {} => T \ {Pick(T)} \in D
    BY <2>1, <2>2
  <2> DEFINE E == D \cup {T}
             h == [U \in E |-> IF U = T THEN IF T = {} THEN 0 ELSE f[Pick(T)] + g[T \ {Pick(T)}] ELSE g[U]]
  <2>4. Closed(E)
    BY <1>7, <2>3
  <2>5. Adds(f, h, E)
    <3> SUFFICES ASSUME NEW U \in E
                 PROVE  h[U] = IF U = {} THEN 0 ELSE f[Pick(U)] + h[U \ {Pick(U)}]
      BY DEF Adds
    <3>1. CASE U = T
      <4>1. T # {} => h[T \ {Pick(T)}] = g[T \ {Pick(T)}]
        BY <2>1, <2>3
      <4> QED BY <3>1, <4>1
    <3>2. CASE U # T
      <4>1. U \in D /\ h[U] = g[U]
        BY <3>2
      <4>2. U # {} => U \ {Pick(U)} \in D
        BY <1>7, <4>1
      <4>3. U # {} => h[U \ {Pick(U)}] = g[U \ {Pick(U)}]
        BY <2>1, <4>2
      <4> QED BY <1>8, <4>1, <4>3 DEF Adds
    <3> QED BY <3>1, <3>2
  <2>6. E \in Good
    BY <1>7, <2>1, <2>4, <2>5
  <2>7. (SUBSET S) \ E \in Rest
    BY <2>6 DEF Rest
  <2>8. (SUBSET S) \ E \subseteq W /\ (SUBSET S) \ E # W
    BY <1>6, <2>1
  <2> QED BY <1>5, <2>7, <2>8
<1> DEFINE G == [T \in SUBSET S |-> g[T]]
<1>10. Recursion(f, S, G)
  <2>1. ASSUME NEW T \in SUBSET S PROVE G[T] = IF T = {} THEN 0 ELSE f[Pick(T)] + G[T \ {Pick(T)}]
    <3>1. T \ {Pick(T)} \in SUBSET S
      OBVIOUS
    <3> QED BY <1>8, <1>9, <3>1 DEF Adds
  <2> QED BY <2>1 DEF Recursion
<1> QED BY <1>10

\* SumFunctionOnSet by its definition, element by element.
LEMMA SumUnfolds ==
    ASSUME NEW f, NEW S, IsFiniteSet(S)
    PROVE  \E g : Adds(f, g, SUBSET S) /\ SumFunctionOnSet(f, S) = g[S]
<1> DEFINE it == CHOOSE g : Recursion(f, S, g)
<1>1. SumFunctionOnSet(f, S) = it[S]
  BY DEF SumFunctionOnSet, FoldFunctionOnSet, MapThenFoldSet, Pick, Recursion
<1>2. Recursion(f, S, it)
  BY SumsExist
<1> HIDE DEF it
<1>3. Adds(f, it, SUBSET S)
  BY <1>2 DEF Adds, Recursion
<1> QED BY <1>1, <1>3

\* Induction over the subsets of a finite set.
LEMMA SubsetInduction ==
    ASSUME NEW S, IsFiniteSet(S), NEW P,
           \A T \in SUBSET S : (\A U \in SUBSET T : U # T => U \in P) => T \in P
    PROVE  S \in P
<1> DEFINE F == {T \in SUBSET S : T \notin P}
<1> SUFFICES ASSUME S \notin P PROVE FALSE
  OBVIOUS
<1>1. F \in SUBSET (SUBSET S) /\ F # {}
  OBVIOUS
<1>2. PICK T \in F : \A U \in F : U \subseteq T => U = T
  <2> HIDE DEF F
  <2> QED BY <1>1, SmallestSubset
<1>3. \A U \in SUBSET T : U # T => U \in P
  BY <1>2
<1> QED BY <1>2, <1>3

LEMMA SumNone ==
    ASSUME NEW f PROVE SumFunctionOnSet(f, {}) = 0
<1>1. PICK g : Adds(f, g, SUBSET {}) /\ SumFunctionOnSet(f, {}) = g[{}]
  BY SumUnfolds, FS_EmptySet
<1> QED BY <1>1 DEF Adds

\* One step of the sum, with the element that CHOOSE takes.
LEMMA SumPick ==
    ASSUME NEW f, NEW S, IsFiniteSet(S), S # {}
    PROVE  /\ Pick(S) \in S
           /\ SumFunctionOnSet(f, S) = f[Pick(S)] + SumFunctionOnSet(f, S \ {Pick(S)})
<1> DEFINE R == S \ {Pick(S)}
<1>1. PICK g : Adds(f, g, SUBSET S) /\ SumFunctionOnSet(f, S) = g[S]
  BY SumUnfolds
<1>2. IsFiniteSet(R)
  BY FS_Subset
<1> HIDE DEF R
<1>3. PICK h : Adds(f, h, SUBSET R) /\ SumFunctionOnSet(f, R) = h[R]
  BY <1>2, SumUnfolds
<1>4. Adds(f, g, SUBSET R)
  BY <1>1 DEF Adds, R
<1>5. g[R] = h[R]
  BY <1>2, <1>3, <1>4, SumsAgree
<1>6. g[S] = f[Pick(S)] + g[R]
  BY <1>1 DEF Adds, R
<1>7. Pick(S) \in S
  BY DEF Pick
<1> QED BY <1>1, <1>3, <1>5, <1>6, <1>7 DEF R

LEMMA SumInt ==
    ASSUME NEW f, NEW S, IsFiniteSet(S), \A x \in S : f[x] \in Int
    PROVE  SumFunctionOnSet(f, S) \in Int
<1> DEFINE P == {T \in SUBSET S : SumFunctionOnSet(f, T) \in Int}
<1>1. ASSUME NEW T \in SUBSET S, \A U \in SUBSET T : U # T => U \in P
      PROVE  T \in P
  <2>1. CASE T = {}
    BY <2>1, SumNone
  <2>2. CASE T # {}
    <3>1. IsFiniteSet(T)
      BY FS_Subset
    <3>2. /\ Pick(T) \in T
          /\ SumFunctionOnSet(f, T) = f[Pick(T)] + SumFunctionOnSet(f, T \ {Pick(T)})
      BY <2>2, <3>1, SumPick
    <3>3. T \ {Pick(T)} \in P
      BY <1>1, <3>2
    <3> QED BY <3>2, <3>3
  <2> QED BY <2>1, <2>2
<1> HIDE DEF P
<1>2. S \in P
  BY <1>1, SubsetInduction
<1> QED BY <1>2 DEF P

\* Any element may be taken out first.
LEMMA SumTake ==
    ASSUME NEW f, NEW S, IsFiniteSet(S), \A x \in S : f[x] \in Int, NEW x \in S
    PROVE  SumFunctionOnSet(f, S) = f[x] + SumFunctionOnSet(f, S \ {x})
<1> DEFINE Sum(T) == SumFunctionOnSet(f, T)
           P == {T \in SUBSET S : \A y \in T : Sum(T) = f[y] + Sum(T \ {y})}
<1>0. ASSUME NEW T \in SUBSET S PROVE IsFiniteSet(T) /\ Sum(T) \in Int
  BY FS_Subset, SumInt
<1>1. ASSUME NEW T \in SUBSET S, \A U \in SUBSET T : U # T => U \in P
      PROVE  T \in P
  <2> SUFFICES ASSUME NEW y \in T PROVE Sum(T) = f[y] + Sum(T \ {y})
    OBVIOUS
  <2> DEFINE c == Pick(T)
  <2>1. c \in T /\ Sum(T) = f[c] + Sum(T \ {c})
    BY <1>0, SumPick
  <2> HIDE DEF c
  <2>2. CASE y = c
    BY <2>1, <2>2
  <2>3. CASE y # c
    <3>1. T \ {c} \in P /\ T \ {y} \in P
      <4>1. T \ {c} \in SUBSET T /\ T \ {c} # T /\ T \ {y} \in SUBSET T /\ T \ {y} # T
        BY <2>1
      <4> HIDE DEF P
      <4> QED BY <1>1, <4>1
    <3>2. Sum(T \ {c}) = f[y] + Sum((T \ {c}) \ {y})
      BY <2>1, <2>3, <3>1
    <3>3. Sum(T \ {y}) = f[c] + Sum((T \ {y}) \ {c})
      BY <2>1, <2>3, <3>1
    <3>4. (T \ {y}) \ {c} = (T \ {c}) \ {y}
      OBVIOUS
    <3>5. f[c] \in Int /\ f[y] \in Int /\ Sum((T \ {c}) \ {y}) \in Int
      BY <1>0, <2>1
    <3> HIDE DEF P, Sum
    <3>6. Sum((T \ {y}) \ {c}) = Sum((T \ {c}) \ {y})
      BY <3>4
    <3> QED BY <2>1, <3>2, <3>3, <3>5, <3>6
  <2> QED BY <2>2, <2>3
<1>2. S \in P
  <2> HIDE DEF P
  <2> QED BY <1>1, SubsetInduction
<1> QED BY <1>2

\* Sums are linear (the factors that are needed are three).
LEMMA SumPlus ==
    ASSUME NEW f, NEW g, NEW k, NEW c \in {-1, 0, 1}, NEW S, IsFiniteSet(S),
           \A x \in S : f[x] \in Int /\ g[x] \in Int /\ k[x] = f[x] + c * g[x]
    PROVE  SumFunctionOnSet(k, S) = SumFunctionOnSet(f, S) + c * SumFunctionOnSet(g, S)
<1> DEFINE Sum(h, T) == SumFunctionOnSet(h, T)
           P == {T \in SUBSET S : Sum(k, T) = Sum(f, T) + c * Sum(g, T)}
<1>0. ASSUME NEW T \in SUBSET S PROVE IsFiniteSet(T) /\ Sum(f, T) \in Int /\ Sum(g, T) \in Int
  BY FS_Subset, SumInt
<1>1. ASSUME NEW T \in SUBSET S, \A U \in SUBSET T : U # T => U \in P
      PROVE  T \in P
  <2>1. CASE T = {}
    BY <2>1, SumNone
  <2>2. CASE T # {}
    <3> DEFINE x == Pick(T)
               R == T \ {x}
    <3>1. /\ x \in T
          /\ Sum(k, T) = k[x] + Sum(k, R)
          /\ Sum(f, T) = f[x] + Sum(f, R)
          /\ Sum(g, T) = g[x] + Sum(g, R)
      BY <1>0, <2>2, SumPick
    <3>2. Sum(k, R) = Sum(f, R) + c * Sum(g, R)
      BY <1>1, <3>1
    <3>3. f[x] \in Int /\ g[x] \in Int /\ k[x] = f[x] + c * g[x] /\ Sum(f, R) \in Int /\ Sum(g, R) \in Int
      BY <1>0, <3>1
    <3> HIDE DEF x, R, Sum
    <3>4. Sum(k, T) = Sum(f, T) + c * Sum(g, T)
      BY <3>1, <3>2, <3>3
    <3> QED BY <3>4
  <2> QED BY <2>1, <2>2
<1>2. S \in P
  <2> HIDE DEF P
  <2> QED BY <1>1, SubsetInduction
<1> QED BY <1>2

LEMMA SumZero ==
    ASSUME NEW f, NEW S, IsFiniteSet(S), \A x \in S : f[x] = 0
    PROVE  SumFunctionOnSet(f, S) = 0
<1>1. SumFunctionOnSet(f, S) = SumFunctionOnSet(f, S) + (-1) * SumFunctionOnSet(f, S)
  <2>1. \A x \in S : f[x] \in Int /\ f[x] = f[x] + (-1) * f[x]
    OBVIOUS
  <2> QED BY <2>1, SumPlus
<1> QED BY <1>1, SumInt

\* A sum of numbers is one, and none of them exceeds it.
LEMMA SumNat ==
    ASSUME NEW f, NEW S, IsFiniteSet(S), \A x \in S : f[x] \in Nat
    PROVE  /\ SumFunctionOnSet(f, S) \in Nat
           /\ \A x \in S : f[x] + SumFunctionOnSet(f, S \ {x}) = SumFunctionOnSet(f, S)
           /\ \A x \in S : SumFunctionOnSet(f, S \ {x}) \in Nat /\ f[x] <= SumFunctionOnSet(f, S)
<1> DEFINE P == {T \in SUBSET S : SumFunctionOnSet(f, T) \in Nat}
<1>1. ASSUME NEW T \in SUBSET S, \A U \in SUBSET T : U # T => U \in P
      PROVE  T \in P
  <2>1. CASE T = {}
    BY <2>1, SumNone
  <2>2. CASE T # {}
    <3>1. IsFiniteSet(T)
      BY FS_Subset
    <3>2. /\ Pick(T) \in T
          /\ SumFunctionOnSet(f, T) = f[Pick(T)] + SumFunctionOnSet(f, T \ {Pick(T)})
      BY <2>2, <3>1, SumPick
    <3>3. T \ {Pick(T)} \in P
      BY <1>1, <3>2
    <3> QED BY <3>2, <3>3
  <2> QED BY <2>1, <2>2
<1>2. ASSUME NEW T \in SUBSET S PROVE SumFunctionOnSet(f, T) \in Nat
  <2>1. IsFiniteSet(T)
    BY FS_Subset
  <2>2. \A U \in SUBSET T : (\A V \in SUBSET U : V # U => V \in P) => U \in P
    <3> HIDE DEF P
    <3> QED BY <1>1
  <2>3. T \in P
    <3> HIDE DEF P
    <3> QED BY <2>1, <2>2, SubsetInduction
  <2> QED BY <2>3
<1>3. ASSUME NEW x \in S PROVE SumFunctionOnSet(f, S) = f[x] + SumFunctionOnSet(f, S \ {x})
  BY SumTake
<1> QED BY <1>2, <1>3

\* A sum of which a single part is not zero.
LEMMA SumOne ==
    ASSUME NEW f, NEW S, IsFiniteSet(S), NEW x \in S, f[x] \in Int,
           \A y \in S \ {x} : f[y] = 0
    PROVE  SumFunctionOnSet(f, S) = f[x]
<1>1. \A y \in S : f[y] \in Int
  OBVIOUS
<1>2. SumFunctionOnSet(f, S) = f[x] + SumFunctionOnSet(f, S \ {x})
  BY <1>1, SumTake
<1>3. IsFiniteSet(S \ {x})
  BY FS_Subset
<1>4. SumFunctionOnSet(f, S \ {x}) = 0
  BY <1>3, SumZero
<1> QED BY <1>2, <1>4
-----------------------------------------------------------------------------
\* A function of finitely many shards has a least value.
LEMMA ShardsFinite == IsFiniteSet(ShardIDs) /\ ShardIDs # {}
<1>1. ShardNum - 1 \in Int /\ 0 \in ShardIDs
  BY CLPAConstants DEF ShardIDs
<1> QED BY <1>1, FS_Interval DEF ShardIDs

LEMMA LeastValue ==
    ASSUME NEW f \in [ShardIDs -> Nat]
    PROVE  \E k \in ShardIDs : Least(f) = f[k] /\ \A l \in ShardIDs : Least(f) <= f[l]
<1> DEFINE P == {T \in SUBSET ShardIDs : T # {} => \E k \in T : \A l \in T : f[k] <= f[l]}
<1>1. ASSUME NEW T \in SUBSET ShardIDs, \A U \in SUBSET T : U # T => U \in P
      PROVE  T \in P
  <2> SUFFICES ASSUME NEW c \in T PROVE \E k \in T : \A l \in T : f[k] <= f[l]
    OBVIOUS
  <2>1. T \ {c} \in P
    BY <1>1
  <2>2. CASE T \ {c} = {}
    BY <2>2
  <2>3. CASE T \ {c} # {}
    <3>1. PICK k \in T \ {c} : \A l \in T \ {c} : f[k] <= f[l]
      BY <2>1, <2>3
    <3>2. \A l \in T : f[l] \in Nat
      OBVIOUS
    <3> QED BY <3>1, <3>2
  <2> QED BY <2>2, <2>3
<1>2. ShardIDs \in P
  <2> HIDE DEF P
  <2> QED BY <1>1, ShardsFinite, SubsetInduction
<1>3. PICK k \in ShardIDs : \A l \in ShardIDs : f[k] <= f[l]
  BY <1>2, ShardsFinite
<1>4. \E n \in {f[l] : l \in DOMAIN f} : \A l \in DOMAIN f : n <= f[l]
  BY <1>3
<1>5. Least(f) \in {f[l] : l \in DOMAIN f} /\ \A l \in DOMAIN f : Least(f) <= f[l]
  BY <1>4 DEF Least
<1> QED BY <1>5
-----------------------------------------------------------------------------
(* Vertices, lists and entries *)

Partitions == [Vertices -> ShardIDs]

Typed ==
    /\ Vertexs \in Seq(Vertices)
    /\ EdgeSet \in [Vertices -> [Vertices -> Nat]]
    /\ PartitionMap \in Partitions
    /\ VertexsNumInShard \in [ShardIDs -> Int] /\ Edges2Shard \in [ShardIDs -> Int]
    /\ CrossShardEdgeNum \in Int
    /\ pos \in Nat \ {0}
    /\ phase \in {"graph", "partition", "done"}

\* Each edge is in the lists of both its ends, which differ, and no vertex comes
\* without an edge.
BothEnds ==
    /\ \A u, v \in Vertices : EdgeSet[u][v] = EdgeSet[v][u]
    /\ \A v \in Vertices : EdgeSet[v][v] = 0
    /\ \A v \in VertexSet : \E u \in VertexSet : EdgeSet[v][u] > 0

Counted == \A k \in ShardIDs : VertexsNumInShard[k] = Cardinality(Members(PartitionMap, k))

\* The sets that are summed over are finite.
LEMMA VertexSets ==
    ASSUME Typed, NEW part, NEW k
    PROVE  /\ VertexSet \subseteq Vertices /\ IsFiniteSet(VertexSet)
           /\ Members(part, k) \subseteq VertexSet /\ IsFiniteSet(Members(part, k))
<1>1. VertexSet \subseteq Vertices
  BY DEF Typed, VertexSet, ToSet
<1>2. Members(part, k) \subseteq VertexSet
  BY DEF Members
<1> QED BY <1>1, <1>2, CLPAConstants, FS_Subset

\* All that is counted is a number.
LEMMA EntryNumbers ==
    ASSUME Typed, NEW part \in Partitions
    PROVE  /\ \A v \in Vertices : \A l \in ShardIDs : ListEntries(part, v, l) \in Nat
           /\ \A k, l \in ShardIDs : Entries(part, k, l) \in Nat
           /\ \A k \in ShardIDs : CrossInto(part, k) \in Nat
           /\ EdgesOf(part) \in [ShardIDs -> Nat]
           /\ CrossEdges(part) \in Nat
<1>1. ASSUME NEW v \in Vertices, NEW l \in ShardIDs PROVE ListEntries(part, v, l) \in Nat
  <2>1. \A u \in Members(part, l) : EdgeSet[v][u] \in Nat
    BY VertexSets DEF Typed
  <2> QED BY <2>1, VertexSets, SumNat DEF ListEntries
<1>2. ASSUME NEW k \in ShardIDs, NEW l \in ShardIDs PROVE Entries(part, k, l) \in Nat
  <2> DEFINE row == [v \in VertexSet |-> ListEntries(part, v, l)]
  <2>1. \A u \in Members(part, k) : row[u] \in Nat
    BY <1>1, VertexSets
  <2> HIDE DEF row
  <2>2. SumFunctionOnSet(row, Members(part, k)) \in Nat
    BY <2>1, VertexSets, SumNat
  <2> QED BY <2>2 DEF Entries, row
<1>3. ASSUME NEW k \in ShardIDs PROVE CrossInto(part, k) \in Nat
  <2> DEFINE col == [l \in ShardIDs |-> Entries(part, l, k)]
  <2>1. \A l \in ShardIDs \ {k} : col[l] \in Nat
    BY <1>2
  <2>2. IsFiniteSet(ShardIDs \ {k})
    BY ShardsFinite, FS_Subset
  <2> HIDE DEF col
  <2>3. SumFunctionOnSet(col, ShardIDs \ {k}) \in Nat
    BY <2>1, <2>2, SumNat
  <2> QED BY <2>3 DEF CrossInto, col
<1>4. EdgesOf(part) \in [ShardIDs -> Nat]
  <2>1. \A k \in ShardIDs : CrossInto(part, k) + Entries(part, k, k) \div 2 \in Nat
    BY <1>2, <1>3
  <2> QED BY <2>1 DEF EdgesOf
<1>5. CrossEdges(part) \in Nat
  <2> DEFINE all == [k \in ShardIDs |-> CrossInto(part, k)]
  <2>1. \A k \in ShardIDs : all[k] \in Nat
    BY <1>3
  <2> HIDE DEF all
  <2>2. SumFunctionOnSet(all, ShardIDs) \in Nat
    BY <2>1, ShardsFinite, SumNat
  <2> QED BY <2>2 DEF CrossEdges, all
<1> QED BY <1>1, <1>2, <1>3, <1>4, <1>5

\* A shard with an account has an edge: the account has a neighbour, in another
\* shard or in this one, where the edge is in two lists.
LEMMA MemberHasEdge ==
    ASSUME Typed, BothEnds, NEW part \in Partitions, NEW k \in ShardIDs, NEW u \in Members(part, k)
    PROVE  EdgesOf(part)[k] > 0
<1>0. u \in VertexSet /\ u \in Vertices
  BY VertexSets
<1>1. PICK w \in VertexSet : EdgeSet[u][w] > 0
  BY <1>0 DEF BothEnds
<1>2. w \in Vertices /\ w # u /\ EdgeSet[w][u] = EdgeSet[u][w] /\ EdgeSet[w][u] \in Nat
  BY <1>0, <1>1, VertexSets DEF BothEnds, Typed
<1> DEFINE m == part[w]
           row == [v \in VertexSet |-> ListEntries(part, v, k)]
<1>3. m \in ShardIDs /\ w \in Members(part, m) /\ part[u] = k
  BY <1>1, <1>2 DEF Members, Partitions
<1>4. ASSUME NEW a \in VertexSet, NEW b \in Members(part, k), EdgeSet[a][b] > 0
      PROVE  row[a] > 0
  <2>1. a \in Vertices /\ \A c \in Members(part, k) : EdgeSet[a][c] \in Nat
    BY VertexSets DEF Typed
  <2>2. EdgeSet[a][b] <= ListEntries(part, a, k) /\ ListEntries(part, a, k) \in Nat
    BY <2>1, VertexSets, SumNat DEF ListEntries
  <2> QED BY <1>4, <2>1, <2>2
<1>5. row[w] > 0
  BY <1>0, <1>1, <1>2, <1>4
<1>6. \A v \in VertexSet : row[v] \in Nat
  BY EntryNumbers, VertexSets
<1> HIDE DEF row
<1>7. /\ CrossInto(part, k) \in Nat /\ Entries(part, k, k) \in Nat
      /\ EdgesOf(part)[k] = CrossInto(part, k) + Entries(part, k, k) \div 2
  BY EntryNumbers DEF EdgesOf
<1>8. CASE m # k
  <2> DEFINE col == [l \in ShardIDs |-> Entries(part, l, k)]
  <2>1. SumFunctionOnSet(row, Members(part, m)) >= row[w]
    BY <1>3, <1>6, VertexSets, SumNat
  <2>2. col[m] > 0
    BY <1>3, <1>5, <1>6, <2>1, EntryNumbers DEF Entries, row
  <2>3. \A l \in ShardIDs \ {k} : col[l] \in Nat
    BY EntryNumbers
  <2>4. IsFiniteSet(ShardIDs \ {k})
    BY ShardsFinite, FS_Subset
  <2> HIDE DEF col, m
  <2>5. SumFunctionOnSet(col, ShardIDs \ {k}) >= col[m]
    BY <1>3, <1>8, <2>3, <2>4, SumNat
  <2>6. CrossInto(part, k) > 0
    BY <1>3, <1>7, <1>8, <2>2, <2>3, <2>5 DEF CrossInto, col
  <2> QED BY <1>7, <2>6
<1>9. CASE m = k
  <2>1. u \in Members(part, k) /\ w \in Members(part, k)
    BY <1>3, <1>9
  <2>2. row[u] > 0
    BY <1>0, <1>1, <1>4, <2>1
  <2> DEFINE M == Members(part, k)
  <2>3. IsFiniteSet(M) /\ IsFiniteSet(M \ {u}) /\ \A v \in M : row[v] \in Nat
    BY <1>6, VertexSets, FS_Subset
  <2>4. /\ row[u] + SumFunctionOnSet(row, M \ {u}) = SumFunctionOnSet(row, M)
        /\ SumFunctionOnSet(row, M \ {u}) \in Nat
    BY <2>1, <2>3, SumNat
  <2>5. row[w] <= SumFunctionOnSet(row, M \ {u})
    BY <1>2, <2>1, <2>3, SumNat
  <2>6. Entries(part, k, k) = SumFunctionOnSet(row, M)
    BY DEF Entries, row
  <2>7. Entries(part, k, k) >= 2
    <3> HIDE DEF M
    <3> QED BY <1>5, <1>6, <1>0, <2>2, <2>4, <2>5, <2>6
  <2> QED BY <1>7, <2>7
<1> QED BY <1>8, <1>9
-----------------------------------------------------------------------------
\* What a vertex that moves from shard o to shard n adds to shard k.
Share(n, o, k) == IF k = n THEN 1 ELSE IF k = o THEN -1 ELSE 0

LEMMA ShareValues ==
    ASSUME NEW n, NEW o, NEW k PROVE Share(n, o, k) \in {-1, 0, 1}
  BY DEF Share

\* The sum over a shard's members after the move.
LEMMA SumMoved ==
    ASSUME Typed, NEW part \in Partitions, NEW v \in VertexSet, NEW n \in ShardIDs, part[v] # n,
           NEW k \in ShardIDs, NEW h, \A x \in VertexSet : h[x] \in Int
    PROVE  SumFunctionOnSet(h, Members([part EXCEPT ![v] = n], k))
             = SumFunctionOnSet(h, Members(part, k)) + Share(n, part[v], k) * h[v]
<1> DEFINE new == [part EXCEPT ![v] = n]
           Sum(T) == SumFunctionOnSet(h, T)
<1>1. \A q, j : /\ Members(q, j) \subseteq VertexSet /\ IsFiniteSet(Members(q, j))
                /\ Sum(Members(q, j)) \in Int
  BY VertexSets, SumInt
<1>2. \A q, j : v \in Members(q, j) => Sum(Members(q, j)) = h[v] + Sum(Members(q, j) \ {v})
  BY <1>1, SumTake
<1>3. h[v] \in Int
  OBVIOUS
<1>m. /\ Members(new, n) = Members(part, n) \cup {v} /\ v \notin Members(part, n)
      /\ Members(new, part[v]) = Members(part, part[v]) \ {v} /\ v \in Members(part, part[v])
      /\ \A j : j \notin {n, part[v]} => Members(new, j) = Members(part, j)
  <2>1. new = [part EXCEPT ![v] = n]
    OBVIOUS
  <2> HIDE DEF new
  <2>2. Members(new, n) = Members(part, n) \cup {v} /\ v \notin Members(part, n)
    BY <2>1, VertexSets DEF Members, Partitions
  <2>3. Members(new, part[v]) = Members(part, part[v]) \ {v} /\ v \in Members(part, part[v])
    BY <2>1, VertexSets DEF Members, Partitions
  <2>4. ASSUME NEW j, j \notin {n, part[v]} PROVE Members(new, j) = Members(part, j)
    BY <2>1, <2>4, VertexSets DEF Members, Partitions
  <2> QED BY <2>2, <2>3, <2>4
<1> HIDE DEF new, Sum
<1>4. CASE k = n
  <2>1. v \in Members(new, n) /\ Members(new, n) \ {v} = Members(part, n)
    BY <1>m
  <2>2. Sum(Members(new, n)) = h[v] + Sum(Members(part, n))
    BY <1>2, <2>1
  <2>3. Sum(Members(new, k)) = Sum(Members(part, k)) + Share(n, part[v], k) * h[v]
    BY <1>1, <1>3, <1>4, <2>2 DEF Share
  <2> QED BY <2>3 DEF Sum, new
<1>5. CASE k = part[v]
  <2>1. Sum(Members(part, k)) = h[v] + Sum(Members(new, k))
    BY <1>2, <1>5, <1>m
  <2>3. Sum(Members(new, k)) = Sum(Members(part, k)) + Share(n, part[v], k) * h[v]
    BY <1>1, <1>3, <1>5, <2>1 DEF Share
  <2> QED BY <2>3 DEF Sum, new
<1>6. CASE k \notin {n, part[v]}
  <2>1. Sum(Members(new, k)) = Sum(Members(part, k))
    BY <1>6, <1>m
  <2>3. Sum(Members(new, k)) = Sum(Members(part, k)) + Share(n, part[v], k) * h[v]
    BY <1>1, <1>3, <1>6, <2>1 DEF Share
  <2> QED BY <2>3 DEF Sum, new
<1> QED BY <1>4, <1>5, <1>6

\* Both the lists of v and the entries that lead to it change shards.
LEMMA EntriesMoved ==
    ASSUME Typed, BothEnds, NEW part \in Partitions, NEW v \in VertexSet, NEW n \in ShardIDs,
           part[v] # n, NEW k \in ShardIDs, NEW l \in ShardIDs
    PROVE  Entries([part EXCEPT ![v] = n], l, k)
             = Entries(part, l, k) + Share(n, part[v], k) * ListEntries(part, v, l)
                                   + Share(n, part[v], l) * ListEntries(part, v, k)
<1> DEFINE new == [part EXCEPT ![v] = n]
           c(j) == Share(n, part[v], j)
           d(j) == ListEntries(part, v, j)
           row == [w \in VertexSet |-> ListEntries(part, w, k)]
           nrow == [w \in VertexSet |-> ListEntries(new, w, k)]
<1>1. VertexSet \subseteq Vertices /\ v \in Vertices /\ new \in Partitions
  BY VertexSets DEF Partitions
<1>2. ASSUME NEW w \in VertexSet
      PROVE  nrow[w] = row[w] + c(k) * EdgeSet[v][w] /\ row[w] \in Int /\ nrow[w] \in Int
             /\ EdgeSet[v][w] \in Int
  <2>1. \A x \in VertexSet : EdgeSet[w][x] \in Int
    BY <1>1 DEF Typed
  <2>2. ListEntries(new, w, k) = ListEntries(part, w, k) + c(k) * EdgeSet[w][v]
    BY <2>1, SumMoved DEF ListEntries
  <2>3. EdgeSet[w][v] = EdgeSet[v][w] /\ EdgeSet[v][w] \in Int
    BY <1>1 DEF BothEnds, Typed
  <2>4. ListEntries(new, w, k) \in Int /\ ListEntries(part, w, k) \in Int
    BY <1>1, EntryNumbers
  <2> QED BY <2>2, <2>3, <2>4
<1>3. nrow[v] = d(k)
  <2>1. EdgeSet[v][v] = 0 /\ c(k) * 0 = 0
    BY <1>1, ShareValues DEF BothEnds
  <2>2. d(k) \in Int /\ row[v] = d(k)
    BY <1>1, EntryNumbers
  <2> HIDE DEF c, d, row, nrow
  <2> QED BY <1>2, <2>1, <2>2
<1>4. SumFunctionOnSet(nrow, Members(part, l)) = SumFunctionOnSet(row, Members(part, l)) + c(k) * d(l)
  <2>1. SumFunctionOnSet(EdgeSet[v], Members(part, l)) = d(l)
    BY DEF ListEntries
  <2>2. \A w \in Members(part, l) : /\ nrow[w] = row[w] + c(k) * EdgeSet[v][w]
                                    /\ row[w] \in Int /\ EdgeSet[v][w] \in Int
    BY <1>2, VertexSets
  <2>3. c(k) \in {-1, 0, 1} /\ IsFiniteSet(Members(part, l))
    BY ShareValues, VertexSets
  <2> HIDE DEF nrow, row, c, d
  <2>4. SumFunctionOnSet(nrow, Members(part, l))
          = SumFunctionOnSet(row, Members(part, l)) + c(k) * SumFunctionOnSet(EdgeSet[v], Members(part, l))
    BY <2>2, <2>3, SumPlus
  <2> QED BY <2>1, <2>4
<1>5. SumFunctionOnSet(nrow, Members(new, l)) = SumFunctionOnSet(nrow, Members(part, l)) + c(l) * nrow[v]
  <2>1. \A x \in VertexSet : nrow[x] \in Int
    BY <1>2
  <2> HIDE DEF nrow
  <2> QED BY <2>1, SumMoved
<1>6. /\ Entries(new, l, k) = SumFunctionOnSet(nrow, Members(new, l))
      /\ Entries(part, l, k) = SumFunctionOnSet(row, Members(part, l))
  BY DEF Entries
<1> QED
  <2> HIDE DEF nrow, row, new, c, d
  <2>1. Entries(new, l, k) = Entries(part, l, k) + c(k) * d(l) + c(l) * d(k)
    BY <1>3, <1>4, <1>5, <1>6
  <2> QED BY <2>1 DEF new, c, d

\* A sum over the shards of which only two parts are not zero.
LEMMA SumTwo ==
    ASSUME NEW f, NEW n \in ShardIDs, NEW o \in ShardIDs, n # o, f[n] \in Int, f[o] \in Int,
           \A k \in ShardIDs : k \notin {n, o} => f[k] = 0
    PROVE  SumFunctionOnSet(f, ShardIDs) = f[n] + f[o]
<1>1. \A k \in ShardIDs : f[k] \in Int
  OBVIOUS
<1>2. SumFunctionOnSet(f, ShardIDs) = f[n] + SumFunctionOnSet(f, ShardIDs \ {n})
  BY <1>1, ShardsFinite, SumTake
<1>3. IsFiniteSet(ShardIDs \ {n}) /\ o \in ShardIDs \ {n} /\ \A k \in (ShardIDs \ {n}) \ {o} : f[k] = 0
  BY ShardsFinite, FS_Subset
<1>4. SumFunctionOnSet(f, ShardIDs \ {n}) = f[o]
  BY <1>3, SumOne
<1> QED BY <1>2, <1>4

\* The entries of v's list, shard by shard (the model's OutDegree).
Degree(part, v) == SumFunctionOnSet([k \in ShardIDs |-> ListEntries(part, v, k)], ShardIDs)

LEMMA DegreeBounds ==
    ASSUME Typed, NEW part \in Partitions, NEW v \in Vertices, NEW k \in ShardIDs
    PROVE  /\ Degree(part, v) \in Nat
           /\ ListEntries(part, v, k) \in Nat /\ ListEntries(part, v, k) <= Degree(part, v)
           /\ SumFunctionOnSet([l \in ShardIDs |-> ListEntries(part, v, l)], ShardIDs \ {k})
                = Degree(part, v) - ListEntries(part, v, k)
<1> DEFINE f == [l \in ShardIDs |-> ListEntries(part, v, l)]
<1>1. \A l \in ShardIDs : f[l] \in Nat
  BY EntryNumbers
<1>2. f[k] = ListEntries(part, v, k)
  OBVIOUS
<1> HIDE DEF f
<1>3. /\ SumFunctionOnSet(f, ShardIDs) \in Nat /\ f[k] <= SumFunctionOnSet(f, ShardIDs)
      /\ f[k] + SumFunctionOnSet(f, ShardIDs \ {k}) = SumFunctionOnSet(f, ShardIDs)
      /\ SumFunctionOnSet(f, ShardIDs \ {k}) \in Nat
  BY <1>1, ShardsFinite, SumNat
<1>4. f[k] \in Nat
  BY <1>1
<1>5. Degree(part, v) = SumFunctionOnSet(f, ShardIDs)
  BY DEF Degree, f
<1>6. SumFunctionOnSet(f, ShardIDs \ {k}) = Degree(part, v) - ListEntries(part, v, k)
  BY <1>2, <1>3, <1>4, <1>5
<1> QED BY <1>2, <1>3, <1>4, <1>5, <1>6 DEF f

LEMMA DegreeNumber ==
    ASSUME Typed, NEW part \in Partitions, NEW v \in Vertices
    PROVE  Degree(part, v) \in Nat
<1>1. PICK k \in ShardIDs : TRUE
  BY ShardsFinite
<1> QED BY <1>1, DegreeBounds

\* Of v's entries, the shard it comes to gains those that lead elsewhere as edges
\* that cross into it and loses those that lead to it, which become inner ones;
\* the shard it leaves the other way round.
LEMMA CrossMoved ==
    ASSUME Typed, BothEnds, NEW part \in Partitions, NEW v \in VertexSet, NEW n \in ShardIDs,
           part[v] # n, NEW k \in ShardIDs
    PROVE  CrossInto([part EXCEPT ![v] = n], k)
             = CrossInto(part, k)
               + Share(n, part[v], k) * (Degree(part, v) - 2 * ListEntries(part, v, k))
<1> DEFINE new == [part EXCEPT ![v] = n]
           o == part[v]
           c(j) == Share(n, o, j)
           d == [j \in ShardIDs |-> ListEntries(part, v, j)]
           K == ShardIDs \ {k}
           old == [l \in ShardIDs |-> Entries(part, l, k)]
           mid == [l \in ShardIDs |-> old[l] + c(k) * d[l]]
           e == [l \in ShardIDs |-> c(l) * d[k]]
           now == [l \in ShardIDs |-> Entries(new, l, k)]
<1>1. v \in Vertices /\ o \in ShardIDs /\ new \in Partitions /\ IsFiniteSet(K) /\ K \subseteq ShardIDs
  BY VertexSets, ShardsFinite, FS_Subset DEF Partitions
<1>2. \A l \in ShardIDs : c(l) \in {-1, 0, 1}
  BY ShareValues
<1>3. ASSUME NEW l \in ShardIDs
      PROVE  /\ old[l] \in Int /\ d[l] \in Int /\ e[l] \in Int /\ mid[l] \in Int
             /\ mid[l] = old[l] + c(k) * d[l] /\ e[l] = c(l) * d[k]
             /\ now[l] = mid[l] + 1 * e[l]
  <2>1. old[l] \in Int /\ d[l] \in Int /\ d[k] \in Int
    BY <1>1, EntryNumbers
  <2>2. now[l] = old[l] + c(k) * d[l] + c(l) * d[k]
    BY EntriesMoved
  <2>3. c(k) \in {-1, 0, 1} /\ c(l) \in {-1, 0, 1} /\ mid[l] = old[l] + c(k) * d[l] /\ e[l] = c(l) * d[k]
    BY <1>2
  <2> HIDE DEF old, d, e, mid, now, c
  <2>4. c(k) * d[l] \in Int /\ c(l) * d[k] \in Int
    BY <2>1, <2>3
  <2> QED BY <2>1, <2>2, <2>3, <2>4
<1>4. SumFunctionOnSet(d, K) = Degree(part, v) - d[k]
  BY <1>1, DegreeBounds
<1>5. SumFunctionOnSet(e, K) = - (c(k) * d[k])
  <2>1. SumFunctionOnSet(e, ShardIDs) = 0
    <3>1. e[n] = d[k] /\ e[o] = - d[k] /\ d[k] \in Int
      BY <1>1, <1>3 DEF Share
    <3>2. \A l \in ShardIDs : l \notin {n, o} => e[l] = 0
      BY <1>3 DEF Share
    <3>3. n # o
      OBVIOUS
    <3> HIDE DEF e, d, o
    <3>4. SumFunctionOnSet(e, ShardIDs) = e[n] + e[o]
      BY <1>1, <3>1, <3>2, <3>3, SumTwo
    <3> QED BY <3>1, <3>4
  <2>2. \A l \in ShardIDs : e[l] \in Int
    BY <1>3
  <2>3. e[k] = c(k) * d[k]
    OBVIOUS
  <2> HIDE DEF e, c, d
  <2>4. SumFunctionOnSet(e, ShardIDs) = e[k] + SumFunctionOnSet(e, K)
    BY <2>2, ShardsFinite, SumTake
  <2>5. SumFunctionOnSet(e, K) \in Int
    BY <1>1, <2>2, SumInt
  <2> HIDE DEF K
  <2> QED BY <2>1, <2>2, <2>3, <2>4, <2>5
<1>6. /\ CrossInto(part, k) = SumFunctionOnSet(old, K)
      /\ CrossInto(new, k) = SumFunctionOnSet(now, K)
      /\ CrossInto(part, k) \in Int
      /\ Degree(part, v) \in Int /\ d[k] \in Int /\ d[k] = ListEntries(part, v, k)
  <2>1. CrossInto(part, k) = SumFunctionOnSet(old, K) /\ CrossInto(new, k) = SumFunctionOnSet(now, K)
    BY DEF CrossInto
  <2>2. CrossInto(part, k) \in Int /\ Degree(part, v) \in Int
    BY <1>1, EntryNumbers, DegreeNumber
  <2> QED BY <1>3, <2>1, <2>2
<1>7. c(k) \in {-1, 0, 1}
  BY <1>2
<1> HIDE DEF c, d, old, mid, e, now, K
<1>8. SumFunctionOnSet(mid, K) = SumFunctionOnSet(old, K) + c(k) * SumFunctionOnSet(d, K)
  <2>1. \A l \in K : old[l] \in Int /\ d[l] \in Int /\ mid[l] = old[l] + c(k) * d[l]
    BY <1>1, <1>3
  <2> QED BY <2>1, <1>1, <1>7, SumPlus
<1>9. SumFunctionOnSet(now, K) = SumFunctionOnSet(mid, K) + 1 * SumFunctionOnSet(e, K)
  BY <1>1, <1>3, SumPlus
<1>10. SumFunctionOnSet(mid, K) \in Int
  BY <1>1, <1>3, SumInt
<1> HIDE DEF new, o
<1>11. CrossInto(new, k) = CrossInto(part, k) + c(k) * (Degree(part, v) - 2 * ListEntries(part, v, k))
  BY <1>4, <1>5, <1>6, <1>7, <1>8, <1>9, <1>10
<1> QED BY <1>11 DEF c, new, o

\* ComputeEdges2Shard1 computes what ComputeEdges2Shard would.
LEMMA EdgesMoved ==
    ASSUME Typed, BothEnds, NEW part \in Partitions, NEW v \in VertexSet, NEW n \in ShardIDs,
           part[v] # n, NEW k \in ShardIDs
    PROVE  EdgesOf([part EXCEPT ![v] = n])[k]
             = EdgesOf(part)[k] + Share(n, part[v], k) * (Degree(part, v) - ListEntries(part, v, k))
<1> DEFINE new == [part EXCEPT ![v] = n]
           c == Share(n, part[v], k)
           d == ListEntries(part, v, k)
           E == Entries(part, k, k)
<1>1. v \in Vertices /\ c \in {-1, 0, 1}
  BY VertexSets, ShareValues
<1>2. d \in Int /\ E \in Int /\ Degree(part, v) \in Int /\ CrossInto(part, k) \in Int
  BY <1>1, EntryNumbers, DegreeNumber
<1>3. CrossInto(new, k) = CrossInto(part, k) + c * (Degree(part, v) - 2 * d)
  BY CrossMoved
<1>4. Entries(new, k, k) = E + c * d + c * d
  BY EntriesMoved
<1>5. /\ EdgesOf(new)[k] = CrossInto(new, k) + Entries(new, k, k) \div 2
      /\ EdgesOf(part)[k] = CrossInto(part, k) + E \div 2
  BY DEF EdgesOf
<1> HIDE DEF new, c, d, E
<1>6. EdgesOf(new)[k] = EdgesOf(part)[k] + c * (Degree(part, v) - d)
  <2>1. CASE c = 0
    BY <2>1, <1>2, <1>3, <1>4, <1>5
  <2>2. CASE c = 1
    <3>1. (E + d + d) \div 2 = E \div 2 + d
      BY <1>2
    <3> QED BY <2>2, <3>1, <1>2, <1>3, <1>4, <1>5
  <2>3. CASE c = -1
    <3>1. (E - d - d) \div 2 = E \div 2 - d
      BY <1>2
    <3>2. E + c * d + c * d = E - d - d
      BY <2>3, <1>2
    <3> QED BY <2>3, <3>1, <3>2, <1>2, <1>3, <1>4, <1>5
  <2> QED BY <1>1, <2>1, <2>2, <2>3
<1> QED BY <1>6 DEF new, c, d

\* The edges between shards, halved.
LEMMA AllCrossMoved ==
    ASSUME Typed, BothEnds, NEW part \in Partitions, NEW v \in VertexSet, NEW n \in ShardIDs,
           part[v] # n
    PROVE  CrossEdges([part EXCEPT ![v] = n])
             = CrossEdges(part) + ListEntries(part, v, part[v]) - ListEntries(part, v, n)
<1> DEFINE new == [part EXCEPT ![v] = n]
           o == part[v]
           d(j) == ListEntries(part, v, j)
           old == [k \in ShardIDs |-> CrossInto(part, k)]
           now == [k \in ShardIDs |-> CrossInto(new, k)]
           e == [k \in ShardIDs |-> Share(n, o, k) * (Degree(part, v) - 2 * d(k))]
<1>1. v \in Vertices /\ o \in ShardIDs /\ o # n
  BY VertexSets DEF Partitions
<1>2. ASSUME NEW k \in ShardIDs PROVE old[k] \in Int /\ e[k] \in Int /\ now[k] = old[k] + 1 * e[k]
  <2>1. old[k] \in Int /\ d(k) \in Int /\ Degree(part, v) \in Int /\ Share(n, o, k) \in {-1, 0, 1}
    BY <1>1, EntryNumbers, DegreeNumber, ShareValues
  <2>2. e[k] \in Int
    <3> HIDE DEF d, o
    <3> QED BY <2>1
  <2>3. now[k] = old[k] + e[k]
    BY CrossMoved
  <2> HIDE DEF old, now, e
  <2> QED BY <2>1, <2>2, <2>3
<1>3. e[n] = Degree(part, v) - 2 * d(n) /\ e[o] = - (Degree(part, v) - 2 * d(o))
      /\ d(n) \in Int /\ d(o) \in Int /\ Degree(part, v) \in Int
  <2>1. d(n) \in Int /\ d(o) \in Int /\ Degree(part, v) \in Int
    BY <1>1, EntryNumbers, DegreeNumber
  <2>2. e[n] = 1 * (Degree(part, v) - 2 * d(n)) /\ e[o] = (-1) * (Degree(part, v) - 2 * d(o))
    BY <1>1 DEF Share
  <2> HIDE DEF d, e, o
  <2> QED BY <2>1, <2>2
<1>4. \A k \in ShardIDs : k \notin {n, o} => e[k] = 0
  <2> SUFFICES ASSUME NEW k \in ShardIDs, k \notin {n, o} PROVE e[k] = 0
    OBVIOUS
  <2>1. e[k] = 0 * (Degree(part, v) - 2 * d(k)) /\ d(k) \in Int
    BY <1>1, EntryNumbers DEF Share
  <2> HIDE DEF d, e
  <2> QED BY <1>3, <2>1
<1>5. CrossEdges(part) = SumFunctionOnSet(old, ShardIDs) \div 2
      /\ CrossEdges(new) = SumFunctionOnSet(now, ShardIDs) \div 2
  BY DEF CrossEdges
<1> HIDE DEF e, old, now, o, d
<1>6. SumFunctionOnSet(e, ShardIDs) = e[n] + e[o]
  BY <1>1, <1>3, <1>2, <1>4, SumTwo
<1>7. SumFunctionOnSet(now, ShardIDs)
        = SumFunctionOnSet(old, ShardIDs) + 1 * SumFunctionOnSet(e, ShardIDs)
  BY <1>2, ShardsFinite, SumPlus
<1>8. SumFunctionOnSet(old, ShardIDs) \in Int
  BY <1>2, ShardsFinite, SumInt
<1>9. CrossEdges(new) = CrossEdges(part) + d(o) - d(n)
  <2> DEFINE X == SumFunctionOnSet(old, ShardIDs)
  <2>1. SumFunctionOnSet(now, ShardIDs) = X + 2 * (d(o) - d(n))
    BY <1>3, <1>6, <1>7, <1>8
  <2>2. X \in Int /\ d(o) - d(n) \in Int
    BY <1>3, <1>8
  <2> HIDE DEF X
  <2>3. (X + 2 * (d(o) - d(n))) \div 2 = X \div 2 + (d(o) - d(n))
    BY <2>2
  <2>4. X \div 2 \in Int
    BY <2>2
  <2> QED BY <1>3, <1>5, <2>1, <2>3, <2>4 DEF X
<1> QED BY <1>9 DEF new, o, d
-----------------------------------------------------------------------------
(* The invariant *)

IInv ==
    /\ Typed /\ BothEnds /\ Counted
    /\ phase = "graph" => addrs = <<>>
    /\ TotalsExact /\ NeverFrozenByMoves

\* What is computed from the graph and a partition changes with them only.
LEMMA GraphKept ==
    ASSUME UNCHANGED graph, NEW p, p = PartitionMap'
    PROVE  /\ EdgesOf(PartitionMap)' = EdgesOf(p)
           /\ CrossEdges(PartitionMap)' = CrossEdges(p)
           /\ \A k : Members(PartitionMap, k)' = Members(p, k)
           /\ VertexSet' = VertexSet
  BY DEF graph, EdgesOf, CrossEdges, CrossInto, Entries, ListEntries, Members, VertexSet

LEMMA InvInit == Init => IInv
<1> SUFFICES ASSUME Init PROVE IInv
  OBVIOUS
<1> USE CLPAConstants DEF Init
<1>1. VertexSet = {}
  BY DEF VertexSet, ToSet
<1>2. Typed
  BY DEF Typed, Partitions
<1>3. \A k \in ShardIDs : Members(PartitionMap, k) = {}
  BY <1>1 DEF Members
<1>4. Counted
  BY <1>3, FS_EmptySet DEF Counted
<1>5. BothEnds
  BY <1>1 DEF BothEnds
<1> QED BY <1>2, <1>4, <1>5 DEF IInv, TotalsExact, NeverFrozenByMoves

\* A vertex comes with an edge, whose other end is in the graph too.
LEMMA AddEdgeStep ==
    ASSUME IInv, NEW u \in Vertices, NEW v \in Vertices, AddEdge(u, v)
    PROVE  IInv'
<1>1. /\ phase = "graph" /\ u # v
      /\ Vertexs' = Vertexs \o Fresh(u) \o Fresh(v)
      /\ VertexsNumInShard' = [k \in ShardIDs |-> VertexsNumInShard[k] +
            Cardinality({w \in {u, v} \ VertexSet : PartitionMap[w] = k})]
      /\ EdgeSet' = [EdgeSet EXCEPT ![u][v] = @ + 1, ![v][u] = @ + 1]
      /\ UNCHANGED <<PartitionMap, Edges2Shard, CrossShardEdgeNum, pos, addrs, phase>>
  BY DEF AddEdge, GraphAddEdge, totals, result
<1>2. Typed /\ BothEnds /\ Counted
  BY DEF IInv
<1>3. Vertexs' \in Seq(Vertices) /\ VertexSet' = VertexSet \cup {u, v}
  <2>1. /\ Fresh(u) \in Seq(Vertices) /\ Fresh(v) \in Seq(Vertices)
        /\ Vertexs \in Seq(Vertices)
    BY <1>2 DEF Fresh, Typed
  <2>2. ASSUME NEW s \in Seq(Vertices), NEW t \in Seq(Vertices)
        PROVE  s \o t \in Seq(Vertices) /\ ToSet(s \o t) = ToSet(s) \cup ToSet(t)
    <3>1. /\ Len(s \o t) = Len(s) + Len(t) /\ s \o t \in Seq(Vertices)
          /\ \A i \in 1..Len(s) : (s \o t)[i] = s[i]
          /\ \A i \in 1..Len(t) : (s \o t)[Len(s) + i] = t[i]
      OBVIOUS
    <3>2. /\ DOMAIN (s \o t) = 1..(Len(s) + Len(t)) /\ DOMAIN s = 1..Len(s) /\ DOMAIN t = 1..Len(t)
          /\ Len(s) \in Nat /\ Len(t) \in Nat
      BY <3>1
    <3>3. \A i \in 1..(Len(s) + Len(t)) : i \in 1..Len(s) \/ \E j \in 1..Len(t) : i = Len(s) + j
      <4> SUFFICES ASSUME NEW i \in 1..(Len(s) + Len(t)), i \notin 1..Len(s)
                   PROVE  \E j \in 1..Len(t) : i = Len(s) + j
        OBVIOUS
      <4>1. i - Len(s) \in 1..Len(t) /\ i = Len(s) + (i - Len(s))
        BY <3>2
      <4> QED BY <4>1
    <3>4. /\ \A i \in 1..Len(s) : i \in 1..(Len(s) + Len(t))
          /\ \A i \in 1..Len(t) : Len(s) + i \in 1..(Len(s) + Len(t))
      BY <3>2
    <3>5. ASSUME NEW i \in DOMAIN (s \o t) PROVE (s \o t)[i] \in ToSet(s) \cup ToSet(t)
      BY <3>1, <3>2, <3>3, <3>5 DEF ToSet
    <3>6. ASSUME NEW i \in DOMAIN s PROVE s[i] \in ToSet(s \o t)
      <4>1. i \in DOMAIN (s \o t) /\ (s \o t)[i] = s[i]
        BY <3>1, <3>2, <3>4, <3>6
      <4> QED BY <4>1 DEF ToSet
    <3>7. ASSUME NEW i \in DOMAIN t PROVE t[i] \in ToSet(s \o t)
      <4>1. Len(s) + i \in DOMAIN (s \o t) /\ (s \o t)[Len(s) + i] = t[i]
        BY <3>1, <3>2, <3>4, <3>7
      <4> QED BY <4>1 DEF ToSet
    <3>8. ToSet(s \o t) \subseteq ToSet(s) \cup ToSet(t)
      BY <3>5 DEF ToSet
    <3>9. ToSet(s) \subseteq ToSet(s \o t) /\ ToSet(t) \subseteq ToSet(s \o t)
      BY <3>6, <3>7 DEF ToSet
    <3> QED BY <3>1, <3>8, <3>9
  <2>3. ToSet(Fresh(u)) = {u} \ VertexSet /\ ToSet(Fresh(v)) = {v} \ VertexSet
    BY DEF Fresh, ToSet
  <2>4. Vertexs \o Fresh(u) \in Seq(Vertices)
        /\ ToSet(Vertexs \o Fresh(u)) = VertexSet \cup ({u} \ VertexSet)
    BY <2>1, <2>2, <2>3 DEF VertexSet
  <2>5. Vertexs' \in Seq(Vertices)
        /\ ToSet(Vertexs') = (VertexSet \cup ({u} \ VertexSet)) \cup ({v} \ VertexSet)
    <3> DEFINE s == Vertexs \o Fresh(u)
               t == Fresh(v)
    <3>1. s \in Seq(Vertices) /\ t \in Seq(Vertices) /\ Vertexs' = s \o t
          /\ ToSet(s) = VertexSet \cup ({u} \ VertexSet) /\ ToSet(t) = {v} \ VertexSet
      BY <1>1, <2>1, <2>3, <2>4
    <3> HIDE DEF s, t
    <3> QED BY <2>2, <3>1
  <2> QED BY <2>5 DEF VertexSet
<1>4. ASSUME NEW a \in Vertices, NEW b \in Vertices
      PROVE  /\ EdgeSet'[a][b] = EdgeSet[a][b] + (IF (a = u /\ b = v) \/ (a = v /\ b = u) THEN 1 ELSE 0)
             /\ EdgeSet[a][b] \in Nat
  <2>1. EdgeSet[a] \in [Vertices -> Nat] /\ EdgeSet \in [Vertices -> [Vertices -> Nat]]
    BY <1>2 DEF Typed
  <2>2. CASE a = u
    <3>1. EdgeSet'[u] = [EdgeSet[u] EXCEPT ![v] = @ + 1]
      BY <1>1, <2>1
    <3> QED BY <1>1, <2>1, <2>2, <3>1
  <2>3. CASE a = v
    BY <1>1, <2>1, <2>3
  <2>4. CASE a \notin {u, v}
    BY <1>1, <2>1, <2>4
  <2> QED BY <2>2, <2>3, <2>4
<1>5. Typed'
  <2>1. EdgeSet' \in [Vertices -> [Vertices -> Nat]]
    <3> DEFINE E == [EdgeSet EXCEPT ![u][v] = @ + 1]
    <3>1. EdgeSet \in [Vertices -> [Vertices -> Nat]]
      BY <1>2 DEF Typed
    <3>2. E \in [Vertices -> [Vertices -> Nat]]
      BY <3>1
    <3>3. EdgeSet' = [E EXCEPT ![v][u] = @ + 1]
      BY <1>1
    <3> HIDE DEF E
    <3> QED BY <3>2, <3>3
  <2>2. VertexsNumInShard' \in [ShardIDs -> Int]
    <3>1. \A k \in ShardIDs : Cardinality({w \in {u, v} \ VertexSet : PartitionMap[w] = k}) \in Nat
      <4> SUFFICES ASSUME NEW k \in ShardIDs
                   PROVE  Cardinality({w \in {u, v} \ VertexSet : PartitionMap[w] = k}) \in Nat
        OBVIOUS
      <4>1. IsFiniteSet({w \in {u, v} \ VertexSet : PartitionMap[w] = k})
        BY CLPAConstants, FS_Subset
      <4> QED BY <4>1, FS_CardinalityType
    <3> DEFINE more == [k \in ShardIDs |-> Cardinality({w \in {u, v} \ VertexSet : PartitionMap[w] = k})]
    <3>2. more \in [ShardIDs -> Nat]
      BY <3>1
    <3>3. VertexsNumInShard' = [k \in ShardIDs |-> VertexsNumInShard[k] + more[k]]
      BY <1>1
    <3> HIDE DEF more
    <3> QED BY <1>2, <3>2, <3>3 DEF Typed
  <2> QED BY <1>1, <1>2, <1>3, <2>1, <2>2 DEF Typed
<1>6. BothEnds'
  <2>1. ASSUME NEW a \in Vertices, NEW b \in Vertices PROVE EdgeSet'[a][b] = EdgeSet'[b][a]
    <3>1. EdgeSet[a][b] = EdgeSet[b][a]
      BY <1>2 DEF BothEnds
    <3>2. /\ EdgeSet'[a][b] = EdgeSet[a][b] + (IF (a = u /\ b = v) \/ (a = v /\ b = u) THEN 1 ELSE 0)
          /\ EdgeSet'[b][a] = EdgeSet[b][a] + (IF (b = u /\ a = v) \/ (b = v /\ a = u) THEN 1 ELSE 0)
      BY <1>4
    <3> QED BY <3>1, <3>2
  <2>2. ASSUME NEW a \in Vertices PROVE EdgeSet'[a][a] = 0
    <3>1. EdgeSet[a][a] = 0 /\ ~(a = u /\ a = v)
      BY <1>1, <1>2 DEF BothEnds
    <3> QED BY <1>4, <3>1
  <2>3. ASSUME NEW a \in VertexSet' PROVE \E b \in VertexSet' : EdgeSet'[a][b] > 0
    <3>1. CASE a \in VertexSet
      <4>1. PICK b \in VertexSet : EdgeSet[a][b] > 0
        BY <1>2, <3>1 DEF BothEnds
      <4>2. a \in Vertices /\ b \in Vertices
        BY <1>2, <3>1, VertexSets
      <4>3. EdgeSet'[a][b] > 0
        BY <1>4, <4>1, <4>2
      <4> QED BY <1>3, <4>1, <4>3
    <3>2. CASE a = u
      <4>1. EdgeSet'[u][v] = EdgeSet[u][v] + 1 /\ EdgeSet[u][v] \in Nat
        BY <1>4
      <4> QED BY <3>2, <1>3, <4>1
    <3>3. CASE a = v
      <4>1. EdgeSet'[v][u] = EdgeSet[v][u] + 1 /\ EdgeSet[v][u] \in Nat
        BY <1>4
      <4> QED BY <3>3, <1>3, <4>1
    <3> QED BY <1>3, <3>1, <3>2, <3>3
  <2> QED BY <2>1, <2>2, <2>3 DEF BothEnds
<1>7. Counted'
  <2> SUFFICES ASSUME NEW k \in ShardIDs
               PROVE  VertexsNumInShard'[k] = Cardinality(Members(PartitionMap, k)')
    BY DEF Counted
  <2> DEFINE A == Members(PartitionMap, k)
             B == {w \in {u, v} \ VertexSet : PartitionMap[w] = k}
  <2>1. Members(PartitionMap, k)' = A \cup B
    BY <1>1, <1>3 DEF Members
  <2>2. A \cap B = {}
    BY DEF Members
  <2>3. IsFiniteSet(A) /\ IsFiniteSet(B)
    BY <1>2, VertexSets, CLPAConstants, FS_Subset
  <2>4. VertexsNumInShard'[k] = Cardinality(A) + Cardinality(B)
    BY <1>1, <1>2 DEF Counted
  <2> HIDE DEF A, B
  <2>5. Cardinality(A \cup B) = Cardinality(A) + Cardinality(B) - Cardinality(A \cap B)
    BY <2>3, FS_Union
  <2>6. Cardinality(A \cap B) = 0 /\ Cardinality(A) \in Nat /\ Cardinality(B) \in Nat
    BY <2>2, <2>3, FS_EmptySet, FS_CardinalityType
  <2> QED BY <2>1, <2>4, <2>5, <2>6
<1>8. phase' = "graph" /\ addrs' = <<>>
  BY <1>1 DEF IInv
<1> QED BY <1>5, <1>6, <1>7, <1>8 DEF IInv, TotalsExact, NeverFrozenByMoves

\* The graph and the partition stay: so does all that is said of them.
LEMMA KeptStep ==
    ASSUME IInv, UNCHANGED <<Vertexs, EdgeSet, PartitionMap, VertexsNumInShard>>
    PROVE  /\ BothEnds' /\ Counted'
           /\ EdgesOf(PartitionMap)' = EdgesOf(PartitionMap)
           /\ CrossEdges(PartitionMap)' = CrossEdges(PartitionMap)
           /\ \A k : Members(PartitionMap, k)' = Members(PartitionMap, k)
<1>1. PICK p : p = PartitionMap
  OBVIOUS
<1>2. p = PartitionMap' /\ UNCHANGED graph
  BY <1>1 DEF graph
<1>3. /\ EdgesOf(PartitionMap)' = EdgesOf(p)
      /\ CrossEdges(PartitionMap)' = CrossEdges(p)
      /\ \A k : Members(PartitionMap, k)' = Members(p, k)
      /\ VertexSet' = VertexSet
  BY <1>2, GraphKept
<1>4. BothEnds'
  BY <1>3 DEF IInv, BothEnds
<1>5. Counted'
  BY <1>1, <1>3 DEF IInv, Counted
<1> QED BY <1>1, <1>3, <1>4, <1>5

LEMMA StartStep ==
    ASSUME IInv, StartPartition
    PROVE  IInv'
<1>1. /\ UNCHANGED <<Vertexs, EdgeSet, PartitionMap, VertexsNumInShard, pos, addrs>>
      /\ Edges2Shard' = EdgesOf(PartitionMap)
      /\ CrossShardEdgeNum' = CrossEdges(PartitionMap)
      /\ MinEdges2Shard' = Least(Edges2Shard')
      /\ phase = "graph" /\ phase' = "partition"
  BY DEF StartPartition, graph, result
<1>2. Typed /\ Counted
  BY DEF IInv
<1>3. /\ BothEnds' /\ Counted'
      /\ EdgesOf(PartitionMap)' = EdgesOf(PartitionMap)
      /\ CrossEdges(PartitionMap)' = CrossEdges(PartitionMap)
      /\ \A k : Members(PartitionMap, k)' = Members(PartitionMap, k)
  BY <1>1, KeptStep
<1>4. EdgesOf(PartitionMap) \in [ShardIDs -> Nat] /\ CrossEdges(PartitionMap) \in Nat
  BY <1>2, EntryNumbers DEF Typed
<1>5. Typed'
  BY <1>1, <1>2, <1>4 DEF Typed
<1>6. TotalsExact'
  BY <1>1, <1>3 DEF TotalsExact, Counted
<1>7. addrs' = <<>>
  BY <1>1 DEF IInv
<1> QED BY <1>1, <1>3, <1>5, <1>6, <1>7 DEF IInv, NeverFrozenByMoves

\* Steps of the loops that move nothing.
LEMMA LoopStep ==
    ASSUME IInv, UNCHANGED <<graph, PartitionMap, VertexsNumInShard, totals, result>>,
           pos' \in Nat \ {0}, phase' \in {"graph", "partition", "done"},
           phase' = "graph" <=> phase = "graph"
    PROVE  IInv'
<1>1. /\ UNCHANGED <<Vertexs, EdgeSet, PartitionMap, VertexsNumInShard, Edges2Shard,
                     MinEdges2Shard, CrossShardEdgeNum, addrs>>
  BY DEF graph, totals, result
<1>3. /\ BothEnds' /\ Counted'
      /\ EdgesOf(PartitionMap)' = EdgesOf(PartitionMap)
      /\ CrossEdges(PartitionMap)' = CrossEdges(PartitionMap)
      /\ \A k : Members(PartitionMap, k)' = Members(PartitionMap, k)
  BY <1>1, KeptStep
<1>5. Typed'
  BY <1>1 DEF Typed, IInv
<1>6. TotalsExact'
  BY <1>1, <1>3 DEF IInv, TotalsExact
<1> QED BY <1>1, <1>3, <1>5, <1>6 DEF IInv, NeverFrozenByMoves

\* A vertex changes shards.
LEMMA MoveStep ==
    ASSUME IInv, phase = "partition", phase' = phase, pos' \in Nat \ {0}, UNCHANGED graph,
           NEW v \in VertexSet, NEW n \in ShardIDs, n # PartitionMap[v],
           VertexsNumInShard[PartitionMap[v]] > 1, MinEdges2Shard # 0, Move(v, n)
    PROVE  IInv'
<1> DEFINE o == PartitionMap[v]
           new == [PartitionMap EXCEPT ![v] = n]
           deg == Degree(PartitionMap, v)
           d(k) == ListEntries(PartitionMap, v, k)
<1>1. Typed /\ BothEnds /\ Counted
  BY DEF IInv
<1>2. PartitionMap \in Partitions /\ o \in ShardIDs /\ v \in Vertices /\ o # n
  BY <1>1, VertexSets DEF Typed, Partitions
<1>3. /\ PartitionMap' = new
      /\ VertexsNumInShard' = [VertexsNumInShard EXCEPT ![o] = @ - 1, ![n] = @ + 1]
      /\ Edges2Shard' = [Edges2Shard EXCEPT ![n] = @ + deg - d(n), ![o] = @ - (deg - d(o))]
      /\ CrossShardEdgeNum' = CrossShardEdgeNum + d(o) - d(n)
      /\ MinEdges2Shard' = Least(Edges2Shard')
  BY DEF Move, ComputeEdges2Shard1, EdgesTo, OutDegree, Degree
<1>4. PICK p : p = new
  OBVIOUS
<1>5. /\ EdgesOf(PartitionMap)' = EdgesOf(p)
      /\ CrossEdges(PartitionMap)' = CrossEdges(p)
      /\ \A k : Members(PartitionMap, k)' = Members(p, k)
      /\ VertexSet' = VertexSet
  BY <1>3, <1>4, GraphKept
<1>6. /\ p \in Partitions
      /\ Members(p, n) = Members(PartitionMap, n) \cup {v} /\ v \notin Members(PartitionMap, n)
      /\ Members(p, o) = Members(PartitionMap, o) \ {v} /\ v \in Members(PartitionMap, o)
      /\ \A k : k \notin {n, o} => Members(p, k) = Members(PartitionMap, k)
  BY <1>2, <1>4, VertexSets DEF Members, Partitions
<1>7. /\ Edges2Shard = EdgesOf(PartitionMap) /\ CrossShardEdgeNum = CrossEdges(PartitionMap)
      /\ MinEdges2Shard = Least(Edges2Shard)
      /\ EdgesOf(PartitionMap) \in [ShardIDs -> Nat] /\ EdgesOf(p) \in [ShardIDs -> Nat]
      /\ CrossEdges(p) \in Nat
  <2>1. TotalsExact
    BY DEF IInv
  <2> QED BY <1>1, <1>2, <1>6, <2>1, EntryNumbers DEF TotalsExact
<1>8. deg \in Nat /\ \A k \in ShardIDs : d(k) \in Nat /\ d(k) <= deg
  BY <1>1, <1>2, DegreeBounds, DegreeNumber
<1>9. ASSUME NEW k \in ShardIDs
      PROVE  EdgesOf(p)[k] = EdgesOf(PartitionMap)[k] + Share(n, o, k) * (deg - d(k))
  BY <1>1, <1>2, <1>4, EdgesMoved
<1>10. Edges2Shard' = EdgesOf(p)
  <2>1. Edges2Shard' \in [ShardIDs -> Int]
    <3> HIDE DEF deg, d, o
    <3> QED BY <1>2, <1>3, <1>7, <1>8
  <2>2. ASSUME NEW k \in ShardIDs PROVE Edges2Shard'[k] = EdgesOf(p)[k]
    <3>0. EdgesOf(PartitionMap)[k] \in Nat /\ Edges2Shard[k] = EdgesOf(PartitionMap)[k]
          /\ d(k) \in Nat /\ deg \in Nat
      BY <1>7, <1>8
    <3> HIDE DEF deg, d, o
    <3>1. CASE k = n
      BY <3>0, <3>1, <1>2, <1>3, <1>7, <1>9 DEF Share
    <3>2. CASE k = o
      <4>1. Edges2Shard'[k] = Edges2Shard[k] - (deg - d(k))
        BY <3>2, <1>2, <1>3, <1>7
      <4>2. EdgesOf(p)[k] = EdgesOf(PartitionMap)[k] + (-1) * (deg - d(k))
        BY <3>2, <1>2, <1>9 DEF Share
      <4> QED BY <3>0, <4>1, <4>2
    <3>3. CASE k \notin {n, o}
      <4>1. Edges2Shard'[k] = Edges2Shard[k]
        BY <3>3, <1>3, <1>7
      <4>2. EdgesOf(p)[k] = EdgesOf(PartitionMap)[k] + 0 * (deg - d(k))
        BY <3>3, <1>9 DEF Share
      <4> QED BY <3>0, <4>1, <4>2
    <3> QED BY <3>1, <3>2, <3>3
  <2> QED BY <1>7, <2>1, <2>2
<1>11. CrossShardEdgeNum' = CrossEdges(p)
  BY <1>1, <1>2, <1>3, <1>4, <1>7, AllCrossMoved
<1>12. Typed'
  <2>1. VertexsNumInShard' \in [ShardIDs -> Int]
    BY <1>1, <1>3 DEF Typed
  <2>2. PartitionMap' \in Partitions
    BY <1>3, <1>4, <1>6
  <2>3. Edges2Shard' \in [ShardIDs -> Int] /\ CrossShardEdgeNum' \in Int
    BY <1>7, <1>10, <1>11
  <2> QED BY <1>1, <2>1, <2>2, <2>3 DEF Typed, graph, Partitions
<1>13. BothEnds'
  BY <1>1, <1>5 DEF BothEnds, graph
<1>14. Counted'
  <2> SUFFICES ASSUME NEW k \in ShardIDs PROVE VertexsNumInShard'[k] = Cardinality(Members(p, k))
    BY <1>5 DEF Counted
  <2> DEFINE M(q) == Members(q, k)
  <2>0. /\ IsFiniteSet(M(PartitionMap)) /\ Cardinality(M(PartitionMap)) \in Nat
        /\ VertexsNumInShard[k] = Cardinality(M(PartitionMap))
    BY <1>1, VertexSets, FS_CardinalityType DEF Counted
  <2>1. CASE k = n
    <3>1. Cardinality(M(p)) = Cardinality(M(PartitionMap)) + 1
      BY <1>6, <2>0, <2>1, FS_AddElement
    <3> QED BY <1>1, <1>2, <1>3, <2>0, <2>1, <3>1 DEF Typed
  <2>2. CASE k = o
    <3>1. Cardinality(M(p)) = Cardinality(M(PartitionMap)) - 1
      BY <1>6, <2>0, <2>2, FS_RemoveElement
    <3> QED BY <1>1, <1>2, <1>3, <2>0, <2>2, <3>1 DEF Typed
  <2>3. CASE k \notin {n, o}
    BY <1>1, <1>3, <1>6, <2>0, <2>3 DEF Typed
  <2> QED BY <2>1, <2>2, <2>3
<1>15. TotalsExact'
  <2>1. \A k \in ShardIDs : VertexsNumInShard'[k] = Cardinality(Members(PartitionMap, k)')
    BY <1>14 DEF Counted
  <2> QED BY <1>3, <1>5, <1>10, <1>11, <2>1 DEF TotalsExact
\* No shard is left without edges: the old one keeps an account, which has an
\* edge, and no other shard loses any.
<1>16. MinEdges2Shard' # 0
  <2>1. ASSUME NEW k \in ShardIDs PROVE EdgesOf(p)[k] > 0
    <3>1. CASE k = o
      <4> DEFINE M == Members(PartitionMap, o)
      <4>1. IsFiniteSet(M) /\ v \in M /\ Cardinality(M) > 1
        BY <1>1, <1>2, <1>6, VertexSets DEF Counted
      <4>2. M # {v}
        BY <4>1, FS_Singleton
      <4>3. PICK u : u \in Members(p, o)
        BY <1>6, <4>1, <4>2
      <4> QED BY <3>1, <4>3, <1>1, <1>2, <1>6, MemberHasEdge
    <3>2. CASE k # o
      <4>1. EdgesOf(PartitionMap)[k] > 0
        <5>1. PICK j \in ShardIDs : Least(Edges2Shard) = Edges2Shard[j]
                                    /\ \A l \in ShardIDs : Least(Edges2Shard) <= Edges2Shard[l]
          BY <1>7, LeastValue
        <5>2. Edges2Shard[j] \in Nat /\ Edges2Shard[k] \in Nat /\ Edges2Shard[j] # 0
              /\ Edges2Shard[j] <= Edges2Shard[k]
          BY <1>7, <5>1
        <5> QED BY <1>7, <5>2
      <4>2. EdgesOf(p)[k] = EdgesOf(PartitionMap)[k] + Share(n, o, k) * (deg - d(k))
        BY <1>9
      <4>3. Share(n, o, k) = 0 \/ Share(n, o, k) = 1
        BY <3>2 DEF Share
      <4>4. EdgesOf(PartitionMap)[k] \in Nat /\ d(k) \in Nat /\ deg \in Nat /\ d(k) <= deg
        BY <1>7, <1>8
      <4> HIDE DEF deg, d, o
      <4> QED BY <4>1, <4>2, <4>3, <4>4
    <3> QED BY <3>1, <3>2
  <2>2. PICK k \in ShardIDs : Least(EdgesOf(p)) = EdgesOf(p)[k]
    BY <1>7, LeastValue
  <2>3. Least(EdgesOf(p)) # 0
    BY <2>1, <2>2
  <2>4. MinEdges2Shard' = Least(EdgesOf(p))
    BY <1>3, <1>10
  <2> QED BY <2>3, <2>4
<1> QED BY <1>12, <1>13, <1>14, <1>15, <1>16 DEF IInv, NeverFrozenByMoves

LEMMA VisitStep ==
    ASSUME IInv, Visit
    PROVE  IInv'
<1>1. /\ phase = "partition" /\ phase' = phase /\ pos \in Nat \ {0} /\ pos' = pos + 1
      /\ pos <= Len(Vertexs) /\ UNCHANGED graph
  BY DEF Visit, IInv, Typed
<1> DEFINE v == Vertexs[pos]
<1>2. v \in VertexSet
  BY <1>1 DEF VertexSet, ToSet, IInv, Typed
<1>3. PICK k \in Winners(v) :
        IF /\ updateTreshold[v] < MaxUpdates
           /\ k # PartitionMap[v] /\ VertexsNumInShard[PartitionMap[v]] > 1
        THEN Move(v, k)
        ELSE UNCHANGED <<PartitionMap, VertexsNumInShard, totals, result>>
  BY DEF Visit
<1>4. pos' \in Nat \ {0}
  BY <1>1
<1>5. CASE UNCHANGED <<PartitionMap, VertexsNumInShard, totals, result>>
  <2>1. UNCHANGED <<graph, PartitionMap, VertexsNumInShard, totals, result>>
    BY <1>1, <1>5
  <2> QED BY <1>1, <1>4, <2>1, LoopStep
<1>6. CASE /\ k # PartitionMap[v] /\ VertexsNumInShard[PartitionMap[v]] > 1 /\ Move(v, k)
  <2>1. MinEdges2Shard # 0 /\ k \in ShardIDs
    BY <1>3, <1>6 DEF Winners
  <2> HIDE DEF v
  <2> QED BY <1>1, <1>2, <1>4, <1>6, <2>1, MoveStep
<1> QED BY <1>3, <1>5, <1>6

LEMMA InvStep == IInv /\ [Next]_vars => IInv'
<1> SUFFICES ASSUME IInv, [Next]_vars PROVE IInv'
  OBVIOUS
<1>0. pos \in Nat \ {0} /\ phase \in {"graph", "partition", "done"}
  BY DEF IInv, Typed
<1>1. ASSUME NEW u \in Vertices, NEW v \in Vertices, AddEdge(u, v) PROVE IInv'
  BY <1>1, AddEdgeStep
<1>2. CASE StartPartition
  BY <1>2, StartStep
<1>3. CASE Visit
  BY <1>3, VisitStep
<1>4. CASE NextIteration
  <2>1. /\ UNCHANGED <<graph, PartitionMap, VertexsNumInShard, totals, result>>
        /\ pos' = 1 /\ phase' = phase
    BY <1>4 DEF NextIteration
  <2> QED BY <1>0, <2>1, LoopStep
<1>5. CASE Return
  <2>1. /\ UNCHANGED <<graph, PartitionMap, VertexsNumInShard, totals, result>>
        /\ pos' = pos /\ phase = "partition" /\ phase' = "done"
    BY <1>5 DEF Return
  <2> QED BY <1>0, <2>1, LoopStep
<1>6. CASE UNCHANGED vars
  <2>1. /\ UNCHANGED <<graph, PartitionMap, VertexsNumInShard, totals, result>>
        /\ pos' = pos /\ phase' = phase
    BY <1>6 DEF vars, graph, totals, result
  <2> QED BY <1>0, <2>1, LoopStep
<1> QED BY <1>1, <1>2, <1>3, <1>4, <1>5, <1>6 DEF Next

LEMMA InvAlways == Spec => []IInv
  BY InvInit, InvStep, PTL DEF Spec

\* The totals that ComputeEdges2Shard1 updates move by move are, after any
\* number of moves over any graph, those ComputeEdges2Shard would compute.
THEOREM TotalsStayExact == Spec => []TotalsExact
<1>1. IInv => TotalsExact
  BY DEF IInv
<1> QED BY <1>1, InvAlways, PTL

\* A move never brings the smallest total to zero: the rule that the last
\* account of a shard stays is enough to keep the scores of CLPA_Partition
\* finite, whatever the graph.
THEOREM MovesNeverFreeze == Spec => []NeverFrozenByMoves
<1>1. IInv => NeverFrozenByMoves
  BY DEF IInv
<1> QED BY <1>1, InvAlways, PTL
=============================================================================
