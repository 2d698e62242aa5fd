--------------------------- MODULE DijkstraProofs ---------------------------
(***************************************************************************)
(* Proofs about the loop of Navgraph::dijkstra: what it returns is a       *)
(* shortest route that keeps off the avoided vertex, on every graph.       *)
(***************************************************************************)
EXTENDS Dijkstra, RecursionLemmas, SequenceTheorems, FiniteSetTheorems, TLAPS

-----------------------------------------------------------------------------
(* Sums                                                                    *)

Some(T) == CHOOSE x \in T : TRUE

IsSum(sum, S, f) ==
    sum = [T \in SUBSET S |-> IF T = {} THEN 0 ELSE f[Some(T)] + sum[T \ {Some(T)}]]

Sums(sum, S, f) ==
    /\ IsFiniteSet(S) /\ f \in [S -> Nat]
    /\ sum \in [SUBSET S -> Nat] /\ IsSum(sum, S, f)

\* The equation of a sum over a finite set has a solution, and solutions are sums.
LEMMA SumIsDefined ==
    ASSUME NEW S, IsFiniteSet(S), NEW f \in [S -> Nat]
    PROVE  /\ \E sum : IsSum(sum, S, f)
           /\ \A sum : IsSum(sum, S, f) => Sums(sum, S, f)
<1> DEFINE D == SUBSET S
           rank == [T \in D |-> Cardinality(T)]
           B == {{}}
           next == [T \in D |-> T \ {Some(T)}]
           base == [T \in B |-> 0]
           step == [a \in (D \ B) \X Nat |-> f[Some(a[1])] + a[2]]
<1>1. \A T \in D : IsFiniteSet(T) /\ Cardinality(T) \in Nat /\ Cardinality(T) <= Cardinality(S)
  BY FS_Subset, FS_CardinalityType
<1>2. \A T \in D \ B : Some(T) \in T
  BY DEF Some
<1>3. \A T \in D \ B : next[T] \in D /\ rank[next[T]] < rank[T]
  <2> SUFFICES ASSUME NEW T \in D \ B PROVE next[T] \in D /\ rank[next[T]] < rank[T]
    OBVIOUS
  <2>1. Cardinality(T \ {Some(T)}) = Cardinality(T) - 1
    BY <1>1, <1>2, FS_RemoveElement
  <2>2. Cardinality(T) \in Nat
    BY <1>1
  <2> QED BY <2>1, <2>2
<1>4. \A T \in D \ B, n \in Nat : f[Some(T)] + n \in Nat
  BY <1>2
<1>5. step \in [(D \ B) \X Nat -> Nat]
  BY <1>4
<1>6. rank \in [D -> Nat] /\ Cardinality(S) \in Nat /\ \A T \in D : rank[T] <= Cardinality(S)
  BY <1>1, FS_CardinalityType
<1>7. base \in [B -> Nat]
  OBVIOUS
<1>8. WellRanked(D, B, next, rank, Cardinality(S))
  BY <1>3, <1>6 DEF WellRanked
<1>9. PICK h \in [D -> Nat] : IsRecursive(h, D, B, next, base, step)
  <2> HIDE DEF D, rank, B, next, base, step
  <2> QED BY <1>5, <1>7, <1>8, RecursionExists
<1>10. \A T \in D : h[T] = IF T = {} THEN 0 ELSE f[Some(T)] + h[T \ {Some(T)}]
  BY <1>9 DEF IsRecursive
<1>11. IsSum(h, S, f)
  BY <1>9, <1>10 DEF IsSum
<1>12. ASSUME NEW sum, IsSum(sum, S, f) PROVE sum \in [SUBSET S -> Nat]
  <2> USE <1>12 DEF IsSum
  <2>1. \A T \in D \ B : sum[T \ {Some(T)}] = h[T \ {Some(T)}] => sum[T] = h[T]
    BY <1>10
  <2>2. \A T \in B : sum[T] = h[T]
    BY <1>10
  <2>5. \A T \in D \ B : sum[next[T]] = h[next[T]] => sum[T] = h[T]
    BY <2>1
  <2>4. \A T \in D : sum[T] = h[T]
    <3> HIDE DEF D, rank, B, next, IsSum
    <3> QED BY <1>8, <2>2, <2>5, RecursionIsUnique
  <2>3. sum = [T \in SUBSET S |-> sum[T]]
    OBVIOUS
  <2> QED BY <2>3, <2>4
<1> QED BY <1>11, <1>12 DEF Sums

\* It does not matter which element is added last.
LEMMA SumInAnyOrder ==
    ASSUME NEW S, NEW f, NEW sum, Sums(sum, S, f), NEW whole \in SUBSET S, NEW last \in whole
    PROVE  sum[whole] = f[last] + sum[whole \ {last}]
<1> USE DEF Sums
<1> DEFINE Bad == {T \in SUBSET S : \E x \in T : sum[T] # f[x] + sum[T \ {x}]}
           Sizes == {Cardinality(T) : T \in Bad}
<1> SUFFICES ASSUME Bad # {} PROVE FALSE
  OBVIOUS
<1>1. \A T \in SUBSET S : IsFiniteSet(T) /\ Cardinality(T) \in Nat
  BY FS_Subset, FS_CardinalityType
<1>2. PICK m \in Sizes : \A k \in Sizes : m <= k
  <2>1. Sizes \in SUBSET Nat /\ Sizes # {}
    BY <1>1
  <2> HIDE DEF Sizes
  <2> QED BY <2>1, LeastNatural
<1>3. PICK T \in Bad : m = Cardinality(T)
  OBVIOUS
<1>4. PICK x \in T : sum[T] # f[x] + sum[T \ {x}]
  OBVIOUS
<1>5. PICK y \in T : y = Some(T)
  BY <1>4 DEF Some
<1>6. sum[T] = f[y] + sum[T \ {y}]
  BY <1>5 DEF IsSum
<1>7. x # y
  BY <1>4, <1>6
<1>8. ASSUME NEW z \in T
      PROVE  \A u \in T \ {z} : sum[T \ {z}] = f[u] + sum[(T \ {z}) \ {u}]
  <2>1. Cardinality(T \ {z}) = Cardinality(T) - 1
    BY <1>1, FS_RemoveElement
  <2>2. Cardinality(T \ {z}) < m /\ Cardinality(T \ {z}) \in Nat /\ m \in Nat
    BY <1>1, <1>3, <2>1
  <2>3. Cardinality(T \ {z}) \notin Sizes
    BY <1>2, <2>2
  <2>4. T \ {z} \notin Bad
    BY <2>3
  <2> QED BY <2>4
<1>9. sum[T \ {y}] = f[x] + sum[(T \ {y}) \ {x}] /\ sum[T \ {x}] = f[y] + sum[(T \ {x}) \ {y}]
  BY <1>7, <1>8
<1>10. (T \ {y}) \ {x} = (T \ {x}) \ {y}
  OBVIOUS
<1>11. PICK rest \in Nat : rest = sum[(T \ {x}) \ {y}]
  OBVIOUS
<1>12. sum[T] = f[y] + (f[x] + rest) /\ sum[T \ {x}] = f[y] + rest
  BY <1>6, <1>9, <1>10, <1>11
<1>13. f[x] \in Nat /\ f[y] \in Nat
  OBVIOUS
<1> QED BY <1>4, <1>11, <1>12, <1>13

\* A running sum.
Adds(c, f, n) ==
    /\ c \in [0..n -> Nat] /\ c[0] = 0
    /\ \A i \in 1..n : c[i] = c[i - 1] + f[i]

\* The sum over 1..n is the last of the running sums.
LEMMA SumOverInterval ==
    ASSUME NEW n \in Nat, NEW f, NEW sum, Sums(sum, 1..n, f)
    PROVE  \E c : Adds(c, f, n) /\ sum[1..n] = c[n]
<1> DEFINE c == [i \in 0..n |-> sum[1..i]]
<1>2. c[0] = 0
  BY DEF IsSum, Sums
<1>3. ASSUME NEW i \in 1..n PROVE c[i] = c[i - 1] + f[i]
  <2>1. (1..i) \ {i} = 1..(i - 1) /\ i \in 1..i /\ 1..i \in SUBSET (1..n)
    OBVIOUS
  <2>2. sum[1..i] = f[i] + sum[1..(i - 1)]
    BY <2>1, SumInAnyOrder
  <2>3. sum[1..(i - 1)] \in Nat /\ f[i] \in Nat /\ i - 1 \in 0..n
    BY DEF Sums
  <2> QED BY <2>2, <2>3
<1>4. c \in [0..n -> Nat]
  BY DEF Sums
<1>5. sum[1..n] = c[n]
  OBVIOUS
<1> HIDE DEF c
<1> QED BY <1>2, <1>3, <1>4, <1>5 DEF Adds

-----------------------------------------------------------------------------
(* Routes of the graph                                                     *)

\* Sequences of vertices that follow lanes.
Follows(w) ==
    /\ w \in Seq(Vertex) /\ Len(w) >= 1
    /\ \A i \in 1..(Len(w) - 1) : Linked(w[i], w[i + 1])

Hops(w) == [i \in 1..(Len(w) - 1) |-> length[<<w[i], w[i + 1]>>]]

Lengths == length \in [Link -> Weight \cup {0}]

\* The cost of a route is the last of the running sums of its lanes.
LEMMA CostIsTheSum ==
    ASSUME Lengths, NEW w, Follows(w)
    PROVE  \E c : Adds(c, Hops(w), Len(w) - 1) /\ Graph!path_cost(w) = c[Len(w) - 1]
<1>1. PICK n \in Nat : n = Len(w) - 1
  <2>1. Len(w) \in Nat /\ Len(w) >= 1
    BY DEF Follows
  <2> QED BY <2>1
<1>2. PICK f : f = Hops(w)
  OBVIOUS
<1>3. \A i \in 1..n : w[i] \in Vertex /\ w[i + 1] \in Vertex /\ Linked(w[i], w[i + 1])
  <2>1. ASSUME NEW i \in 1..n PROVE w[i] \in Vertex /\ w[i + 1] \in Vertex
    <3>1. i \in 1..Len(w) /\ i + 1 \in 1..Len(w)
      BY <1>1 DEF Follows
    <3> QED BY <3>1 DEF Follows
  <2> QED BY <1>1, <2>1 DEF Follows
<1>4. \A i \in 1..n : f[i] = length[<<w[i], w[i + 1]>>] /\ f[i] \in Nat
  BY <1>1, <1>2, <1>3, SearchAssumption DEF Hops, Linked, Lengths
<1>5. f \in [1..n -> Nat] /\ IsFiniteSet(1..n)
  <2>1. f = [i \in 1..n |-> f[i]]
    BY <1>1, <1>2 DEF Hops
  <2>2. IsFiniteSet(1..n)
    BY FS_Interval
  <2> QED BY <1>4, <2>1, <2>2
<1> DEFINE Iter(g) == g = [s \in SUBSET (1..(Len(w) - 1)) |->
              IF s = {} THEN 0
              ELSE [lane \in Vertex \X Vertex |->
                       IF Linked(lane[1], lane[2]) THEN length[<<lane[1], lane[2]>>] ELSE 0]
                     [<<w[CHOOSE x \in s : TRUE], w[(CHOOSE x \in s : TRUE) + 1]>>]
                   + g[s \ {CHOOSE x \in s : TRUE}]]
<1>6. Graph!path_cost(w) = (CHOOSE g : Iter(g))[1..n]
  BY <1>1 DEF Graph!path_cost, Graph!MapThenSumSet, Graph!MapThenFoldSet
<1>7. ASSUME NEW g PROVE Iter(g) <=> IsSum(g, 1..n, f)
  <2>1. ASSUME NEW s \in SUBSET (1..n), s # {}
        PROVE  [lane \in Vertex \X Vertex |->
                       IF Linked(lane[1], lane[2]) THEN length[<<lane[1], lane[2]>>] ELSE 0]
                     [<<w[CHOOSE x \in s : TRUE], w[(CHOOSE x \in s : TRUE) + 1]>>] = f[Some(s)]
    <3>1. PICK i \in 1..n : i = CHOOSE x \in s : TRUE
      BY <2>1
    <3>2. [lane \in Vertex \X Vertex |->
              IF Linked(lane[1], lane[2]) THEN length[<<lane[1], lane[2]>>] ELSE 0]
                     [<<w[i], w[i + 1]>>] = f[i]
      BY <1>3, <1>4
    <3> QED BY <3>1, <3>2 DEF Some
  <2> QED BY <1>1, <2>1 DEF IsSum, Some
<1>8. PICK sum : sum = CHOOSE g : Iter(g)
  OBVIOUS
<1>9. IsSum(sum, 1..n, f)
  <2>1. \E g : IsSum(g, 1..n, f)
    BY <1>5, SumIsDefined
  <2>2. \E g : Iter(g)
    <3> HIDE DEF Iter
    <3> QED BY <1>7, <2>1
  <2>3. Iter(sum)
    <3> HIDE DEF Iter
    <3> QED BY <1>8, <2>2
  <2> QED BY <1>7, <2>3
<1>10. Sums(sum, 1..n, f)
  BY <1>5, <1>9, SumIsDefined
<1>11. \E c : Adds(c, f, n) /\ sum[1..n] = c[n]
  BY <1>10, SumOverInterval
<1> HIDE DEF Iter
<1> QED BY <1>1, <1>2, <1>6, <1>8, <1>11

\* The lanes of the graph from the last vertex of w on to a vertex not in w.
Extended(w, k) ==
    {Append(w, lane[2]) :
        lane \in {l \in {lane \in Vertex \X Vertex : Linked(lane[1], lane[2])} :
                     l[1] = w[k - 1] /\ \A i \in 1..(k - 1) : w[i] # l[2]}}

\* The graph counts its vertices as this module does.
LEMMA SameCardinality == Graph!Cardinality(Vertex) = Cardinality(Vertex)
  BY DEF Graph!Cardinality, Cardinality

\* The equation of LaneWalks has a solution.
LEMMA WalksAreDefined ==
    ASSUME IsFiniteSet(Vertex)
    PROVE  /\ Graph!LaneWalks \in [0..Cardinality(Vertex) -> SUBSET Seq(Vertex)]
           /\ \A k \in 0..Cardinality(Vertex) :
                 Graph!LaneWalks[k] = IF k <= 1 THEN {<<n>> : n \in Vertex}
                                      ELSE UNION {Extended(w, k) : w \in Graph!LaneWalks[k - 1]}
<1> DEFINE D == 0..Cardinality(Vertex)
           V == SUBSET Seq(Vertex)
           B == {k \in D : k <= 1}
           rank == [k \in D |-> k]
           next == [k \in D |-> k - 1]
           base == [k \in B |-> {<<n>> : n \in Vertex}]
           step == [a \in (D \ B) \X V |-> UNION {Extended(w, a[1]) : w \in a[2]}]
           IsWalks(h) == h = [k \in D |-> IF k <= 1 THEN {<<n>> : n \in Vertex}
                                          ELSE UNION {Extended(w, k) : w \in h[k - 1]}]
<1>1. Cardinality(Vertex) \in Nat
  BY FS_CardinalityType
<1>2. WellRanked(D, B, next, rank, Cardinality(Vertex))
  BY <1>1 DEF WellRanked
<1>3. base \in [B -> V]
  <2>1. {<<n>> : n \in Vertex} \in V
    <3>1. \A n \in Vertex : <<n>> \in Seq(Vertex)
      OBVIOUS
    <3> QED BY <3>1
  <2> QED BY <2>1
<1>4. step \in [(D \ B) \X V -> V]
  <2>1. ASSUME NEW k \in D \ B, NEW W \in V PROVE UNION {Extended(w, k) : w \in W} \in V
    <3>1. ASSUME NEW w \in W, NEW e \in Extended(w, k) PROVE e \in Seq(Vertex)
      <4>1. PICK v \in Vertex : e = Append(w, v)
        BY DEF Extended
      <4> QED BY <4>1
    <3> QED BY <3>1
  <2> HIDE DEF V, D, B
  <2>2. \A a \in (D \ B) \X V : a[1] \in D \ B /\ a[2] \in V
    OBVIOUS
  <2>3. \A a \in (D \ B) \X V : UNION {Extended(w, a[1]) : w \in a[2]} \in V
    BY <2>1, <2>2
  <2> QED BY <2>3
<1>5. PICK h \in [D -> V] : IsRecursive(h, D, B, next, base, step)
  <2> HIDE DEF D, V, B, rank, next, base, step
  <2> QED BY <1>2, <1>3, <1>4, RecursionExists
<1>6. \A k \in D : h[k] = IF k <= 1 THEN {<<n>> : n \in Vertex}
                          ELSE UNION {Extended(w, k) : w \in h[k - 1]}
  <2>1. \A k \in B : h[k] = {<<n>> : n \in Vertex}
    BY <1>5 DEF IsRecursive
  <2>2. ASSUME NEW k \in D \ B PROVE h[k] = UNION {Extended(w, k) : w \in h[k - 1]}
    <3>1. k - 1 \in D /\ h[k - 1] \in V
      BY <1>1
    <3>2. h[k] = step[<<k, h[k - 1]>>]
      BY <1>5 DEF IsRecursive
    <3> QED BY <3>1, <3>2
  <2> QED BY <1>1, <2>1, <2>2
<1>7. IsWalks(h)
  BY <1>6
<1>8. Graph!LaneWalks = CHOOSE g : IsWalks(g)
  BY SameCardinality DEF Graph!LaneWalks, Extended
<1>9. IsWalks(Graph!LaneWalks)
  <2> HIDE DEF IsWalks
  <2> QED BY <1>7, <1>8
<1>10. \A k \in D : Graph!LaneWalks[k] = IF k <= 1 THEN {<<n>> : n \in Vertex}
                          ELSE UNION {Extended(w, k) : w \in Graph!LaneWalks[k - 1]}
  BY <1>9
<1>11. \A k \in D : Graph!LaneWalks[k] = h[k]
  <2>1. \A k \in B : Graph!LaneWalks[k] = h[k]
    BY <1>6, <1>10
  <2>2. \A k \in D \ B : Graph!LaneWalks[next[k]] = h[next[k]] => Graph!LaneWalks[k] = h[k]
    BY <1>1, <1>6, <1>10
  <2> HIDE DEF D, B, next, rank
  <2> QED BY <1>2, <2>1, <2>2, RecursionIsUnique
<1> QED BY <1>9, <1>10, <1>11

\* No walk of the graph is longer than it has vertices.
LEMMA WalksAreShort ==
    ASSUME IsFiniteSet(Vertex), NEW w \in Graph!Walks
    PROVE  w \in Seq(Vertex) /\ Len(w) \in 1..Cardinality(Vertex)
<1> DEFINE Short(k) == \A e \in Graph!LaneWalks[k] : e \in Seq(Vertex) /\ Len(e) = k
           Bad == {k \in 1..Cardinality(Vertex) : ~Short(k)}
<1>1. Cardinality(Vertex) \in Nat
  BY FS_CardinalityType
<1>2. ASSUME Bad # {} PROVE FALSE
  <2>1. PICK k \in Bad : \A j \in Bad : k <= j
    <3>1. Bad \in SUBSET Nat
      BY <1>1
    <3> HIDE DEF Bad
    <3> QED BY <1>2, <3>1, LeastNatural
  <2>2. k \in Nat /\ k >= 1 /\ k <= Cardinality(Vertex)
    OBVIOUS
  <2>3. CASE k = 1
    <3>1. Graph!LaneWalks[k] = {<<n>> : n \in Vertex}
      BY <1>1, <2>2, <2>3, WalksAreDefined
    <3>2. \A n \in Vertex : <<n>> \in Seq(Vertex) /\ Len(<<n>>) = 1
      OBVIOUS
    <3>3. Short(k)
      BY <2>3, <3>1, <3>2
    <3> QED BY <3>3
  <2>4. CASE k # 1
    <3>1. k \in 0..Cardinality(Vertex) /\ ~(k <= 1) /\ k - 1 \in 1..Cardinality(Vertex)
      BY <1>1, <2>2, <2>4
    <3>2. Graph!LaneWalks[k] = UNION {Extended(e, k) : e \in Graph!LaneWalks[k - 1]}
      BY <3>1, WalksAreDefined
    <3>3. Short(k - 1)
      <4> SUFFICES ASSUME k - 1 \in Bad PROVE FALSE
        BY <3>1
      <4>1. k <= k - 1
        BY <2>1
      <4> QED BY <2>2, <4>1
    <3>4. ASSUME NEW e \in Graph!LaneWalks[k - 1], NEW x \in Extended(e, k)
          PROVE  x \in Seq(Vertex) /\ Len(x) = k
      <4>1. e \in Seq(Vertex) /\ Len(e) = k - 1
        BY <3>3
      <4>2. PICK v \in Vertex : x = Append(e, v)
        BY DEF Extended
      <4> QED BY <2>2, <4>1, <4>2
    <3>5. Short(k)
      BY <3>2, <3>4
    <3> QED BY <3>5
  <2> QED BY <2>3, <2>4
<1>3. PICK k \in 1..Cardinality(Vertex) : w \in Graph!LaneWalks[k]
  BY SameCardinality DEF Graph!Walks
<1>4. Short(k)
  BY <1>2
<1> QED BY <1>3, <1>4

\* A sequence of different vertices that follows lanes is a walk of the graph.
LEMMA SimpleFollowsWalk ==
    ASSUME IsFiniteSet(Vertex), NEW w, Follows(w),
           \A i, j \in 1..Len(w) : i < j => w[i] # w[j]
    PROVE  w \in Graph!Walks
<1> DEFINE Bad == {k \in 1..Len(w) : SubSeq(w, 1, k) \notin Graph!LaneWalks[k]}
<1>1. w \in Seq(Vertex) /\ Len(w) \in Nat /\ Len(w) >= 1
  BY DEF Follows
<1>2. Len(w) <= Cardinality(Vertex) /\ Cardinality(Vertex) \in Nat
  <2>1. w \in [1..Len(w) -> Vertex]
    BY <1>1
  <2>2. \A i, j \in 1..Len(w) : w[i] = w[j] => i = j
    BY <1>1
  <2>3. w \in Injection(1..Len(w), Vertex)
    BY <2>1, <2>2 DEF Injection, IsInjective
  <2>4. Cardinality(1..Len(w)) <= Cardinality(Vertex)
    BY <2>3, FS_Injection
  <2>5. Cardinality(1..Len(w)) = Len(w)
    BY <1>1, FS_Interval
  <2> QED BY <2>4, <2>5, FS_CardinalityType
<1>3. ASSUME Bad # {} PROVE FALSE
  <2>1. PICK k \in Bad : \A j \in Bad : k <= j
    <3>1. Bad \in SUBSET Nat
      <4>1. \A j \in Bad : j \in 1..Len(w)
        OBVIOUS
      <4> HIDE DEF Bad
      <4> QED BY <1>1, <4>1
    <3> HIDE DEF Bad
    <3> QED BY <1>3, <3>1, LeastNatural
  <2>2. k \in Nat /\ k >= 1 /\ k <= Len(w) /\ k \in 0..Cardinality(Vertex)
    BY <1>1, <1>2
  <2>3. CASE k = 1
    <3>1. Graph!LaneWalks[k] = {<<n>> : n \in Vertex}
      BY <2>2, <2>3, WalksAreDefined
    <3>2. w[1] \in Vertex
      BY <1>1
    <3>3. PICK first : first = SubSeq(w, 1, 1)
      OBVIOUS
    <3>4. first \in Seq(Vertex) /\ Len(first) = 1 /\ first[1] = w[1]
      BY <1>1, <3>2, <3>3
    <3>5. first = <<w[1]>>
      BY <3>4
    <3> QED BY <2>3, <3>1, <3>2, <3>3, <3>5
  <2>4. CASE k # 1
    <3>1. PICK j \in Nat : j = k - 1
      BY <2>2
    <3>2. j \in 1..Len(w) /\ j + 1 = k /\ j < k /\ ~(k <= 1)
      BY <2>2, <2>4, <3>1
    <3>3. Graph!LaneWalks[k] = UNION {Extended(e, k) : e \in Graph!LaneWalks[j]}
      BY <2>2, <3>1, <3>2, WalksAreDefined
    <3>4. PICK e \in Graph!LaneWalks[j] : e = SubSeq(w, 1, j)
      <4> SUFFICES ASSUME j \in Bad PROVE FALSE
        BY <3>2
      <4>1. k <= j
        BY <2>1
      <4> QED BY <2>2, <3>1, <4>1
    <3>5. e \in Seq(Vertex) /\ Len(e) = j /\ \A i \in 1..j : e[i] = w[i]
      BY <1>1, <2>2, <3>2, <3>4
    <3>6. SubSeq(w, 1, k) = Append(e, w[k])
      <4>1. SubSeq(w, 1, k) = SubSeq(w, 1, k - 1) \o <<w[k]>>
        BY <1>1, <2>2, SubSeqRecursiveSecond
      <4>2. w[k] \in Vertex
        BY <1>1, <2>2
      <4> QED BY <3>1, <3>4, <3>5, <4>1, <4>2, AppendIsConcat
    <3>7. Append(e, w[k]) \in Extended(e, k)
      <4>1. w[j] \in Vertex /\ w[k] \in Vertex /\ Linked(w[j], w[k])
        BY <1>1, <2>2, <3>2 DEF Follows
      <4>2. \A i \in 1..j : e[i] # w[k]
        BY <2>2, <3>2, <3>5
      <4>3. PICK l \in Vertex \X Vertex : l = <<w[j], w[k]>>
        BY <4>1
      <4>4. Linked(l[1], l[2]) /\ l[1] = e[k - 1] /\ \A i \in 1..(k - 1) : e[i] # l[2]
        BY <3>1, <3>2, <3>5, <4>1, <4>2, <4>3
      <4>5. l \in {m \in {lane \in Vertex \X Vertex : Linked(lane[1], lane[2])} :
                     m[1] = e[k - 1] /\ \A i \in 1..(k - 1) : e[i] # m[2]}
        BY <4>3, <4>4
      <4>6. Append(e, w[k]) = Append(e, l[2])
        BY <4>3
      <4> QED BY <4>5, <4>6 DEF Extended
    <3> QED BY <3>3, <3>4, <3>6, <3>7
  <2> QED BY <2>3, <2>4
<1>4. SubSeq(w, 1, Len(w)) \in Graph!LaneWalks[Len(w)]
  BY <1>1, <1>3
<1>5. SubSeq(w, 1, Len(w)) = w
  BY <1>1, SubSeqFull
<1>6. Len(w) \in 1..Cardinality(Vertex)
  BY <1>1, <1>2
<1> QED BY <1>4, <1>5, <1>6, SameCardinality DEF Graph!Walks

-----------------------------------------------------------------------------
(* The way back                                                            *)

\* What the search may rely on and has kept, from one existing vertex to another.
Searched ==
    /\ Lengths
    /\ from \in Vertex /\ to \in Vertex
    /\ TypeOK /\ Tree

\* The largest number is a number.
LEMMA InfiniteIsNatural == Infinite \in Nat /\ Infinite > 0
  BY SMT DEF Infinite

\* A lane between two vertices has a length.
LEMMA LaneHasLength ==
    ASSUME Lengths, NEW u, NEW v, Linked(u, v)
    PROVE  length[<<u, v>>] \in Weight /\ length[<<u, v>>] \in Nat /\ length[<<u, v>>] > 0
<1>1. PICK l \in Link : l = <<u, v>>
  BY DEF Linked
<1>2. length[l] # 0
  BY <1>1 DEF Linked
<1>3. length[l] \in Weight /\ Weight \subseteq Nat \ {0}
  BY <1>2, SearchAssumption DEF Lengths
<1>4. length[l] \in Nat /\ length[l] > 0
  <2>1. PICK n \in Nat : n = length[l]
    BY <1>3
  <2>2. n # 0
    BY <1>3, <2>1
  <2> QED BY <2>1, <2>2
<1>5. length[<<u, v>>] = length[l]
  BY <1>1
<1> QED BY <1>3, <1>4, <1>5

\* Distances are numbers.
LEMMA DistIsNatural ==
    ASSUME Searched
    PROVE  \A v \in Vertex : dist[v] \in Nat /\ dist[v] <= Infinite
BY InfiniteIsNatural DEF Searched, TypeOK

\* The tree leads from a reached vertex to a nearer one.
LEMMA TreeStep ==
    ASSUME Searched, NEW v \in Vertex, prev[v] # NoNode
    PROVE  /\ v # from /\ v # avoid /\ dist[v] # Infinite
           /\ prev[v] \in Vertex /\ dist[prev[v]] # Infinite /\ Linked(prev[v], v)
           /\ dist[v] = dist[prev[v]] + length[<<prev[v], v>>]
           /\ dist[prev[v]] < dist[v]
<1>1. v # from /\ dist[v] # Infinite
  BY DEF Searched, Tree
<1>2. /\ prev[v] \in Settled /\ Linked(prev[v], v) /\ v # avoid
      /\ dist[v] = dist[prev[v]] + length[<<prev[v], v>>]
  BY <1>1 DEF Searched, Tree
<1>3. prev[v] \in Vertex /\ dist[prev[v]] # Infinite
  BY <1>2 DEF Settled
<1>4. length[<<prev[v], v>>] \in Nat /\ length[<<prev[v], v>>] > 0
  BY <1>2, LaneHasLength DEF Searched
<1>5. dist[prev[v]] \in Nat /\ dist[v] \in Nat
  BY <1>3, DistIsNatural
<1> QED BY <1>1, <1>2, <1>3, <1>4, <1>5

\* Sequences that go back along the tree from v, to the first vertex.
Backward(w, v) ==
    /\ w \in Seq(Vertex) /\ Len(w) >= 1
    /\ w[1] = from /\ w[Len(w)] = v
    /\ \A i \in 1..(Len(w) - 1) : prev[w[i + 1]] = w[i]

\* What is returned goes back along the tree.
LEMMA TraceGoesBackward ==
    ASSUME Searched, dist[to] # Infinite
    PROVE  Backward(Trace, to)
<1> DEFINE B == {v \in Vertex : prev[v] = NoNode}
           V == Seq(Vertex)
           base == [v \in B |-> <<v>>]
           step == [a \in (Vertex \ B) \X V |-> Append(a[2], a[1])]
           IsWay(g) == g = [v \in Vertex |-> IF prev[v] = NoNode THEN <<v>>
                                             ELSE Append(g[prev[v]], v)]
<1>1. WellRanked(Vertex, B, prev, dist, Infinite)
  <2>1. dist \in [Vertex -> Nat] /\ \A v \in Vertex : dist[v] <= Infinite
    BY DistIsNatural DEF Searched, TypeOK
  <2>2. \A v \in Vertex \ B : prev[v] \in Vertex /\ dist[prev[v]] < dist[v]
    BY TreeStep
  <2> QED BY <2>1, <2>2, InfiniteIsNatural DEF WellRanked
<1>2. base \in [B -> V]
  <2>1. \A v \in B : <<v>> \in V
    OBVIOUS
  <2> QED BY <2>1
<1>3. step \in [(Vertex \ B) \X V -> V]
  <2>1. \A a \in (Vertex \ B) \X V : Append(a[2], a[1]) \in V
    OBVIOUS
  <2> QED BY <2>1
<1>4. PICK h \in [Vertex -> V] : IsRecursive(h, Vertex, B, prev, base, step)
  <2> HIDE DEF V, B, base, step
  <2> QED BY <1>1, <1>2, <1>3, RecursionExists
<1>5. \A v \in Vertex : h[v] = IF prev[v] = NoNode THEN <<v>> ELSE Append(h[prev[v]], v)
  <2>1. \A v \in B : h[v] = <<v>>
    BY <1>4 DEF IsRecursive
  <2>2. ASSUME NEW v \in Vertex \ B PROVE h[v] = Append(h[prev[v]], v)
    <3>1. prev[v] \in Vertex /\ h[prev[v]] \in V
      BY TreeStep
    <3>2. h[v] = step[<<v, h[prev[v]]>>]
      BY <1>4 DEF IsRecursive
    <3> QED BY <3>1, <3>2
  <2> QED BY <2>1, <2>2
<1>6. IsWay(h)
  BY <1>5
<1>7. PICK way : way = CHOOSE g : IsWay(g)
  OBVIOUS
<1>8. Trace = way[to]
  BY <1>7 DEF Trace
<1>9. \A v \in Vertex : way[v] = IF prev[v] = NoNode THEN <<v>> ELSE Append(way[prev[v]], v)
  <2>1. IsWay(way)
    <3> HIDE DEF IsWay
    <3> QED BY <1>6, <1>7
  <2> QED BY <2>1
<1> DEFINE Bad == {v \in Vertex : dist[v] # Infinite /\ ~Backward(way[v], v)}
           Distances == {dist[v] : v \in Bad}
<1>10. ASSUME Bad # {} PROVE FALSE
  <2>1. PICK m \in Distances : \A k \in Distances : m <= k
    <3>1. Distances # {}
      BY <1>10
    <3>2. Distances \in SUBSET Nat
      <4> HIDE DEF Bad
      <4>1. \A x \in Bad : x \in Vertex
        BY DEF Bad
      <4> QED BY <4>1, DistIsNatural
    <3> HIDE DEF Distances
    <3> QED BY <3>1, <3>2, LeastNatural
  <2>2. PICK v \in Bad : m = dist[v]
    OBVIOUS
  <2>3. CASE prev[v] = NoNode
    <3>1. v = from
      <4> SUFFICES ASSUME v # from PROVE FALSE
        OBVIOUS
      <4>1. prev[v] \in Vertex
        BY DEF Searched, Tree, Settled
      <4> QED BY <2>3, <4>1, SearchAssumption DEF Searched, NoNode
    <3>2. way[v] = <<v>>
      BY <1>9, <2>3
    <3>3. <<v>> \in Seq(Vertex) /\ Len(<<v>>) = 1 /\ <<v>>[1] = v
      OBVIOUS
    <3>4. Backward(<<v>>, v)
      BY <3>1, <3>3 DEF Backward
    <3> QED BY <3>2, <3>4
  <2>4. CASE prev[v] # NoNode
    <3>1. PICK u \in Vertex : u = prev[v]
      BY <2>4, TreeStep
    <3>2. dist[u] # Infinite /\ dist[u] < dist[v] /\ dist[u] \in Nat /\ dist[v] \in Nat
      BY <2>4, <3>1, TreeStep, DistIsNatural
    <3>3. Backward(way[u], u)
      <4> SUFFICES ASSUME dist[u] \in Distances PROVE FALSE
        BY <3>2
      <4>1. m <= dist[u]
        BY <2>1
      <4> QED BY <2>2, <3>2, <4>1
    <3>4. PICK e \in Seq(Vertex) : e = way[u]
      BY <3>3 DEF Backward
    <3>5. way[v] = Append(e, v)
      BY <1>9, <2>4, <3>1, <3>4
    <3>6. Len(e) \in Nat /\ Len(e) >= 1 /\ Len(Append(e, v)) = Len(e) + 1
          /\ Append(e, v) \in Seq(Vertex)
          /\ \A i \in 1..Len(e) : Append(e, v)[i] = e[i]
          /\ Append(e, v)[Len(e) + 1] = v
      BY <3>3, <3>4, AppendProperties DEF Backward
    <3>7. ASSUME NEW i \in 1..Len(e) PROVE prev[Append(e, v)[i + 1]] = Append(e, v)[i]
      <4>1. CASE i = Len(e)
        BY <3>1, <3>3, <3>4, <3>6, <4>1 DEF Backward
      <4>2. CASE i # Len(e)
        <5>1. i \in 1..(Len(e) - 1) /\ i + 1 \in 1..Len(e)
          BY <3>6, <4>2
        <5>2. prev[e[i + 1]] = e[i]
          BY <3>3, <3>4, <5>1 DEF Backward
        <5> QED BY <3>6, <5>1, <5>2
      <4> QED BY <4>1, <4>2
    <3>8. Append(e, v)[1] = from
      BY <3>3, <3>4, <3>6 DEF Backward
    <3>9. Backward(Append(e, v), v)
      BY <3>6, <3>7, <3>8 DEF Backward
    <3> QED BY <3>5, <3>9
  <2> QED BY <2>3, <2>4
<1>11. to \in Vertex
  BY DEF Searched
<1> QED BY <1>8, <1>10, <1>11

\* A sequence that goes back along the tree follows lanes outward, keeps off
\* the avoided vertex and gets farther with every step.
LEMMA BackwardFollows ==
    ASSUME Searched, NEW w, NEW v, Backward(w, v)
    PROVE  /\ Follows(w)
           /\ \A i \in 1..(Len(w) - 1) :
                 /\ w[i + 1] # avoid
                 /\ dist[w[i + 1]] = dist[w[i]] + length[<<w[i], w[i + 1]>>]
                 /\ dist[w[i]] < dist[w[i + 1]]
<1>1. w \in Seq(Vertex) /\ Len(w) >= 1 /\ Len(w) \in Nat
  BY DEF Backward
<1>2. ASSUME NEW i \in 1..(Len(w) - 1)
      PROVE  /\ w[i + 1] # avoid /\ Linked(w[i], w[i + 1])
             /\ dist[w[i + 1]] = dist[w[i]] + length[<<w[i], w[i + 1]>>]
             /\ dist[w[i]] < dist[w[i + 1]]
  <2>1. PICK u \in Vertex : u = w[i]
    <3>1. i \in 1..Len(w)
      BY <1>1
    <3> QED BY <1>1, <3>1
  <2>2. PICK x \in Vertex : x = w[i + 1]
    <3>1. i + 1 \in 1..Len(w)
      BY <1>1
    <3> QED BY <1>1, <3>1
  <2>3. prev[x] = u
    BY <2>1, <2>2 DEF Backward
  <2>4. prev[x] # NoNode
    BY <2>3, SearchAssumption DEF Searched, NoNode
  <2>5. x # avoid /\ Linked(u, x) /\ dist[x] = dist[u] + length[<<u, x>>] /\ dist[u] < dist[x]
    BY <2>3, <2>4, TreeStep
  <2> QED BY <2>1, <2>2, <2>5
<1> QED BY <1>1, <1>2 DEF Follows

\* It visits no vertex twice.
LEMMA BackwardIsSimple ==
    ASSUME Searched, NEW w, NEW v, Backward(w, v)
    PROVE  \A i, j \in 1..Len(w) : i < j => w[i] # w[j]
<1>1. w \in Seq(Vertex) /\ Len(w) >= 1 /\ Len(w) \in Nat
  BY DEF Backward
<1>2. \A i \in 1..Len(w) : w[i] \in Vertex /\ dist[w[i]] \in Nat
  BY <1>1, DistIsNatural
<1> SUFFICES ASSUME NEW i \in 1..Len(w) PROVE \A j \in 1..Len(w) : i < j => w[i] # w[j]
  OBVIOUS
<1> DEFINE Bad == {j \in 1..Len(w) : i < j /\ ~(dist[w[i]] < dist[w[j]])}
<1>3. ASSUME Bad # {} PROVE FALSE
  <2>1. PICK j \in Bad : \A k \in Bad : j <= k
    <3>1. Bad \in SUBSET Nat
      BY <1>1
    <3> HIDE DEF Bad
    <3> QED BY <1>3, <3>1, LeastNatural
  <2>2. PICK k \in Nat : k = j - 1
    BY <1>1
  <2>3. k \in 1..(Len(w) - 1) /\ k \in 1..Len(w) /\ k + 1 = j /\ i <= k /\ j \in Nat /\ k < j
    BY <1>1, <2>2
  <2>4. dist[w[k]] < dist[w[j]]
    BY <2>3, BackwardFollows
  <2>5. dist[w[i]] <= dist[w[k]]
    <3>1. CASE i = k
      BY <1>2, <2>3, <3>1
    <3>2. CASE i # k
      <4>1. k \notin Bad
        <5> SUFFICES ASSUME k \in Bad PROVE FALSE
          OBVIOUS
        <5>1. j <= k
          BY <2>1
        <5> QED BY <2>3, <5>1
      <4>2. dist[w[i]] < dist[w[k]]
        BY <2>3, <3>2, <4>1
      <4> QED BY <1>2, <2>3, <4>2
    <3> QED BY <3>1, <3>2
  <2>6. dist[w[i]] \in Nat /\ dist[w[k]] \in Nat /\ dist[w[j]] \in Nat
    BY <1>2, <2>3
  <2>7. dist[w[i]] < dist[w[j]]
    BY <2>4, <2>5, <2>6
  <2> QED BY <2>7
<1>4. ASSUME NEW j \in 1..Len(w), i < j PROVE w[i] # w[j]
  <2>1. dist[w[i]] < dist[w[j]]
    BY <1>3, <1>4
  <2> QED BY <1>2, <2>1
<1> QED BY <1>4

\* Its cost is the distance of its last vertex.
LEMMA BackwardCosts ==
    ASSUME Searched, NEW w, NEW v, Backward(w, v)
    PROVE  Graph!path_cost(w) = dist[v]
<1>1. PICK n \in Nat : n = Len(w) - 1
  BY DEF Backward
<1>2. PICK c : Adds(c, Hops(w), n) /\ Graph!path_cost(w) = c[n]
  BY <1>1, BackwardFollows, CostIsTheSum DEF Searched
<1>3. Len(w) = n + 1 /\ w \in Seq(Vertex) /\ w[1] = from /\ w[n + 1] = v
  BY <1>1 DEF Backward
<1>4. \A i \in 0..n : w[i + 1] \in Vertex /\ dist[w[i + 1]] \in Nat
  BY <1>3, DistIsNatural
<1> DEFINE Bad == {i \in 0..n : c[i] # dist[w[i + 1]]}
<1>5. ASSUME Bad # {} PROVE FALSE
  <2>1. PICK i \in Bad : \A k \in Bad : i <= k
    <3>1. Bad \in SUBSET Nat
      OBVIOUS
    <3> HIDE DEF Bad
    <3> QED BY <1>5, <3>1, LeastNatural
  <2>2. CASE i = 0
    BY <1>2, <1>3, <2>2 DEF Adds, Searched, Tree
  <2>3. CASE i # 0
    <3>1. PICK k \in Nat : k = i - 1
      BY <2>3
    <3>2. i \in 1..n /\ k \in 0..n /\ k < i /\ k + 1 = i
      BY <2>3, <3>1
    <3>3. c[k] = dist[w[i]]
      <4> SUFFICES ASSUME k \in Bad PROVE FALSE
        BY <3>2
      <4>1. i <= k
        BY <2>1
      <4> QED BY <3>2, <4>1
    <3>4. c[i] = c[k] + length[<<w[i], w[i + 1]>>]
      BY <1>1, <1>2, <3>1, <3>2 DEF Adds, Hops
    <3>5. dist[w[i + 1]] = dist[w[i]] + length[<<w[i], w[i + 1]>>]
      BY <1>1, <3>2, BackwardFollows
    <3> QED BY <3>3, <3>4, <3>5
  <2> QED BY <2>2, <2>3
<1> QED BY <1>2, <1>3, <1>5

-----------------------------------------------------------------------------
(* No way is shorter                                                       *)

\* A route that is no longer than the graph has vertices costs less than the
\* largest number.
LEMMA CostIsSmall ==
    ASSUME Lengths, NEW w, Follows(w), Len(w) <= Cardinality(Vertex)
    PROVE  Graph!path_cost(w) \in Nat /\ Graph!path_cost(w) < Infinite
<1>1. PICK n \in Nat : n = Len(w) - 1
  <2>1. Len(w) \in Nat /\ Len(w) >= 1
    BY DEF Follows
  <2> QED BY <2>1
<1>2. PICK c : Adds(c, Hops(w), n) /\ Graph!path_cost(w) = c[n]
  BY <1>1, CostIsTheSum
<1>3. PICK longest \in Nat : /\ \A l \in Weight : l <= longest
                             /\ longest * Cardinality(Vertex) < Infinite
  BY SearchAssumption
<1>4. \A i \in 1..n : c[i] = c[i - 1] + Hops(w)[i] /\ Hops(w)[i] \in Nat /\ Hops(w)[i] <= longest
  <2> SUFFICES ASSUME NEW i \in 1..n
               PROVE  c[i] = c[i - 1] + Hops(w)[i] /\ Hops(w)[i] \in Nat /\ Hops(w)[i] <= longest
    OBVIOUS
  <2>1. Linked(w[i], w[i + 1])
    BY <1>1 DEF Follows
  <2>2. length[<<w[i], w[i + 1]>>] \in Weight /\ length[<<w[i], w[i + 1]>>] \in Nat
    BY <2>1, LaneHasLength
  <2>3. Hops(w)[i] = length[<<w[i], w[i + 1]>>]
    BY <1>1 DEF Hops
  <2> QED BY <1>2, <1>3, <2>2, <2>3 DEF Adds
<1> DEFINE Bad == {i \in 0..n : ~(c[i] <= longest * i)}
<1>5. ASSUME Bad # {} PROVE FALSE
  <2>1. PICK i \in Bad : \A k \in Bad : i <= k
    <3>1. Bad \in SUBSET Nat
      OBVIOUS
    <3> HIDE DEF Bad
    <3> QED BY <1>5, <3>1, LeastNatural
  <2>2. CASE i = 0
    BY <1>2, <1>3, <2>2 DEF Adds
  <2>3. CASE i # 0
    <3>1. PICK k \in Nat : k = i - 1
      BY <2>3
    <3>2. i \in 1..n /\ k \in 0..n /\ k < i /\ i = k + 1
      BY <2>3, <3>1
    <3>3. c[k] <= longest * k
      <4> SUFFICES ASSUME k \in Bad PROVE FALSE
        BY <3>2
      <4>1. i <= k
        BY <2>1
      <4> QED BY <3>2, <4>1
    <3>4. PICK x \in Nat, y \in Nat : x = c[k] /\ y = Hops(w)[i]
      BY <1>2, <1>4, <3>2 DEF Adds
    <3>5. c[i] = x + y /\ y <= longest /\ x <= longest * k
      BY <1>4, <3>1, <3>2, <3>3, <3>4
    <3>6. longest * i = longest * k + longest
      BY <3>2
    <3>7. PICK m \in Nat : m = longest * k
      OBVIOUS
    <3>8. x + y <= m + longest
      BY <3>5, <3>7
    <3>9. c[i] <= longest * i
      BY <3>5, <3>6, <3>7, <3>8
    <3> QED BY <3>9
  <2> QED BY <2>2, <2>3
<1>6. c[n] <= longest * n /\ c[n] \in Nat
  <2>1. n \in 0..n
    OBVIOUS
  <2>2. c[n] \in Nat
    BY <1>2, <2>1 DEF Adds
  <2> QED BY <1>5, <2>1, <2>2
<1>7. PICK size \in Nat : size = Cardinality(Vertex)
  BY FS_CardinalityType, SearchAssumption
<1>8. n <= size
  BY <1>1, <1>7
<1>9. longest * n <= longest * size
  BY <1>8
<1>10. longest * n \in Nat /\ longest * size \in Nat
  OBVIOUS
<1> QED BY <1>2, <1>3, <1>6, <1>7, <1>9, <1>10, InfiniteIsNatural

\* The top of the queue is one of its entries, and no other is before it.
LEMMA TopIsLeast ==
    ASSUME Vertex \subseteq Nat, pq \subseteq Nat \X Vertex, pq # {}
    PROVE  Top \in pq /\ \A o \in pq : Top[1] <= o[1]
<1> DEFINE Keys == {e[1] : e \in pq}
<1>1. PICK m \in Keys : \A k \in Keys : m <= k
  <2>1. Keys \in SUBSET Nat /\ Keys # {}
    OBVIOUS
  <2> HIDE DEF Keys
  <2> QED BY <2>1, LeastNatural
<1> DEFINE Ties == {e[2] : e \in {o \in pq : o[1] = m}}
<1>2. PICK t \in Ties : \A k \in Ties : t <= k
  <2>1. Ties \in SUBSET Nat /\ Ties # {}
    OBVIOUS
  <2> HIDE DEF Ties
  <2> QED BY <2>1, LeastNatural
<1>3. PICK e \in pq : e[1] = m /\ e[2] = t
  OBVIOUS
<1>4. ASSUME NEW o \in pq PROVE e[1] < o[1] \/ (e[1] = o[1] /\ e[2] <= o[2])
  <2>1. o[1] \in Nat /\ e[1] \in Nat /\ o[1] \in Keys
    OBVIOUS
  <2>2. m <= o[1]
    BY <1>1, <2>1
  <2>3. CASE o[1] = m
    BY <1>2, <1>3, <2>3
  <2>4. CASE o[1] # m
    BY <1>3, <2>1, <2>2, <2>4
  <2> QED BY <2>3, <2>4
<1>5. Top \in pq /\ \A o \in pq : Top[1] < o[1] \/ (Top[1] = o[1] /\ Top[2] <= o[2])
  BY <1>3, <1>4 DEF Top
<1> QED BY <1>5

\* When `to` is on top, or nothing is, nearer vertices are settled.
LEMMA NearerIsSettled ==
    ASSUME Searched, Frontier, pq # {} => ~Stale /\ Top[2] = to,
           NEW v \in Vertex, dist[v] < dist[to]
    PROVE  v \in Settled
<1>1. dist[v] \in Nat /\ dist[to] \in Nat /\ dist[to] <= Infinite
  BY DistIsNatural DEF Searched
<1>2. dist[v] # Infinite
  BY <1>1, InfiniteIsNatural
<1>3. ASSUME <<dist[v], v>> \in pq PROVE FALSE
  <2>1. Top \in pq /\ Top[1] <= dist[v]
    BY <1>3, TopIsLeast, SearchAssumption DEF Searched, TypeOK
  <2>2. ~(Top[1] > dist[to])
    BY <1>3 DEF Stale
  <2>3. dist[Top[2]] <= Top[1]
    BY <2>1 DEF Frontier
  <2>4. Top[2] = to /\ Top[1] \in Nat
    BY <1>3, <2>1 DEF Searched, TypeOK
  <2> QED BY <1>1, <2>1, <2>3, <2>4
<1> QED BY <1>2, <1>3 DEF Settled

\* Then no route that keeps off the avoided vertex costs less than the
\* distance found.
LEMMA NoRouteIsShorter ==
    ASSUME Searched, Frontier, pq # {} => ~Stale /\ Top[2] = to,
           NEW w, Follows(w), w[1] = from, w[Len(w)] = to,
           \A i \in 1..(Len(w) - 1) : w[i + 1] # avoid
    PROVE  dist[to] <= Graph!path_cost(w)
<1>1. PICK n \in Nat : n = Len(w) - 1
  <2>1. Len(w) \in Nat /\ Len(w) >= 1
    BY DEF Follows
  <2> QED BY <2>1
<1>2. PICK c : Adds(c, Hops(w), n) /\ Graph!path_cost(w) = c[n]
  BY <1>1, CostIsTheSum DEF Searched
<1>3. Len(w) = n + 1 /\ w \in Seq(Vertex) /\ w[1] = from /\ w[n + 1] = to
  BY <1>1 DEF Follows
<1>4. \A i \in 0..n : w[i + 1] \in Vertex /\ dist[w[i + 1]] \in Nat /\ c[i] \in Nat
  BY <1>2, <1>3, DistIsNatural DEF Adds
<1>5. dist[to] \in Nat
  BY DistIsNatural DEF Searched
<1> DEFINE Bad == {i \in 0..n : ~(dist[to] <= c[i] \/ dist[w[i + 1]] <= c[i])}
<1>6. ASSUME Bad # {} PROVE FALSE
  <2>1. PICK i \in Bad : \A k \in Bad : i <= k
    <3>1. Bad \in SUBSET Nat
      OBVIOUS
    <3> HIDE DEF Bad
    <3> QED BY <1>6, <3>1, LeastNatural
  <2>2. CASE i = 0
    <3>1. c[i] = 0 /\ dist[w[i + 1]] = 0
      BY <1>2, <1>3, <2>2 DEF Adds, Searched, Tree
    <3> QED BY <3>1
  <2>3. CASE i # 0
    <3>1. PICK k \in Nat : k = i - 1
      BY <2>3
    <3>2. i \in 1..n /\ k \in 0..n /\ k < i /\ k + 1 = i
      BY <2>3, <3>1
    <3>3. dist[to] <= c[k] \/ dist[w[i]] <= c[k]
      <4> SUFFICES ASSUME k \in Bad PROVE FALSE
        BY <3>2
      <4>1. i <= k
        BY <2>1
      <4> QED BY <3>2, <4>1
    <3>4. PICK u \in Vertex : u = w[i]
      BY <1>4, <3>2
    <3>5. PICK v \in Vertex : v = w[i + 1]
      BY <1>4, <3>2
    <3>6. Linked(u, v) /\ v # avoid
      BY <1>1, <3>2, <3>4, <3>5 DEF Follows
    <3>7. PICK hop \in Nat : hop = length[<<u, v>>] /\ c[i] = c[k] + hop
      <4>1. length[<<u, v>>] \in Nat
        BY <3>6, LaneHasLength DEF Searched
      <4>2. c[i] = c[i - 1] + Hops(w)[i] /\ Hops(w)[i] = length[<<w[i], w[i + 1]>>]
        BY <1>1, <1>2, <3>2 DEF Adds, Hops
      <4> QED BY <3>1, <3>4, <3>5, <4>1, <4>2
    <3>8. ~(dist[to] <= c[i]) /\ ~(dist[v] <= c[i]) /\ c[k] \in Nat /\ c[i] \in Nat
          /\ dist[u] \in Nat /\ dist[v] \in Nat
      BY <1>4, <3>2, <3>5, DistIsNatural
    <3>9. dist[u] <= c[k] /\ dist[u] < dist[to]
      <4>1. PICK t \in Nat, a \in Nat, b \in Nat : t = dist[to] /\ a = dist[u] /\ b = c[k]
        BY <1>5, <3>8
      <4>2. (t <= b \/ a <= b) /\ ~(t <= b + hop)
        BY <3>3, <3>4, <3>7, <3>8, <4>1
      <4>3. a <= b /\ a < t
        BY <4>2
      <4> QED BY <4>1, <4>3
    <3>10. u \in Settled
      BY <3>9, NearerIsSettled
    <3>11. dist[v] <= dist[u] + hop
      BY <3>6, <3>7, <3>10 DEF Frontier
    <3> QED BY <3>7, <3>8, <3>9, <3>11
  <2> QED BY <2>2, <2>3
<1>7. n \notin Bad
  BY <1>6
<1> QED BY <1>2, <1>3, <1>7

-----------------------------------------------------------------------------
(* The invariant                                                           *)

\* It says that what is returned is right.
LEMMA EndedIsShortest ==
    ASSUME SearchInv
    PROVE  FindsShortest
<1> SUFFICES ASSUME path # Searching
             PROVE  LET shortest == Graph!dijkstra(from, to, avoid)
                    IN  IF shortest = {} THEN path = <<>> ELSE path \in shortest
  BY DEF FindsShortest
<1>1. CASE ~({from, to} \subseteq Vertex)
  <2>1. path = <<>>
    BY <1>1 DEF SearchInv
  <2>2. Graph!dijkstra(from, to, avoid) = {}
    BY <1>1 DEF Graph!dijkstra
  <2> QED BY <2>1, <2>2
<1>2. CASE {from, to} \subseteq Vertex
  <2>1. Searched /\ Frontier /\ Ended
    BY <1>2 DEF SearchInv, Searched, Lengths
  <2>2. pq # {} => ~Stale /\ Top[2] = to
    BY <2>1 DEF Ended
  <2>3. avoid \in Vertex \cup {NoNode}
    BY SearchAssumption DEF SearchInv, avoid
  <2> DEFINE R == Graph!Routes(from, to, avoid)
             best == {w \in R : \A o \in R : Graph!path_cost(w) <= Graph!path_cost(o)}
  <2>4. Graph!dijkstra(from, to, avoid) = best
    BY <1>2, <2>3 DEF Graph!dijkstra, Graph!ShortestRoutes, Graph!ShortestOf, Graph!NoNode, NoNode
  <2>5. ASSUME NEW w \in R
        PROVE  /\ Graph!path_cost(w) \in Nat /\ Graph!path_cost(w) < Infinite
               /\ dist[to] <= Graph!path_cost(w)
    <3>1. w \in Graph!Walks /\ Graph!IsRoute(w, from, to, avoid)
      BY DEF Graph!Routes
    <3>2. Len(w) <= Cardinality(Vertex)
      BY <3>1, WalksAreShort, SearchAssumption
    <3>3. /\ Follows(w) /\ w[1] = from /\ w[Len(w)] = to
          /\ \A i \in 1..(Len(w) - 1) : w[i + 1] # avoid
      BY <3>1 DEF Graph!IsRoute, Follows
    <3>4. dist[to] <= Graph!path_cost(w)
      BY <2>1, <2>2, <3>3, NoRouteIsShorter
    <3>5. Graph!path_cost(w) \in Nat /\ Graph!path_cost(w) < Infinite
      BY <2>1, <3>2, <3>3, CostIsSmall DEF Searched
    <3> QED BY <3>4, <3>5
  <2>6. CASE dist[to] = Infinite
    <3>1. \A w \in R : FALSE
      <4> SUFFICES ASSUME NEW w \in R PROVE FALSE
        OBVIOUS
      <4>1. PICK cost \in Nat : cost = Graph!path_cost(w)
        BY <2>5
      <4>2. Infinite <= cost /\ cost < Infinite
        BY <2>5, <2>6, <4>1
      <4> QED BY <4>2, InfiniteIsNatural
    <3>2. best = {}
      BY <3>1
    <3>3. path = <<>>
      BY <2>1, <2>6 DEF Ended
    <3> QED BY <2>4, <3>2, <3>3
  <2>7. CASE dist[to] # Infinite
    <3>1. PICK w : w = Trace /\ path = w
      BY <2>1, <2>7 DEF Ended
    <3>2. Backward(w, to)
      BY <2>1, <2>7, <3>1, TraceGoesBackward
    <3>3. Graph!path_cost(w) = dist[to]
      BY <2>1, <3>2, BackwardCosts
    <3>4. w \in Graph!Walks
      BY <2>1, <3>2, BackwardFollows, BackwardIsSimple, SimpleFollowsWalk, SearchAssumption
    <3>5. /\ Follows(w) /\ w[1] = from /\ w[Len(w)] = to
          /\ \A i \in 1..(Len(w) - 1) : w[i + 1] # avoid
      BY <2>1, <3>2, BackwardFollows DEF Backward
    <3>6. Graph!IsRoute(w, from, to, avoid)
      <4>1. w \in Seq(Vertex) /\ Len(w) >= 1 /\ Len(w) \in Nat
        BY <3>2 DEF Backward
      <4>2. ASSUME NEW i \in 1..(Len(w) - 1)
            PROVE  w[i] \in Vertex /\ w[i + 1] \in Vertex /\ Linked(w[i], w[i + 1])
        <5>1. i \in 1..Len(w) /\ i + 1 \in 1..Len(w)
          BY <4>1
        <5> QED BY <3>5, <4>1, <5>1 DEF Follows
      <4> QED BY <3>5, <4>1, <4>2 DEF Graph!IsRoute
    <3>7. w \in R
      BY <3>4, <3>6 DEF Graph!Routes
    <3>8. \A o \in R : Graph!path_cost(w) <= Graph!path_cost(o)
      BY <2>5, <3>3
    <3>9. w \in best
      BY <3>7, <3>8
    <3> HIDE DEF best
    <3> QED BY <2>4, <3>1, <3>9
  <2> QED BY <2>6, <2>7
<1> QED BY <1>1, <1>2

\* It holds before the first entry is taken.
LEMMA SearchInit ==
    ASSUME Init
    PROVE  SearchInv
<1>1. CASE ~({from, to} \subseteq Vertex)
  BY <1>1 DEF Init, SearchInv
<1>2. CASE {from, to} \subseteq Vertex
  <2>1. /\ path = Searching /\ pq = {<<0, from>>}
        /\ dist = [v \in Vertex |-> IF v = from THEN 0 ELSE Infinite]
        /\ prev = [v \in Vertex |-> NoNode]
    BY <1>2 DEF Init
  <2>2. TypeOK
    BY <1>2, <2>1, InfiniteIsNatural DEF TypeOK
  <2>3. Settled = {}
    BY <2>1 DEF Settled
  <2>4. Frontier
    BY <1>2, <2>1, <2>3, InfiniteIsNatural DEF Frontier
  <2>5. Tree
    BY <1>2, <2>1 DEF Tree
  <2> QED BY <1>2, <2>1, <2>2, <2>4, <2>5 DEF Init, SearchInv
<1> QED BY <1>1, <1>2

\* What is returned depends on prev and to alone.
LEMMA TraceStays ==
    ASSUME prev' = prev, query' = query
    PROVE  Trace' = Trace
<1> DEFINE T(p, t) == LET way[v \in Vertex] == IF p[v] = NoNode THEN <<v>>
                                                ELSE Append(way[p[v]], v)
                      IN  way[t]
<1>1. Trace = T(prev, to)
  BY DEF Trace
<1>2. Trace' = T(prev', to')
  BY DEF Trace
<1>3. to' = to
  BY DEF to
<1> HIDE DEF T
<1> QED BY <1>1, <1>2, <1>3

\* Outside of a search, what is kept does not change.
LEMMA SearchStutters ==
    ASSUME SearchInv, UNCHANGED vars
    PROVE  SearchInv'
<1>1. /\ length' = length /\ query' = query /\ dist' = dist
      /\ prev' = prev /\ pq' = pq /\ path' = path
  BY DEF vars
<1>2. from' = from /\ to' = to /\ avoid' = avoid
  BY <1>1 DEF from, to, avoid
<1>3. Trace' = Trace
  BY <1>1, TraceStays
<1>4. Top' = Top
  BY <1>1 DEF Top
<1>5. Stale' = Stale
  BY <1>1, <1>4 DEF Stale
<1>6. Settled' = Settled
  BY <1>1 DEF Settled
<1>7. \A u, v : Linked(u, v)' <=> Linked(u, v)
  BY <1>1 DEF Linked
<1>8. TypeOK => TypeOK'
  BY <1>1 DEF TypeOK
<1>9. Frontier => Frontier'
  BY <1>1, <1>2, <1>6, <1>7 DEF Frontier
<1>10. Tree => Tree'
  BY <1>1, <1>2, <1>6, <1>7 DEF Tree
<1>11. Ended => Ended'
  BY <1>1, <1>2, <1>3, <1>4, <1>5 DEF Ended
<1>12. Searching' = Searching
  BY DEF Searching
<1> QED BY <1>1, <1>2, <1>8, <1>9, <1>10, <1>11, <1>12 DEF SearchInv

\* A search goes on only between vertices that exist.
LEMMA StillSearched ==
    ASSUME SearchInv, path = Searching
    PROVE  {from, to} \subseteq Vertex /\ Searched /\ Frontier
<1>1. <<>> # Searching
  BY DEF Searching
<1> QED BY <1>1 DEF SearchInv, Searched, Lengths

\* Passing over a stale entry settles nothing.
LEMMA SkipStaleKeeps ==
    ASSUME SearchInv, SkipStale
    PROVE  SearchInv'
<1>1. /\ length' = length /\ query' = query /\ dist' = dist
      /\ prev' = prev /\ path' = path /\ path = Searching
      /\ pq # {} /\ Stale /\ pq' = pq \ {Top}
  BY DEF SkipStale
<1>2. {from, to} \subseteq Vertex /\ Searched /\ Frontier
  BY <1>1, StillSearched
<1>3. from' = from /\ to' = to /\ avoid' = avoid /\ Searching' = Searching
  BY <1>1 DEF from, to, avoid, Searching
<1>4. Top \in pq /\ Top[2] \in Vertex /\ Top[1] > dist[Top[2]]
  BY <1>1, <1>2, TopIsLeast, SearchAssumption DEF Searched, TypeOK, Stale
<1>5. \A v \in Vertex : <<dist[v], v>> # Top
  <2> SUFFICES ASSUME NEW v \in Vertex, <<dist[v], v>> = Top PROVE FALSE
    OBVIOUS
  <2>1. Top[1] = dist[v] /\ Top[2] = v /\ dist[v] \in Nat
    BY <1>2, DistIsNatural
  <2> QED BY <1>4, <2>1
<1>6. Settled' = Settled
  BY <1>1, <1>5 DEF Settled
<1>7. \A u, v : Linked(u, v)' <=> Linked(u, v)
  BY <1>1 DEF Linked
<1>8. TypeOK'
  BY <1>1, <1>2 DEF Searched, TypeOK
<1>9. Frontier'
  BY <1>1, <1>2, <1>3, <1>6, <1>7 DEF Frontier
<1>10. Tree'
  BY <1>1, <1>2, <1>3, <1>6, <1>7 DEF Searched, Tree
<1> QED BY <1>1, <1>2, <1>3, <1>8, <1>9, <1>10 DEF SearchInv

\* Returning changes what is returned.
LEMMA ReturnKeeps ==
    ASSUME SearchInv, Return
    PROVE  SearchInv'
<1>1. /\ length' = length /\ query' = query /\ dist' = dist
      /\ prev' = prev /\ pq' = pq /\ path = Searching
      /\ pq # {} => ~Stale /\ Top[2] = to
      /\ path' = IF dist[to] = Infinite THEN <<>> ELSE Trace
  BY DEF Return
<1>2. {from, to} \subseteq Vertex /\ Searched /\ Frontier
  BY <1>1, StillSearched
<1>3. from' = from /\ to' = to /\ avoid' = avoid
  BY <1>1 DEF from, to, avoid
<1>4. Trace' = Trace
  BY <1>1, TraceStays
<1>5. Top' = Top
  BY <1>1 DEF Top
<1>6. Stale' = Stale
  BY <1>1, <1>5 DEF Stale
<1>7. Settled' = Settled
  BY <1>1 DEF Settled
<1>8. \A u, v : Linked(u, v)' <=> Linked(u, v)
  BY <1>1 DEF Linked
<1>9. TypeOK' /\ Frontier' /\ Tree'
  <2>1. TypeOK'
    BY <1>1, <1>2 DEF Searched, TypeOK
  <2>2. Frontier'
    BY <1>1, <1>2, <1>3, <1>7, <1>8 DEF Frontier
  <2>3. Tree'
    BY <1>1, <1>2, <1>3, <1>7, <1>8 DEF Searched, Tree
  <2> QED BY <2>1, <2>2, <2>3
<1>10. Ended'
  BY <1>1, <1>3, <1>4, <1>5, <1>6 DEF Ended
<1> QED BY <1>1, <1>2, <1>3, <1>9, <1>10 DEF SearchInv

\* Following the lanes of the vertex on top settles that vertex and no other.
LEMMA ExpandKeeps ==
    ASSUME SearchInv, Expand
    PROVE  SearchInv'
<1>1. /\ length' = length /\ query' = query /\ path' = path /\ path = Searching
      /\ pq # {} /\ ~Stale /\ Top[2] # to /\ Relax(Top[2])
  BY DEF Expand
<1>2. {from, to} \subseteq Vertex /\ Searched /\ Frontier
  BY <1>1, StillSearched
<1>3. from' = from /\ to' = to /\ avoid' = avoid /\ Searching' = Searching
  BY <1>1 DEF from, to, avoid, Searching
<1>4. \A u, v : Linked(u, v)' <=> Linked(u, v)
  BY <1>1 DEF Linked
<1>5. \A v \in Vertex : dist[v] \in Nat /\ dist[v] <= Infinite
  BY <1>2, DistIsNatural
<1>6. PICK x \in Vertex : x = Top[2]
  BY <1>1, <1>2, TopIsLeast, SearchAssumption DEF Searched, TypeOK
<1>7. Top = <<dist[x], x>> /\ Top \in pq /\ dist[x] < Infinite /\ x # to
  <2>1. Top \in pq /\ Top \in Nat \X Vertex
    BY <1>1, <1>2, TopIsLeast, SearchAssumption DEF Searched, TypeOK
  <2>2. dist[x] <= Top[1] /\ Top[1] < Infinite /\ ~(Top[1] > dist[x])
    BY <1>1, <1>2, <1>6, <2>1 DEF Frontier, Stale
  <2>3. Top[1] = dist[x]
    BY <1>5, <2>1, <2>2
  <2> QED BY <1>1, <1>6, <2>1, <2>2, <2>3
<1>8. \A o \in pq : dist[x] <= o[1]
  BY <1>1, <1>2, <1>7, TopIsLeast, SearchAssumption DEF Searched, TypeOK
<1>9. \A u \in Settled : u \in Vertex /\ dist[u] <= dist[x]
  BY <1>2, <1>7 DEF Frontier, Settled
<1>10. PICK better \in SUBSET Vertex : better = Improved(x)
  BY DEF Improved
<1> DEFINE reach(v) == dist[x] + length[<<x, v>>]
<1>11. \A v \in better : /\ Linked(x, v) /\ v # avoid
                         /\ reach(v) \in Nat /\ dist[x] < reach(v) /\ reach(v) < dist[v]
  <2> SUFFICES ASSUME NEW v \in better
               PROVE  /\ Linked(x, v) /\ v # avoid
                      /\ reach(v) \in Nat /\ dist[x] < reach(v) /\ reach(v) < dist[v]
    OBVIOUS
  <2>1. Linked(x, v) /\ v # avoid /\ reach(v) < dist[v]
    BY <1>10 DEF Improved
  <2>2. PICK hop \in Nat : hop = length[<<x, v>>] /\ hop > 0
    BY <1>2, <2>1, LaneHasLength DEF Searched
  <2>3. dist[x] \in Nat
    BY <1>5
  <2> QED BY <2>1, <2>2, <2>3
<1>12. \A v \in Vertex \ better : Linked(x, v) /\ v # avoid => dist[v] <= reach(v)
  <2> SUFFICES ASSUME NEW v \in Vertex \ better, Linked(x, v), v # avoid
               PROVE  dist[v] <= reach(v)
    OBVIOUS
  <2>1. ~(reach(v) < dist[v])
    BY <1>10 DEF Improved
  <2>2. PICK hop \in Nat : hop = length[<<x, v>>]
    BY <1>2, LaneHasLength DEF Searched
  <2> QED BY <1>5, <2>1, <2>2
<1>13. /\ dist' = [v \in Vertex |-> IF v \in better THEN reach(v) ELSE dist[v]]
       /\ prev' = [v \in Vertex |-> IF v \in better THEN x ELSE prev[v]]
       /\ pq' = (pq \ {Top}) \cup {<<reach(v), v>> : v \in better}
  BY <1>1, <1>6, <1>10 DEF Relax
<1> HIDE DEF reach
<1>14. /\ \A v \in better : dist'[v] = reach(v) /\ prev'[v] = x
       /\ \A v \in Vertex \ better : dist'[v] = dist[v] /\ prev'[v] = prev[v]
       /\ \A v \in Vertex : dist'[v] <= dist[v] /\ dist'[v] \in Nat
  BY <1>5, <1>11, <1>13
<1>15. TypeOK'
  <2>1. dist' \in [Vertex -> 0..Infinite]
    <3>1. \A v \in Vertex : dist'[v] \in 0..Infinite
      BY <1>5, <1>14, InfiniteIsNatural
    <3> QED BY <1>13, <3>1
  <2>2. prev' \in [Vertex -> Vertex \cup {NoNode}]
    BY <1>2, <1>13 DEF Searched, TypeOK
  <2>3. pq' \subseteq Nat \X Vertex
    <3>1. pq \subseteq Nat \X Vertex
      BY <1>2 DEF Searched, TypeOK
    <3>2. \A v \in better : <<reach(v), v>> \in Nat \X Vertex
      BY <1>11
    <3> QED BY <1>13, <3>1, <3>2
  <2> QED BY <2>1, <2>2, <2>3 DEF TypeOK
<1>16. x \notin better /\ \A u \in Settled : u \notin better
  <2> SUFFICES ASSUME NEW v \in better, v = x \/ v \in Settled PROVE FALSE
    OBVIOUS
  <2>1. dist[v] <= dist[x]
    BY <1>5, <1>9
  <2> QED BY <1>5, <1>11, <2>1
<1>17. Settled' = Settled \cup {x}
  <2>1. ASSUME NEW v \in Vertex
        PROVE  (dist'[v] # Infinite /\ <<dist'[v], v>> \notin pq') <=> v \in Settled \cup {x}
    <3>1. CASE v \in better
      <4>1. <<dist'[v], v>> \in pq'
        BY <1>13, <1>14, <3>1
      <4> QED BY <1>16, <3>1, <4>1
    <3>2. CASE v \notin better
      <4>1. dist'[v] = dist[v]
        BY <1>14, <3>2
      <4>2. <<dist[v], v>> \in pq' <=> <<dist[v], v>> \in pq /\ v # x
        <5>1. \A o \in better : <<reach(o), o>> # <<dist[v], v>>
          BY <3>2
        <5>2. <<dist[v], v>> = Top <=> v = x
          BY <1>7
        <5> QED BY <1>13, <5>1, <5>2
      <4>3. v = x => dist[v] # Infinite
        BY <1>5, <1>7, InfiniteIsNatural
      <4> QED BY <4>1, <4>2, <4>3 DEF Settled
    <3> QED BY <3>1, <3>2
  <2> QED BY <1>9, <2>1 DEF Settled
<1>18. Frontier'
  <2>1. ASSUME NEW e \in pq'
        PROVE  /\ dist'[e[2]] <= e[1] /\ e[1] < Infinite
               /\ \A u \in Settled \cup {x} : dist'[u] <= e[1]
    <3>1. CASE e \in pq \ {Top}
      <4>1. e[1] \in Nat /\ e[2] \in Vertex /\ dist[e[2]] <= e[1] /\ e[1] < Infinite
            /\ dist[x] <= e[1] /\ \A u \in Settled : dist[u] <= e[1]
        BY <1>2, <1>8, <3>1 DEF Frontier, Searched, TypeOK
      <4>2. \A u \in Settled \cup {x} : u \in Vertex /\ dist'[u] = dist[u]
        BY <1>9, <1>14, <1>16
      <4>3. dist'[e[2]] <= e[1]
        BY <1>5, <1>14, <4>1
      <4> QED BY <4>1, <4>2, <4>3
    <3>2. CASE e \notin pq \ {Top}
      <4>1. PICK v \in better : e = <<reach(v), v>>
        BY <1>13, <3>2
      <4>2. dist'[v] = e[1] /\ e[2] = v /\ e[1] \in Nat /\ dist[x] < e[1] /\ e[1] < Infinite
        BY <1>5, <1>11, <1>14, <4>1, InfiniteIsNatural
      <4>3. ASSUME NEW u \in Settled \cup {x} PROVE dist'[u] <= e[1]
        <5>1. u \in Vertex /\ dist'[u] = dist[u] /\ dist[u] <= dist[x]
          BY <1>5, <1>9, <1>14, <1>16
        <5> QED BY <1>5, <4>2, <5>1
      <4>4. dist'[e[2]] <= e[1]
        BY <4>2
      <4> QED BY <4>2, <4>3, <4>4
    <3> QED BY <3>1, <3>2
  <2>2. ASSUME NEW u \in Settled \cup {x}, NEW v \in Vertex, Linked(u, v), v # avoid
        PROVE  dist'[v] <= dist'[u] + length[<<u, v>>]
    <3>1. PICK hop \in Nat : hop = length[<<u, v>>]
      BY <1>2, <2>2, LaneHasLength DEF Searched
    <3>2. u \in Vertex /\ dist'[u] = dist[u] /\ dist'[v] <= dist[v]
      BY <1>9, <1>14, <1>16
    <3>3. CASE u = x /\ v \in better
      <4>1. dist'[v] = dist[x] + hop /\ dist'[v] \in Nat
        BY <1>14, <3>1, <3>3 DEF reach
      <4> QED BY <3>1, <3>2, <3>3, <4>1
    <3>4. CASE ~(u = x /\ v \in better)
      <4>1. dist[v] <= dist[u] + hop
        BY <1>2, <1>12, <2>2, <3>1, <3>4 DEF Frontier, reach
      <4> QED BY <1>5, <1>14, <3>1, <3>2, <4>1
    <3> QED BY <3>3, <3>4
  <2>3. to \notin Settled \cup {x}
    BY <1>2, <1>7 DEF Frontier
  <2> QED BY <1>1, <1>3, <1>4, <1>17, <2>1, <2>2, <2>3 DEF Frontier
<1>19. Tree'
  <2>1. dist'[from] = 0 /\ prev'[from] = NoNode
    <3>1. dist[from] = 0 /\ prev[from] = NoNode /\ from \in Vertex
      BY <1>2 DEF Searched, Tree
    <3>2. from \notin better
      BY <1>5, <1>11, <3>1
    <3> QED BY <1>14, <3>1, <3>2
  <2>2. ASSUME NEW v \in Vertex \ {from}
        PROVE  IF dist'[v] = Infinite THEN prev'[v] = NoNode
               ELSE /\ prev'[v] \in Settled \cup {x} /\ Linked(prev'[v], v) /\ v # avoid
                    /\ dist'[v] = dist'[prev'[v]] + length[<<prev'[v], v>>]
    <3>1. CASE v \in better
      <4>1. dist'[v] = reach(v) /\ prev'[v] = x /\ Linked(x, v) /\ v # avoid
        BY <1>11, <1>14, <3>1
      <4>2. dist'[v] # Infinite
        BY <1>5, <1>11, <3>1, <4>1, InfiniteIsNatural
      <4>3. dist'[x] = dist[x]
        BY <1>14, <1>16
      <4> QED BY <4>1, <4>2, <4>3 DEF reach
    <3>2. CASE v \notin better
      <4>1. dist'[v] = dist[v] /\ prev'[v] = prev[v]
        BY <1>14, <3>2
      <4>2. IF dist[v] = Infinite THEN prev[v] = NoNode
            ELSE /\ prev[v] \in Settled /\ Linked(prev[v], v) /\ v # avoid
                 /\ dist[v] = dist[prev[v]] + length[<<prev[v], v>>]
        BY <1>2 DEF Searched, Tree
      <4>3. \A u \in Settled : dist'[u] = dist[u]
        BY <1>9, <1>14, <1>16
      <4> QED BY <4>1, <4>2, <4>3
    <3> QED BY <3>1, <3>2
  <2> QED BY <1>1, <1>3, <1>4, <1>17, <2>1, <2>2 DEF Tree
<1> QED BY <1>1, <1>2, <1>3, <1>15, <1>18, <1>19 DEF SearchInv

\* No step of the loop breaks it.
LEMMA SearchStep ==
    ASSUME SearchInv, [Next]_vars
    PROVE  SearchInv'
BY SkipStaleKeeps, ExpandKeeps, ReturnKeeps, SearchStutters DEF Next

-----------------------------------------------------------------------------
(* The theorems                                                            *)

\* What the queue is ahead of is settled, and the reached vertices are a tree
\* of lanes (the loop of Navgraph::dijkstra).
THEOREM SearchInvariantHolds ==
    Spec => []SearchInv
<1>1. Init => SearchInv
  BY SearchInit
<1>2. SearchInv /\ [Next]_vars => SearchInv'
  BY SearchStep
<1> QED BY <1>1, <1>2, PTL DEF Spec

\* On every graph, what the loop returns is one of the shortest routes that keep
\* off the avoided vertex, and none exactly where there is none: the shortest
\* routes of Navgraph, by which the fleet node and the auction are modelled, are
\* those of Navgraph::dijkstra.
THEOREM ReturnsShortest ==
    Spec => []FindsShortest
<1>1. SearchInv => FindsShortest
  BY EndedIsShortest
<1> QED BY <1>1, SearchInvariantHolds, PTL

=============================================================================
