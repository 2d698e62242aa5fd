------------------------------ MODULE Dijkstra ------------------------------
(***************************************************************************)
(* The loop of Navgraph::dijkstra (navgraph.cpp) on any graph.             *)
(* Navgraph says what the function returns; this module says how.          *)
(***************************************************************************)
EXTENDS Integers, FiniteSets, SequencesExt

CONSTANTS
    Vertex,     \* vertex indices
    Link,       \* pairs of vertices that a lane may lead from and to
    Weight,     \* lengths a lane may have, positive
    Query       \* triples <<from, to, avoid>>

\* numeric_limits<double>::max(): longer than any route.
Infinite == 1000000

NoNode == -1

\* adj_ joins vertices of the graph; their distances are positive and do not add
\* up to the largest number there is.
ASSUME SearchAssumption ==
    /\ Vertex \subseteq Nat /\ IsFiniteSet(Vertex)
    /\ Link \subseteq Vertex \X Vertex
    /\ Weight \subseteq Nat \ {0}
    /\ \E longest \in 0..Infinite :
          /\ \A w \in Weight : w <= longest
          /\ longest * Cardinality(Vertex) < Infinite
    /\ \A q \in Query : q[3] \in Vertex \cup {NoNode}

VARIABLES
    length,     \* of the lane from the one to the other; 0: no lane
    query,      \* the parameters
    dist,
    prev,
    pq,         \* pairs <<distance, vertex>>, the least on top
    path        \* what is returned, or Searching

vars == <<length, query, dist, prev, pq, path>>

Searching == <<-1>>

from == query[1]
to == query[2]
avoid == query[3]

Linked(u, v) == <<u, v>> \in Link /\ length[<<u, v>>] # 0

-----------------------------------------------------------------------------

\* Variant: a priority_queue without std::greater has the largest on top.
TopLargest == CHOOSE e \in pq : \A o \in pq : e[1] > o[1] \/ (e[1] = o[1] /\ e[2] >= o[2])

Top == CHOOSE e \in pq : \A o \in pq : e[1] < o[1] \/ (e[1] = o[1] /\ e[2] <= o[2])

\* The neighbours of u to which the way over u is shorter than any before.
Improved(u) ==
    {v \in Vertex : Linked(u, v) /\ v # avoid /\ dist[u] + length[<<u, v>>] < dist[v]}

Relax(u) ==
    LET better == Improved(u)
        reach(v) == dist[u] + length[<<u, v>>]
    IN  /\ dist' = [v \in Vertex |-> IF v \in better THEN reach(v) ELSE dist[v]]
        /\ prev' = [v \in Vertex |-> IF v \in better THEN u ELSE prev[v]]
        /\ pq' = (pq \ {Top}) \cup {<<reach(v), v>> : v \in better}

\* An entry for which a shorter one was pushed later.
Stale == Top[1] > dist[Top[2]]

SkipStale ==
    /\ path = Searching /\ pq # {}
    /\ Stale
    /\ pq' = pq \ {Top}
    /\ UNCHANGED <<length, query, dist, prev, path>>

Expand ==
    /\ path = Searching /\ pq # {}
    /\ ~Stale /\ Top[2] # to
    /\ Relax(Top[2])
    /\ UNCHANGED <<length, query, path>>

\* The vertices on the way to v, from the first.
Trace ==
    LET way[v \in Vertex] == IF prev[v] = NoNode THEN <<v>> ELSE Append(way[prev[v]], v)
    IN  way[to]

Return ==
    /\ path = Searching
    /\ pq # {} => ~Stale /\ Top[2] = to
    /\ path' = IF dist[to] = Infinite THEN <<>> ELSE Trace
    /\ UNCHANGED <<length, query, dist, prev, pq>>

-----------------------------------------------------------------------------

\* A vertex that does not exist ends the search before it begins.
Init ==
    /\ length \in [Link -> Weight \cup {0}]
    /\ query \in Query
    /\ dist = [v \in Vertex |-> IF v = from THEN 0 ELSE Infinite]
    /\ prev = [v \in Vertex |-> NoNode]
    /\ pq = {<<0, from>>}
    /\ path = IF {from, to} \subseteq Vertex THEN Searching ELSE <<>>

Next == SkipStale \/ Expand \/ Return

Spec == Init /\ [][Next]_vars

-----------------------------------------------------------------------------

\* The function as FleetNode and Auction use it.
Graph == INSTANCE Navgraph WITH
    Node <- Vertex,
    Lane <- {lane \in Vertex \X Vertex : Linked(lane[1], lane[2])},
    Length <- [lane \in Vertex \X Vertex |->
                  IF Linked(lane[1], lane[2]) THEN length[<<lane[1], lane[2]>>] ELSE 0]

\* The loop returns one of the shortest routes that keep off the avoided
\* vertex, and none exactly where there is none: Navgraph is right about it.
FindsShortest ==
    path # Searching =>
        LET shortest == Graph!dijkstra(from, to, avoid)
        IN  IF shortest = {} THEN path = <<>> ELSE path \in shortest

-----------------------------------------------------------------------------
(* The inductive invariant behind it                                       *)

\* Reached vertices are settled when the last way found to them was followed.
Settled == {v \in Vertex : dist[v] # Infinite /\ <<dist[v], v>> \notin pq}

TypeOK ==
    /\ dist \in [Vertex -> 0..Infinite] /\ prev \in [Vertex -> Vertex \cup {NoNode}]
    /\ pq \subseteq Nat \X Vertex

\* The queue is ahead of what is settled, and whatever is linked to that is
\* reached over it at most as far away as it seems.
Frontier ==
    /\ \A e \in pq :
          /\ dist[e[2]] <= e[1] /\ e[1] < Infinite
          /\ \A u \in Settled : dist[u] <= e[1]
    /\ \A u \in Settled, v \in Vertex :
          Linked(u, v) /\ v # avoid => dist[v] <= dist[u] + length[<<u, v>>]
    /\ to \notin Settled

\* The vertices reached are a tree of lanes with its leaves in the queue.
Tree ==
    /\ dist[from] = 0 /\ prev[from] = NoNode
    /\ \A v \in Vertex \ {from} :
          IF dist[v] = Infinite THEN prev[v] = NoNode
          ELSE /\ prev[v] \in Settled /\ Linked(prev[v], v) /\ v # avoid
               /\ dist[v] = dist[prev[v]] + length[<<prev[v], v>>]

\* How the search ends.
Ended ==
    /\ pq # {} => ~Stale /\ Top[2] = to
    /\ path = IF dist[to] = Infinite THEN <<>> ELSE Trace

SearchInv ==
    /\ length \in [Link -> Weight \cup {0}] /\ query \in Query
    /\ IF {from, to} \subseteq Vertex
       THEN /\ TypeOK /\ Frontier /\ Tree
            /\ path # Searching => Ended
       ELSE path = <<>>

=============================================================================
