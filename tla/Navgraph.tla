------------------------------ MODULE Navgraph ------------------------------
(***************************************************************************)
(* The navigation graph (navgraph.hpp, navgraph.cpp): vertices, directed   *)
(* lanes, shortest routes that may have to avoid one vertex, and the       *)
(* places a robot can be seen at.                                          *)
(*                                                                         *)
(* Coordinates are abstracted to what the fleet node tells apart.  A       *)
(* position <<n, n>> is within kArrive of vertex n; <<n, m>> is on the way *)
(* between n and m, not within kArrive of either, and nearest to n.        *)
(***************************************************************************)
EXTENDS Integers, Sequences, FiniteSets, FiniteSetsExt

CONSTANTS
    Node,       \* vertex indices of the loaded graph
    Lane,       \* directed lanes, the pairs listed in the navgraph file
    Length      \* Euclidean distance of two vertices, in whole units

ASSUME NodeAssumption == Node \subseteq Nat /\ IsFiniteSet(Node)
ASSUME LaneAssumption == Lane \subseteq Node \X Node
ASSUME LengthAssumption == Length \in [Node \X Node -> Nat]

\* The vertex index -1 of the source: no vertex.
NoNode == -1

Position == Node \X Node

At(n) == <<n, n>>

NearestNode(p) == p[1]

\* Vertex sequences that follow lanes and visit no vertex twice, k vertices
\* long.  Lengths are positive, so a shortest route is one of them.
LaneWalks[k \in 0..Cardinality(Node)] ==
    IF k <= 1 THEN {<<n>> : n \in Node}
    ELSE UNION {{Append(w, lane[2]) :
                    lane \in {l \in Lane : /\ l[1] = w[k - 1]
                                           /\ \A i \in 1..(k - 1) : w[i] # l[2]}} :
                w \in LaneWalks[k - 1]}

Walks == UNION {LaneWalks[k] : k \in 1..Cardinality(Node)}

path_cost(path) ==
    MapThenSumSet(LAMBDA i : Length[<<path[i], path[i + 1]>>], 1..(Len(path) - 1))

\* A route leaves `from`, ends in `to`, follows lanes and never enters `avoid`.
IsRoute(path, from, to, avoid) ==
    /\ path \in Seq(Node)
    /\ Len(path) >= 1
    /\ path[1] = from
    /\ path[Len(path)] = to
    /\ \A i \in 1..(Len(path) - 1) :
          <<path[i], path[i + 1]>> \in Lane /\ path[i + 1] # avoid

Routes(from, to, avoid) == {w \in Walks : IsRoute(w, from, to, avoid)}

ShortestOf(routes) == {w \in routes : \A v \in routes : path_cost(w) <= path_cost(v)}

\* A constant table: TLC works it out once.
ShortestRoutes ==
    [from \in Node |-> [to \in Node |-> [avoid \in Node \cup {NoNode} |->
        ShortestOf(Routes(from, to, avoid))]]]

\* The routes dijkstra(from, to, avoid) may return: the shortest ones, any of
\* them when several are equally short; the empty set stands for the empty
\* vector (unreachable, or `to` is no vertex of the graph).
dijkstra(from, to, avoid) ==
    IF from \in Node /\ to \in Node THEN ShortestRoutes[from][to][avoid] ELSE {}

Reachable(from, to) == dijkstra(from, to, NoNode) # {}

\* Length of the shortest route, the same for all of them.
Distance(from, to) == path_cost(CHOOSE w \in dijkstra(from, to, NoNode) : TRUE)

=============================================================================
