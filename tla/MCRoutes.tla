------------------------------ MODULE MCRoutes ------------------------------
(***************************************************************************)
(* Instances for TLC of the two computations on a loaded graph: the walk   *)
(* that makes the patrol route and the search for a shortest route.  A     *)
(* behaviour is one walk or one search.                                    *)
(***************************************************************************)
EXTENDS PatrolCycleProperties, Dijkstra

\* Two triangles on the way to the last vertex, two sides led both ways with a
\* length for each way, of lengths that any two make at least the third, and
\* with sums that tie and that do not.  It takes five vertices for an entry that
\* is stale when it comes to the top.
FiveVertices == 0..4

EightLinks == {<<0, 1>>, <<0, 2>>, <<0, 3>>, <<1, 3>>, <<2, 3>>, <<3, 2>>, <<3, 1>>, <<3, 4>>}

TwoWeights == {2, 4}

\* To the far end round each vertex, to a nearer one, to the first itself, to
\* one that does not exist.
TenQueries == {<<0, 4, a>> : a \in -1..4} \cup {<<0, 3, -1>>, <<0, 3, 1>>, <<0, 0, 1>>, <<0, 5, -1>>}

Upright == {{<<x, y>>, <<x + 1, y>>} : x \in 1..2, y \in 1..3}
           \cup {{<<x, y>>, <<x, y + 1>>} : x \in 1..3, y \in 1..2}

\* The diagonals of one square, which cross.
Diagonals == {{<<1, 1>>, <<2, 2>>}, {<<1, 2>>, <<2, 1>>}}

NinePoints == (1..3) \X (1..3)
NineStreets == Upright \cup Diagonals

\* The search for a vertex that does not exist, over before it begins.
NoSearch ==
    /\ length = [l \in Link |-> 0] /\ query = <<0, 5, -1>>
    /\ Init

NoWalk == vertices = {<<1, 1>>} /\ streets = {} /\ cycle = <<Start>> /\ outcome = "none"

RoutesInit == (NoSearch /\ WalkInit) \/ (NoWalk /\ Init)

RoutesNext ==
    \/ WalkNext /\ UNCHANGED vars
    \/ Next /\ UNCHANGED walk

RoutesSpec == RoutesInit /\ [][RoutesNext]_<<walk, vars>>

\* A graph with many crossing lanes, 51 on 24 vertices, by direction: the point
\* <<x, y>> a street comes from, as 10 * x + y.
Streets(east, north, tails) ==
    {{<<t \div 10, t % 10>>, <<(t \div 10) + east, (t % 10) + north>>} : t \in tails}

TangleStreet ==
    Streets(1, 0, {1, 2, 4, 10, 12, 14, 20, 21, 23, 30, 31, 33})
    \cup Streets(0, 1, {13, 20, 22, 23, 31, 32, 33, 42, 43})
    \cup Streets(1, 1, {1, 2, 3, 10, 11, 12, 13, 20, 21, 22, 23, 30, 31, 32, 33})
    \cup Streets(1, -1, {1, 2, 3, 11, 12, 13, 14, 21, 22, 23, 24, 31, 32, 33, 34})

TanglePoint == UNION TangleStreet

TangleInit ==
    /\ vertices = Point /\ streets = Street
    /\ cycle = <<Start>> /\ outcome = "walking"
    /\ NoSearch

TangleSpec == TangleInit /\ [][RoutesNext]_<<walk, vars>>

=============================================================================
