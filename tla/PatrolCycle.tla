----------------------------- MODULE PatrolCycle -----------------------------
(***************************************************************************)
(* The automatic patrol route (patrol_cycle.cpp): starting in the upper    *)
(* left corner the walk leaves every vertex by the lane that comes first,  *)
(* clockwise, after the one it came by, until it is back at the start.     *)
(*                                                                         *)
(* Vertices are points of a grid and lanes join neighbours in the eight    *)
(* directions of the compass, so that angles are multiples of an eighth of *)
(* a turn.  Every lane is there in both directions, as in the map files.   *)
(***************************************************************************)
EXTENDS Integers, Sequences, FiniteSets, SequencesExt

CONSTANTS
    Point,      \* grid points that may carry a vertex, pairs <<x, y>>
    Street      \* pairs of neighbouring points that may be joined, as sets

ASSUME PointAssumption == Point \subseteq Int \X Int /\ IsFiniteSet(Point)
ASSUME StreetAssumption ==
    \A s \in Street : \E p, q \in Point :
        /\ p # q /\ s = {p, q}
        /\ \A i \in 1..2 : p[i] - q[i] \in -1..1

VARIABLES
    vertices,   \* vertices_ of the loaded graph
    streets,    \* adj_, by unordered pairs
    cycle,      \* the vertices walked, the current one last
    outcome     \* "walking", or what is returned: "route" (cycle), "none" ({})

walk == <<vertices, streets, cycle, outcome>>

-----------------------------------------------------------------------------

neighbors(p) == {q \in vertices : {p, q} \in streets}

\* Topmost, then leftmost.
Start == CHOOSE p \in vertices :
            \A q \in vertices : p[2] > q[2] \/ (p[2] = q[2] /\ p[1] <= q[1])

\* Directions in eighths of a turn, counterclockwise from east (atan2).
Heading(p, q) ==
    LET east == q[1] - p[1]
        north == q[2] - p[2]
    IN  CASE north = 0 -> IF east > 0 THEN 0 ELSE 4
          [] north > 0 -> 2 - east
          [] north < 0 -> 6 + east

West == 4

cur == Last(cycle)

\* No vertex before the first: -1 in the source.
previous == IF Len(cycle) = 1 THEN <<>> ELSE cycle[Len(cycle) - 1]

\* Variant: looks ahead where it should look back.
back_angle_ahead == IF Len(cycle) = 1 THEN West ELSE Heading(previous, cur)

\* The direction the walk came from; the first step is taken as if from the west.
back_angle == IF Len(cycle) = 1 THEN West ELSE Heading(cur, previous)

\* Variant: the angle is not brought back into one turn.
TurnRaw(q) == IF Heading(cur, q) = back_angle THEN 8 ELSE back_angle - Heading(cur, q)

\* How far the way to q is from the way back, clockwise; the way back comes last.
Turn(q) == IF Heading(cur, q) = back_angle THEN 8 ELSE (back_angle - Heading(cur, q)) % 8

\* The next vertex; back to the previous one only out of a dead end.
Best ==
    LET ahead == neighbors(cur) \ {previous}
    IN  IF ahead = {} THEN neighbors(cur)
        ELSE {q \in ahead : \A o \in ahead : Turn(q) <= Turn(o)}

\* Variant: one step per vertex.
MaxStepsShort == Cardinality(vertices)

MaxSteps == 4 * Cardinality(vertices) + 4

Step == Len(cycle) - 1

-----------------------------------------------------------------------------

\* Any graph; the walk is not begun on fewer than three vertices.
WalkInit ==
    /\ vertices \in SUBSET Point \ {{}}
    /\ streets \in SUBSET {s \in Street : s \subseteq vertices}
    /\ cycle = <<Start>>
    /\ outcome = IF Cardinality(vertices) < 3 THEN "none" ELSE "walking"

Walk ==
    /\ outcome = "walking" /\ Step < MaxSteps
    /\ \E q \in Best : q # Start /\ cycle' = Append(cycle, q)
    /\ UNCHANGED <<vertices, streets, outcome>>

\* No lane leads away from the start.
Isolated ==
    /\ outcome = "walking" /\ Step < MaxSteps
    /\ Best = {}
    /\ outcome' = "none"
    /\ UNCHANGED <<vertices, streets, cycle>>

\* Back at the start, or out of steps: the code does not tell which.
Stop ==
    /\ outcome = "walking"
    /\ Step < MaxSteps => Start \in Best
    /\ outcome' = IF Len(cycle) < 3 THEN "none" ELSE "route"
    /\ UNCHANGED <<vertices, streets, cycle>>

WalkNext == Walk \/ Isolated \/ Stop

WalkSpec == WalkInit /\ [][WalkNext]_walk

=============================================================================
