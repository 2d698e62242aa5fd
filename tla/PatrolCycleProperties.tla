------------------------ MODULE PatrolCycleProperties ------------------------
(***************************************************************************)
(* What the fleet node counts on when it makes laps of the patrol route.   *)
(***************************************************************************)
EXTENDS PatrolCycle

\* Vertices that can be reached from p without entering `closed`.
ReachIn(p, closed) ==
    LET grow[k \in Nat] ==
          IF k = 0 THEN {p}
          ELSE LET near == grow[k - 1]
               IN  near \cup (UNION {neighbors(q) : q \in near} \ closed)
    IN  grow[Cardinality(vertices)]

Quarter == ReachIn(Start, {})

\* Without p its neighbours no longer reach each other.
IsCut(p) ==
    \E q \in neighbors(p) : ~(neighbors(p) \subseteq ReachIn(q, {p}))

\* Two streets that cross between vertices: the two diagonals of a square.
Crossing ==
    \E s, t \in streets :
        /\ s \cap t = {}
        /\ \E p, q \in s : \E a, b \in t :
              /\ p # q /\ a # b
              /\ p[1] = a[1] /\ q[1] = b[1] /\ p[2] = b[2] /\ q[2] = a[2]

\* Nothing of the connected part lies further out than p in some direction.
IsExtreme(p) ==
    \/ \A q \in Quarter : q[1] <= p[1]
    \/ \A q \in Quarter : q[1] >= p[1]
    \/ \A q \in Quarter : q[2] <= p[2]
    \/ \A q \in Quarter : q[2] >= p[2]

\* make_patrol_path drives from the last vertex of the route to the first, so
\* there is a lane between them.  The walk also ends, wherever it is, when it
\* runs out of steps.  It never does while there are at most 2n + 2 streets on n
\* vertices; with one more, and streets that cross, it can.
RouteCloses ==
    outcome = "route" => {Last(cycle), Start} \in streets

\* Unless the graph falls apart at the start, the walk finds a route and the
\* route is the outline: it leads past everything that lies furthest out.
OutlineIsWalked ==
    /\ outcome # "walking" /\ Cardinality(Quarter) >= 3
    /\ ~Crossing /\ ~IsCut(Start)
    => /\ outcome = "route"
       /\ \A p \in Quarter : IsExtreme(p) => p \in Range(cycle)

\* patrol_succ takes the first occurrence of a vertex for the only one.  It is,
\* unless the graph falls apart at some vertex.
NoVertexTwice ==
    /\ outcome = "route" /\ ~Crossing
    /\ \A p \in Quarter : ~IsCut(p)
    => IsInjective(cycle)

\* How far c is from the way back to a, clockwise, at b.
TurnFrom(a, b, c) ==
    IF Heading(b, c) = Heading(b, a) THEN 8 ELSE (Heading(b, a) - Heading(b, c)) % 8

\* The walk goes on from a and b to c.
GoesOn(a, b, c) ==
    /\ {b, c} \in streets
    /\ IF c = a THEN neighbors(b) \subseteq {a}
       ELSE \A o \in neighbors(b) \ {a} : TurnFrom(a, b, c) <= TurnFrom(a, b, o)

\* What makes RouteCloses inductive: the walk follows streets, turns as it
\* should, has not been at the start since, and has taken no street twice in
\* the same direction.
WalkInv ==
    /\ vertices \subseteq Point
    /\ streets \subseteq {s \in Street : s \subseteq vertices}
    /\ cycle \in Seq(Point \cup {Start}) /\ cycle # <<>> /\ cycle[1] = Start
    /\ \A i \in 1..Step : {cycle[i], cycle[i + 1]} \in streets /\ cycle[i + 1] # Start
    /\ \A i \in 2..Step : GoesOn(cycle[i - 1], cycle[i], cycle[i + 1])
    /\ \A i, j \in 1..Step : cycle[i] = cycle[j] /\ cycle[i + 1] = cycle[j + 1] => i = j
    /\ outcome = "route" => Step >= MaxSteps \/ {cur, Start} \in streets

=============================================================================
