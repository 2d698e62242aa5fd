------------------------------- MODULE MCFleet -------------------------------
(***************************************************************************)
(* Small instances of the fleet node for TLC.                              *)
(***************************************************************************)
EXTENDS FleetProperties, TLC

\* Undirected lanes, both directions listed as in the navgraph file.
BothWays(edges) == edges \cup {<<e[2], e[1]>> : e \in edges}

UnitLength == [e \in Node \X Node |-> IF e[1] = e[2] THEN 0 ELSE 1]

\* A ring of four vertices.
RingNode == 0..3
RingLane == BothWays({<<0, 1>>, <<1, 2>>, <<2, 3>>, <<3, 0>>})
RingRoute == <<0, 1, 2, 3>>

\* A triangle, the smallest graph with a way around every vertex.
TriNode == 0..2
TriLane == BothWays({<<0, 1>>, <<1, 2>>, <<2, 0>>})
TriRoute == <<0, 1, 2>>

\* The ring with a way across: two triangles, room for one more than a circle.
KiteLane == RingLane \cup BothWays({<<0, 2>>})

TwoApart == (1 :> At(0)) @@ (2 :> At(2))
TwoAdjacent == (1 :> At(0)) @@ (2 :> At(1))
ThreeInLine == TwoAdjacent @@ (3 :> At(2))
LowThird == [r \in Robot |-> IF r = 3 THEN 50 ELSE 100]
FullBattery == [r \in Robot |-> 100]
OriginV0 == <<0, 0>>

=============================================================================
