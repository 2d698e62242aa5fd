------------------------- MODULE ReservationDeadlock -------------------------
(***************************************************************************)
(* The traffic plugin reservation_deadlock.cpp: vertex reservations and a  *)
(* wait-for graph.  Its three maps are one record `tr`:                    *)
(*   owner[n]    node_owner_: the robot that holds vertex n, or NoRobot    *)
(*   waitfor[r]  waitfor_: the robot r waits for, or NoRobot               *)
(*   prio[r]     prio_: the priority r gave last, 0 before the first       *)
(* Operations are pure operators on that record; request_move answers      *)
(* with the verdict and the record it leaves.                              *)
(***************************************************************************)
EXTENDS Navgraph

CONSTANT Robot  \* positive numbers standing for the names, in name order

ASSUME RobotAssumption == Robot \subseteq Nat \ {0} /\ IsFiniteSet(Robot)

NoRobot == 0

NoTraffic ==
    [owner |-> [n \in Node |-> NoRobot],
     waitfor |-> [r \in Robot |-> NoRobot],
     prio |-> [r \in Robot |-> 0]]

Traffic ==
    [owner : [Node -> Robot \cup {NoRobot}],
     waitfor : [Robot -> Robot \cup {NoRobot}],
     prio : [Robot -> Int]]

OwnedBy(tr, r) == {n \in Node : tr.owner[n] = r}

\* The robot reached from r after k edges of the wait-for graph.  A circle is
\* no longer than there are robots.
Follow(waitfor, r) ==
    LET f[k \in 0..Cardinality(Robot)] ==
          IF k = 0 THEN r
          ELSE IF f[k - 1] = NoRobot THEN NoRobot ELSE waitfor[f[k - 1]]
    IN  f

\* Variant: no wait is ever found to be circular.
find_cycle_never(waitfor, r) == FALSE

\* find_cycle: following the edges from r leads back to r.
find_cycle(waitfor, r) ==
    \E k \in 1..Cardinality(Robot) : Follow(waitfor, r)[k] = r

CycleMembers(waitfor, r) ==
    {Follow(waitfor, r)[k] : k \in 0..Cardinality(Robot)}

\* The member that must yield: lowest priority, the larger name on a tie.
lowest_priority(prio, members) ==
    CHOOSE v \in members :
        \A r \in members : \/ prio[v] < prio[r]
                           \/ prio[v] = prio[r] /\ v >= r

\* Variant: a higher priority takes the vertex over.
FreeOrWeaker(tr, r, n) ==
    tr.owner[n] \in {NoRobot, r} \/ tr.prio[tr.owner[n]] < tr.prio[r]

\* r may take n when nobody else holds it.
Free(tr, r, n) == tr.owner[n] \in {NoRobot, r}

Reserved(tr, r, n) ==
    [tr EXCEPT !.owner[n] = r, !.waitfor[r] = NoRobot]

\* Variant: an edge that is there already is not replaced.
WaitingFirst(tr, r, n) ==
    [tr EXCEPT !.waitfor[r] = IF @ = NoRobot THEN tr.owner[n] ELSE @]

\* r is refused n and waits for its holder.
Waiting(tr, r, n) == [tr EXCEPT !.waitfor[r] = tr.owner[n]]

\* Variant: names do not break ties.
MustYieldTied(tr, r) ==
    /\ find_cycle(tr.waitfor, r)
    /\ \A s \in CycleMembers(tr.waitfor, r) : tr.prio[r] <= tr.prio[s]

MustYield(tr, r) ==
    /\ find_cycle(tr.waitfor, r)
    /\ lowest_priority(tr.prio, CycleMembers(tr.waitfor, r)) = r

request_move(traffic, r, from, to, priority) ==
    LET tr == [traffic EXCEPT !.prio[r] = priority]
        waiting == Waiting(tr, r, to)
        Answer(verdict, left) == [verdict |-> verdict, traffic |-> left]
    IN  IF Free(tr, r, to) THEN Answer("GRANT", Reserved(tr, r, to))
        ELSE IF from = to THEN Answer("WAIT", tr)
        ELSE IF MustYield(waiting, r)
             THEN Answer("DEADLOCK", [waiting EXCEPT !.waitfor[r] = NoRobot])
             ELSE Answer("WAIT", waiting)

\* Variants of release: the owner is not compared; the wait-for edge stays;
\* the vertex is given to the wrong sentinel.
ReleaseAllUnchecked(tr, r, S) ==
    [tr EXCEPT !.owner = [n \in Node |-> IF n \in S THEN NoRobot ELSE tr.owner[n]],
               !.waitfor[r] = NoRobot]

ReleaseAllKeepsEdge(tr, r, S) ==
    [tr EXCEPT !.owner = [n \in Node |-> IF n \in S /\ tr.owner[n] = r
                                         THEN NoRobot ELSE tr.owner[n]]]

ReleaseAllNoNode(tr, r, S) ==
    [tr EXCEPT !.owner = [n \in Node |-> IF n \in S /\ tr.owner[n] = r
                                         THEN NoNode ELSE tr.owner[n]]]

\* release and release_node for every vertex of S, by robot r.  Each call
\* also drops r's wait-for edge; no call is made when S is empty.
ReleaseAll(tr, r, S) ==
    IF S = {} THEN tr
    ELSE [tr EXCEPT
            !.owner = [n \in Node |-> IF n \in S /\ tr.owner[n] = r
                                      THEN NoRobot ELSE tr.owner[n]],
            !.waitfor[r] = NoRobot]

=============================================================================
