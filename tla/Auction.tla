------------------------------- MODULE Auction -------------------------------
(***************************************************************************)
(* The dispatcher plugin auction.cpp: among the bidding robots that can    *)
(* reach the goal and finish it above the battery reserve, the one with    *)
(* the shortest route wins.                                                *)
(***************************************************************************)
EXTENDS Navgraph

CONSTANTS
    DrainPerMeter,      \* battery_drain_per_m, per unit of Length
    DrainPerAct,        \* battery_drain_per_act
    Reserve             \* battery_reserve_pct

ASSUME EnergyAssumption == /\ DrainPerMeter \in Nat
                           /\ DrainPerAct \in Nat
                           /\ Reserve \in Nat

\* Battery a robot needs to drive `dist`, act and keep the reserve.
Need(dist, arm_actions) ==
    dist * DrainPerMeter + arm_actions * DrainPerAct + Reserve

CanFinish(start, goal, arm_actions, level) ==
    /\ Reachable(start, goal)
    /\ level >= Need(Distance(start, goal), arm_actions)

\* assign: `start` and `level` give every bidder's nearest vertex and battery.
\* Bidders are visited in name order and only a smaller bid replaces the best
\* so far, so the first of the equally near ones wins.  The empty set is the
\* empty string: no feasible robot.
assign(goal, arm_actions, bidders, start, level) ==
    LET feasible == {r \in bidders : CanFinish(start[r], goal, arm_actions, level[r])}
        bid(r) == Distance(start[r], goal)
    IN  {r \in feasible : \A s \in feasible :
            \/ bid(r) < bid(s)
            \/ bid(r) = bid(s) /\ r <= s}

=============================================================================
