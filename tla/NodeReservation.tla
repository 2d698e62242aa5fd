--------------------------- MODULE NodeReservation ---------------------------
(***************************************************************************)
(* What the traffic layer promises about vertices, without saying how the  *)
(* fleet node decides: every vertex has at most one holder, a robot only   *)
(* takes a vertex that is free or its own, gives back only its own, and a  *)
(* step concerns a single robot.  The one exception is a restart of the    *)
(* ledger, which forgets every reservation at once.                        *)
(***************************************************************************)
EXTENDS Integers

CONSTANTS Node, Robot, NoRobot

VARIABLE owner

Init == owner = [n \in Node |-> NoRobot]

Holds(r) == {n \in Node : owner[n] = r}

\* r gives back some of what it holds and takes at most one free vertex.
Exchange(r) ==
    \E back \in SUBSET Holds(r) :
        LET left == [n \in Node |-> IF n \in back THEN NoRobot ELSE owner[n]]
        IN  \/ owner' = left
            \/ \E n \in Node : left[n] \in {NoRobot, r} /\ owner' = [left EXCEPT ![n] = r]

Forget == owner' = [n \in Node |-> NoRobot]

Next == Forget \/ \E r \in Robot : Exchange(r)

Spec == Init /\ [][Next]_owner

=============================================================================
