--------------------------- MODULE FleetProperties ---------------------------
(***************************************************************************)
(* What the fleet node must do, and what its comments say it does.         *)
(***************************************************************************)
EXTENDS FleetNode

\* The node after a first report of every robot and before its first tick, a
\* reachable state.  From here on no unseen robot stands in anybody's way.
AllSeenInit ==
    /\ known = Robot
    /\ report = StartPlace
    /\ battery = StartLevel
    /\ busy = [r \in Robot |-> FALSE]
    /\ mode = [r \in Robot |-> IF PatrolDefault THEN "PATROL" ELSE "IDLE"]
    /\ tasks = {}
    /\ task_seq = 0
    /\ traffic = NoTraffic
    /\ cursor = Idle
    /\ feed = [r \in Robot |-> "NONE"]
    /\ place = StartPlace
    /\ cmd = [r \in Robot |-> NoNode]

AllSeenSpec == AllSeenInit /\ [][Next]_vars

-----------------------------------------------------------------------------
(* Safety                                                                  *)

\* Every variable has the type of the C++ member it stands for.
TypeOK ==
    /\ known \subseteq Robot
    /\ report \in [Robot -> Position]
    /\ battery \in [Robot -> 0..100]
    /\ busy \in [Robot -> BOOLEAN]
    /\ mode \in [Robot -> Mode \cup {"NONE"}]
    /\ tasks \subseteq Task
    /\ task_seq \in Nat
    /\ traffic \in Traffic
    /\ cursor \in Nat \cup {Idle}
    /\ feed \in [Robot -> FeedState]
    /\ place \in [Robot -> Position]
    /\ cmd \in [Robot -> Node \cup {NoNode}]

\* on_submit and start_patrol push a task without looking for another one of
\* the same robot: the busy flag has to keep them apart.
OneTaskPerRobot ==
    \A t, u \in tasks : t.robot = u.robot => t = u

\* RobotInfo.busy is set and cleared in six places, tasks_ in five others; a
\* robot that is busy without a task would never be dispatched again.
BusyMatchesTasks ==
    \A r \in Robot : busy[r] <=> TasksOf(r) # {}

\* Every read of path[idx] and path[idx - 1] in on_timer, cancel_task and the
\* publishers stays inside the path, whatever detours replaced it.
IndexInsidePath ==
    \A t \in tasks : t.idx \in 2..Len(t.path)

\* A robot under way holds the vertex it drives to, so no two robots are sent
\* to the same vertex: not after a detour, a cancelled task or a mode change.
\* (Swapping the traffic plugin is what breaks it.)
TargetsReserved ==
    \A t \in tasks : t.moving => traffic.owner[NextNode(t)] = t.robot

\* No reservation outlives its reason: what a robot holds is the vertex its
\* task stands on or drives to, or the obstacle claim of a STOP.  (The claim
\* survives a change from STOP to CHARGE, which releases nothing.)
NothingLeaks ==
    \A r \in Robot : \A n \in OwnedBy(traffic, r) :
        \/ \E t \in TasksOf(r) : n = (IF t.moving THEN NextNode(t) ELSE Current(t))
        \/ mode[r] \in {"STOP", "CHARGE"}

\* Only a standing robot with a task waits, and never for itself: otherwise
\* find_cycle would report deadlocks with robots that are on their way.
WaitersStand ==
    \A r \in Robot : traffic.waitfor[r] # NoRobot =>
        /\ traffic.waitfor[r] # r
        /\ \E t \in TasksOf(r) : ~t.moving

\* A robot in STOP has no task and gets none, by whichever service.
StoppedIsOutOfService ==
    \A r \in Robot : mode[r] = "STOP" => TasksOf(r) = {}

\* Only a node that has a patrol route has patrols, whose laps then have at
\* least two vertices.
PatrolsHaveRoute ==
    \A t \in tasks : t.patrol => Len(PatrolRoute) >= 2

\* The inductive invariant behind the ones above: a handler may only count on
\* the busy flag when it agrees with tasks_, and on a path when the index is
\* inside it.
IInv ==
    /\ TypeOK
    /\ OneTaskPerRobot
    /\ BusyMatchesTasks
    /\ PatrolsHaveRoute
    /\ IndexInsidePath
    /\ ~MaySwap => TargetsReserved
    /\ StoppedIsOutOfService

\* Every patrol, detours included, ends on a vertex of the route: the next lap
\* then starts where this one ends, with the vertex the robot holds.
PatrolsEndOnRoute ==
    \A t \in tasks : t.patrol =>
        \E i \in 1..Len(PatrolRoute) : PatrolRoute[i] = t.path[Len(t.path)]

\* What makes NothingLeaks and WaitersStand inductive.
LeakInv == IInv /\ PatrolsEndOnRoute /\ NothingLeaks /\ WaitersStand

\* The wait-for edges when the request of u's robot is refused, and the tasks of
\* the robots on the way along them.
Refused(u) == [traffic.waitfor EXCEPT ![u.robot] = traffic.owner[NextNode(u)]]

Circle(waitfor, t) == {v \in tasks : v.robot \in CycleMembers(waitfor, t.robot)}

\* v stands, and what it asks for is held by the robot it is said to wait for.
ReallyWaits(v) ==
    ~v.moving /\ traffic.owner[NextNode(v)] = traffic.waitfor[v.robot]

\* v stands and has been given another path since it last asked.
JustRerouted(v) == ~v.moving /\ ~v.wait_logged

\* The plugin answers DEADLOCK to a robot from wait-for edges that others left
\* at their last request.  They all wait still as the edges say, but for those
\* that on_timer has just sent another way: an edge to a robot that has left
\* is renewed before that robot asks for anything.
DeadlocksAreReal ==
    \A t \in tasks : \A u \in Requesting(t) :
        IsServed(t) /\ Ask(u).verdict = "DEADLOCK" =>
            \A v \in Circle(Refused(u), u) \ {t} : ReallyWaits(v) \/ JustRerouted(v)

\* traffic_base.hpp: DEADLOCK means that the robot is in a circular wait.
DeadlocksAreCircles ==
    \A t \in tasks : \A u \in Requesting(t) :
        IsServed(t) /\ Ask(u).verdict = "DEADLOCK" =>
            \A v \in Circle(Refused(u), u) \ {t} : ReallyWaits(v)

\* The robots of a closed circle, none of them rerouted, ask one after the
\* other, each with its priority of that moment, against those the others gave
\* before: exactly one is told to make way.  Two would both leave, none would
\* leave all of them standing.
OneYields ==
    \A t \in tasks :
        LET circle == Circle(traffic.waitfor, t)
        IN  find_cycle(traffic.waitfor, t.robot) /\ (\A v \in circle : v.wait_logged) =>
              \E v \in circle : \A w \in circle :
                  Ask(w).verdict = IF w = v THEN "DEADLOCK" ELSE "WAIT"

\* on_timer serves t before it serves u again.
IsServedBefore(t, u) ==
    IF t.seq > cursor THEN u.seq > t.seq \/ u.seq <= cursor
    ELSE t.seq < u.seq /\ u.seq <= cursor

\* What robots say they wait for: a robot with an edge is not at the vertex it
\* asks for next, and if it has asked since it got its path, the edge leads to
\* the holder of that vertex, or to a robot that has left and does not wait for
\* anything before the edge is renewed.
EdgesAreTrue ==
    \A t \in tasks :
        LET s == traffic.waitfor[t.robot]
        IN  s # NoRobot =>
              /\ Current(t) # NextNode(t)
              /\ t.wait_logged =>
                   \/ traffic.owner[NextNode(t)] = s
                   \/ /\ traffic.waitfor[s] = NoRobot
                      /\ \A u \in TasksOf(s) : IsServedBefore(t, u)

\* Nothing changes the priority of a waiting task from outside.
PrioritiesStay == "CHARGE" \notin Modes /\ Levels = {}

\* What makes DeadlocksAreReal and OneYields inductive.
WaitInv ==
    /\ LeakInv
    /\ \A t \in tasks : t.seq \in 1..task_seq /\ (t.moving => ~t.wait_logged)
    /\ \A t, u \in tasks : t.seq = u.seq => t = u
    /\ EdgesAreTrue
    /\ PrioritiesStay => \A t \in tasks : traffic.waitfor[t.robot] # NoRobot =>
          traffic.prio[t.robot] = compute_priority(t.robot, t)

\* A standing robot holds the vertex it stands on.  Holds as long as every
\* claim of a first vertex succeeds, whose answer the code does not look at.
StandersHold ==
    \A t \in tasks : ~t.moving => traffic.owner[Current(t)] = t.robot

\* At most one robot is inside a lane, whichever way it drives.
LaneExclusive ==
    \A r, s \in Robot :
        r # s /\ place[r][1] # place[r][2] =>
            {place[r][1], place[r][2]} # {place[s][1], place[s][2]}

\* The positions on the way from c to n.
Way(c, n) == {At(c), <<c, n>>, <<n, c>>, At(n)}

\* A robot on patrol is where its task says: on its current vertex, or on the
\* way it was sent, and not reported at the end of it before it is there.
OnItsWay(t) ==
    LET c == Current(t)
        n == NextNode(t)
        r == t.robot
    IN  IF t.moving
        THEN /\ cmd[r] = n
             /\ {place[r], report[r]} \subseteq Way(c, n)
             /\ report[r] = At(n) => place[r] = At(n)
        ELSE /\ cmd[r] \in {NoNode, c}
             /\ place[r] = At(c) /\ report[r] = At(c)

\* No two robots drive towards each other.
NobodyMeets ==
    \A t, u \in tasks :
        t.moving /\ u.moving /\ Current(t) = NextNode(u) /\ NextNode(t) = Current(u)
            => Current(t) = NextNode(t)

\* Until the first loop has given every robot its patrol, nobody has moved.
Starting == Patrollable /\ Idlers # {}

NobodyLeft ==
    /\ cursor \in {Idle, 0}
    /\ \A t \in tasks : ~t.moving /\ place[t.robot] = StartPlace[t.robot]

\* What makes StandersHold and LaneExclusive inductive when all robots patrol
\* from vertices of the route.
PatrolInv ==
    /\ LeakInv
    /\ known = Robot
    /\ \A r \in Robot : mode[r] \in {"PATROL", "IDLE"}
    /\ \A t \in tasks : t.patrol /\ OnItsWay(t)
    /\ \A r \in Robot : TasksOf(r) = {} =>
          cmd[r] = NoNode /\ place[r] = StartPlace[r] /\ report[r] = StartPlace[r]
    /\ Starting => NobodyLeft
    /\ StandersHold
    /\ NobodyMeets

\* A STOP robot is an obstacle on the vertex it is at.
StoppedHoldsItsPlace ==
    \A r \in known : mode[r] = "STOP" /\ cursor = Idle =>
        traffic.owner[NearestNode(place[r])] = r

-----------------------------------------------------------------------------
(* Steps                                                                   *)

\* The fleet node implements the abstract reservation ledger: nobody's vertex
\* is ever handed to somebody else, in any callback.
Ledger == INSTANCE NodeReservation WITH owner <- traffic.owner

ReservesLikeALedger == Ledger!Spec

\* Left to itself (no forced submission, no mode change) the node ends a work
\* task by completing or failing it, never by giving its robot another one.
WorkIsNotInterrupted ==
    [][\A t \in tasks : ~t.patrol =>
          \/ \E u \in tasks' : u.seq = t.seq /\ u.robot = t.robot
          \/ feed'[t.robot] \in {"COMPLETED", "FAILED"}]_vars

-----------------------------------------------------------------------------
(* Liveness                                                                *)

\* The wall timer keeps firing and the executor finishes its callbacks; robot
\* states keep arriving and robots obey.  The last two compete with the timer
\* for the executor, so they are enabled again and again, not continuously.
Fairness ==
    /\ WF_vars(on_timer)
    /\ \A r \in Robot : SF_vars(on_robot_state(r)) /\ SF_vars(Drive(r))

FairSpec == AllSeenSpec /\ Fairness

\* A task that cannot go around is raised to the top tier so that the others
\* make way, and returns to its own tier when it gets free: it does get free.
EscalationEnds ==
    \A r \in Robot :
        (\E t \in TasksOf(r) : t.stuck) ~> (\A t \in TasksOf(r) : ~t.stuck)

\* A work task does not wait for ever unnoticed: it ends, or the node has
\* found it in a circular wait it cannot leave and has escalated it.
WorkEndsOrEscalates ==
    \A r \in Robot :
        (\E t \in TasksOf(r) : ~t.patrol)
            ~> \/ \A t \in TasksOf(r) : t.patrol
               \/ \E t \in TasksOf(r) : t.stuck

\* A robot left in PATROL mode never comes to rest at a vertex for good,
\* whoever waits or is stopped in its way.
PatrolNeverRests ==
    \A r \in Robot :
        <>[](mode[r] = "PATROL") => \A n \in Node : []<>(place[r] # At(n))

=============================================================================
