------------------------------ MODULE FleetNode ------------------------------
(***************************************************************************)
(* The fleet management node (fleet_node.cpp) with its two plugins, and    *)
(* the robots it drives.                                                   *)
(*                                                                         *)
(* The node is spun by a single-threaded executor, so every callback runs  *)
(* to its end before the next one starts.  on_timer is the long one; each  *)
(* iteration of its two loops is an action, and `cursor` says how far a    *)
(* running callback has come: Idle between callbacks, 0 in the first loop, *)
(* in the second the seq of the task it served last.  No other handler     *)
(* runs before the callback ends.                                          *)
(* tasks_ is a vector in creation order and start_seq numbers the          *)
(* creations, so it is modelled as a set that is walked by `seq`.          *)
(***************************************************************************)
EXTENDS Auction, ReservationDeadlock

CONSTANTS
    KSeqMax, KAgeStep, KTierStep,       \* priority encoding
    KMaxReroutes,                       \* kMaxReroutes
    KStuckTicks,                        \* kStuckTicks
    KRerouteWaitTicks,                  \* kRerouteWaitTicks
    PatrolRoute,                        \* patrol_route_
    PatrolDefault,                      \* the `patrol` parameter
    StartPlace,                         \* where each robot is when the node starts
    Origin,                             \* the position of coordinates (0, 0)
    \* What the environment does; an empty set leaves the operation out.
    Goals, ArmActions,                  \* submit_task: dropoff, arm_actions
    Managed,                            \* robots named in a service call
    Modes,                              \* set_robot_mode: mode
    Levels,                             \* set_battery: value, already clamped
    StartLevel,                         \* initial battery
    MayForce,                           \* submit_task may name a robot
    MayStall,                           \* a moving robot may make no progress
    MayLag,                             \* reports may lag more than one step of motion
    MaySwap,                            \* set_plugins may load a fresh traffic plugin
    MaxTasks                            \* bound on task_seq_

Mode == {"PATROL", "IDLE", "STOP", "CHARGE"}

\* The steps of the priority code keep its parts apart (fleet_task.hpp says
\* so of its constants): 100 is the most the battery can add.
ASSUME PriorityAssumption ==
    /\ KSeqMax \in Nat /\ KAgeStep \in Nat /\ KTierStep \in Nat
    /\ KAgeStep > 100
    /\ KTierStep > KSeqMax * KAgeStep + 100
ASSUME LimitAssumption ==
    /\ KMaxReroutes \in Nat
    /\ KStuckTicks \in Nat
    /\ KRerouteWaitTicks \in Nat
    /\ MaxTasks \in Nat
ASSUME PatrolAssumption ==
    /\ PatrolRoute \in Seq(Node)
    /\ PatrolDefault \in BOOLEAN
ASSUME PlaceAssumption ==
    /\ StartPlace \in [Robot -> Position]
    /\ Origin \in Position
ASSUME InputAssumption ==
    /\ Goals \subseteq Node
    /\ ArmActions \subseteq Nat
    /\ Managed \subseteq Robot
    /\ Modes \subseteq Mode
    /\ Levels \subseteq 0..100
    /\ StartLevel \in [Robot -> 0..100]
    /\ {MayForce, MayStall, MayLag, MaySwap} \subseteq BOOLEAN

KStopPrio == 4 * KTierStep

VARIABLES
    known,      \* keys of robots_
    report,     \* robots_[r].x, .y: the last position reported
    battery,    \* robots_[r].battery
    busy,       \* robots_[r].busy
    mode,       \* robot_mode_, "NONE" where there is no entry
    tasks,      \* tasks_
    task_seq,   \* task_seq_
    traffic,    \* the state inside traffic_
    cursor,     \* how far a running on_timer has come
    feed,       \* last state published for the robot on /fms/task_states
    place,      \* where the robot really is
    cmd         \* the vertex its slotcar was last told to drive to

world == <<place, cmd>>
ledger == <<known, report, battery, busy, mode>>
vars == <<ledger, tasks, task_seq, traffic, cursor, feed, world>>

Idle == -1

FeedState == {"NONE", "ASSIGNED", "PATROL", "EXECUTING", "COMPLETED", "FAILED"}

Task ==
    [robot : Robot, path : Seq(Node), idx : Nat, moving : BOOLEAN,
     wait_logged : BOOLEAN, patrol : BOOLEAN, stuck : BOOLEAN, seq : Nat,
     reroutes : Nat, no_move : Nat, wait_ticks : Nat]

Init ==
    /\ known = {}
    /\ report = [r \in Robot |-> Origin]
    /\ battery = StartLevel
    /\ busy = [r \in Robot |-> FALSE]
    /\ mode = [r \in Robot |-> "NONE"]
    /\ tasks = {}
    /\ task_seq = 0
    /\ traffic = NoTraffic
    /\ cursor = Idle
    /\ feed = [r \in Robot |-> "NONE"]
    /\ place = StartPlace
    /\ cmd = [r \in Robot |-> NoNode]

-----------------------------------------------------------------------------
(* Queries                                                                 *)

mode_of(r) == IF mode[r] = "NONE" THEN "IDLE" ELSE mode[r]

TasksOf(r) == {t \in tasks : t.robot = r}

\* The patrol flag of the robot's first task.
is_on_patrol(r) ==
    \E t \in TasksOf(r) : t.patrol /\ \A u \in TasksOf(r) : t.seq <= u.seq

blocked_by_stopped(n) ==
    traffic.owner[n] # NoRobot /\ mode_of(traffic.owner[n]) = "STOP"

\* task.idx counts from 1 here: path[idx] is the vertex driven to, path[idx-1]
\* the one left.
Current(t) == t.path[t.idx - 1]
NextNode(t) == t.path[t.idx]

Priority(tier, seq, level) ==
    LET age == KSeqMax - (IF seq < KSeqMax THEN seq ELSE KSeqMax)
    IN  tier * KTierStep + age * KAgeStep + (100 - level)

compute_priority(r, t) ==
    LET tier == IF t.stuck THEN 3
                ELSE IF mode_of(r) = "CHARGE" THEN 2
                ELSE IF t.patrol THEN 0 ELSE 1
    IN  Priority(tier, t.seq, battery[r])

\* Where n comes first on the route: one index or none.
FirstIndex(n) ==
    {i \in 1..Len(PatrolRoute) :
        PatrolRoute[i] = n /\ \A j \in 1..(i - 1) : PatrolRoute[j] # n}

Cyclic(i) == ((i - 1) % Len(PatrolRoute)) + 1

\* The vertex after n on the patrol route, -1 when n is not on it.
patrol_succ(n) ==
    IF FirstIndex(n) = {} THEN NoNode
    ELSE PatrolRoute[Cyclic(1 + CHOOSE i \in FirstIndex(n) : TRUE)]

\* Variant: the lap starts one vertex ahead of the entry point.
make_patrol_path_ahead(p) ==
    {[i \in 1..(Len(PatrolRoute) + 1) |-> PatrolRoute[Cyclic(k + i)]] :
        k \in FirstIndex(NearestNode(p))}

\* One lap from the patrol vertex nearest to p, closed at its first vertex.
\* When the nearest vertex of the graph is not on the route, which patrol
\* vertex is nearest depends on coordinates: any of them.
make_patrol_path(p) ==
    LET here == FirstIndex(NearestNode(p))
        entries == IF here # {} THEN here ELSE 1..Len(PatrolRoute)
    IN  {[i \in 1..(Len(PatrolRoute) + 1) |-> PatrolRoute[Cyclic(k + i - 1)]] :
            k \in entries}

\* Ways around `next` for a task: towards its last vertex, or, on patrol, to
\* the vertex that follows the avoided one on the route.
Detours(t, goal) == {p \in dijkstra(Current(t), goal, NextNode(t)) : Len(p) >= 2}

DetourGoal(t) == IF t.patrol THEN patrol_succ(NextNode(t)) ELSE t.path[Len(t.path)]

NewTask(r, path, patrol) ==
    [robot |-> r, path |-> path, idx |-> 2, moving |-> FALSE,
     wait_logged |-> FALSE, patrol |-> patrol, stuck |-> FALSE,
     seq |-> task_seq + 1, reroutes |-> 0, no_move |-> 0, wait_ticks |-> 0]

\* Variants of cancel_task: only patrols are cancelled; only the vertex left
\* behind is given back.
TasksWithoutPatrol(r) == tasks \ {t \in TasksOf(r) : t.patrol}

CancelledCurrent(r) == {Current(t) : t \in TasksOf(r)}

\* cancel_task: the tasks it leaves, and the vertices it gives back, those
\* around every cancelled task's index.
TasksWithout(r) == tasks \ TasksOf(r)

CancelledNodes(r) == UNION {{Current(t), NextNode(t)} : t \in TasksOf(r)}

-----------------------------------------------------------------------------
(* The robots                                                              *)

\* One step along the straight way to vertex n.
Toward(p, n) ==
    IF p[1] = n THEN At(n)
    ELSE IF p[2] = n THEN <<n, p[1]>>
    ELSE <<p[1], n>>

\* The slotcar drives; external.  Motion during a timer callback commutes
\* with the callback, so it is only taken between callbacks.
Drive(r) ==
    /\ cursor = Idle
    /\ cmd[r] # NoNode /\ place[r] # At(cmd[r])
    /\ MayLag \/ report[r] = place[r]
    /\ place' = [place EXCEPT ![r] = Toward(@, cmd[r])]
    /\ UNCHANGED <<ledger, tasks, task_seq, traffic, cursor, feed, cmd>>

on_robot_state(r) ==
    /\ cursor = Idle
    /\ known' = known \cup {r}
    /\ report' = [report EXCEPT ![r] = place[r]]
    /\ mode' = [mode EXCEPT ![r] =
                  IF @ # "NONE" THEN @ ELSE IF PatrolDefault THEN "PATROL" ELSE "IDLE"]
    /\ UNCHANGED <<battery, busy, tasks, task_seq, traffic, cursor, feed, world>>

-----------------------------------------------------------------------------
(* Services                                                                *)

\* on_submit after a robot is chosen: from the nearest vertex to `goal`, if a
\* route exists and the battery suffices.  A busy robot's task is cancelled.
\* Whether the claim of the first vertex is granted is not looked at.
Accept(r, goal, arm_actions) ==
    LET start == NearestNode(report[r])
        routes == IF start = goal THEN {<<goal, goal>>} ELSE dijkstra(start, goal, NoNode)
        kept == IF busy[r] THEN TasksWithout(r) ELSE tasks
        freed == IF busy[r] THEN ReleaseAll(traffic, r, CancelledNodes(r)) ELSE traffic
    IN  \E path \in routes :
          LET t == NewTask(r, path, FALSE)
          IN  /\ battery[r] >= Need(path_cost(path), arm_actions)
              /\ traffic' = request_move(freed, r, start, start, compute_priority(r, t)).traffic
              /\ tasks' = kept \cup {t}
              /\ busy' = [busy EXCEPT ![r] = TRUE]
              /\ task_seq' = task_seq + 1
              /\ feed' = [feed EXCEPT ![r] = "ASSIGNED"]
              /\ UNCHANGED <<known, report, battery, mode, cursor, world>>

\* submit_task that names a robot: known, and not stopped.
SubmitForced(r, goal, arm_actions) ==
    /\ MayForce
    /\ cursor = Idle /\ task_seq < MaxTasks
    /\ r \in known /\ mode_of(r) # "STOP"
    /\ Accept(r, goal, arm_actions)

\* Variants: the snapshot keeps stopped robots; it keeps busy ones.
BiddersStopped == {r \in known : ~busy[r] \/ is_on_patrol(r)}

BiddersBusy == {r \in known : mode_of(r) \notin {"STOP", "CHARGE"}}

\* submit_task left to the dispatcher: stopped and charging robots do not bid,
\* a robot on patrol bids as if it were idle.
Bidders == {r \in known : /\ mode_of(r) \notin {"STOP", "CHARGE"}
                          /\ ~busy[r] \/ is_on_patrol(r)}

SubmitAuto(goal, arm_actions) ==
    /\ cursor = Idle /\ task_seq < MaxTasks
    /\ \E r \in assign(goal, arm_actions, Bidders,
                       [s \in Robot |-> NearestNode(report[s])], battery) :
          Accept(r, goal, arm_actions)

\* on_set_mode.  Every mode but CHARGE cancels the robot's task and gives back
\* all it holds; STOP then claims the vertex nearest to the last report.
on_set_mode(r, m) ==
    LET freed == ReleaseAll(traffic, r, CancelledNodes(r) \cup OwnedBy(traffic, r))
        node == NearestNode(report[r])
    IN  /\ cursor = Idle
        /\ mode' = [mode EXCEPT ![r] = m]
        /\ IF m = "CHARGE" THEN UNCHANGED <<tasks, busy, traffic>>
           ELSE /\ tasks' = TasksWithout(r)
                /\ busy' = [busy EXCEPT ![r] = FALSE]
                /\ traffic' = IF m = "STOP" /\ r \in known
                              THEN request_move(freed, r, node, node, KStopPrio).traffic
                              ELSE freed
        /\ UNCHANGED <<known, report, battery, task_seq, cursor, feed, world>>

\* on_set_battery enters an unobserved robot into robots_, at coordinates (0, 0).
on_set_battery(r, level) ==
    /\ cursor = Idle
    /\ known' = known \cup {r}
    /\ battery' = [battery EXCEPT ![r] = level]
    /\ UNCHANGED <<report, busy, mode, tasks, task_seq, traffic, cursor, feed, world>>

\* on_set_plugins: a new traffic instance knows of no reservation, not even of
\* those of running tasks.
on_set_plugins ==
    /\ MaySwap
    /\ cursor = Idle
    /\ traffic' = NoTraffic
    /\ UNCHANGED <<ledger, tasks, task_seq, cursor, feed, world>>

-----------------------------------------------------------------------------
(* on_timer                                                                *)

Idlers == {r \in known : ~busy[r] /\ mode_of(r) = "PATROL" /\ TasksOf(r) = {}}

Patrollable == Len(PatrolRoute) >= 2 /\ task_seq < MaxTasks

\* First loop: patrols for the idle robots in PATROL mode, in name order.
start_patrol(r) ==
    /\ cursor \in {Idle, 0} /\ Patrollable
    /\ cursor' = 0
    /\ r \in Idlers /\ \A s \in Idlers : r <= s
    /\ \E path \in make_patrol_path(report[r]) :
         LET t == NewTask(r, path, TRUE)
         IN  /\ tasks' = tasks \cup {t}
             /\ traffic' = request_move(traffic, r, path[1], path[1],
                                        compute_priority(r, t)).traffic
    /\ busy' = [busy EXCEPT ![r] = TRUE]
    /\ task_seq' = task_seq + 1
    /\ feed' = [feed EXCEPT ![r] = "PATROL"]
    /\ UNCHANGED <<known, report, battery, mode, world>>

\* Second loop: the tasks in creation order.  t is the next one; the callback
\* ends with the last.
IsServed(t) ==
    /\ cursor <= 0 => ~(Patrollable /\ Idlers # {})
    /\ t.seq > cursor
    /\ \A u \in tasks : u.seq > cursor => t.seq <= u.seq

Served(t) ==
    cursor' = IF \E u \in tasks : u.seq > t.seq THEN t.seq ELSE Idle

\* The task with its no-progress counter brought up to date.  The robot may
\* seem not to move although its abstract position says nothing about it.
Ticked(t) ==
    {[t EXCEPT !.no_move = IF t.moving /\ still THEN @ + 1 ELSE 0] :
        still \in IF MayStall THEN BOOLEAN ELSE {FALSE}}

\* Variant: being nearest to the vertex counts as having arrived.
HasArrivedNear(t) == t.moving /\ NearestNode(report[t.robot]) = NextNode(t)

HasArrived(t) == t.moving /\ report[t.robot] = At(NextNode(t))

AtEnd(t) == t.idx = Len(t.path)

\* Variant: the task stays marked as moving.
AdvancedMoving(t) == [t EXCEPT !.idx = @ + 1, !.reroutes = 0, !.wait_ticks = 0]

Advanced(t) ==
    [t EXCEPT !.idx = @ + 1, !.moving = FALSE, !.reroutes = 0, !.wait_ticks = 0]

\* Variant: the robot stays busy.
FinishBusy(t, nodes, state) ==
    /\ tasks' = tasks \ {t}
    /\ traffic' = ReleaseAll(traffic, t.robot, nodes)
    /\ feed' = [feed EXCEPT ![t.robot] = state]
    /\ Served(t)
    /\ UNCHANGED <<ledger, task_seq, world>>

\* The served task leaves tasks_ and its robot is free again.
Finish(t, nodes, state) ==
    /\ tasks' = tasks \ {t}
    /\ traffic' = ReleaseAll(traffic, t.robot, nodes)
    /\ busy' = [busy EXCEPT ![t.robot] = FALSE]
    /\ feed' = [feed EXCEPT ![t.robot] = state]
    /\ Served(t)
    /\ UNCHANGED <<known, report, battery, mode, task_seq, world>>

\* A task whose robot made no progress for too long is dropped.
FailStuck(t) ==
    /\ IsServed(t)
    /\ \E u \in Ticked(t) : u.no_move > KStuckTicks
    /\ Finish(t, {Current(t), NextNode(t)}, "FAILED")

\* Arrival of a work task at the last vertex of its path.
Complete(t) ==
    /\ IsServed(t)
    /\ HasArrived(t) /\ AtEnd(t) /\ ~t.patrol
    /\ \E u \in Ticked(t) : u.no_move <= KStuckTicks
    /\ Finish(t, {NextNode(t)}, "COMPLETED")

\* Replacing the served task, then on to the next one.
Keep(t, u) ==
    /\ tasks' = (tasks \ {t}) \cup {u}
    /\ Served(t)
    /\ UNCHANGED <<ledger, task_seq>>

\* Still on the way.
KeepDriving(t) ==
    /\ IsServed(t)
    /\ t.moving /\ ~HasArrived(t)
    /\ \E u \in Ticked(t) : u.no_move <= KStuckTicks /\ Keep(t, u)
    /\ UNCHANGED <<traffic, feed, world>>

\* What the task has become when on_timer asks for the next vertex: the task
\* itself when it was standing, moved one vertex on by an arrival, or on a new
\* lap when a patrol ended.
Requesting(t) ==
    UNION {IF ~u.moving THEN {u}
           ELSE IF ~HasArrived(u) THEN {}
           ELSE IF ~AtEnd(u) THEN {Advanced(u)}
           ELSE IF ~u.patrol THEN {}
           ELSE {[Advanced(u) EXCEPT !.path = lap, !.idx = 2] :
                    lap \in make_patrol_path(report[u.robot])} :
           u \in {v \in Ticked(t) : v.no_move <= KStuckTicks}}

Ask(u) ==
    request_move(traffic, u.robot, Current(u), NextNode(u), compute_priority(u.robot, u))

Publish(u, state) == feed' = [feed EXCEPT ![u.robot] = state]

\* EXECUTING is published once per wait.
PublishWait(u) ==
    IF u.wait_logged THEN UNCHANGED feed ELSE Publish(u, "EXECUTING")

\* GRANT: the vertex left is released at once, the robot is sent on its way.
Depart(t) == \E u \in Requesting(t) :
    /\ IsServed(t)
    /\ Ask(u).verdict = "GRANT"
    /\ Keep(t, [u EXCEPT !.moving = TRUE, !.wait_logged = FALSE,
                         !.stuck = FALSE, !.wait_ticks = 0])
    /\ traffic' = IF Current(u) = NextNode(u) THEN Ask(u).traffic
                  ELSE ReleaseAll(Ask(u).traffic, u.robot, {Current(u)})
    /\ cmd' = [cmd EXCEPT ![u.robot] = NextNode(u)]
    /\ UNCHANGED <<feed, place>>

\* Variant: the index into the old path is kept.
ReroutedInPlace(u, path) == [u EXCEPT !.path = path, !.wait_logged = FALSE]

Rerouted(u, path) == [u EXCEPT !.path = path, !.idx = 2, !.wait_logged = FALSE]

\* DEADLOCK and a way around, at most KMaxReroutes times in a row.
YieldByDetour(t) == \E u \in Requesting(t) :
    /\ IsServed(t)
    /\ Ask(u).verdict = "DEADLOCK"
    /\ u.reroutes < KMaxReroutes
    /\ \E path \in Detours(u, DetourGoal(u)) :
          Keep(t, [Rerouted(u, path) EXCEPT !.reroutes = @ + 1, !.stuck = FALSE])
    /\ traffic' = Ask(u).traffic
    /\ UNCHANGED <<feed, world>>

\* DEADLOCK without one: the task moves to the top tier and waits.
Escalate(t) == \E u \in Requesting(t) :
    /\ IsServed(t)
    /\ Ask(u).verdict = "DEADLOCK"
    /\ u.reroutes >= KMaxReroutes \/ Detours(u, DetourGoal(u)) = {}
    /\ Keep(t, [u EXCEPT !.stuck = TRUE, !.wait_logged = TRUE])
    /\ PublishWait(u)
    /\ traffic' = Ask(u).traffic
    /\ UNCHANGED world

\* WAIT behind a stopped robot: around it, if there is a way to the last
\* vertex of the path (on patrol too).
PassStopped(t) == \E u \in Requesting(t) :
    /\ IsServed(t)
    /\ Ask(u).verdict = "WAIT" /\ blocked_by_stopped(NextNode(u))
    /\ LET around == Detours(u, u.path[Len(u.path)])
       IN  IF around = {} THEN Keep(t, [u EXCEPT !.wait_logged = TRUE])
           ELSE \E path \in around : Keep(t, Rerouted(u, path))
    /\ traffic' = Ask(u).traffic
    /\ UNCHANGED <<feed, world>>

\* Any other WAIT: after KRerouteWaitTicks of them the task looks for a way
\* around and starts counting again, with or without one.
Wait(t) == \E u \in Requesting(t) :
    /\ IsServed(t)
    /\ Ask(u).verdict = "WAIT" /\ ~blocked_by_stopped(NextNode(u))
    /\ LET around == Detours(u, DetourGoal(u))
           waits == [u EXCEPT !.wait_ticks = @ + 1, !.wait_logged = TRUE]
       IN  IF waits.wait_ticks < KRerouteWaitTicks THEN Keep(t, waits)
           ELSE IF around = {} THEN Keep(t, [waits EXCEPT !.wait_ticks = 0])
           ELSE \E path \in around :
                  Keep(t, [Rerouted(waits, path) EXCEPT !.wait_ticks = 0])
    /\ PublishWait(u)
    /\ traffic' = Ask(u).traffic
    /\ UNCHANGED world

-----------------------------------------------------------------------------

Serve ==
    \E t \in tasks :
       \/ FailStuck(t) \/ KeepDriving(t) \/ Complete(t) \/ Depart(t)
       \/ YieldByDetour(t) \/ Escalate(t) \/ PassStopped(t) \/ Wait(t)

on_timer == Serve \/ \E r \in Robot : start_patrol(r)

Operator ==
    \/ \E r \in Managed, goal \in Goals, arm \in ArmActions : SubmitForced(r, goal, arm)
    \/ \E goal \in Goals, arm \in ArmActions : SubmitAuto(goal, arm)
    \/ \E r \in Managed, m \in Modes : on_set_mode(r, m)
    \/ \E r \in Managed, level \in Levels : on_set_battery(r, level)
    \/ on_set_plugins

Next ==
    \/ on_timer
    \/ \E r \in Robot : on_robot_state(r) \/ Drive(r)
    \/ Operator

Spec == Init /\ [][Next]_vars

=============================================================================
