------------------------- MODULE FleetTrafficProofs -------------------------
(***************************************************************************)
(* Proofs about robots in each other's way.  Robots that all patrol: a     *)
(* standing robot holds its vertex, and no two robots are ever inside the  *)
(* same lane, whatever the graph, the route, the number of robots and the  *)
(* delay of the reports.  Circular waits: the edges of the wait-for graph  *)
(* are true, a DEADLOCK answer is given to a robot of a circle whose       *)
(* robots all wait or have just been rerouted, and in a closed circle      *)
(* exactly one robot is told to make way.                                  *)
(***************************************************************************)
EXTENDS FleetLedgerProofs, FiniteSetTheorems

-----------------------------------------------------------------------------
(* Robots that all patrol                                                  *)

\* Nobody submits work, changes a mode or swaps a plugin, no robot gets stuck,
\* and the robots start on vertices of the route, each on its own.
OnlyPatrols ==
    /\ ~MayStall /\ ~MaySwap
    /\ Goals = {} /\ Modes = {}
    /\ \A r \in Robot : \E n \in Node : OnRoute(n) /\ StartPlace[r] = At(n)
    /\ \A r, s \in Robot : StartPlace[r] = StartPlace[s] => r = s

-----------------------------------------------------------------------------
(* What the invariant says of a task                                       *)

\* What it says of a task in its own terms.
LEMMA PatrolTask ==
    ASSUME OnlyPatrols, PatrolInv, NEW t \in tasks
    PROVE  /\ IInv /\ LeakInv
           /\ t \in Task /\ t.robot \in Robot /\ t.patrol /\ OnItsWay(t)
           /\ t.idx \in 2..Len(t.path)
           /\ Current(t) \in Node /\ NextNode(t) \in Node
           /\ traffic.owner[Holding(t)] = t.robot
           /\ \A v \in tasks : v.robot = t.robot => v = t
<1>1. LeakInv /\ IInv /\ t.patrol /\ OnItsWay(t)
  BY DEF PatrolInv, LeakInv
<1>2. /\ t \in Task /\ t.robot \in Robot /\ t.idx \in 2..Len(t.path)
      /\ Current(t) \in Node /\ NextNode(t) \in Node
  BY <1>1, TaskHolds
<1>3. traffic.owner[Holding(t)] = t.robot
  BY <1>1 DEF OnlyPatrols, PatrolInv, StandersHold, IInv, TargetsReserved, Holding
<1>4. \A v \in tasks : v.robot = t.robot => v = t
  BY <1>1 DEF IInv, OneTaskPerRobot
<1> QED BY <1>1, <1>2, <1>3, <1>4

\* A patrol is never failed or completed.
LEMMA PatrolsNeverEnd ==
    ASSUME OnlyPatrols, PatrolInv, NEW t \in tasks, NEW nodes, NEW state
    PROVE  ~Ends(t, nodes, state)
<1> SUFFICES ASSUME Ends(t, nodes, state) PROVE FALSE
  OBVIOUS
<1>1. t \in Task /\ t.patrol
  BY PatrolTask
<1>2. PICK u \in Ticked(t) : u.no_move > KStuckTicks
  BY <1>1 DEF Ends
<1>3. u = [t EXCEPT !.no_move = 0]
  BY DEF Ticked, OnlyPatrols
<1>4. u.no_move = 0
  BY <1>1, <1>3 DEF Task
<1> QED BY <1>2, <1>4, LimitAssumption

\* A robot whose task asks for a vertex is, and is reported, on the vertex it
\* holds.
LEMMA RequestingIsThere ==
    ASSUME OnlyPatrols, PatrolInv, NEW t \in tasks, NEW u \in Requesting(t)
    PROVE  /\ place[t.robot] = At(Current(u)) /\ report[t.robot] = At(Current(u))
           /\ cmd[t.robot] \in {NoNode, Current(u)}
<1>1. /\ t \in Task /\ OnItsWay(t) /\ Current(u) = Holding(t)
  BY PatrolTask, AskTypes
<1>2. CASE ~t.moving
  BY <1>1, <1>2 DEF OnItsWay, Holding
<1>3. CASE t.moving
  <2>1. PICK v \in Ticked(t) : ~v.moving \/ HasArrived(v)
    BY DEF Requesting
  <2>2. report[t.robot] = At(NextNode(t))
    BY <1>1, <1>3, <2>1, TickedSpec DEF HasArrived, NextNode
  <2> QED BY <1>1, <1>3, <2>2 DEF OnItsWay, Holding
<1> QED BY <1>2, <1>3

\* The second loop only begins when the first has nothing left to do.
LEMMA ServedLater ==
    ASSUME PatrolInv, NEW t \in tasks, ServeTask(t)
    PROVE  ~Starting
<1>1. cursor <= 0 => ~Starting
  BY DEF ServeTask, FailStuck, KeepDriving, Complete, Depart, YieldByDetour,
         Escalate, PassStopped, Wait, IsServed, Starting
<1>2. Starting => cursor <= 0
  BY DEF PatrolInv, NobodyLeft, Idle
<1> QED BY <1>1, <1>2

-----------------------------------------------------------------------------
(* Serving a patrol                                                        *)

\* Replacing the served patrol by one of the same robot keeps the invariant if
\* the new one is where it should be, holds its vertex and meets nobody.
LEMMA PatrolKeep ==
    ASSUME OnlyPatrols, PatrolInv, LeakInv', ~Starting,
           NEW t \in tasks, NEW w, w.robot = t.robot, w.patrol, Keep(t, w),
           OnItsWay(w)',
           place' = place, \A s \in Robot : s # t.robot => cmd'[s] = cmd[s],
           OnlyRobot(t.robot),
           ~w.moving => traffic'.owner[Current(w)] = t.robot,
           \A u \in tasks : u # t /\ u.moving /\ w.moving =>
               ~(Current(w) = NextNode(u) /\ NextNode(w) = Current(u))
    PROVE  PatrolInv'
<1>1. /\ tasks' = (tasks \ {t}) \cup {w}
      /\ UNCHANGED <<known, report, battery, busy, mode, task_seq>>
  BY DEF Keep, ledger
<1>2. \A v \in tasks : v # t => v.robot # t.robot /\ v.robot \in Robot
  BY PatrolTask
<1>3. known' = Robot /\ \A r \in Robot : mode'[r] \in {"PATROL", "IDLE"}
  BY <1>1 DEF PatrolInv
<1>4. ASSUME NEW v \in tasks' PROVE v.patrol /\ OnItsWay(v)'
  <2>1. CASE v = w
    BY <2>1
  <2>2. CASE v # w
    <3>1. v \in tasks /\ v # t /\ v.patrol /\ OnItsWay(v)
      BY <1>1, <2>2, PatrolTask
    <3>2. cmd'[v.robot] = cmd[v.robot]
      BY <1>2, <3>1
    <3> QED BY <1>1, <3>1, <3>2 DEF OnItsWay, Current, NextNode
  <2> QED BY <2>1, <2>2
<1>5. ASSUME NEW r \in Robot, TasksOf(r)' = {}
      PROVE  cmd'[r] = NoNode /\ place'[r] = StartPlace[r] /\ report'[r] = StartPlace[r]
  <2>1. r # t.robot /\ TasksOf(r) = {}
    BY <1>1, <1>5 DEF TasksOf
  <2> QED BY <1>1, <2>1 DEF PatrolInv
<1>6. ~Starting'
  <2>1. Patrollable' <=> Patrollable
    BY <1>1 DEF Patrollable
  <2>2. Idlers' \subseteq Idlers
    <3>1. \A r : TasksOf(r)' = {} => TasksOf(r) = {}
      BY <1>1 DEF TasksOf
    <3> QED BY <1>1, <3>1 DEF Idlers, mode_of
  <2> QED BY <2>1, <2>2 DEF Starting
<1>7. StandersHold'
  <2> SUFFICES ASSUME NEW v \in tasks', ~v.moving
               PROVE  traffic'.owner[Current(v)] = v.robot
    BY DEF StandersHold, Current
  <2>1. CASE v = w
    BY <2>1
  <2>2. CASE v # w
    <3>1. v \in tasks /\ v # t
      BY <1>1, <2>2
    <3>2. traffic.owner[Current(v)] = v.robot /\ Current(v) \in Node
      BY <3>1, PatrolTask DEF Holding
    <3>3. v.robot # NoRobot
      BY <3>1, PatrolTask, RobotAssumption DEF NoRobot
    <3> QED BY <1>2, <3>1, <3>2, <3>3 DEF OnlyRobot
  <2> QED BY <2>1, <2>2
<1>8. NobodyMeets'
  <2> SUFFICES ASSUME NEW u \in tasks', NEW v \in tasks', u.moving, v.moving,
                      Current(u) = NextNode(v), NextNode(u) = Current(v)
               PROVE  Current(u) = NextNode(u)
    BY DEF NobodyMeets, Current, NextNode
  <2>1. CASE u = w /\ v = w
    BY <2>1
  <2>2. CASE u = w /\ v # w
    BY <1>1, <2>2
  <2>3. CASE u # w /\ v = w
    BY <1>1, <2>3
  <2>4. CASE u # w /\ v # w
    BY <1>1, <2>4 DEF PatrolInv, NobodyMeets
  <2> QED BY <2>1, <2>2, <2>3, <2>4
<1> QED BY <1>3, <1>4, <1>5, <1>6, <1>7, <1>8 DEF PatrolInv

\* A task that departs meets nobody: the vertex it leaves is its own, so
\* nobody is on the way there.
LEMMA DepartsPatrol ==
    ASSUME OnlyPatrols, PatrolInv, LeakInv', NEW t \in tasks, ~Starting,
           NEW u \in Requesting(t), NEW w, Departs(t, u, w)
    PROVE  PatrolInv'
<1>1. /\ IInv /\ LeakInv /\ t.robot \in Robot /\ t.patrol
      /\ cmd \in [Robot -> Node \cup {NoNode}]
  BY PatrolTask DEF IInv, TypeOK
<1>2. /\ u.robot = t.robot /\ u.patrol = t.patrol /\ Current(u) = Holding(t)
      /\ Current(u) \in Node /\ NextNode(u) \in Node
  BY <1>1, AskTypes
<1>3. /\ w.robot = t.robot /\ w.patrol /\ w.moving /\ Keep(t, w)
      /\ Current(w) = Current(u) /\ NextNode(w) = NextNode(u)
      /\ cmd' = [cmd EXCEPT ![t.robot] = NextNode(w)] /\ place' = place
      /\ report' = report
  BY <1>1, <1>2 DEF Departs, Current, NextNode, Keep, ledger
<1>4. OnItsWay(w)'
  <2>1. place[t.robot] = At(Current(w)) /\ report[t.robot] = At(Current(w))
    BY <1>3, RequestingIsThere
  <2>2. cmd'[t.robot] = NextNode(w)
    BY <1>1, <1>3
  <2>3. At(Current(w)) = At(NextNode(w)) => place[t.robot] = At(NextNode(w))
    BY <2>1
  <2> QED BY <1>3, <2>1, <2>2, <2>3 DEF OnItsWay, Way, Current, NextNode
<1>5. OnlyRobot(t.robot)
  BY <1>1, <1>2, DepartsOwner DEF OnlyRobot
<1>6. ASSUME NEW v \in tasks, v # t, v.moving, Current(w) = NextNode(v) PROVE FALSE
  <2>1. Holding(v) = Holding(t)
    BY <1>2, <1>3, <1>6 DEF Holding
  <2>2. v.robot = t.robot
    BY <2>1, PatrolTask
  <2> QED BY <1>6, <2>2, PatrolTask
<1> QED BY <1>1, <1>3, <1>4, <1>5, <1>6, PatrolKeep

\* A task that stays keeps its vertex.
LEMMA StaysPatrol ==
    ASSUME OnlyPatrols, PatrolInv, LeakInv', NEW t \in tasks, ~Starting,
           NEW u \in Requesting(t), NEW w, Stays(t, u, w)
    PROVE  PatrolInv'
<1>1. /\ IInv /\ LeakInv /\ t.robot \in Robot /\ t.patrol
      /\ traffic.owner[Holding(t)] = t.robot
  BY PatrolTask
<1>2. /\ u \in Task /\ u.idx \in 2..Len(u.path) /\ ~u.moving
      /\ u.robot = t.robot /\ u.patrol = t.patrol /\ Current(u) = Holding(t)
  BY <1>1, AskTypes
<1>3. /\ w.robot = t.robot /\ w.patrol /\ ~w.moving /\ Keep(t, w)
      /\ Current(w) = Current(u)
      /\ place' = place /\ cmd' = cmd /\ report' = report
      /\ traffic' = Ask(u).traffic /\ Ask(u).verdict # "GRANT"
  BY <1>1, <1>2, WaitsAsSpec DEF Stays, WaitsAs, Keep, ledger, world
<1>4. OnItsWay(w)'
  BY <1>3, RequestingIsThere DEF OnItsWay, Current
<1>5. OnlyRobot(t.robot) /\ traffic'.owner = traffic.owner
  BY <1>1, <1>3, AskSpec
<1> QED BY <1>1, <1>2, <1>3, <1>4, <1>5, PatrolKeep

\* So does one that drives on.
LEMMA DrivesOnPatrol ==
    ASSUME OnlyPatrols, PatrolInv, LeakInv', NEW t \in tasks, ~Starting,
           NEW w, DrivesOn(t, w)
    PROVE  PatrolInv'
<1>1. t.patrol /\ OnItsWay(t)
  BY PatrolTask
<1>2. /\ w.robot = t.robot /\ w.patrol /\ w.moving /\ t.moving /\ Keep(t, w)
      /\ Current(w) = Current(t) /\ NextNode(w) = NextNode(t)
      /\ place' = place /\ cmd' = cmd /\ report' = report /\ traffic' = traffic
  BY <1>1 DEF DrivesOn, Same, Current, NextNode, Keep, ledger, world
<1>3. OnItsWay(w)'
  BY <1>1, <1>2 DEF OnItsWay, Way, Current, NextNode
<1>4. OnlyRobot(t.robot)
  BY <1>2 DEF OnlyRobot
<1>5. ASSUME NEW u \in tasks, u # t, u.moving,
             Current(w) = NextNode(u), NextNode(w) = Current(u)
      PROVE  FALSE
  <2>1. Current(t) = NextNode(t)
    BY <1>2, <1>5 DEF PatrolInv, NobodyMeets
  <2>2. Holding(u) = Holding(t)
    BY <1>2, <1>5, <2>1 DEF Holding
  <2>3. u.robot = t.robot
    BY <2>2, PatrolTask
  <2> QED BY <1>5, <2>3, PatrolTask
<1> QED BY <1>2, <1>3, <1>4, <1>5, PatrolKeep

\* Serving a patrol keeps the invariant.
LEMMA ServeTaskPatrol ==
    ASSUME OnlyPatrols, PatrolInv, LeakInv', NEW t \in tasks, ServeTask(t)
    PROVE  PatrolInv'
<1>1. IInv /\ ~Starting
  BY PatrolTask, ServedLater
<1> QED BY <1>1, ServeTaskSpec, PatrolsNeverEnd, DrivesOnPatrol, DepartsPatrol,
           StaysPatrol

-----------------------------------------------------------------------------
(* Starting the patrols                                                    *)

\* The vertex a robot starts its patrol on is free: who holds another one
\* stands on it, and nobody has left the vertex he started on.
LEMMA StartIsFree ==
    ASSUME OnlyPatrols, PatrolInv, Starting, NEW r \in Robot, TasksOf(r) = {},
           NEW n \in Node, StartPlace[r] = At(n)
    PROVE  Free(traffic, r, n)
<1> SUFFICES ASSUME NEW s \in Robot, s # r, traffic.owner[n] = s PROVE FALSE
  <2>1. traffic.owner[n] \in Robot \cup {NoRobot}
    BY DEF PatrolInv, LeakInv, IInv, TypeOK, Traffic
  <2> QED BY <2>1 DEF Free
<1>1. NoLeak(s) /\ mode[s] \notin {"STOP", "CHARGE"}
  BY LeakInvParts DEF PatrolInv
<1>2. PICK t \in tasks : t.robot = s /\ n = Holding(t)
  BY <1>1 DEF NoLeak
<1>3. ~t.moving /\ place[s] = StartPlace[s]
  BY <1>2 DEF PatrolInv, NobodyLeft
<1>4. place[s] = At(n)
  BY <1>2, <1>3, PatrolTask DEF OnItsWay, Holding
<1> QED BY <1>3, <1>4 DEF OnlyPatrols

\* Starting a patrol keeps the invariant: the claim succeeds, although the
\* code does not look.
LEMMA StartPatrolPatrol ==
    ASSUME OnlyPatrols, PatrolInv, LeakInv', NEW r \in Robot, start_patrol(r)
    PROVE  PatrolInv'
<1>1. IInv /\ Starting /\ r \in Idlers /\ TasksOf(r) = {}
  BY DEF PatrolInv, LeakInv, start_patrol, Starting, Idlers
<1>2. /\ cursor' = 0
      /\ UNCHANGED <<known, report, battery, mode, place, cmd>>
  BY DEF start_patrol, world
<1>3. PICK n \in Node : OnRoute(n) /\ StartPlace[r] = At(n)
  BY DEF OnlyPatrols
<1>4. cmd[r] = NoNode /\ place[r] = At(n) /\ report[r] = At(n)
  BY <1>1, <1>3 DEF PatrolInv
<1>5. PICK path \in Seq(Node) :
        /\ path \in make_patrol_path(report[r])
        /\ tasks' = TasksWithout(r) \cup {NewTask(r, path, TRUE)}
        /\ \E p \in Int :
             traffic' = request_move(traffic, r, path[1], path[1], p).traffic
  BY <1>1, StartPatrolClaims
<1>6. path[1] = n
  <2>1. Len(PatrolRoute) >= 2 /\ report[r] \in Position
    BY <1>1, WorldType DEF Starting, Patrollable, IInv
  <2>2. NearestNode(report[r]) = n
    BY <1>4 DEF NearestNode, At
  <2> QED BY <1>3, <1>5, <2>1, <2>2, LapEnds
<1> DEFINE new == NewTask(r, path, TRUE)
<1>7. /\ new.robot = r /\ new.patrol /\ ~new.moving /\ Current(new) = n
  BY <1>6 DEF NewTask, Current
<1>8. tasks' = tasks \cup {new}
  BY <1>1, <1>5 DEF TasksWithout
<1> HIDE DEF new
<1>9. traffic'.owner = [traffic.owner EXCEPT ![n] = r] /\ Free(traffic, r, n)
  <2>1. PICK p \in Int : traffic' = request_move(traffic, r, n, n, p).traffic
    BY <1>5, <1>6
  <2>2. Free(traffic, r, n)
    BY <1>1, <1>3, StartIsFree
  <2>3. traffic \in Traffic
    BY <1>1, WorldType DEF IInv
  <2> QED BY <1>3, <2>1, <2>2, <2>3, RequestMoveOwner
<1>10. ASSUME NEW v \in tasks' PROVE v.patrol /\ OnItsWay(v)' /\ ~v.moving
  <2>1. CASE v = new
    BY <1>2, <1>4, <1>7, <2>1 DEF OnItsWay, Current
  <2>2. CASE v # new
    <3>1. v \in tasks /\ v.patrol /\ OnItsWay(v) /\ ~v.moving
      BY <1>1, <1>8, <2>2, PatrolTask DEF PatrolInv, NobodyLeft
    <3> QED BY <1>2, <3>1 DEF OnItsWay, Current, NextNode
  <2> QED BY <2>1, <2>2
<1>11. ASSUME NEW s \in Robot, TasksOf(s)' = {}
       PROVE  cmd'[s] = NoNode /\ place'[s] = StartPlace[s] /\ report'[s] = StartPlace[s]
  <2>1. TasksOf(s) = {}
    BY <1>8, <1>11 DEF TasksOf
  <2> QED BY <1>2, <2>1 DEF PatrolInv
<1>12. NobodyLeft'
  <2>1. ASSUME NEW v \in tasks' PROVE place'[v.robot] = StartPlace[v.robot]
    BY <1>1, <1>2, <1>3, <1>4, <1>7, <1>8 DEF PatrolInv, NobodyLeft
  <2> QED BY <1>2, <1>10, <2>1 DEF NobodyLeft
<1>13. StandersHold'
  <2> SUFFICES ASSUME NEW v \in tasks'
               PROVE  traffic'.owner[Current(v)] = v.robot
    BY DEF StandersHold, Current
  <2>1. traffic.owner \in [Node -> Robot \cup {NoRobot}]
    BY <1>1, WorldType DEF IInv, Traffic
  <2>2. CASE v = new
    BY <1>3, <1>7, <1>9, <2>1, <2>2
  <2>3. CASE v # new
    <3>1. v \in tasks /\ ~v.moving
      BY <1>8, <1>10, <2>3
    <3>2. traffic.owner[Current(v)] = v.robot /\ Current(v) \in Node /\ v.robot # r
      BY <1>1, <3>1, PatrolTask DEF Holding, TasksOf
    <3>3. Current(v) # n
      <4>1. v.robot # NoRobot
        BY <3>1, PatrolTask, RobotAssumption DEF NoRobot
      <4> QED BY <1>9, <3>2, <4>1 DEF Free
    <3> QED BY <1>9, <2>1, <3>2, <3>3
  <2> QED BY <2>2, <2>3
<1>14. NobodyMeets'
  BY <1>10 DEF NobodyMeets
<1>15. known' = Robot /\ \A s \in Robot : mode'[s] \in {"PATROL", "IDLE"}
  BY <1>2 DEF PatrolInv
<1> QED BY <1>10, <1>11, <1>12, <1>13, <1>14, <1>15 DEF PatrolInv

-----------------------------------------------------------------------------
(* Robots                                                                  *)

\* A step that leaves the node's tasks and reservations alone keeps the
\* invariant if the robots stay where they should be, and nobody moves before
\* every robot has its patrol.
LEMMA PatrolQuiet ==
    ASSUME PatrolInv, LeakInv',
           UNCHANGED <<known, busy, mode, tasks, task_seq, traffic, cursor>>,
           \A t \in tasks : OnItsWay(t)',
           \A r \in Robot : TasksOf(r) = {} =>
               cmd'[r] = cmd[r] /\ place'[r] = place[r] /\ report'[r] = place[r],
           Starting => place' = place
    PROVE  PatrolInv'
<1>1. Starting' <=> Starting
  BY DEF Starting, Patrollable, Idlers, TasksOf, mode_of
<1>2. Starting' => NobodyLeft'
  BY <1>1 DEF PatrolInv, NobodyLeft
<1>3. \A r \in Robot : TasksOf(r)' = {} =>
        cmd'[r] = NoNode /\ place'[r] = StartPlace[r] /\ report'[r] = StartPlace[r]
  BY DEF PatrolInv, TasksOf
<1>4. StandersHold' /\ NobodyMeets'
  BY DEF PatrolInv, StandersHold, NobodyMeets, Current, NextNode
<1>5. \A t \in tasks' : t.patrol /\ OnItsWay(t)'
  BY DEF PatrolInv
<1>6. known' = Robot /\ \A r \in Robot : mode'[r] \in {"PATROL", "IDLE"}
  BY DEF PatrolInv
<1> QED BY <1>2, <1>3, <1>4, <1>5, <1>6 DEF PatrolInv

\* A report tells where the robot is.
LEMMA RobotStatePatrol ==
    ASSUME OnlyPatrols, PatrolInv, LeakInv', NEW r \in Robot, on_robot_state(r)
    PROVE  PatrolInv'
<1>1. /\ report \in [Robot -> Position] /\ mode \in [Robot -> Mode \cup {"NONE"}]
  BY WorldType DEF PatrolInv, LeakInv, IInv
<1>2. /\ report' = [report EXCEPT ![r] = place[r]]
      /\ UNCHANGED <<busy, tasks, task_seq, traffic, cursor, place, cmd>>
      /\ known' = known
  BY DEF on_robot_state, world, PatrolInv
<1>3. mode' = mode
  BY <1>1 DEF on_robot_state, PatrolInv
<1>4. ASSUME NEW t \in tasks PROVE OnItsWay(t)'
  BY <1>1, <1>2, PatrolTask DEF OnItsWay, Way, Current, NextNode
<1>5. \A s \in Robot : TasksOf(s) = {} => report'[s] = place[s]
  BY <1>1, <1>2 DEF PatrolInv
<1> QED BY <1>2, <1>3, <1>4, <1>5, PatrolQuiet

\* A robot only moves towards the vertex it was sent to, and then its task is
\* on the way.
LEMMA DrivePatrol ==
    ASSUME OnlyPatrols, PatrolInv, LeakInv', NEW r \in Robot, Drive(r)
    PROVE  PatrolInv'
<1>1. /\ place' = [place EXCEPT ![r] = Toward(place[r], cmd[r])]
      /\ cmd[r] # NoNode /\ place[r] # At(cmd[r])
      /\ UNCHANGED <<known, report, busy, mode, tasks, task_seq, traffic, cursor, cmd>>
  BY DEF Drive, ledger
<1>2. place \in [Robot -> Position]
  BY DEF PatrolInv, LeakInv, IInv, TypeOK
<1>3. PICK t \in tasks : t.robot = r
  BY <1>1 DEF PatrolInv, TasksOf
<1>4. t.moving
  BY <1>1, <1>3, PatrolTask DEF OnItsWay
<1>5. ~Starting
  BY <1>4 DEF PatrolInv, NobodyLeft
<1>6. OnItsWay(t)'
  <2> DEFINE c == Current(t)
             n == NextNode(t)
  <2>1. /\ cmd[r] = n /\ {place[r], report[r]} \subseteq Way(c, n)
        /\ report[r] = At(n) => place[r] = At(n)
    BY <1>3, <1>4, PatrolTask DEF OnItsWay
  <2>2. Toward(place[r], n) \in Way(c, n)
    BY <1>1, <2>1 DEF Toward, Way, At
  <2>3. place'[r] = Toward(place[r], n)
    BY <1>1, <1>2, <2>1
  <2>4. report[r] # At(n)
    BY <1>1, <2>1
  <2> QED BY <1>1, <1>3, <1>4, <2>1, <2>2, <2>3, <2>4 DEF OnItsWay, Current, NextNode
<1>7. ASSUME NEW v \in tasks PROVE OnItsWay(v)'
  <2>1. CASE v = t
    BY <1>6, <2>1
  <2>2. CASE v # t
    <3>1. v.robot # r /\ v.robot \in Robot /\ OnItsWay(v)
      BY <1>3, <2>2, PatrolTask
    <3>2. place'[v.robot] = place[v.robot]
      BY <1>1, <1>2, <3>1
    <3> QED BY <1>1, <3>1, <3>2 DEF OnItsWay, Current, NextNode
  <2> QED BY <2>1, <2>2
<1>8. ASSUME NEW s \in Robot, TasksOf(s) = {}
      PROVE  place'[s] = place[s] /\ report'[s] = place[s]
  BY <1>1, <1>2, <1>3, <1>8 DEF TasksOf, PatrolInv
<1> QED BY <1>1, <1>5, <1>7, <1>8, PatrolQuiet

-----------------------------------------------------------------------------
(* Lanes                                                                   *)

\* The invariant holds before the first tick.
LEMMA InitPatrol == ASSUME OnlyPatrols, AllSeenInit PROVE PatrolInv
<1>1. LeakInv
  BY AllSeenIInv, EmptyLeak DEF AllSeenInit, LeakInv
<1>2. /\ tasks = {} /\ known = Robot /\ cursor = Idle
      /\ place = StartPlace /\ report = StartPlace
      /\ \A r \in Robot : cmd[r] = NoNode /\ mode[r] \in {"PATROL", "IDLE"}
  BY DEF AllSeenInit
<1> QED BY <1>1, <1>2 DEF PatrolInv, NobodyLeft, StandersHold, NobodyMeets, OnItsWay

\* Every step keeps it.
LEMMA NextPatrol == ASSUME OnlyPatrols, PatrolInv, [Next]_vars PROVE PatrolInv'
<1>1. LeakInv'
  BY NextLeak DEF PatrolInv
<1>2. CASE on_timer
  BY <1>1, <1>2, ServeTaskPatrol, StartPatrolPatrol DEF on_timer, Serve, ServeTask
<1>3. ASSUME NEW r \in Robot, on_robot_state(r) \/ Drive(r) PROVE PatrolInv'
  BY <1>1, <1>3, RobotStatePatrol, DrivePatrol
<1>4. ASSUME UNCHANGED <<known, report, busy, mode, tasks, task_seq, traffic,
                         cursor, place, cmd>>
      PROVE  PatrolInv'
  <2>1. \A t \in tasks : OnItsWay(t)'
    BY <1>4, PatrolTask DEF OnItsWay, Current, NextNode
  <2>2. \A r \in Robot : TasksOf(r) = {} => report'[r] = place[r]
    BY <1>4 DEF PatrolInv
  <2> QED BY <1>1, <1>4, <2>1, <2>2, PatrolQuiet
<1>5. CASE Operator
  <2>1. PICK r \in Managed, level \in Levels : on_set_battery(r, level)
    BY <1>5 DEF Operator, OnlyPatrols, on_set_plugins
  <2>2. known' = known
    BY <2>1, InputAssumption DEF on_set_battery, PatrolInv
  <2> QED BY <1>4, <2>1, <2>2 DEF on_set_battery, world
<1>6. CASE UNCHANGED vars
  BY <1>4, <1>6 DEF vars, ledger, world
<1> QED BY <1>2, <1>3, <1>5, <1>6 DEF Next

\* The inductive invariant of the patrols.
THEOREM PatrolInvariantHolds ==
    ASSUME OnlyPatrols
    PROVE  AllSeenSpec => []PatrolInv
<1>1. AllSeenInit => PatrolInv
  BY InitPatrol
<1>2. PatrolInv /\ [Next]_vars => PatrolInv'
  BY NextPatrol
<1> QED BY <1>1, <1>2, PTL DEF AllSeenSpec

\* A standing robot holds the vertex it stands on, although no handler looks
\* at the answer to the claim of a first vertex.
THEOREM StandersHoldTheirVertex ==
    ASSUME OnlyPatrols
    PROVE  AllSeenSpec => []StandersHold
<1>1. PatrolInv => StandersHold
  BY DEF PatrolInv
<1> QED BY <1>1, PatrolInvariantHolds, PTL

\* A robot inside a lane is on the way of its task.
LEMMA InsideLane ==
    ASSUME OnlyPatrols, PatrolInv, NEW r \in Robot, place[r][1] # place[r][2]
    PROVE  \E t \in tasks :
              /\ t.robot = r /\ t.moving
              /\ {place[r][1], place[r][2]} = {Current(t), NextNode(t)}
<1>1. PICK n \in Node : StartPlace[r] = At(n)
  BY DEF OnlyPatrols
<1>2. PICK t \in tasks : t.robot = r
  BY <1>1 DEF PatrolInv, TasksOf, At
<1>3. OnItsWay(t)
  BY PatrolTask
<1>4. t.moving
  BY <1>2, <1>3 DEF OnItsWay, At
<1>5. place[r] \in Way(Current(t), NextNode(t))
  BY <1>2, <1>3, <1>4 DEF OnItsWay
<1>6. \/ place[r] = <<Current(t), NextNode(t)>>
      \/ place[r] = <<NextNode(t), Current(t)>>
  BY <1>5 DEF Way, At
<1> QED BY <1>2, <1>4, <1>6

\* Two robots that patrol are never inside the same lane, in whichever
\* direction: collisions between vertices are excluded, not only those on them.
THEOREM LanesAreExclusive ==
    ASSUME OnlyPatrols
    PROVE  AllSeenSpec => []LaneExclusive
<1>1. ASSUME PatrolInv PROVE LaneExclusive
  <2> SUFFICES ASSUME NEW r \in Robot, NEW s \in Robot, r # s,
                      place[r][1] # place[r][2],
                      {place[r][1], place[r][2]} = {place[s][1], place[s][2]}
               PROVE  FALSE
    BY DEF LaneExclusive
  <2>1. place[s][1] # place[s][2]
    OBVIOUS
  <2>2. PICK t \in tasks : /\ t.robot = r /\ t.moving
                           /\ {place[r][1], place[r][2]} = {Current(t), NextNode(t)}
    BY <1>1, InsideLane
  <2>3. PICK u \in tasks : /\ u.robot = s /\ u.moving
                           /\ {place[s][1], place[s][2]} = {Current(u), NextNode(u)}
    BY <1>1, <2>1, InsideLane
  <2>4. NextNode(t) # NextNode(u)
    BY <1>1, <2>2, <2>3, PatrolTask DEF Holding
  <2>5. {Current(t), NextNode(t)} = {Current(u), NextNode(u)}
    BY <2>2, <2>3
  <2>6. Current(t) = NextNode(u) /\ NextNode(t) = Current(u)
    BY <2>4, <2>5
  <2>7. Current(t) = NextNode(t)
    BY <1>1, <2>2, <2>3, <2>6 DEF PatrolInv, NobodyMeets
  <2> QED BY <2>2, <2>7
<1> QED BY <1>1, PatrolInvariantHolds, PTL

-----------------------------------------------------------------------------
(* Following the edges of a wait-for graph                                 *)

WaitGraph == [Robot -> Robot \cup {NoRobot}]

\* The recursion of Follow is well founded: it has a value at every step.
LEMMA FollowIs ==
    ASSUME NEW w \in WaitGraph, NEW r \in Robot
    PROVE  LET f == Follow(w, r)
           IN  /\ Cardinality(Robot) \in Nat
               /\ f \in [0..Cardinality(Robot) -> Robot \cup {NoRobot}]
               /\ f[0] = r
               /\ \A k \in 1..Cardinality(Robot) :
                    f[k] = IF f[k - 1] = NoRobot THEN NoRobot ELSE w[f[k - 1]]
<1> DEFINE N == Cardinality(Robot)
           V == Robot \cup {NoRobot}
           D == 0..N
           B == {0}
           next == [k \in D |-> k - 1]
           rank == [k \in D |-> k]
           base == [k \in B |-> r]
           step == [a \in (D \ B) \X V |-> IF a[2] = NoRobot THEN NoRobot ELSE w[a[2]]]
           Eq(f) == f = [k \in D |-> IF k = 0 THEN r
                                     ELSE IF f[k - 1] = NoRobot THEN NoRobot
                                     ELSE w[f[k - 1]]]
<1>1. N \in Nat
  BY RobotAssumption, FS_CardinalityType
<1>2. WellRanked(D, B, next, rank, N)
  BY <1>1 DEF WellRanked
<1>3. base \in [B -> V] /\ step \in [(D \ B) \X V -> V]
  BY DEF WaitGraph
<1>4. PICK h \in [D -> V] : IsRecursive(h, D, B, next, base, step)
  <2> HIDE DEF D, V, B, next, rank, base, step
  <2> QED BY <1>2, <1>3, RecursionExists
<1>5. \A k \in D : h[k] = IF k = 0 THEN r
                          ELSE IF h[k - 1] = NoRobot THEN NoRobot ELSE w[h[k - 1]]
  <2> SUFFICES ASSUME NEW k \in D
               PROVE  h[k] = IF k = 0 THEN r
                             ELSE IF h[k - 1] = NoRobot THEN NoRobot ELSE w[h[k - 1]]
    OBVIOUS
  <2>1. CASE k = 0
    BY <1>4, <2>1 DEF IsRecursive
  <2>2. CASE k # 0
    <3>1. k - 1 \in D /\ h[k - 1] \in V
      BY <1>1, <2>2
    <3>2. h[k] = step[<<k, h[next[k]]>>] /\ next[k] = k - 1
      BY <1>4, <2>2 DEF IsRecursive
    <3> QED BY <2>2, <3>1, <3>2
  <2> QED BY <2>1, <2>2
<1>6. Eq(h)
  <2> DEFINE g == [k \in D |-> IF k = 0 THEN r
                               ELSE IF h[k - 1] = NoRobot THEN NoRobot
                               ELSE w[h[k - 1]]]
  <2>1. \A k \in D : h[k] = g[k]
    BY <1>5
  <2>2. h = g
    BY <1>4, <2>1
  <2> QED BY <2>2
<1> DEFINE F == Follow(w, r)
<1>7. Eq(F)
  BY <1>6 DEF Follow
<1> HIDE DEF F
<1>8. /\ F = [k \in D |-> F[k]] /\ F[0] = r
      /\ \A k \in 1..N :
            F[k] = IF F[k - 1] = NoRobot THEN NoRobot ELSE w[F[k - 1]]
  BY <1>1, <1>7
<1>9. \A k \in D : F[k] = h[k]
  <2>1. \A k \in B : F[k] = h[k]
    BY <1>1, <1>5, <1>8
  <2>2. ASSUME NEW k \in D \ B, F[next[k]] = h[next[k]] PROVE F[k] = h[k]
    <3>1. k \in 1..N /\ k # 0 /\ next[k] = k - 1
      BY <1>1
    <3> QED BY <1>5, <1>8, <2>2, <3>1
  <2> HIDE DEF D, B, next, rank
  <2> QED BY <1>2, <2>1, <2>2, RecursionIsUnique
<1> QED BY <1>1, <1>4, <1>8, <1>9 DEF F

\* Once two walks meet they stay together.
LEMMA FollowTogether ==
    ASSUME NEW w \in WaitGraph, NEW x \in Robot, NEW y \in Robot,
           NEW a \in Nat, NEW b \in Nat, NEW n \in Nat,
           a + n <= Cardinality(Robot), b + n <= Cardinality(Robot),
           Follow(w, x)[a] = Follow(w, y)[b]
    PROVE  Follow(w, x)[a + n] = Follow(w, y)[b + n]
<1> DEFINE N == Cardinality(Robot)
           f == Follow(w, x)
           g == Follow(w, y)
           T == {j \in 0..n : f[a + j] # g[b + j]}
<1>1. /\ N \in Nat
      /\ \A k \in 1..N : f[k] = IF f[k - 1] = NoRobot THEN NoRobot ELSE w[f[k - 1]]
      /\ \A k \in 1..N : g[k] = IF g[k - 1] = NoRobot THEN NoRobot ELSE w[g[k - 1]]
  BY FollowIs
<1> HIDE DEF f, g
<1> SUFFICES ASSUME T # {} PROVE FALSE
  BY DEF f, g
<1>2. PICK m \in T : \A j \in T : m <= j
  <2>1. T \in SUBSET Nat
    OBVIOUS
  <2> QED BY <2>1, LeastNatural
<1>3. m # 0
  BY DEF f, g
<1>4. /\ m - 1 \in 0..n /\ m - 1 \notin T
  BY <1>2, <1>3
<1>5. f[(a + m) - 1] = g[(b + m) - 1]
  <2>1. (a + m) - 1 = a + (m - 1) /\ (b + m) - 1 = b + (m - 1)
    OBVIOUS
  <2> QED BY <1>4, <2>1
<1>6. f[a + m] = g[b + m]
  <2>1. a + m \in 1..N /\ b + m \in 1..N
    BY <1>1, <1>3
  <2> QED BY <1>1, <1>5, <2>1
<1> QED BY <1>6

\* A walk that comes back to r has only been to robots, and all it ever visits
\* it visits before it comes back.
LEMMA ClosedWalk ==
    ASSUME NEW w \in WaitGraph, NEW r \in Robot,
           NEW k \in 1..Cardinality(Robot), Follow(w, r)[k] = r
    PROVE  LET f == Follow(w, r)
           IN  /\ \A j \in 0..k : f[j] \in Robot
               /\ \A j \in 0..(k - 1) : w[f[j]] = f[j + 1]
               /\ CycleMembers(w, r) = {f[j] : j \in 0..(k - 1)}
<1> DEFINE N == Cardinality(Robot)
           f == Follow(w, r)
           M == {f[j] : j \in 0..(k - 1)}
<1>1. /\ N \in Nat
      /\ f \in [0..N -> Robot \cup {NoRobot}] /\ f[0] = r
      /\ \A j \in 1..N : f[j] = IF f[j - 1] = NoRobot THEN NoRobot ELSE w[f[j - 1]]
  BY FollowIs
<1>2. f[k] = r /\ r # NoRobot
  BY RobotAssumption DEF NoRobot
<1> HIDE DEF f
<1>3. \A j \in 0..k : f[j] # NoRobot
  <2> DEFINE T == {j \in 0..k : f[k - j] = NoRobot}
  <2>1. ASSUME T # {} PROVE FALSE
    <3>1. PICK m \in T : \A j \in T : m <= j
      <4>1. T \in SUBSET Nat
        OBVIOUS
      <4> QED BY <2>1, <4>1, LeastNatural
    <3>2. m # 0
      BY <1>1, <1>2
    <3>3. m - 1 \in 0..k /\ m - 1 \notin T
      BY <3>1, <3>2
    <3>4. (k - m) + 1 \in 1..N /\ ((k - m) + 1) - 1 = k - m /\ k - (m - 1) = (k - m) + 1
      BY <1>1, <3>2
    <3>5. f[(k - m) + 1] = NoRobot
      BY <1>1, <3>4
    <3> QED BY <3>3, <3>4, <3>5
  <2>2. \A j \in 0..k : k - j \in 0..k /\ k - (k - j) = j
    OBVIOUS
  <2> QED BY <2>1, <2>2
<1>4. \A j \in 0..k : f[j] \in Robot
  BY <1>1, <1>3
<1>5. ASSUME NEW j \in 0..(k - 1) PROVE w[f[j]] = f[j + 1]
  <2>1. j + 1 \in 1..N /\ (j + 1) - 1 = j /\ j \in 0..k
    BY <1>1
  <2> QED BY <1>1, <1>3, <2>1
<1>6. \A j \in 0..N : f[j] \in M
  <2> DEFINE T == {j \in 0..N : f[j] \notin M}
  <2> SUFFICES ASSUME T # {} PROVE FALSE
    OBVIOUS
  <2>1. PICK m \in T : \A j \in T : m <= j
    <3>1. T \in SUBSET Nat
      BY <1>1
    <3> QED BY <3>1, LeastNatural
  <2>2. m >= k
    BY <2>1
  <2>3. m - 1 \in 0..N /\ m - 1 \notin T /\ m \in 1..N
    BY <1>1, <2>1, <2>2
  <2>4. PICK i \in 0..(k - 1) : f[m - 1] = f[i]
    BY <2>3
  <2>5. f[m] = f[i + 1]
    <3>1. f[i] # NoRobot
      BY <1>3
    <3> QED BY <1>1, <1>5, <2>3, <2>4, <3>1
  <2>6. CASE i + 1 = k
    <3>1. 0 \in 0..(k - 1)
      OBVIOUS
    <3> QED BY <1>1, <1>2, <2>1, <2>5, <2>6, <3>1
  <2>7. CASE i + 1 # k
    <3>1. i + 1 \in 0..(k - 1)
      BY <2>7
    <3> QED BY <2>1, <2>5, <3>1
  <2> QED BY <2>6, <2>7
<1>7. CycleMembers(w, r) = M
  <2>1. 0..(k - 1) \subseteq 0..N
    BY <1>1
  <2> QED BY <1>6, <2>1 DEF CycleMembers, f
<1> QED BY <1>4, <1>5, <1>7 DEF f

\* So the robots of a circle wait for each other.
LEMMA CircleSpec ==
    ASSUME NEW w \in WaitGraph, NEW r \in Robot, find_cycle(w, r)
    PROVE  /\ r \in CycleMembers(w, r)
           /\ CycleMembers(w, r) \subseteq Robot
           /\ \A s \in CycleMembers(w, r) : w[s] \in CycleMembers(w, r)
<1> DEFINE f == Follow(w, r)
<1>1. PICK k \in 1..Cardinality(Robot) : f[k] = r
  BY DEF find_cycle
<1>2. /\ Cardinality(Robot) \in Nat /\ f[0] = r
      /\ \A j \in 0..k : f[j] \in Robot
      /\ \A j \in 0..(k - 1) : w[f[j]] = f[j + 1]
      /\ CycleMembers(w, r) = {f[j] : j \in 0..(k - 1)}
  <2>1. Cardinality(Robot) \in Nat /\ f[0] = r
    BY FollowIs
  <2> QED BY <1>1, <2>1, ClosedWalk
<1> HIDE DEF f
<1>3. 0 \in 0..(k - 1) /\ 0..(k - 1) \subseteq 0..k
  BY <1>2
<1>4. ASSUME NEW j \in 0..(k - 1) PROVE f[j + 1] \in CycleMembers(w, r)
  <2>1. CASE j + 1 = k
    BY <1>1, <1>2, <1>3, <2>1
  <2>2. CASE j + 1 # k
    <3>1. j + 1 \in 0..(k - 1)
      BY <1>2, <2>2
    <3> QED BY <1>2, <3>1
  <2> QED BY <2>1, <2>2
<1> QED BY <1>2, <1>3, <1>4

\* All robots of a circle find the same circle.
LEMMA CircleOfMember ==
    ASSUME NEW w \in WaitGraph, NEW r \in Robot, find_cycle(w, r),
           NEW s \in CycleMembers(w, r)
    PROVE  /\ s \in Robot /\ find_cycle(w, s)
           /\ CycleMembers(w, s) = CycleMembers(w, r)
<1> DEFINE N == Cardinality(Robot)
           f == Follow(w, r)
           g == Follow(w, s)
<1>1. PICK k \in 1..N : f[k] = r
  BY DEF find_cycle
<1>2. /\ N \in Nat /\ f[0] = r
      /\ CycleMembers(w, r) = {f[j] : j \in 0..(k - 1)}
  BY <1>1, ClosedWalk, FollowIs
<1>3. PICK i \in 0..(k - 1) : s = f[i]
  BY <1>2
<1>4. s \in Robot /\ g[0] = s
  BY CircleSpec, FollowIs
<1>5. \A n \in Nat : i + n <= N => g[n] = f[i + n]
  <2> SUFFICES ASSUME NEW n \in Nat, i + n <= N PROVE g[n] = f[i + n]
    OBVIOUS
  <2>1. g[0 + n] = f[i + n]
    BY <1>2, <1>3, <1>4, FollowTogether
  <2> QED BY <2>1
<1>6. \A n \in Nat : (k - i) + n <= N => g[(k - i) + n] = f[n]
  <2> SUFFICES ASSUME NEW n \in Nat, (k - i) + n <= N PROVE g[(k - i) + n] = f[n]
    OBVIOUS
  <2>1. k - i \in Nat /\ i + (k - i) = k /\ k <= N
    BY <1>2
  <2>2. g[k - i] = f[0]
    BY <1>1, <1>2, <1>5, <2>1
  <2>3. g[(k - i) + n] = f[0 + n]
    BY <1>2, <1>4, <2>1, <2>2, FollowTogether
  <2> QED BY <2>3
<1> HIDE DEF f, g
<1>7. g[k] = s
  <2>1. (k - i) + i = k /\ k <= N /\ i \in Nat
    BY <1>2
  <2> QED BY <1>3, <1>6, <2>1
<1>8. find_cycle(w, s)
  BY <1>7 DEF find_cycle, g
<1>9. CycleMembers(w, s) = {g[j] : j \in 0..(k - 1)}
  BY <1>4, <1>7, ClosedWalk DEF g
<1>10. ASSUME NEW j \in 0..(k - 1) PROVE g[j] \in CycleMembers(w, r)
  <2>1. CASE i + j <= k - 1
    <3>1. i + j \in 0..(k - 1) /\ i + j <= N /\ j \in Nat
      BY <1>2, <2>1
    <3> QED BY <1>2, <1>5, <3>1
  <2>2. CASE i + j >= k
    <3>1. /\ (i + j) - k \in Nat /\ (i + j) - k \in 0..(k - 1)
          /\ (k - i) + ((i + j) - k) = j /\ j <= N
      BY <1>2, <2>2
    <3> QED BY <1>2, <1>6, <3>1
  <2>3. i + j <= k - 1 \/ i + j >= k
    OBVIOUS
  <2> QED BY <2>1, <2>2, <2>3
<1>11. ASSUME NEW j \in 0..(k - 1) PROVE f[j] \in CycleMembers(w, s)
  <2>1. CASE j >= i
    <3>1. /\ j - i \in 0..(k - 1) /\ j - i \in Nat
          /\ i + (j - i) = j /\ j <= N
      BY <1>2, <2>1
    <3> QED BY <1>5, <1>9, <3>1
  <2>2. CASE j < i
    <3>1. (k - i) + j \in 0..(k - 1) /\ (k - i) + j <= N /\ j \in Nat
      BY <1>2, <2>2
    <3> QED BY <1>6, <1>9, <3>1
  <2> QED BY <2>1, <2>2
<1> QED BY <1>2, <1>4, <1>8, <1>9, <1>10, <1>11

\* Every circle is found, however long the chain of edges that closes it: the
\* bound of Follow leaves none out.
THEOREM CirclesAreFound ==
    ASSUME NEW w \in WaitGraph, NEW n \in Nat \ {0},
           NEW chain \in [0..n -> Robot], chain[0] = chain[n],
           \A i \in 0..(n - 1) : w[chain[i]] = chain[i + 1]
    PROVE  find_cycle(w, chain[0])
<1> DEFINE N == Cardinality(Robot)
           r == chain[0]
           Closes(g, k) == /\ g \in [0..k -> Robot] /\ g[0] = r /\ g[k] = r
                           /\ \A i \in 0..(k - 1) : w[g[i]] = g[i + 1]
           T == {k \in Nat \ {0} : \E g \in [0..k -> Robot] : Closes(g, k)}
<1>1. N \in Nat /\ IsFiniteSet(Robot)
  BY RobotAssumption, FS_CardinalityType
<1>2. PICK k \in T : \A j \in T : k <= j
  <2>1. Closes(chain, n)
    OBVIOUS
  <2>2. T \in SUBSET Nat /\ n \in T
    BY <2>1
  <2> QED BY <2>2, LeastNatural
<1>3. PICK g \in [0..k -> Robot] : Closes(g, k)
  OBVIOUS
<1>4. k \in Nat \ {0} /\ r \in Robot
  OBVIOUS
<1>5. k <= N
  <2> SUFFICES ASSUME k > N PROVE FALSE
    BY <1>1, <1>4
  <2> DEFINE S == 0..(k - 1)
             h == [i \in S |-> g[i]]
  <2>1. IsFiniteSet(S) /\ Cardinality(S) = k
    <3>1. 0 \in Int /\ k - 1 \in Int /\ ~(0 > k - 1) /\ (k - 1) - 0 + 1 = k
      BY <1>4
    <3> QED BY <3>1, FS_Interval
  <2>2. h \in [S -> Robot]
    BY <1>4
  <2>3. PICK x \in S, y \in S : x # y /\ h[x] = h[y]
    <3> HIDE DEF S, h
    <3> QED BY <1>1, <2>1, <2>2, FS_PigeonHole
  <2>4. PICK a \in S, b \in S : a < b /\ g[a] = g[b]
    BY <1>4, <2>3
  <2> DEFINE d == b - a
             c == [i \in 0..(k - d) |-> IF i <= a THEN g[i] ELSE g[i + d]]
  <2>5. /\ a \in Nat /\ d \in Nat \ {0} /\ d < k
        /\ k - d \in Nat \ {0} /\ a + d = b /\ a < k - d
    BY <1>4, <2>4
  <2>6. \A i \in 0..(k - d) : i \in 0..k /\ i + d \in 0..k
    BY <1>4, <2>5
  <2>7. c \in [0..(k - d) -> Robot]
    BY <2>6
  <2>8. c[0] = r /\ c[k - d] = r
    <3> HIDE DEF d
    <3>0. k \in Nat /\ d \in Nat /\ k - d \in Nat
      BY <1>4, <2>5
    <3>1. 0 \in 0..(k - d) /\ k - d \in 0..(k - d) /\ (k - d) + d = k
      BY <3>0
    <3>2. c[0] = g[0]
      BY <2>5, <3>1
    <3>3. c[k - d] = g[(k - d) + d]
      BY <2>5, <3>1
    <3> QED BY <1>3, <3>1, <3>2, <3>3
  <2>9. ASSUME NEW i \in 0..((k - d) - 1) PROVE w[c[i]] = c[i + 1]
    <3> HIDE DEF d
    <3>1. /\ i \in 0..(k - d) /\ i + 1 \in 0..(k - d)
          /\ i \in 0..(k - 1) /\ i + d \in 0..(k - 1) /\ (i + 1) + d = (i + d) + 1
      BY <1>4, <2>5
    <3>2. w[g[i]] = g[i + 1] /\ w[g[i + d]] = g[(i + 1) + d]
      BY <1>3, <3>1
    <3>3. CASE i + 1 <= a
      BY <1>4, <2>5, <3>1, <3>2, <3>3
    <3>4. CASE i = a
      <4>1. c[i] = g[b]
        BY <2>4, <3>1, <3>4
      <4>2. c[i + 1] = g[(i + 1) + d]
        BY <2>5, <3>1, <3>4
      <4> QED BY <2>5, <3>2, <3>4, <4>1, <4>2
    <3>5. CASE i > a
      BY <1>4, <2>5, <3>1, <3>2, <3>5
    <3> QED BY <3>3, <3>4, <3>5
  <2> HIDE DEF d, c
  <2>10. Closes(c, k - d)
    BY <2>7, <2>8, <2>9
  <2>11. k - d \in T
    BY <2>5, <2>7, <2>10
  <2> QED BY <1>2, <1>4, <2>5, <2>11
<1> DEFINE f == Follow(w, r)
<1>6. /\ f[0] = r
      /\ \A j \in 1..N : f[j] = IF f[j - 1] = NoRobot THEN NoRobot ELSE w[f[j - 1]]
  BY <1>4, FollowIs
<1> HIDE DEF f
<1>7. \A i \in 0..k : f[i] = g[i]
  <2> DEFINE U == {i \in 0..k : f[i] # g[i]}
  <2> SUFFICES ASSUME U # {} PROVE FALSE
    OBVIOUS
  <2>1. PICK m \in U : \A i \in U : m <= i
    <3>1. U \in SUBSET Nat
      BY <1>4
    <3> QED BY <3>1, LeastNatural
  <2>2. m # 0
    BY <1>3, <1>6
  <2>3. m - 1 \in 0..(k - 1) /\ m - 1 \notin U /\ m \in 1..N /\ (m - 1) + 1 = m
    BY <1>1, <1>4, <1>5, <2>1, <2>2
  <2>4. m - 1 \in 0..k /\ f[m - 1] = g[m - 1] /\ g[m - 1] \in Robot
    BY <1>4, <2>3
  <2>5. g[m - 1] # NoRobot
    BY <2>4, RobotAssumption DEF NoRobot
  <2> QED BY <1>3, <1>6, <2>1, <2>3, <2>4, <2>5
<1>8. f[k] = r /\ k \in 1..N
  BY <1>1, <1>3, <1>4, <1>5, <1>7
<1> QED BY <1>8 DEF find_cycle, f

\* Of finitely many robots one has to make way: its priority is the lowest, and
\* among equals its name is the last.
LEMMA LowestSpec ==
    ASSUME NEW prio \in [Robot -> Int], NEW S \in SUBSET Robot, S # {}
    PROVE  lowest_priority(prio, S) \in S
<1> DEFINE Low(U, v) == \A r \in U : \/ prio[v] < prio[r]
                                     \/ prio[v] = prio[r] /\ v >= r
           Bad == {U \in SUBSET S : U # {} /\ \A v \in U : ~Low(U, v)}
           Sizes == {Cardinality(U) : U \in Bad}
<1>1. \A U \in SUBSET S : IsFiniteSet(U) /\ Cardinality(U) \in Nat
  BY RobotAssumption, FS_Subset, FS_CardinalityType
<1>2. ASSUME Bad # {} PROVE FALSE
  <2>1. Sizes \in SUBSET Nat /\ Sizes # {}
    BY <1>1, <1>2
  <2>2. PICK m \in Sizes : \A k \in Sizes : m <= k
    <3> HIDE DEF Sizes
    <3> QED BY <2>1, LeastNatural
  <2>3. PICK U \in Bad : m = Cardinality(U)
    OBVIOUS
  <2>4. PICK x \in U : TRUE
    OBVIOUS
  <2> DEFINE W == U \ {x}
  <2>5. Cardinality(W) = Cardinality(U) - 1
    BY <1>1, FS_RemoveElement
  <2>6. W \notin Bad
    <3> SUFFICES ASSUME W \in Bad PROVE FALSE
      OBVIOUS
    <3>1. Cardinality(W) \in Sizes
      OBVIOUS
    <3>2. m <= Cardinality(W) /\ m \in Nat
      BY <1>1, <2>2, <2>3, <3>1
    <3> QED BY <2>3, <2>5, <3>2
  <2>7. CASE W = {}
    <3>1. Low(U, x)
      <4>1. \A r \in U : r = x
        BY <2>7
      <4> QED BY <4>1, RobotAssumption
    <3> QED BY <3>1
  <2>8. CASE W # {}
    <3>1. PICK v \in W : Low(W, v)
      BY <2>6, <2>8
    <3>2. /\ prio[v] \in Int /\ prio[x] \in Int /\ v \in Nat /\ x \in Nat
          /\ v \in U
      BY RobotAssumption
    <3>3. CASE prio[v] < prio[x] \/ (prio[v] = prio[x] /\ v >= x)
      BY <3>1, <3>2, <3>3
    <3>4. CASE prio[x] < prio[v] \/ (prio[x] = prio[v] /\ x >= v)
      <4>1. ASSUME NEW r \in U
            PROVE  prio[x] < prio[r] \/ (prio[x] = prio[r] /\ x >= r)
        <5>1. prio[r] \in Int /\ r \in Nat
          BY RobotAssumption
        <5>2. r = x \/ prio[v] < prio[r] \/ (prio[v] = prio[r] /\ v >= r)
          BY <3>1
        <5> QED BY <3>2, <3>4, <5>1, <5>2
      <4> QED BY <4>1
    <3> QED BY <3>2, <3>3, <3>4
  <2> QED BY <2>7, <2>8
<1>3. \E v \in S : Low(S, v)
  BY <1>2
<1> QED BY <1>3 DEF lowest_priority

-----------------------------------------------------------------------------
(* Detours leave the vertex they start from                                *)

\* The recursion of LaneWalks is well founded: it has a value at every length.
LEMMA LaneWalksIs ==
    /\ Cardinality(Node) \in Nat
    /\ LaneWalks \in [0..Cardinality(Node) -> SUBSET Seq(Node)]
    /\ \A k \in 0..Cardinality(Node) : LaneWalks[k] =
         IF k <= 1 THEN {<<n>> : n \in Node}
         ELSE UNION {{Append(w, lane[2]) :
                         lane \in {l \in Lane :
                                     /\ l[1] = w[k - 1]
                                     /\ \A i \in 1..(k - 1) : w[i] # l[2]}} :
                     w \in LaneWalks[k - 1]}
<1> DEFINE C == Cardinality(Node)
           V == SUBSET Seq(Node)
           D == 0..C
           B == {k \in D : k <= 1}
           Longer(k, W) == UNION {{Append(w, lane[2]) :
                              lane \in {l \in Lane :
                                          /\ l[1] = w[k - 1]
                                          /\ \A i \in 1..(k - 1) : w[i] # l[2]}} :
                              w \in W}
           next == [k \in D |-> k - 1]
           rank == [k \in D |-> k]
           base == [k \in B |-> {<<n>> : n \in Node}]
           step == [a \in (D \ B) \X V |-> Longer(a[1], a[2])]
           Eq(f) == f = [k \in D |-> IF k <= 1 THEN {<<n>> : n \in Node}
                                     ELSE Longer(k, f[k - 1])]
<1>1. C \in Nat
  BY NodeAssumption, FS_CardinalityType
<1>2. WellRanked(D, B, next, rank, C)
  BY <1>1 DEF WellRanked
<1>3. base \in [B -> V]
  <2>1. \A n \in Node : <<n>> \in Seq(Node)
    OBVIOUS
  <2>2. {<<n>> : n \in Node} \in V
    BY <2>1
  <2> HIDE DEF V, B
  <2> QED BY <2>2
<1>4. step \in [(D \ B) \X V -> V]
  <2>1. ASSUME NEW k \in D \ B, NEW W \in V PROVE Longer(k, W) \in V
    <3>1. \A w \in W, l \in Lane : Append(w, l[2]) \in Seq(Node)
      BY LaneAssumption
    <3> QED BY <3>1
  <2> HIDE DEF Longer, V, D, B
  <2> QED BY <2>1
<1>5. PICK h \in [D -> V] : IsRecursive(h, D, B, next, base, step)
  <2> HIDE DEF D, V, B, next, rank, base, step
  <2> QED BY <1>2, <1>3, <1>4, RecursionExists
<1> HIDE DEF Longer
<1>6. ASSUME NEW k \in D
      PROVE  h[k] = IF k <= 1 THEN {<<n>> : n \in Node} ELSE Longer(k, h[k - 1])
  <2>1. CASE k <= 1
    BY <1>5, <2>1 DEF IsRecursive
  <2>2. CASE ~(k <= 1)
    <3>1. k - 1 \in D /\ h[k - 1] \in V
      BY <1>1, <2>2
    <3>2. h[k] = step[<<k, h[next[k]]>>] /\ next[k] = k - 1
      BY <1>5, <2>2 DEF IsRecursive
    <3> QED BY <2>2, <3>1, <3>2
  <2> QED BY <2>1, <2>2
<1>7. Eq(h)
  <2> DEFINE g == [k \in D |-> IF k <= 1 THEN {<<n>> : n \in Node}
                               ELSE Longer(k, h[k - 1])]
  <2>1. \A k \in D : h[k] = g[k]
    BY <1>6
  <2>2. h = g
    BY <1>5, <2>1
  <2> QED BY <2>2
<1>8. Eq(LaneWalks)
  BY <1>7 DEF LaneWalks, Longer
<1>9. /\ LaneWalks = [k \in D |-> LaneWalks[k]]
      /\ \A k \in D : LaneWalks[k] = IF k <= 1 THEN {<<n>> : n \in Node}
                                     ELSE Longer(k, LaneWalks[k - 1])
  BY <1>8
<1>10. \A k \in D : LaneWalks[k] = h[k]
  <2>1. \A k \in B : LaneWalks[k] = h[k]
    BY <1>6, <1>9
  <2>2. ASSUME NEW k \in D \ B, LaneWalks[next[k]] = h[next[k]]
        PROVE  LaneWalks[k] = h[k]
    BY <1>1, <1>6, <1>9, <2>2
  <2> HIDE DEF D, B, next, rank
  <2> QED BY <1>2, <2>1, <2>2, RecursionIsUnique
<1>11. LaneWalks \in [D -> V]
  <2> HIDE DEF D, V
  <2> QED BY <1>5, <1>9, <1>10
<1> QED BY <1>1, <1>9, <1>11 DEF Longer

\* A walk starts by leaving its first vertex.
LEMMA WalksMove ==
    ASSUME NEW w \in Walks
    PROVE  Len(w) >= 2 => w[1] # w[2]
<1> DEFINE C == Cardinality(Node)
           Good(k, v) == /\ v \in Seq(Node) /\ Len(v) = (IF k <= 1 THEN 1 ELSE k)
                         /\ k >= 2 => v[1] # v[2]
           T == {k \in 0..C : \E v \in LaneWalks[k] : ~Good(k, v)}
<1>1. C \in Nat
  BY LaneWalksIs
<1>2. ASSUME T # {} PROVE FALSE
  <2>1. PICK k \in T : \A j \in T : k <= j
    <3>1. T \in SUBSET Nat
      BY <1>1
    <3> HIDE DEF T
    <3> QED BY <1>2, <3>1, LeastNatural
  <2>2. PICK v \in LaneWalks[k] : ~Good(k, v)
    OBVIOUS
  <2>3. CASE k <= 1
    <3>1. PICK n \in Node : v = <<n>>
      BY <1>1, <2>2, <2>3, LaneWalksIs
    <3> QED BY <1>1, <2>2, <2>3, <3>1
  <2>4. CASE ~(k <= 1)
    <3>1. PICK x \in LaneWalks[k - 1], l \in Lane :
            v = Append(x, l[2]) /\ \A i \in 1..(k - 1) : x[i] # l[2]
      <4>1. LaneWalks[k] =
              UNION {{Append(x, lane[2]) :
                         lane \in {l \in Lane :
                                     /\ l[1] = x[k - 1]
                                     /\ \A i \in 1..(k - 1) : x[i] # l[2]}} :
                     x \in LaneWalks[k - 1]}
        BY <2>4, LaneWalksIs
      <4>2. PICK x \in LaneWalks[k - 1] :
              v \in {Append(x, lane[2]) :
                        lane \in {l \in Lane :
                                    /\ l[1] = x[k - 1]
                                    /\ \A i \in 1..(k - 1) : x[i] # l[2]}}
        BY <2>2, <4>1
      <4> QED BY <4>2
    <3>2. k - 1 \in 0..C /\ k - 1 \notin T /\ k \in Nat
      BY <1>1, <2>1, <2>4
    <3>3. Good(k - 1, x)
      BY <3>2
    <3>4. x \in Seq(Node) /\ Len(x) = k - 1 /\ l[2] \in Node
      BY <2>4, <3>2, <3>3, LaneAssumption
    <3>5. /\ v \in Seq(Node) /\ Len(v) = k /\ v[k] = l[2]
          /\ \A i \in 1..(k - 1) : v[i] = x[i]
      BY <3>1, <3>2, <3>4
    <3>6. v[1] # v[2]
      <4>1. CASE k = 2
        BY <3>1, <3>5, <4>1
      <4>2. CASE k # 2
        <5>1. k - 1 >= 2 /\ 1 \in 1..(k - 1) /\ 2 \in 1..(k - 1)
          BY <2>4, <3>2, <4>2
        <5> QED BY <3>3, <3>5, <5>1
      <4> QED BY <4>1, <4>2
    <3> QED BY <2>2, <2>4, <3>5, <3>6
  <2> QED BY <2>3, <2>4
<1>3. PICK k \in 1..C : w \in LaneWalks[k]
  BY DEF Walks
<1>4. Good(k, w)
  <2>1. k \in 0..C
    BY <1>1
  <2> QED BY <1>2, <1>3, <2>1
<1> QED BY <1>1, <1>4

\* So a rerouted robot asks for another vertex than the one it is on.
LEMMA DetoursMove ==
    ASSUME NEW u \in Task, u.idx \in 2..Len(u.path), NEW goal,
           NEW path \in Detours(u, goal)
    PROVE  path[1] # path[2]
<1>1. /\ path \in dijkstra(Current(u), goal, NextNode(u)) /\ Len(path) >= 2
      /\ NextNode(u) \in Node
  BY TaskNodes DEF Detours
<1>2. Current(u) \in Node /\ goal \in Node
  BY <1>1 DEF dijkstra
<1>3. path \in ShortestOf(Routes(Current(u), goal, NextNode(u)))
  BY <1>1, <1>2 DEF dijkstra, ShortestRoutes
<1>4. path \in Walks
  BY <1>3 DEF ShortestOf, Routes
<1> QED BY <1>1, <1>4, WalksMove

-----------------------------------------------------------------------------
(* Requests, waits and priorities                                          *)

\* A request records its priority and nobody else's.  An edge that it leaves
\* comes with the answer WAIT, and is new unless the robot asks for the vertex
\* it is at.
LEMMA RequestMoveAsks ==
    ASSUME NEW tr \in Traffic, NEW r \in Robot, NEW from \in Node, NEW to \in Node,
           NEW p \in Int
    PROVE  LET ans == request_move(tr, r, from, to, p)
           IN  /\ ans.traffic.prio = [tr.prio EXCEPT ![r] = p]
               /\ ans.traffic.waitfor[r] # NoRobot =>
                    /\ ans.verdict = "WAIT"
                    /\ from # to => ans.traffic.waitfor[r] = tr.owner[to]
                    /\ from = to => ans.traffic.waitfor[r] = tr.waitfor[r]
<1> DEFINE t1 == [tr EXCEPT !.prio[r] = p]
           t2 == Waiting(t1, r, to)
           t3 == [t2 EXCEPT !.waitfor[r] = NoRobot]
           ans == request_move(tr, r, from, to, p)
<1>1. /\ t1 \in Traffic /\ t1.owner = tr.owner /\ t1.waitfor = tr.waitfor
      /\ t1.prio = [tr.prio EXCEPT ![r] = p]
  BY DEF Traffic
<1> HIDE DEF t1
<1>2. /\ Reserved(t1, r, to).waitfor[r] = NoRobot
      /\ Reserved(t1, r, to).prio = t1.prio
  BY <1>1 DEF Reserved, Traffic
<1>3. t2 \in Traffic /\ t2.waitfor[r] = tr.owner[to] /\ t2.prio = t1.prio
  BY <1>1 DEF Waiting, Traffic
<1> HIDE DEF t2
<1>4. t3.waitfor[r] = NoRobot /\ t3.prio = t1.prio
  BY <1>3 DEF Traffic
<1> HIDE DEF t3
<1>5. \/ ans = [verdict |-> "GRANT", traffic |-> Reserved(t1, r, to)]
      \/ from = to /\ ans = [verdict |-> "WAIT", traffic |-> t1]
      \/ from # to /\ ans = [verdict |-> "DEADLOCK", traffic |-> t3]
      \/ from # to /\ ans = [verdict |-> "WAIT", traffic |-> t2]
  BY DEF request_move, t1, t2, t3
<1> HIDE DEF ans
<1>6. ans.traffic.prio = t1.prio
  BY <1>2, <1>3, <1>4, <1>5
<1>7. ans.traffic.waitfor[r] # NoRobot =>
        /\ ans.verdict = "WAIT"
        /\ from # to => ans.traffic.waitfor[r] = tr.owner[to]
        /\ from = to => ans.traffic.waitfor[r] = tr.waitfor[r]
  BY <1>1, <1>2, <1>3, <1>4, <1>5
<1> QED BY <1>1, <1>6, <1>7 DEF ans

\* DEADLOCK and WAIT are told apart by the graph with the new edge.
LEMMA RequestVerdict ==
    ASSUME NEW tr \in Traffic, NEW r \in Robot, NEW from \in Node, NEW to \in Node,
           NEW p \in Int
    PROVE  LET verdict == request_move(tr, r, from, to, p).verdict
               w == [tr.waitfor EXCEPT ![r] = tr.owner[to]]
               yields == /\ find_cycle(w, r)
                         /\ lowest_priority([tr.prio EXCEPT ![r] = p],
                                            CycleMembers(w, r)) = r
           IN  /\ verdict = "DEADLOCK" => yields
               /\ ~Free(tr, r, to) /\ from # to =>
                    verdict = IF yields THEN "DEADLOCK" ELSE "WAIT"
<1> DEFINE t1 == [tr EXCEPT !.prio[r] = p]
           t2 == Waiting(t1, r, to)
<1>1. /\ t1 \in Traffic /\ t1.owner = tr.owner /\ t1.waitfor = tr.waitfor
      /\ t1.prio = [tr.prio EXCEPT ![r] = p]
  BY DEF Traffic
<1>2. Free(t1, r, to) <=> Free(tr, r, to)
  BY <1>1 DEF Free
<1> HIDE DEF t1
<1>3. /\ t2.waitfor = [tr.waitfor EXCEPT ![r] = tr.owner[to]]
      /\ t2.prio = [tr.prio EXCEPT ![r] = p]
  BY <1>1 DEF Waiting, Traffic
<1> HIDE DEF t2
<1>4. request_move(tr, r, from, to, p).verdict =
        IF Free(tr, r, to) THEN "GRANT"
        ELSE IF from = to THEN "WAIT"
        ELSE IF MustYield(t2, r) THEN "DEADLOCK" ELSE "WAIT"
  BY <1>2 DEF request_move, t1, t2
<1> QED BY <1>3, <1>4 DEF MustYield

-----------------------------------------------------------------------------
(* A step concerns one robot, and the order of the loop                    *)

\* What WaitInv says of one task.
Numbered(t) == t.seq \in 1..task_seq /\ (t.moving => ~t.wait_logged)

EdgeIsTrue(t) ==
    LET s == traffic.waitfor[t.robot]
    IN  s # NoRobot =>
          /\ Current(t) # NextNode(t)
          /\ t.wait_logged =>
               \/ traffic.owner[NextNode(t)] = s
               \/ /\ traffic.waitfor[s] = NoRobot
                  /\ \A u \in tasks : u.robot = s => IsServedBefore(t, u)

GaveItsPriority(t) ==
    PrioritiesStay /\ traffic.waitfor[t.robot] # NoRobot =>
        traffic.prio[t.robot] = compute_priority(t.robot, t)

LEMMA WaitInvParts ==
    WaitInv <=> /\ LeakInv
                /\ \A t \in tasks : Numbered(t) /\ EdgeIsTrue(t) /\ GaveItsPriority(t)
                /\ \A t, u \in tasks : t.seq = u.seq => t = u
<1>1. EdgesAreTrue <=> \A t \in tasks : EdgeIsTrue(t)
  BY DEF EdgesAreTrue, EdgeIsTrue, TasksOf
<1> QED BY <1>1 DEF WaitInv, Numbered, GaveItsPriority

\* r's task v is in order after the step: r waits for whoever holds the vertex
\* it asked for last.
Asked(r, v) ==
    /\ Numbered(v)' /\ GaveItsPriority(v)'
    /\ traffic'.waitfor[r] # NoRobot =>
         /\ Current(v) # NextNode(v)
         /\ v.wait_logged => traffic'.owner[NextNode(v)] = traffic'.waitfor[r]

\* Other robots keep what they hold and the priority they gave, and when r
\* gives something back it waits for nobody.
LeavesOthers(r) ==
    /\ OnlyTouches(r)
    /\ \A n \in Node : traffic.owner[n] \notin {NoRobot, r} =>
          traffic'.owner[n] = traffic.owner[n]
    /\ \A n \in Node : traffic.owner[n] = r /\ traffic'.owner[n] # r =>
          traffic'.waitfor[r] = NoRobot
    /\ \A s \in Robot : s # r => traffic'.prio[s] = traffic.prio[s]
    /\ PrioritiesStay => battery' = battery

\* Others are served before r's next task is, and in the order they were; if r
\* still waits, it was its turn.
KeepsOrder(r) ==
    /\ task_seq' \in Nat /\ task_seq' >= task_seq
    /\ \A v \in tasks, u \in tasks' :
          v.robot # r /\ u.robot = r => IsServedBefore(v, u)' /\ u.seq # v.seq
    /\ \A v, u \in tasks :
          v.robot # r /\ u.robot # r /\ IsServedBefore(v, u) => IsServedBefore(v, u)'
    /\ traffic'.waitfor[r] # NoRobot =>
          \A v \in tasks : v.robot # r =>
             \E u \in tasks : u.robot = r /\ ~IsServedBefore(v, u)

\* Then it is enough to look at r.
LEMMA WaitStep ==
    ASSUME WaitInv, LeakInv', NEW r \in Robot, LeavesOthers(r), KeepsOrder(r),
           \A v \in tasks' : v.robot = r => Asked(r, v)
    PROVE  WaitInv'
<1>1. /\ LeakInv /\ IInv /\ IInv' /\ OnlyTouches(r) /\ task_seq \in Nat
      /\ \A t \in tasks : Numbered(t) /\ EdgeIsTrue(t) /\ GaveItsPriority(t)
      /\ \A t, u \in tasks : t.seq = u.seq => t = u
  BY WaitInvParts DEF LeakInv, LeavesOthers, IInv, TypeOK
<1>2. ASSUME NEW v \in tasks' PROVE Numbered(v)'
  <2>1. CASE v.robot = r
    BY <2>1 DEF Asked
  <2>2. CASE v.robot # r
    <3>1. v \in tasks /\ task_seq' \in Nat /\ task_seq' >= task_seq
      BY <1>1, <2>2 DEF OnlyTouches, KeepsOrder
    <3> QED BY <1>1, <3>1 DEF Numbered
  <2> QED BY <2>1, <2>2
<1>3. ASSUME NEW v \in tasks' PROVE GaveItsPriority(v)'
  <2>1. CASE v.robot = r
    BY <2>1 DEF Asked
  <2>2. CASE v.robot # r
    <3>1. v \in tasks /\ v.robot \in Robot
      BY <1>1, <2>2, TaskHolds DEF OnlyTouches
    <3> SUFFICES ASSUME PrioritiesStay', traffic'.waitfor[v.robot] # NoRobot
                 PROVE  traffic'.prio[v.robot] = compute_priority(v.robot, v)'
      BY DEF GaveItsPriority
    <3>2. /\ PrioritiesStay
          /\ traffic'.waitfor[v.robot] = traffic.waitfor[v.robot]
          /\ mode'[v.robot] = mode[v.robot]
          /\ traffic'.prio[v.robot] = traffic.prio[v.robot]
          /\ battery' = battery
      BY <1>1, <2>2, <3>1 DEF PrioritiesStay, OnlyTouches, LeavesOthers
    <3>3. traffic.prio[v.robot] = compute_priority(v.robot, v)
      BY <1>1, <3>1, <3>2 DEF GaveItsPriority
    <3>4. compute_priority(v.robot, v)' = compute_priority(v.robot, v)
      BY <3>2 DEF compute_priority, mode_of
    <3> QED BY <3>2, <3>3, <3>4
  <2> QED BY <2>1, <2>2
<1>4. ASSUME NEW v \in tasks' PROVE EdgeIsTrue(v)'
  <2> DEFINE s == traffic'.waitfor[v.robot]
  <2> SUFFICES ASSUME s # NoRobot
               PROVE  /\ Current(v) # NextNode(v)
                      /\ v.wait_logged =>
                           \/ traffic'.owner[NextNode(v)] = s
                           \/ /\ traffic'.waitfor[s] = NoRobot
                              /\ \A u \in tasks' : u.robot = s => IsServedBefore(v, u)'
    BY DEF EdgeIsTrue, Current, NextNode
  <2>1. CASE v.robot = r
    BY <2>1 DEF Asked
  <2>2. CASE v.robot # r
    <3>1. /\ v \in tasks /\ v.robot \in Robot /\ NextNode(v) \in Node
          /\ s = traffic.waitfor[v.robot]
      BY <1>1, <2>2, TaskHolds DEF OnlyTouches
    <3>2. s \in Robot
      BY <1>1, <3>1 DEF IInv, TypeOK, Traffic
    <3> HIDE DEF s
    <3>3. /\ Current(v) # NextNode(v)
          /\ v.wait_logged =>
               \/ traffic.owner[NextNode(v)] = s
               \/ /\ traffic.waitfor[s] = NoRobot
                  /\ \A u \in tasks : u.robot = s => IsServedBefore(v, u)
      BY <1>1, <3>1 DEF EdgeIsTrue
    <3>4. ASSUME traffic.owner[NextNode(v)] = s
          PROVE  \/ traffic'.owner[NextNode(v)] = s
                 \/ /\ traffic'.waitfor[s] = NoRobot
                    /\ \A u \in tasks' : u.robot = s => IsServedBefore(v, u)'
      <4>1. CASE s # r
        BY <3>1, <3>4, <4>1 DEF LeavesOthers
      <4>2. CASE s = r
        BY <2>2, <3>1, <3>4, <4>2 DEF LeavesOthers, KeepsOrder
      <4> QED BY <4>1, <4>2
    <3>5. ASSUME traffic.waitfor[s] = NoRobot,
                 \A u \in tasks : u.robot = s => IsServedBefore(v, u)
          PROVE  /\ traffic'.waitfor[s] = NoRobot
                 /\ \A u \in tasks' : u.robot = s => IsServedBefore(v, u)'
      <4>1. CASE s # r
        BY <1>1, <2>2, <3>1, <3>2, <3>5, <4>1 DEF OnlyTouches, KeepsOrder
      <4>2. CASE s = r
        BY <2>2, <3>1, <3>5, <4>2 DEF KeepsOrder
      <4> QED BY <4>1, <4>2
    <3> QED BY <3>3, <3>4, <3>5
  <2> QED BY <2>1, <2>2
<1>5. ASSUME NEW v \in tasks', NEW u \in tasks', v.seq = u.seq PROVE v = u
  <2>1. CASE v.robot = u.robot
    BY <1>1, <2>1 DEF IInv, OneTaskPerRobot
  <2>2. CASE v.robot # u.robot
    BY <1>1, <1>5, <2>2 DEF OnlyTouches, KeepsOrder
  <2> QED BY <2>1, <2>2
<1>6. EdgesAreTrue'
  BY <1>4 DEF EdgesAreTrue, EdgeIsTrue, TasksOf
<1> QED BY <1>2, <1>3, <1>5, <1>6 DEF WaitInv, Numbered, GaveItsPriority

\* It is the turn of the served task: no other one is before it.
LEMMA ServedFirst ==
    ASSUME WaitInv, NEW t \in tasks, IsServed(t), NEW v \in tasks, v # t
    PROVE  ~IsServedBefore(v, t)
<1>1. /\ cursor \in Int /\ cursor >= -1 /\ task_seq \in Nat
      /\ v.seq \in 1..task_seq /\ t.seq \in 1..task_seq /\ v.seq # t.seq
  BY WaitInvParts DEF LeakInv, IInv, TypeOK, Numbered, Idle
<1> QED BY <1>1 DEF IsServed, IsServedBefore

\* The served task is last in the order of the loop from then on, and was first.
LEMMA ServedOrder ==
    ASSUME WaitInv, NEW t \in tasks, IsServed(t), Served(t)
    PROVE  /\ \A v \in tasks : v # t => ~IsServedBefore(v, t)
           /\ \A v \in tasks : v # t =>
                \A u : u.seq = t.seq => IsServedBefore(v, u)' /\ u.seq # v.seq
           /\ \A v, u \in tasks : v # t /\ u # t /\ IsServedBefore(v, u) =>
                IsServedBefore(v, u)'
<1>1. /\ task_seq \in Nat /\ cursor \in Nat \cup {Idle}
      /\ \A v \in tasks : v.seq \in 1..task_seq
      /\ \A v \in tasks : v # t => v.seq # t.seq
  BY WaitInvParts DEF LeakInv, IInv, TypeOK, Numbered
<1>2. cursor \in Int /\ cursor >= -1 /\ \A v \in tasks : v.seq \in Nat \ {0}
  BY <1>1 DEF Idle
<1>3. t.seq > cursor /\ \A v \in tasks : v # t => v.seq <= cursor \/ v.seq > t.seq
  BY <1>1, <1>2 DEF IsServed
<1>4. \/ cursor' = t.seq
      \/ cursor' = -1 /\ \A v \in tasks : v # t => v.seq < t.seq
  BY <1>1, <1>2 DEF Served, Idle
<1>5. ASSUME NEW v \in tasks, v # t PROVE ~IsServedBefore(v, t)
  BY <1>5, ServedFirst
<1>6. ASSUME NEW v \in tasks, v # t, NEW u, u.seq = t.seq
      PROVE  IsServedBefore(v, u)' /\ u.seq # v.seq
  <2>1. v.seq \in Nat \ {0} /\ t.seq \in Nat \ {0} /\ v.seq # t.seq
    BY <1>1, <1>2, <1>6
  <2>2. IF v.seq > cursor' THEN u.seq > v.seq \/ u.seq <= cursor'
        ELSE v.seq < u.seq /\ u.seq <= cursor'
    BY <1>4, <1>6, <2>1
  <2> QED BY <1>6, <2>1, <2>2 DEF IsServedBefore
<1>7. ASSUME NEW v \in tasks, NEW u \in tasks, v # t, u # t, IsServedBefore(v, u)
      PROVE  IsServedBefore(v, u)'
  <2>1. /\ v.seq \in Nat \ {0} /\ t.seq \in Nat \ {0} /\ u.seq \in Nat \ {0}
        /\ v.seq <= cursor \/ v.seq > t.seq
        /\ u.seq <= cursor \/ u.seq > t.seq
    BY <1>2, <1>3, <1>7
  <2>2. IF v.seq > cursor THEN u.seq > v.seq \/ u.seq <= cursor
        ELSE v.seq < u.seq /\ u.seq <= cursor
    BY <1>7 DEF IsServedBefore
  <2>3. cursor' = t.seq \/ (cursor' = -1 /\ v.seq < t.seq /\ u.seq < t.seq)
    BY <1>4, <1>7
  <2>4. IF v.seq > cursor' THEN u.seq > v.seq \/ u.seq <= cursor'
        ELSE v.seq < u.seq /\ u.seq <= cursor'
    BY <1>2, <1>3, <2>1, <2>2, <2>3
  <2> QED BY <2>4 DEF IsServedBefore
<1> QED BY <1>5, <1>6, <1>7

\* So replacing the served task, or dropping it, keeps the order.
LEMMA ServedKeepsOrder ==
    ASSUME WaitInv, NEW t \in tasks, IsServed(t), Served(t), task_seq' = task_seq,
           \A u \in tasks' : u.robot = t.robot => u.seq = t.seq
    PROVE  KeepsOrder(t.robot)
<1>1. /\ \A v \in tasks : v.robot = t.robot => v = t
      /\ task_seq \in Nat
  BY WaitInvParts DEF LeakInv, IInv, OneTaskPerRobot, TypeOK
<1>2. ASSUME NEW v \in tasks, v.robot # t.robot
      PROVE  /\ \A u \in tasks' : u.robot = t.robot => IsServedBefore(v, u)' /\ u.seq # v.seq
             /\ \E u \in tasks : u.robot = t.robot /\ ~IsServedBefore(v, u)
  BY <1>2, ServedOrder
<1>3. \A v, u \in tasks :
        v.robot # t.robot /\ u.robot # t.robot /\ IsServedBefore(v, u) =>
            IsServedBefore(v, u)'
  BY ServedOrder
<1> QED BY <1>1, <1>2, <1>3 DEF KeepsOrder

\* A served task that is replaced leaves the other robots alone.
LEMMA KeepTouches ==
    ASSUME WaitInv, NEW t \in tasks, NEW w, Keep(t, w), w.robot = t.robot,
           OnlyRobot(t.robot),
           \A n \in Node : traffic'.owner[n] \in {traffic.owner[n], NoRobot, t.robot},
           \A s \in Robot : s # t.robot => traffic'.waitfor[s] = traffic.waitfor[s],
           \A s \in Robot : s # t.robot => traffic'.prio[s] = traffic.prio[s],
           \A n \in Node : traffic.owner[n] = t.robot /\ traffic'.owner[n] # t.robot =>
               traffic'.waitfor[t.robot] = NoRobot
    PROVE  LeavesOthers(t.robot)
<1>1. /\ tasks' = (tasks \ {t}) \cup {w} /\ mode' = mode /\ battery' = battery
      /\ \A v \in tasks : v.robot = t.robot => v = t
  BY WaitInvParts DEF LeakInv, IInv, OneTaskPerRobot, Keep, ledger
<1>2. OnlyTouches(t.robot)
  BY <1>1 DEF OnlyTouches
<1> QED BY <1>1, <1>2 DEF LeavesOthers, OnlyRobot

\* And has WaitInv to be shown for itself only.
LEMMA KeepWait ==
    ASSUME WaitInv, LeakInv', NEW t \in tasks, IsServed(t), NEW w, Keep(t, w),
           w.robot = t.robot, w.seq = t.seq, w.moving => ~w.wait_logged,
           LeavesOthers(t.robot),
           traffic'.waitfor[t.robot] # NoRobot =>
             /\ Current(w) # NextNode(w)
             /\ w.wait_logged => traffic'.owner[NextNode(w)] = traffic'.waitfor[t.robot]
             /\ traffic'.prio[t.robot] = compute_priority(t.robot, w)
    PROVE  WaitInv'
<1>1. /\ tasks' = (tasks \ {t}) \cup {w} /\ Served(t)
      /\ mode' = mode /\ battery' = battery /\ task_seq' = task_seq
      /\ \A v \in tasks : v.robot = t.robot => v = t
      /\ t.robot \in Robot /\ Numbered(t)
  BY WaitInvParts, TaskHolds DEF LeakInv, IInv, OneTaskPerRobot, Keep, ledger
<1>2. KeepsOrder(t.robot)
  BY <1>1, ServedKeepsOrder
<1>3. compute_priority(t.robot, w)' = compute_priority(t.robot, w)
  BY <1>1 DEF compute_priority, mode_of
<1>4. Asked(t.robot, w)
  BY <1>1, <1>3 DEF Asked, Numbered, GaveItsPriority
<1>5. \A v \in tasks' : v.robot = t.robot => v = w
  BY <1>1
<1> QED BY <1>1, <1>2, <1>4, <1>5, WaitStep

\* A task that is still on its way does not wait.
LEMMA DrivesOnWait ==
    ASSUME WaitInv, LeakInv', NEW t \in tasks, IsServed(t), NEW w, DrivesOn(t, w)
    PROVE  WaitInv'
<1>1. /\ w.robot = t.robot /\ w.seq = t.seq /\ w.moving = t.moving /\ t.moving
      /\ w.wait_logged = t.wait_logged /\ Keep(t, w) /\ traffic' = traffic
  BY DEF DrivesOn, Same
<1>2. traffic.waitfor[t.robot] = NoRobot /\ Numbered(t)
  BY <1>1, WaitInvParts, TaskHolds
<1>3. LeavesOthers(t.robot)
  BY <1>1, KeepTouches DEF OnlyRobot
<1> QED BY <1>1, <1>2, <1>3, KeepWait DEF Numbered

\* Neither does one that departs, and its robot has given back what it held.
LEMMA DepartsWait ==
    ASSUME WaitInv, LeakInv', NEW t \in tasks, IsServed(t), NEW u \in Requesting(t),
           NEW w, Departs(t, u, w)
    PROVE  WaitInv'
<1>1. LeakInv /\ IInv /\ traffic \in Traffic /\ t.robot \in Robot
  BY WaitInvParts, TaskHolds DEF LeakInv, IInv, TypeOK
<1>2. /\ u.robot = t.robot /\ u.seq = t.seq
      /\ Current(u) \in Node /\ NextNode(u) \in Node
      /\ compute_priority(t.robot, u) \in Int
      /\ Ask(u) = request_move(traffic, t.robot, Current(u), NextNode(u),
                               compute_priority(t.robot, u))
  BY <1>1, AskTypes, RequestingSpec
<1>3. /\ w.robot = t.robot /\ w.seq = t.seq /\ Keep(t, w) /\ ~w.wait_logged
      /\ Ask(u).verdict = "GRANT"
      /\ traffic' = IF Current(u) = NextNode(u) THEN Ask(u).traffic
                    ELSE ReleaseAll(Ask(u).traffic, t.robot, {Current(u)})
  BY <1>2 DEF Departs
<1> DEFINE asked == Ask(u).traffic
<1>4. /\ asked \in Traffic /\ asked.waitfor[t.robot] = NoRobot
      /\ \A s \in Robot : s # t.robot => asked.waitfor[s] = traffic.waitfor[s]
      /\ asked.prio = [traffic.prio EXCEPT ![t.robot] = compute_priority(t.robot, u)]
  BY <1>1, <1>2, <1>3, RequestMoveWaits, RequestMoveType, RequestMoveAsks
<1>5. /\ traffic'.prio = asked.prio /\ traffic'.waitfor[t.robot] = NoRobot
      /\ \A s \in Robot : s # t.robot => traffic'.waitfor[s] = traffic.waitfor[s]
  <2>1. traffic' = asked \/ traffic' = ReleaseAll(asked, t.robot, {Current(u)})
    BY <1>3
  <2>2. {Current(u)} \in SUBSET Node
    BY <1>2
  <2> HIDE DEF asked
  <2>3. ReleaseAll(asked, t.robot, {Current(u)}).prio = asked.prio
    BY <1>4 DEF ReleaseAll, Traffic
  <2> QED BY <1>1, <1>4, <2>1, <2>2, <2>3, ReleaseAllWaits
<1> HIDE DEF asked
<1>6. \A s \in Robot : s # t.robot => traffic'.prio[s] = traffic.prio[s]
  BY <1>1, <1>4, <1>5 DEF Traffic
<1>7. \A n \in Node : traffic'.owner[n] =
        (IF n = NextNode(u) THEN t.robot
         ELSE IF n = Current(u) /\ traffic.owner[n] = t.robot THEN NoRobot
         ELSE traffic.owner[n])
      /\ traffic.owner[NextNode(u)] \in {NoRobot, t.robot}
  BY <1>1, DepartsOwner
<1>8. LeavesOthers(t.robot)
  BY <1>3, <1>5, <1>6, <1>7, KeepTouches DEF OnlyRobot
<1> QED BY <1>3, <1>5, <1>8, KeepWait

\* A task that ends leaves nobody waiting.
LEMMA EndsWait ==
    ASSUME WaitInv, LeakInv', NEW t \in tasks, IsServed(t),
           NEW nodes \in SUBSET Node, NEW state, Ends(t, nodes, state)
    PROVE  WaitInv'
<1>1. LeakInv /\ IInv /\ traffic \in Traffic /\ t.robot \in Robot
  BY WaitInvParts, TaskHolds DEF LeakInv, IInv, TypeOK
<1>2. /\ tasks' = tasks \ {t} /\ Served(t) /\ nodes # {}
      /\ traffic' = ReleaseAll(traffic, t.robot, nodes)
      /\ UNCHANGED <<battery, mode, task_seq>>
      /\ \A v \in tasks : v.robot = t.robot => v = t
  BY <1>1 DEF Ends, Finish, IInv, OneTaskPerRobot
<1>3. /\ traffic'.waitfor[t.robot] = NoRobot
      /\ \A s \in Robot : s # t.robot => traffic'.waitfor[s] = traffic.waitfor[s]
      /\ \A n \in Node : traffic'.owner[n] =
           (IF n \in nodes /\ traffic.owner[n] = t.robot THEN NoRobot ELSE traffic.owner[n])
  BY <1>1, <1>2, ReleaseAllWaits, ReleaseAllSpec
<1>4. traffic'.prio = traffic.prio
  BY <1>1, <1>2 DEF ReleaseAll, Traffic
<1>5. OnlyTouches(t.robot)
  BY <1>2, <1>3 DEF OnlyTouches
<1>6. LeavesOthers(t.robot)
  BY <1>2, <1>3, <1>4, <1>5 DEF LeavesOthers
<1>7. KeepsOrder(t.robot)
  BY <1>2, ServedKeepsOrder
<1>8. \A v \in tasks' : v.robot # t.robot
  BY <1>2
<1> QED BY <1>1, <1>6, <1>7, <1>8, WaitStep

\* A task that has to stay waits for the robot in its way, unless it is to yield
\* or goes around.
LEMMA StaysWait ==
    ASSUME WaitInv, LeakInv', NEW t \in tasks, IsServed(t), NEW u \in Requesting(t),
           NEW w, Stays(t, u, w)
    PROVE  WaitInv'
<1>1. LeakInv /\ IInv /\ traffic \in Traffic /\ t.robot \in Robot
  BY WaitInvParts, TaskHolds DEF LeakInv, IInv, TypeOK
<1>2. /\ u \in Task /\ u.robot = t.robot /\ u.seq = t.seq /\ u.patrol = t.patrol
      /\ ~u.moving /\ u.idx \in 2..Len(u.path)
      /\ Current(u) \in Node /\ NextNode(u) \in Node
      /\ compute_priority(t.robot, u) \in Int
      /\ ~t.moving => u.path = t.path /\ u.idx = t.idx
      /\ Ask(u) = request_move(traffic, t.robot, Current(u), NextNode(u),
                               compute_priority(t.robot, u))
  BY <1>1, AskTypes, RequestingSpec
<1>3. /\ w.robot = t.robot /\ w.seq = t.seq /\ w.patrol = u.patrol /\ ~w.moving
      /\ \/ w.path = u.path /\ w.idx = u.idx
         \/ /\ w.idx = 2 /\ ~w.wait_logged
            /\ \E goal \in {DetourGoal(u), u.path[Len(u.path)]} :
                  w.path \in Detours(u, goal)
      /\ Keep(t, w) /\ traffic' = Ask(u).traffic /\ Ask(u).verdict # "GRANT"
      /\ Ask(u).verdict = "WAIT" => w.stuck = u.stuck
  BY <1>2 DEF Stays, WaitsAs
<1>4. /\ traffic'.prio = [traffic.prio EXCEPT ![t.robot] = compute_priority(t.robot, u)]
      /\ \A s \in Robot : s # t.robot => traffic'.waitfor[s] = traffic.waitfor[s]
      /\ traffic'.waitfor[t.robot] # NoRobot =>
           /\ Ask(u).verdict = "WAIT"
           /\ Current(u) # NextNode(u) =>
                traffic'.waitfor[t.robot] = traffic.owner[NextNode(u)]
           /\ Current(u) = NextNode(u) =>
                traffic'.waitfor[t.robot] = traffic.waitfor[t.robot]
  BY <1>1, <1>2, <1>3, RequestMoveWaits, RequestMoveAsks
<1>5. traffic'.owner = traffic.owner
  BY <1>1, <1>3, AskSpec
<1>6. /\ traffic'.prio[t.robot] = compute_priority(t.robot, u)
      /\ \A s \in Robot : s # t.robot => traffic'.prio[s] = traffic.prio[s]
  BY <1>1, <1>4 DEF Traffic
<1>7. LeavesOthers(t.robot)
  BY <1>3, <1>4, <1>5, <1>6, KeepTouches DEF OnlyRobot
<1>8. traffic'.waitfor[t.robot] # NoRobot => Current(u) # NextNode(u)
  <2> SUFFICES ASSUME traffic.waitfor[t.robot] # NoRobot
               PROVE  Current(u) # NextNode(u)
    BY <1>4
  <2>1. ~t.moving /\ EdgeIsTrue(t)
    BY <1>1, TaskHolds, WaitInvParts
  <2> QED BY <1>2, <2>1 DEF EdgeIsTrue, Current, NextNode
<1>9. ASSUME traffic'.waitfor[t.robot] # NoRobot
      PROVE  /\ Current(w) # NextNode(w)
             /\ w.wait_logged =>
                  traffic'.owner[NextNode(w)] = traffic'.waitfor[t.robot]
             /\ traffic'.prio[t.robot] = compute_priority(t.robot, w)
  <2>1. compute_priority(t.robot, w) = compute_priority(t.robot, u)
    BY <1>2, <1>3, <1>4, <1>9 DEF compute_priority
  <2>2. CASE w.path = u.path /\ w.idx = u.idx
    BY <1>4, <1>5, <1>6, <1>8, <1>9, <2>1, <2>2 DEF Current, NextNode
  <2>3. ASSUME NEW goal, w.path \in Detours(u, goal), w.idx = 2, ~w.wait_logged
        PROVE  Current(w) # NextNode(w)
    <3>1. w.path[1] # w.path[2]
      BY <1>2, <2>3, DetoursMove
    <3> QED BY <2>3, <3>1 DEF Current, NextNode
  <2> QED BY <1>3, <1>6, <2>1, <2>2, <2>3
<1> QED BY <1>1, <1>3, <1>7, <1>9, KeepWait

\* Whatever a served task does.
LEMMA ServeTaskWait ==
    ASSUME WaitInv, LeakInv', NEW t \in tasks, ServeTask(t)
    PROVE  WaitInv'
<1>1. IsServed(t)
  BY DEF ServeTask, FailStuck, KeepDriving, Complete, Depart, YieldByDetour,
         Escalate, PassStopped, Wait
<1>2. IInv
  BY DEF WaitInv, LeakInv
<1> QED BY <1>1, <1>2, ServeTaskSpec, DrivesOnWait, EndsWait, DepartsWait, StaysWait

-----------------------------------------------------------------------------
(* New tasks, changed modes and the rest                                   *)

\* A robot whose tasks are cancelled stops waiting, and what it claims then
\* concerns nobody else.
LEMMA ClaimLeaves ==
    ASSUME WaitInv, NEW r \in Robot, NEW S \in SUBSET Node, NEW n \in Node,
           Claims(r, S, n), S = {} => TasksOf(r) = {},
           \A v : v.robot # r => (v \in tasks <=> v \in tasks'),
           \A s \in Robot : s # r => mode'[s] = mode[s],
           battery' = battery
    PROVE  LeavesOthers(r) /\ traffic'.waitfor[r] = NoRobot
<1> DEFINE freed == ReleaseAll(traffic, r, S)
<1>1. traffic \in Traffic /\ WaitsRight(r)
  BY WaitInvParts, LeakInvParts DEF IInv, TypeOK
<1>2. Claimed(r, S, n) /\ Trades(r, n)
  BY <1>1, ClaimSpec, ClaimTrades
<1>3. traffic'.waitfor[r] = NoRobot
  BY <1>1, <1>2 DEF Claimed, WaitsRight, TasksOf
<1>4. freed \in Traffic /\ freed.prio = traffic.prio
  BY <1>1, ReleaseAllSpec DEF ReleaseAll, Traffic
<1>5. \A s \in Robot : s # r => traffic'.prio[s] = traffic.prio[s]
  <2>1. traffic' = freed \/ \E p \in Int : traffic' = request_move(freed, r, n, n, p).traffic
    BY DEF Claims
  <2> HIDE DEF freed
  <2>2. ASSUME NEW p \in Int, traffic' = request_move(freed, r, n, n, p).traffic
        PROVE  traffic'.prio = [freed.prio EXCEPT ![r] = p]
    BY <1>4, <2>2, RequestMoveAsks
  <2> QED BY <1>4, <2>1, <2>2 DEF Traffic
<1>6. OnlyTouches(r)
  BY <1>2 DEF OnlyTouches, Claimed
<1>7. \A m \in Node : traffic.owner[m] \notin {NoRobot, r} =>
         traffic'.owner[m] = traffic.owner[m]
  BY <1>2 DEF Trades
<1> QED BY <1>3, <1>5, <1>6, <1>7 DEF LeavesOthers

\* A new task is served after those that are there.
LEMMA NewTaskWait ==
    ASSUME WaitInv, LeakInv', NEW r \in Robot, NEW path, NEW patrol,
           NEW n \in Node, Claims(r, CancelledNodes(r), n),
           tasks' = TasksWithout(r) \cup {NewTask(r, path, patrol)},
           mode' = mode, battery' = battery, task_seq' = task_seq + 1,
           cursor \in {Idle, 0}, cursor' \in {Idle, 0}
    PROVE  WaitInv'
<1> DEFINE new == NewTask(r, path, patrol)
<1>1. new.robot = r /\ new.seq = task_seq + 1 /\ ~new.moving
  BY DEF NewTask
<1>2. \A v : v \in tasks' <=> (v \in tasks /\ v.robot # r) \/ v = new
  BY DEF TasksWithout, TasksOf
<1> HIDE DEF new
<1>3. /\ task_seq \in Nat /\ \A v \in tasks : v.seq \in 1..task_seq
      /\ LeakInv /\ IInv
  BY WaitInvParts DEF LeakInv, IInv, TypeOK, Numbered
<1>4. CancelledNodes(r) \in SUBSET Node
  BY <1>3, CancelledType
<1>5. CancelledNodes(r) = {} => TasksOf(r) = {}
  BY DEF CancelledNodes
<1>6. LeavesOthers(r) /\ traffic'.waitfor[r] = NoRobot
  BY <1>1, <1>2, <1>4, <1>5, ClaimLeaves
<1>7. KeepsOrder(r)
  <2>1. \A v \in tasks, u \in tasks' :
          v.robot # r /\ u.robot = r => IsServedBefore(v, u)' /\ u.seq # v.seq
    BY <1>1, <1>2, <1>3 DEF IsServedBefore, Idle
  <2>2. \A v, u \in tasks :
          v.robot # r /\ u.robot # r /\ IsServedBefore(v, u) => IsServedBefore(v, u)'
    BY <1>3 DEF IsServedBefore, Idle
  <2> QED BY <1>3, <1>6, <2>1, <2>2 DEF KeepsOrder
<1>8. ASSUME NEW v \in tasks', v.robot = r PROVE Asked(r, v)
  <2>1. v.seq = task_seq + 1 /\ ~v.moving
    BY <1>1, <1>2, <1>8
  <2>2. Numbered(v)'
    BY <1>3, <2>1 DEF Numbered
  <2> QED BY <1>6, <1>8, <2>2 DEF Asked, GaveItsPriority
<1> QED BY <1>6, <1>7, <1>8, WaitStep

LEMMA AcceptWait ==
    ASSUME WaitInv, LeakInv', NEW r \in Robot, NEW goal \in Node, NEW arm_actions,
           cursor = Idle, Accept(r, goal, arm_actions)
    PROVE  WaitInv'
<1>1. IInv
  BY DEF WaitInv, LeakInv
<1>2. /\ mode' = mode /\ battery' = battery /\ cursor' = cursor
      /\ task_seq' = task_seq + 1
  BY <1>1, AcceptFacts
<1>3. PICK path \in Seq(Node) :
        /\ path[1] \in Node
        /\ tasks' = TasksWithout(r) \cup {NewTask(r, path, FALSE)}
        /\ Claims(r, CancelledNodes(r), path[1])
  BY <1>1, AcceptClaims
<1> QED BY <1>2, <1>3, NewTaskWait

LEMMA StartPatrolWait ==
    ASSUME WaitInv, LeakInv', NEW r \in Robot, start_patrol(r)
    PROVE  WaitInv'
<1>1. IInv
  BY DEF WaitInv, LeakInv
<1>2. /\ mode' = mode /\ battery' = battery /\ cursor \in {Idle, 0} /\ cursor' = 0
      /\ task_seq' = task_seq + 1
  BY DEF start_patrol
<1>3. PICK path \in Seq(Node) :
        /\ path[1] \in Node
        /\ tasks' = TasksWithout(r) \cup {NewTask(r, path, TRUE)}
        /\ Claims(r, CancelledNodes(r), path[1])
  BY <1>1, StartPatrolClaims
<1> QED BY <1>2, <1>3, NewTaskWait

\* A step that leaves tasks and reservations alone changes no wait, if it
\* changes no priority.
LEMMA WaitQuiet ==
    ASSUME WaitInv, LeakInv', UNCHANGED <<tasks, traffic, task_seq, cursor>>,
           PrioritiesStay => \A r \in Robot, v \in tasks :
               compute_priority(r, v)' = compute_priority(r, v)
    PROVE  WaitInv'
<1>1. \A t \in tasks : /\ t.robot \in Robot
                       /\ Numbered(t) /\ EdgeIsTrue(t) /\ GaveItsPriority(t)
  BY WaitInvParts, TaskHolds
<1>2. \A t \in tasks : Numbered(t)'
  BY <1>1 DEF Numbered
<1>3. \A t \in tasks : GaveItsPriority(t)'
  BY <1>1 DEF GaveItsPriority, PrioritiesStay
<1>4. EdgesAreTrue'
  <2>1. EdgesAreTrue
    BY DEF WaitInv
  <2> QED BY <2>1 DEF EdgesAreTrue, IsServedBefore, TasksOf, NextNode, Current
<1>5. \A t, u \in tasks' : t.seq = u.seq => t = u
  BY WaitInvParts
<1> QED BY <1>2, <1>3, <1>4, <1>5 DEF WaitInv, Numbered, GaveItsPriority

\* A robot that is taken out of service stops waiting.
LEMMA SetModeWait ==
    ASSUME WaitInv, LeakInv', NEW r \in Robot, NEW m \in Modes, on_set_mode(r, m)
    PROVE  WaitInv'
<1>1. /\ IInv /\ m \in Mode /\ mode \in [Robot -> Mode \cup {"NONE"}]
      /\ mode' = [mode EXCEPT ![r] = m]
      /\ UNCHANGED <<battery, task_seq, cursor>>
  BY InputAssumption DEF WaitInv, LeakInv, IInv, TypeOK, on_set_mode
<1>2. CASE m = "CHARGE"
  <2>1. UNCHANGED <<tasks, traffic>> /\ ~PrioritiesStay
    BY <1>2 DEF on_set_mode, PrioritiesStay
  <2> QED BY <1>1, <2>1, WaitQuiet
<1>3. CASE m # "CHARGE"
  <2> DEFINE S == CancelledNodes(r) \cup OwnedBy(traffic, r)
             node == NearestNode(report[r])
  <2>1. S \in SUBSET Node /\ node \in Node /\ Claims(r, S, node)
    BY <1>1, <1>3, SetModeClaims
  <2>2. S = {} => TasksOf(r) = {}
    BY DEF CancelledNodes
  <2>3. \A v : v \in tasks' <=> v \in tasks /\ v.robot # r
    BY <1>3 DEF on_set_mode, TasksWithout, TasksOf
  <2>4. \A s \in Robot : s # r => mode'[s] = mode[s]
    BY <1>1
  <2> HIDE DEF S, node
  <2>5. LeavesOthers(r) /\ traffic'.waitfor[r] = NoRobot
    BY <1>1, <2>1, <2>2, <2>3, <2>4, ClaimLeaves
  <2>6. KeepsOrder(r)
    <3>1. task_seq \in Nat
      BY <1>1 DEF IInv, TypeOK
    <3> QED BY <1>1, <2>3, <2>5, <3>1 DEF KeepsOrder, IsServedBefore
  <2> QED BY <2>3, <2>5, <2>6, WaitStep
<1> QED BY <1>2, <1>3

\* With a fresh plugin nobody waits.
LEMMA SetPluginsWait ==
    ASSUME WaitInv, LeakInv', on_set_plugins
    PROVE  WaitInv'
<1>1. /\ tasks' = tasks /\ task_seq' = task_seq
      /\ \A r \in Robot : traffic'.waitfor[r] = NoRobot
  BY DEF on_set_plugins, NoTraffic
<1>2. \A t \in tasks : t.robot \in Robot /\ Numbered(t)
  BY WaitInvParts, TaskHolds
<1>3. EdgesAreTrue'
  BY <1>1, <1>2 DEF EdgesAreTrue
<1> QED BY <1>1, <1>2, <1>3, WaitInvParts DEF WaitInv, Numbered

\* Every step keeps the invariant.
LEMMA NextWait == WaitInv /\ [Next]_vars => WaitInv'
<1> SUFFICES ASSUME WaitInv, [Next]_vars PROVE WaitInv'
  OBVIOUS
<1>1. LeakInv /\ IInv /\ LeakInv'
  BY NextLeak DEF WaitInv, LeakInv
<1>2. CASE on_timer
  BY <1>1, <1>2, ServeTaskWait, StartPatrolWait DEF on_timer, Serve, ServeTask
<1>3. ASSUME NEW r \in Robot, on_robot_state(r) PROVE WaitInv'
  <2>1. /\ UNCHANGED <<tasks, traffic, task_seq, cursor, battery>>
        /\ mode' = [mode EXCEPT ![r] =
                      IF mode[r] # "NONE" THEN mode[r]
                      ELSE IF PatrolDefault THEN "PATROL" ELSE "IDLE"]
        /\ mode \in [Robot -> Mode \cup {"NONE"}]
    BY <1>1, <1>3 DEF on_robot_state, IInv, TypeOK
  <2>2. \A s \in Robot : mode'[s] = "CHARGE" <=> mode[s] = "CHARGE"
    BY <2>1
  <2>3. \A s \in Robot : (mode_of(s) = "CHARGE")' <=> mode_of(s) = "CHARGE"
    BY <2>2 DEF mode_of
  <2>4. \A s \in Robot, v \in tasks : compute_priority(s, v)' = compute_priority(s, v)
    BY <2>1, <2>3 DEF compute_priority
  <2> QED BY <1>1, <2>1, <2>4, WaitQuiet
<1>4. ASSUME UNCHANGED <<tasks, traffic, task_seq, cursor, battery, mode>> PROVE WaitInv'
  <2>1. \A s \in Robot, v \in tasks : compute_priority(s, v)' = compute_priority(s, v)
    BY <1>4 DEF compute_priority, mode_of
  <2> QED BY <1>1, <1>4, <2>1, WaitQuiet
<1>5. ASSUME NEW r \in Robot, Drive(r) PROVE WaitInv'
  BY <1>4, <1>5 DEF Drive, ledger
<1>6. CASE UNCHANGED vars
  BY <1>4, <1>6 DEF vars, ledger
<1>7. CASE Operator
  <2>1. ASSUME NEW r \in Managed, NEW goal \in Goals, NEW arm \in ArmActions,
               SubmitForced(r, goal, arm)
        PROVE  WaitInv'
    <3>1. r \in Robot /\ goal \in Node
      BY InputAssumption
    <3> QED BY <1>1, <2>1, <3>1, AcceptWait DEF SubmitForced
  <2>2. ASSUME NEW goal \in Goals, NEW arm \in ArmActions, SubmitAuto(goal, arm)
        PROVE  WaitInv'
    <3>1. PICK r \in Bidders : Accept(r, goal, arm)
      BY <2>2 DEF SubmitAuto, assign
    <3>2. r \in Robot /\ goal \in Node /\ cursor = Idle
      BY <1>1, <2>2, WorldType, InputAssumption DEF IInv, Bidders, SubmitAuto
    <3> QED BY <1>1, <3>1, <3>2, AcceptWait
  <2>3. ASSUME NEW r \in Managed, NEW m \in Modes, on_set_mode(r, m) PROVE WaitInv'
    BY <1>1, <2>3, SetModeWait, InputAssumption
  <2>4. ASSUME NEW r \in Managed, NEW level \in Levels, on_set_battery(r, level)
        PROVE  WaitInv'
    <3>1. UNCHANGED <<tasks, traffic, task_seq, cursor>> /\ ~PrioritiesStay
      BY <2>4 DEF on_set_battery, PrioritiesStay
    <3> QED BY <1>1, <3>1, WaitQuiet
  <2> QED BY <1>1, <1>7, <2>1, <2>2, <2>3, <2>4, SetPluginsWait DEF Operator
<1> QED BY <1>2, <1>3, <1>5, <1>6, <1>7 DEF Next

\* Wherever the node starts.
LEMMA InitWait == Init \/ AllSeenInit => WaitInv
<1> SUFFICES ASSUME Init \/ AllSeenInit PROVE WaitInv
  OBVIOUS
<1>1. tasks = {} /\ traffic = NoTraffic
  BY DEF Init, AllSeenInit
<1>2. LeakInv
  BY <1>1, InitIInv, AllSeenIInv, EmptyLeak DEF LeakInv
<1> QED BY <1>1, <1>2 DEF WaitInv, EdgesAreTrue

\* The inductive invariant about waits holds in every reachable state.
THEOREM WaitInvariantHolds == (Spec \/ AllSeenSpec) => []WaitInv
BY InitWait, NextWait, PTL DEF Spec, AllSeenSpec

-----------------------------------------------------------------------------
(* Circular waits                                                          *)

\* The robots of a circle each have one task, which stands, and wait for
\* another robot.
LEMMA InCircle ==
    ASSUME WaitInv, NEW v \in tasks, traffic.waitfor[v.robot] # NoRobot
    PROVE  /\ v.robot \in Robot /\ ~v.moving /\ EdgeIsTrue(v)
           /\ traffic.waitfor[v.robot] \in Robot
           /\ traffic.waitfor[v.robot] # v.robot
           /\ \A u \in tasks : u.robot = v.robot => u = v
<1>1. LeakInv /\ IInv
  BY DEF WaitInv, LeakInv
<1>2. v.robot \in Robot
  BY <1>1, TaskHolds
<1>3. traffic.waitfor[v.robot] \in Robot
  BY <1>1, <1>2 DEF IInv, TypeOK, Traffic
<1>4. \A u \in tasks : u.robot = v.robot => u = v
  BY <1>1 DEF IInv, OneTaskPerRobot
<1> QED BY <1>1, <1>2, <1>3, <1>4, TaskHolds, WaitInvParts

\* Between two requests an edge may be out of date, never an edge of the circle
\* that answers a request.
LEMMA DeadlockIsReal == WaitInv => DeadlocksAreReal
<1> SUFFICES ASSUME WaitInv, NEW t \in tasks, NEW u \in Requesting(t),
                    IsServed(t), Ask(u).verdict = "DEADLOCK",
                    NEW v \in Circle(Refused(u), u) \ {t}
             PROVE  ReallyWaits(v) \/ JustRerouted(v)
  BY DEF DeadlocksAreReal
<1> DEFINE r == t.robot
           w == Refused(u)
           M == CycleMembers(w, r)
           x == traffic.waitfor[v.robot]
<1>1. /\ LeakInv /\ traffic \in Traffic /\ r \in Robot /\ v \in tasks
      /\ \A y \in tasks : y.robot = r => y = t
  BY TaskHolds DEF WaitInv, LeakInv, IInv, TypeOK, OneTaskPerRobot, Circle
<1>2. /\ u.robot = r /\ Current(u) \in Node /\ NextNode(u) \in Node
      /\ compute_priority(r, u) \in Int
      /\ Ask(u) = request_move(traffic, r, Current(u), NextNode(u),
                               compute_priority(r, u))
  BY <1>1, AskTypes
<1>3. w = [traffic.waitfor EXCEPT ![r] = traffic.owner[NextNode(u)]]
  BY <1>2 DEF Refused
<1>4. w \in WaitGraph /\ \A s \in Robot : s # r => w[s] = traffic.waitfor[s]
  BY <1>1, <1>2, <1>3 DEF WaitGraph, Traffic
<1>5. find_cycle(w, r)
  <2> DEFINE from == Current(u)
             to == NextNode(u)
             p == compute_priority(r, u)
  <2>1. /\ from \in Node /\ to \in Node /\ p \in Int
        /\ request_move(traffic, r, from, to, p).verdict = "DEADLOCK"
        /\ w = [traffic.waitfor EXCEPT ![r] = traffic.owner[to]]
    BY <1>2, <1>3
  <2> HIDE DEF from, to, p, w, r
  <2> QED BY <1>1, <2>1, RequestVerdict
<1>6. v.robot \in M
  BY <1>2 DEF Circle
<1> HIDE DEF w, r
<1>7. M \subseteq Robot /\ \A s \in M : w[s] \in M
  BY <1>1, <1>4, <1>5, CircleSpec
<1> HIDE DEF M
<1>8. v.robot # r /\ v # t
  BY <1>1
<1>9. x = w[v.robot] /\ x \in M /\ x \in Robot /\ x # NoRobot
  BY <1>4, <1>6, <1>7, <1>8, RobotAssumption DEF NoRobot
<1>10. ~v.moving /\ EdgeIsTrue(v)
  BY <1>1, <1>9, InCircle
<1>11. ASSUME traffic.waitfor[x] = NoRobot, \A y \in tasks : y.robot = x => IsServedBefore(v, y)
       PROVE  FALSE
  <2>1. CASE x = r
    BY <1>1, <1>8, <1>11, <2>1, ServedFirst DEF r
  <2>2. CASE x # r
    <3>1. w[x] = NoRobot /\ w[x] \in Robot
      BY <1>4, <1>7, <1>9, <1>11, <2>2
    <3> QED BY <3>1, RobotAssumption DEF NoRobot
  <2> QED BY <2>1, <2>2
<1>12. v.wait_logged => traffic.owner[NextNode(v)] = x
  BY <1>9, <1>10, <1>11 DEF EdgeIsTrue
<1> QED BY <1>10, <1>12 DEF ReallyWaits, JustRerouted

\* The robots of a circle whose edges are all true get their answers from the
\* same graph and the same priorities.
LEMMA CircleYieldsOnce == ASSUME PrioritiesStay, WaitInv PROVE OneYields
<1> DEFINE wf == traffic.waitfor
<1> SUFFICES ASSUME NEW t \in tasks, find_cycle(wf, t.robot),
                    \A v \in Circle(wf, t) : v.wait_logged
             PROVE  \E v \in Circle(wf, t) : \A w \in Circle(wf, t) :
                       Ask(w).verdict = IF w = v THEN "DEADLOCK" ELSE "WAIT"
  BY DEF OneYields
<1> DEFINE r == t.robot
           M == CycleMembers(wf, r)
           low == lowest_priority(traffic.prio, M)
<1>1. /\ LeakInv /\ IInv /\ traffic \in Traffic /\ r \in Robot /\ TypeOK
  BY TaskHolds DEF WaitInv, LeakInv, IInv, TypeOK
<1>2. wf \in WaitGraph /\ traffic.prio \in [Robot -> Int]
  BY <1>1 DEF WaitGraph, Traffic
<1> HIDE DEF r
<1>3. M \subseteq Robot /\ r \in M /\ \A s \in M : wf[s] \in M
  BY <1>1, <1>2, CircleSpec DEF r
<1>4. low \in M
  <2> HIDE DEF M
  <2> QED BY <1>2, <1>3, LowestSpec
<1>5. ASSUME NEW v \in Circle(wf, t)
      PROVE  Ask(v).verdict = IF v.robot = low THEN "DEADLOCK" ELSE "WAIT"
  <2> DEFINE s == v.robot
             n == NextNode(v)
             p == compute_priority(s, v)
  <2>1. v \in tasks /\ s \in M /\ v.wait_logged
    BY DEF Circle, r
  <2>2. /\ wf[s] \in Robot /\ wf[s] # NoRobot
        /\ wf[wf[s]] \in Robot /\ wf[wf[s]] # NoRobot
    <3> HIDE DEF M
    <3> QED BY <1>3, <2>1, RobotAssumption DEF NoRobot
  <2>3. s \in Robot /\ EdgeIsTrue(v) /\ wf[s] # s
    BY <2>1, <2>2, InCircle
  <2>4. Current(v) # n /\ traffic.owner[n] = wf[s]
    BY <2>1, <2>2, <2>3 DEF EdgeIsTrue
  <2>5. traffic.prio[s] = p
    BY <2>1, <2>2, WaitInvParts DEF GaveItsPriority
  <2>6. v \in Task /\ Current(v) \in Node /\ n \in Node /\ p \in Int
    BY <1>1, <2>1, <2>3, TaskHolds, PriorityType
  <2>7. ~Free(traffic, s, n)
    BY <2>2, <2>3, <2>4 DEF Free
  <2>8. find_cycle(wf, s) /\ CycleMembers(wf, s) = M
    BY <1>1, <1>2, <2>1, CircleOfMember DEF r
  <2>9. /\ [wf EXCEPT ![s] = traffic.owner[n]] = wf
        /\ [traffic.prio EXCEPT ![s] = p] = traffic.prio
    <3>1. /\ wf = [y \in Robot |-> wf[y]]
          /\ traffic.prio = [y \in Robot |-> traffic.prio[y]]
      BY <1>2 DEF WaitGraph
    <3> HIDE DEF wf, s, n, p
    <3> QED BY <2>4, <2>5, <3>1
  <2>10. Ask(v) = request_move(traffic, s, Current(v), n, p)
    BY DEF Ask
  <2> HIDE DEF s, n, p, M
  <2>11. Ask(v).verdict = IF s = low THEN "DEADLOCK" ELSE "WAIT"
    BY <1>1, <2>3, <2>4, <2>6, <2>7, <2>8, <2>9, <2>10, RequestVerdict
  <2> QED BY <2>11 DEF s
<1>6. PICK v \in Circle(wf, t) : v.robot = low
  <2>1. wf[low] \in Robot /\ low \in Robot /\ wf[low] # NoRobot
    <3> HIDE DEF M, low
    <3> QED BY <1>3, <1>4, RobotAssumption DEF NoRobot
  <2>2. PICK v \in tasks : v.robot = low
    BY <1>1, <2>1, LeakInvParts DEF WaitsRight
  <2> QED BY <1>4, <2>2 DEF Circle, r
<1>7. \A w \in Circle(wf, t) : w.robot = low => w = v
  BY <1>1, <1>6 DEF IInv, OneTaskPerRobot, Circle
<1> HIDE DEF low
<1> QED BY <1>5, <1>6, <1>7

\* A robot is told of a deadlock only when the others of the circle wait for
\* each other as the edges say, or have been rerouted at their last turn and
\* not asked since.
THEOREM DeadlocksAreRealOnes == (Spec \/ AllSeenSpec) => []DeadlocksAreReal
BY WaitInvariantHolds, DeadlockIsReal, PTL

\* As long as no priority changes from outside, a circle in which everybody
\* waits is left by exactly one robot.
THEOREM OneRobotYields ==
    ASSUME PrioritiesStay PROVE (Spec \/ AllSeenSpec) => []OneYields
<1>1. WaitInv => OneYields
  BY CircleYieldsOnce
<1> QED BY <1>1, WaitInvariantHolds, PTL

=============================================================================
