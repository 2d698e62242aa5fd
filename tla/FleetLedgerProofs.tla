-------------------------- MODULE FleetLedgerProofs --------------------------
(***************************************************************************)
(* Proofs about what the fleet node does with reservations and waits: it   *)
(* implements the abstract ledger, leaks nothing, only standing robots     *)
(* wait, and work that runs is not interrupted.                            *)
(***************************************************************************)
EXTENDS FleetProofs, RecursionLemmas

-----------------------------------------------------------------------------
(* The patrol route                                                        *)

\* n is a vertex of the patrol route.
OnRoute(n) == \E i \in 1..Len(PatrolRoute) : PatrolRoute[i] = n

\* A vertex of the route has a first place on it.
LEMMA FirstIndexSpec ==
    ASSUME NEW n, OnRoute(n)
    PROVE  FirstIndex(n) # {}
<1> DEFINE T == {i \in 1..Len(PatrolRoute) : PatrolRoute[i] = n}
<1>1. T \in SUBSET Nat /\ T # {} /\ Len(PatrolRoute) \in Nat
  BY PatrolAssumption DEF OnRoute
<1>2. PICK m \in T : \A k \in T : m <= k
  BY <1>1, LeastNatural
<1>3. \A j \in 1..(m - 1) : j \notin T /\ j \in 1..Len(PatrolRoute)
  BY <1>1, <1>2
<1>4. m \in FirstIndex(n)
  BY <1>3 DEF FirstIndex
<1> QED BY <1>4

\* Going around the route stays on it.
LEMMA CyclicSpec ==
    ASSUME NEW i \in Nat \ {0}, Len(PatrolRoute) >= 1
    PROVE  /\ Cyclic(i) \in 1..Len(PatrolRoute)
           /\ i <= Len(PatrolRoute) => Cyclic(i) = i
<1>1. Len(PatrolRoute) \in Nat /\ i - 1 \in Nat
  BY PatrolAssumption
<1> QED BY <1>1 DEF Cyclic

\* A lap ends on the route, and starts with the vertex the robot is at if that
\* is on the route.
LEMMA LapEnds ==
    ASSUME Len(PatrolRoute) >= 2, NEW p \in Position, NEW lap \in make_patrol_path(p)
    PROVE  /\ OnRoute(lap[Len(lap)])
           /\ OnRoute(NearestNode(p)) => lap[1] = NearestNode(p)
<1> DEFINE n == Len(PatrolRoute)
           here == FirstIndex(NearestNode(p))
<1>1. n \in Nat
  BY PatrolAssumption
<1>2. PICK k \in IF here # {} THEN here ELSE 1..n :
        lap = [i \in 1..(n + 1) |-> PatrolRoute[Cyclic(k + i - 1)]]
  BY DEF make_patrol_path
<1>3. k \in 1..n
  BY <1>2 DEF FirstIndex
<1>4. Len(lap) = n + 1
  BY LapSpec
<1>5. lap[n + 1] = PatrolRoute[Cyclic(k + (n + 1) - 1)]
  BY <1>1, <1>2
<1>6. Cyclic(k + (n + 1) - 1) \in 1..n
  BY <1>1, <1>3, CyclicSpec
<1>7. ASSUME OnRoute(NearestNode(p)) PROVE lap[1] = NearestNode(p)
  <2>1. k \in here
    BY <1>2, <1>7, FirstIndexSpec
  <2>2. PatrolRoute[k] = NearestNode(p)
    BY <2>1 DEF FirstIndex
  <2>3. lap[1] = PatrolRoute[Cyclic(k + 1 - 1)]
    BY <1>1, <1>2
  <2>4. Cyclic(k + 1 - 1) = k
    BY <1>1, <1>3, CyclicSpec
  <2> QED BY <2>2, <2>3, <2>4
<1> QED BY <1>4, <1>5, <1>6, <1>7 DEF OnRoute

\* The vertex after another one on the route is on the route.
LEMMA SuccOnRoute ==
    ASSUME NEW n, patrol_succ(n) \in Node
    PROVE  OnRoute(patrol_succ(n))
<1>1. patrol_succ(n) # NoNode
  BY NodeAssumption DEF NoNode
<1>2. FirstIndex(n) # {}
  BY <1>1 DEF patrol_succ
<1> DEFINE i == CHOOSE j \in FirstIndex(n) : TRUE
<1>3. i \in 1..Len(PatrolRoute)
  BY <1>2 DEF FirstIndex
<1>4. patrol_succ(n) = PatrolRoute[Cyclic(1 + i)]
  BY <1>2 DEF patrol_succ
<1> HIDE DEF i
<1>5. Cyclic(1 + i) \in 1..Len(PatrolRoute)
  BY <1>3, PatrolAssumption, CyclicSpec
<1> QED BY <1>4, <1>5 DEF OnRoute

\* The path of a patrol ends on the route.
EndsOnRoute(t) == t.patrol => OnRoute(t.path[Len(t.path)])


-----------------------------------------------------------------------------
(* Requests and what they leave of the wait-for graph                      *)

\* A request only changes the edge of its own robot.  A GRANT drops it, any
\* other verdict leaves it, drops it, or leads it to the robot in the way, and
\* the claim of the vertex a robot is on never makes one.
LEMMA RequestMoveWaits ==
    ASSUME NEW tr \in Traffic, NEW r \in Robot, NEW from \in Node, NEW to \in Node,
           NEW p \in Int
    PROVE  LET ans == request_move(tr, r, from, to, p)
           IN  /\ \A s \in Robot : s # r => ans.traffic.waitfor[s] = tr.waitfor[s]
               /\ ans.verdict = "GRANT" => ans.traffic.waitfor[r] = NoRobot
               /\ \/ ans.traffic.waitfor[r] \in {NoRobot, tr.waitfor[r]}
                  \/ /\ from # to
                     /\ ans.traffic.waitfor[r] = tr.owner[to]
                     /\ tr.owner[to] # r
<1> DEFINE t1 == [tr EXCEPT !.prio[r] = p]
           t2 == [t1 EXCEPT !.waitfor[r] = t1.owner[to]]
           t3 == [t2 EXCEPT !.waitfor[r] = NoRobot]
<1>1. t1 \in Traffic /\ t1.owner = tr.owner /\ t1.waitfor = tr.waitfor
  BY DEF Traffic
<1>2. Free(t1, r, to) <=> Free(tr, r, to)
  BY <1>1 DEF Free
<1>3. tr.waitfor \in [Robot -> Robot \cup {NoRobot}]
  BY DEF Traffic
<1> HIDE DEF t1
<1>4. Reserved(t1, r, to).waitfor = [tr.waitfor EXCEPT ![r] = NoRobot]
  BY <1>1 DEF Reserved, Traffic
<1>5. t2 \in Traffic /\ t2.waitfor = [tr.waitfor EXCEPT ![r] = tr.owner[to]]
  BY <1>1 DEF Traffic
<1> HIDE DEF t2
<1>6. t3.waitfor = [tr.waitfor EXCEPT ![r] = NoRobot]
  BY <1>3, <1>5 DEF Traffic
<1> HIDE DEF t3
<1> DEFINE ans == request_move(tr, r, from, to, p)
<1>7. \/ Free(tr, r, to) /\ ans = [verdict |-> "GRANT", traffic |-> Reserved(t1, r, to)]
      \/ ~Free(tr, r, to) /\ from = to /\ ans = [verdict |-> "WAIT", traffic |-> t1]
      \/ ~Free(tr, r, to) /\ from # to /\ ans = [verdict |-> "DEADLOCK", traffic |-> t3]
      \/ ~Free(tr, r, to) /\ from # to /\ ans = [verdict |-> "WAIT", traffic |-> t2]
  BY <1>2 DEF request_move, Waiting, t1, t2, t3
<1> HIDE DEF ans
<1>8. ~Free(tr, r, to) => tr.owner[to] # r
  BY DEF Free
<1> DEFINE w == ans.traffic.waitfor
<1>9. \/ /\ ans.verdict = "GRANT"
         /\ w = [tr.waitfor EXCEPT ![r] = NoRobot]
      \/ /\ ans.verdict # "GRANT"
         /\ \/ w = tr.waitfor
            \/ w = [tr.waitfor EXCEPT ![r] = NoRobot]
            \/ /\ w = [tr.waitfor EXCEPT ![r] = tr.owner[to]]
               /\ from # to /\ tr.owner[to] # r
  BY <1>1, <1>4, <1>5, <1>6, <1>7, <1>8
<1> HIDE DEF w
<1>10. /\ \A s \in Robot : s # r => w[s] = tr.waitfor[s]
       /\ ans.verdict = "GRANT" => w[r] = NoRobot
       /\ \/ w[r] \in {NoRobot, tr.waitfor[r]}
          \/ from # to /\ w[r] = tr.owner[to] /\ tr.owner[to] # r
  BY <1>3, <1>9
<1> QED BY <1>10 DEF ans, w

\* Releasing drops the robot's own edge, if anything is released at all.
LEMMA ReleaseAllWaits ==
    ASSUME NEW tr \in Traffic, NEW r \in Robot, NEW S \in SUBSET Node
    PROVE  /\ \A s \in Robot : s # r => ReleaseAll(tr, r, S).waitfor[s] = tr.waitfor[s]
           /\ ReleaseAll(tr, r, S).waitfor[r] \in {NoRobot, tr.waitfor[r]}
           /\ S # {} => ReleaseAll(tr, r, S).waitfor[r] = NoRobot
  BY DEF Traffic, ReleaseAll

\* The vertex a task keeps reserved: the one driven to or the one stood on.
Holding(t) == IF t.moving THEN NextNode(t) ELSE Current(t)

\* A task that asks for its next vertex stands on the vertex it held before,
\* also when it begins a new lap.
LEMMA RequestingHolds ==
    ASSUME IInv, PatrolsEndOnRoute, NEW t \in tasks, NEW u \in Requesting(t)
    PROVE  Current(u) = Holding(t) /\ EndsOnRoute(u)
<1>1. /\ t \in Task /\ t.idx \in 2..Len(t.path) /\ (t.patrol => Len(PatrolRoute) >= 2)
      /\ EndsOnRoute(t)
  BY DEF IInv, TypeOK, IndexInsidePath, PatrolsHaveRoute, PatrolsEndOnRoute,
         EndsOnRoute, OnRoute
<1>2. PICK v \in Ticked(t) :
        u \in (IF ~v.moving THEN {v}
               ELSE IF ~HasArrived(v) THEN {}
               ELSE IF ~AtEnd(v) THEN {Advanced(v)}
               ELSE IF ~v.patrol THEN {}
               ELSE {[Advanced(v) EXCEPT !.path = lap, !.idx = 2] :
                        lap \in make_patrol_path(report[v.robot])})
  BY DEF Requesting
<1>3. /\ v \in Task
      /\ v.robot = t.robot /\ v.patrol = t.patrol /\ v.moving = t.moving
      /\ v.path = t.path /\ v.idx = t.idx
  BY <1>1, TickedSpec
<1>4. CASE ~v.moving
  BY <1>1, <1>2, <1>3, <1>4 DEF Holding, Current, EndsOnRoute
<1>5. CASE v.moving /\ HasArrived(v) /\ ~AtEnd(v)
  <2>1. /\ u = Advanced(v)
        /\ u.path = t.path /\ u.idx = t.idx + 1 /\ u.patrol = t.patrol
    BY <1>2, <1>3, <1>5, AdvancedSpec
  <2>2. u.idx - 1 = t.idx
    BY <1>1, <2>1
  <2> QED BY <1>1, <1>3, <1>5, <2>1, <2>2
          DEF Holding, Current, NextNode, EndsOnRoute
<1>6. CASE v.moving /\ HasArrived(v) /\ AtEnd(v) /\ v.patrol
  <2>1. PICK lap \in make_patrol_path(report[v.robot]) :
          u = [Advanced(v) EXCEPT !.path = lap, !.idx = 2]
    BY <1>2, <1>6
  <2>2. report[v.robot] \in Position
    BY <1>3, WorldType DEF IInv, Task
  <2>3. report[v.robot] = At(NextNode(v)) /\ NextNode(v) = NextNode(t)
    BY <1>3, <1>6 DEF HasArrived, NextNode
  <2>4. NearestNode(report[v.robot]) = NextNode(t)
    BY <2>3 DEF NearestNode, At
  <2>5. OnRoute(NextNode(t))
    BY <1>1, <1>3, <1>6 DEF AtEnd, NextNode, EndsOnRoute
  <2>6. lap[1] = NextNode(t) /\ OnRoute(lap[Len(lap)])
    BY <1>1, <1>3, <1>6, <2>2, <2>4, <2>5, LapEnds
  <2>7. u.path = lap /\ u.idx = 2
    BY <1>3, <2>1, AdvancedSpec DEF Task
  <2> QED BY <1>3, <1>6, <2>6, <2>7 DEF Holding, Current, EndsOnRoute
<1> QED BY <1>2, <1>4, <1>5, <1>6

\* So does the task it becomes when it has to wait.
LEMMA WaitsAsEnds ==
    ASSUME NEW u \in Task, u.idx \in 2..Len(u.path), EndsOnRoute(u),
           NEW w, WaitsAs(u, w)
    PROVE  EndsOnRoute(w)
<1>1. CASE w.path = u.path
  BY <1>1 DEF WaitsAs, EndsOnRoute
<1>2. ASSUME NEW goal \in {DetourGoal(u), u.path[Len(u.path)]},
             w.path \in Detours(u, goal), w.patrol
      PROVE  OnRoute(w.path[Len(w.path)])
  <2>1. w.path[Len(w.path)] = goal /\ goal \in Node /\ u.patrol
    BY <1>2, DetoursSpec DEF WaitsAs
  <2> QED BY <1>2, <2>1, SuccOnRoute DEF DetourGoal, EndsOnRoute
<1> QED BY <1>1, <1>2 DEF WaitsAs, EndsOnRoute

-----------------------------------------------------------------------------
(* A step concerns one robot                                               *)

\* The parts of the invariant, for one robot.
NoLeak(r) ==
    \A n \in Node : traffic.owner[n] = r =>
        \/ \E t \in tasks : t.robot = r /\ n = Holding(t)
        \/ mode[r] \in {"STOP", "CHARGE"}

WaitsRight(r) ==
    traffic.waitfor[r] # NoRobot =>
        /\ traffic.waitfor[r] # r
        /\ \E t \in tasks : t.robot = r /\ ~t.moving

LEMMA LeakInvParts ==
    LeakInv <=> /\ IInv
                /\ \A t \in tasks : EndsOnRoute(t)
                /\ \A r \in Robot : NoLeak(r) /\ WaitsRight(r)
<1>1. PatrolsEndOnRoute <=> \A t \in tasks : EndsOnRoute(t)
  BY DEF PatrolsEndOnRoute, EndsOnRoute, OnRoute
<1>2. NothingLeaks <=> \A r \in Robot : NoLeak(r)
  BY DEF NothingLeaks, NoLeak, OwnedBy, TasksOf, Holding
<1>3. WaitersStand <=> \A r \in Robot : WaitsRight(r)
  BY DEF WaitersStand, WaitsRight, TasksOf
<1> QED BY <1>1, <1>2, <1>3 DEF LeakInv

\* The step leaves other robots their tasks, modes and wait-for edges, and
\* nobody but r gains a vertex.
OnlyTouches(r) ==
    /\ \A n \in Node : traffic'.owner[n] \in {traffic.owner[n], NoRobot, r}
    /\ \A s \in Robot : s # r =>
          traffic'.waitfor[s] = traffic.waitfor[s] /\ mode'[s] = mode[s]
    /\ \A v \in tasks : v.robot # r => v \in tasks'
    /\ \A v \in tasks' : v.robot # r => v \in tasks

\* Then it is enough to look at r.
LEMMA LeakStep ==
    ASSUME LeakInv, IInv', NEW r \in Robot, OnlyTouches(r),
           \A v \in tasks' : v.robot = r => EndsOnRoute(v),
           NoLeak(r)', WaitsRight(r)'
    PROVE  LeakInv'
<1>1. ASSUME NEW v \in tasks' PROVE EndsOnRoute(v)
  BY LeakInvParts DEF OnlyTouches
<1>2. ASSUME NEW s \in Robot, s # r PROVE NoLeak(s)' /\ WaitsRight(s)'
  <2>1. NoLeak(s) /\ WaitsRight(s) /\ s # NoRobot
    BY LeakInvParts, RobotAssumption DEF NoRobot
  <2>2. NoLeak(s)'
    <3> SUFFICES ASSUME NEW n \in Node, traffic'.owner[n] = s,
                        mode'[s] \notin {"STOP", "CHARGE"}
                 PROVE  \E t \in tasks' : t.robot = s /\ n = Holding(t)
      BY DEF NoLeak, Holding, NextNode, Current
    <3>1. traffic.owner[n] = s /\ mode[s] \notin {"STOP", "CHARGE"}
      BY <1>2, <2>1 DEF OnlyTouches
    <3>2. PICK t \in tasks : t.robot = s /\ n = Holding(t)
      BY <2>1, <3>1 DEF NoLeak
    <3> QED BY <1>2, <3>2 DEF OnlyTouches
  <2>3. WaitsRight(s)'
    BY <1>2, <2>1 DEF WaitsRight, OnlyTouches
  <2> QED BY <2>2, <2>3
<1>3. PatrolsEndOnRoute'
  BY <1>1 DEF PatrolsEndOnRoute, EndsOnRoute, OnRoute
<1>4. NothingLeaks'
  BY <1>2 DEF NothingLeaks, NoLeak, OwnedBy, TasksOf, Holding
<1>5. WaitersStand'
  BY <1>2 DEF WaitersStand, WaitsRight, TasksOf
<1> QED BY <1>3, <1>4, <1>5 DEF LeakInv

\* Replacing the served task by one that holds what the robot holds.
LEMMA LeakKeep ==
    ASSUME LeakInv, IInv', NEW t \in tasks, NEW w,
           w.robot = t.robot, Keep(t, w), EndsOnRoute(w),
           \A n \in Node : traffic'.owner[n] \in {traffic.owner[n], NoRobot, t.robot},
           \A n \in Node : traffic'.owner[n] = t.robot =>
               n = Holding(w) \/ mode[t.robot] \in {"STOP", "CHARGE"},
           \A s \in Robot : s # t.robot => traffic'.waitfor[s] = traffic.waitfor[s],
           traffic'.waitfor[t.robot] # NoRobot =>
               ~w.moving /\ traffic'.waitfor[t.robot] # t.robot
    PROVE  LeakInv'
<1> DEFINE r == t.robot
<1>1. r \in Robot /\ tasks' = (tasks \ {t}) \cup {w} /\ mode' = mode
  BY LeakInvParts DEF IInv, TypeOK, Task, Keep, ledger
<1>2. \A v \in tasks : v.robot = r => v = t
  BY LeakInvParts DEF IInv, OneTaskPerRobot
<1>3. OnlyTouches(r)
  BY <1>1, <1>2 DEF OnlyTouches
<1>4. \A v \in tasks' : v.robot = r => EndsOnRoute(v)
  BY <1>1, <1>2
<1>5. NoLeak(r)'
  BY <1>1 DEF NoLeak, Holding, NextNode, Current
<1>6. WaitsRight(r)'
  BY <1>1 DEF WaitsRight
<1> QED BY <1>1, <1>3, <1>4, <1>5, <1>6, LeakStep

\* The robot of a task waits for nobody while the task is on its way, and holds
\* nothing but the task's vertex.
LEMMA TaskHolds ==
    ASSUME LeakInv, NEW t \in tasks
    PROVE  /\ t \in Task /\ t.robot \in Robot /\ t.robot # NoRobot
           /\ t.idx \in 2..Len(t.path)
           /\ Current(t) \in Node /\ NextNode(t) \in Node
           /\ EndsOnRoute(t)
           /\ \A n \in Node : traffic.owner[n] = t.robot =>
                n = Holding(t) \/ mode[t.robot] \in {"STOP", "CHARGE"}
           /\ t.moving => traffic.waitfor[t.robot] = NoRobot
           /\ traffic.waitfor[t.robot] # t.robot
<1>1. /\ IInv /\ NoLeak(t.robot) /\ WaitsRight(t.robot) /\ EndsOnRoute(t)
      /\ t \in Task /\ t.robot \in Robot
  <2>1. t \in Task /\ t.robot \in Robot
    BY LeakInvParts DEF IInv, TypeOK, Task
  <2> QED BY <2>1, LeakInvParts
<1>2. \A v \in tasks : v.robot = t.robot => v = t
  BY <1>1 DEF IInv, OneTaskPerRobot
<1>3. t.robot # NoRobot
  BY <1>1, RobotAssumption DEF NoRobot
<1>4. t.idx \in 2..Len(t.path) /\ Current(t) \in Node /\ NextNode(t) \in Node
  BY <1>1, TaskNodes DEF IInv, IndexInsidePath
<1> QED BY <1>1, <1>2, <1>3, <1>4 DEF NoLeak, WaitsRight

\* A task that drives on leaks nothing.
LEMMA DrivesOnLeak ==
    ASSUME LeakInv, IInv', NEW t \in tasks, NEW w, DrivesOn(t, w)
    PROVE  LeakInv'
<1>1. /\ w.robot = t.robot /\ w.moving = t.moving /\ t.moving
      /\ w.path = t.path /\ w.idx = t.idx /\ w.patrol = t.patrol
      /\ Keep(t, w) /\ traffic' = traffic
  BY DEF DrivesOn, Same
<1>2. Holding(w) = Holding(t) /\ (EndsOnRoute(t) => EndsOnRoute(w))
  BY <1>1 DEF Holding, NextNode, EndsOnRoute
<1> QED BY <1>1, <1>2, TaskHolds, LeakKeep

\* A request is asked with vertices and a number.
LEMMA AskTypes ==
    ASSUME LeakInv, NEW t \in tasks, NEW u \in Requesting(t)
    PROVE  /\ u \in Task /\ u.robot = t.robot /\ u.patrol = t.patrol /\ ~u.moving
           /\ u.idx \in 2..Len(u.path)
           /\ Current(u) \in Node /\ NextNode(u) \in Node
           /\ compute_priority(t.robot, u) \in Int
           /\ Current(u) = Holding(t) /\ EndsOnRoute(u)
           /\ Ask(u) = request_move(traffic, t.robot, Current(u), NextNode(u),
                                    compute_priority(t.robot, u))
<1>1. IInv /\ PatrolsEndOnRoute /\ TypeOK /\ t.robot \in Robot
  BY TaskHolds DEF LeakInv, IInv
<1>2. /\ u \in Task /\ u.robot = t.robot /\ u.patrol = t.patrol /\ ~u.moving
      /\ u.idx \in 2..Len(u.path)
      /\ Current(u) \in Node /\ NextNode(u) \in Node
  BY <1>1, RequestingSpec
<1>3. compute_priority(t.robot, u) \in Int
  BY <1>1, <1>2, PriorityType
<1> QED BY <1>1, <1>2, <1>3, RequestingHolds DEF Ask

\* A task that stays where it is keeps the vertex and waits for somebody else.
LEMMA StaysLeak ==
    ASSUME LeakInv, IInv', NEW t \in tasks, NEW u \in Requesting(t), NEW w,
           Stays(t, u, w)
    PROVE  LeakInv'
<1>1. /\ u \in Task /\ u.robot = t.robot /\ ~u.moving
      /\ u.idx \in 2..Len(u.path)
      /\ Current(u) \in Node /\ NextNode(u) \in Node
      /\ compute_priority(t.robot, u) \in Int
      /\ Current(u) = Holding(t) /\ EndsOnRoute(u)
      /\ Ask(u) = request_move(traffic, t.robot, Current(u), NextNode(u),
                               compute_priority(t.robot, u))
  BY AskTypes
<1>2. /\ w.robot = t.robot /\ ~w.moving /\ Keep(t, w)
      /\ Current(w) = Current(u) /\ EndsOnRoute(w)
  BY <1>1, WaitsAsSpec, WaitsAsEnds DEF Stays, WaitsAs
<1>3. traffic \in Traffic /\ t.robot \in Robot
  BY TaskHolds, LeakInvParts DEF IInv, TypeOK
<1>4. traffic'.owner = traffic.owner
  BY TaskHolds, LeakInvParts, AskSpec DEF Stays
<1>5. /\ \A s \in Robot : s # t.robot => traffic'.waitfor[s] = traffic.waitfor[s]
      /\ \/ traffic'.waitfor[t.robot] \in {NoRobot, traffic.waitfor[t.robot]}
         \/ /\ traffic'.waitfor[t.robot] = traffic.owner[NextNode(u)]
            /\ traffic.owner[NextNode(u)] # t.robot
  BY <1>1, <1>3, RequestMoveWaits DEF Stays
<1>6. traffic'.waitfor[t.robot] # NoRobot => traffic'.waitfor[t.robot] # t.robot
  BY <1>5, TaskHolds
<1>7. Holding(w) = Holding(t)
  BY <1>1, <1>2 DEF Holding
<1>8. \A n \in Node : traffic'.owner[n] = t.robot =>
        n = Holding(w) \/ mode[t.robot] \in {"STOP", "CHARGE"}
  BY <1>4, <1>7, TaskHolds
<1>9. \A n \in Node : traffic'.owner[n] \in {traffic.owner[n], NoRobot, t.robot}
  BY <1>4
<1> QED BY <1>2, <1>5, <1>6, <1>8, <1>9, LeakKeep

\* A task that departs holds the vertex it drives to and waits for nobody.
LEMMA DepartsLeak ==
    ASSUME LeakInv, IInv', NEW t \in tasks, NEW u \in Requesting(t), NEW w,
           Departs(t, u, w)
    PROVE  LeakInv'
<1>1. /\ u \in Task /\ u.robot = t.robot /\ u.patrol = t.patrol /\ ~u.moving
      /\ Current(u) \in Node /\ NextNode(u) \in Node
      /\ compute_priority(t.robot, u) \in Int
      /\ Current(u) = Holding(t) /\ EndsOnRoute(u)
      /\ Ask(u) = request_move(traffic, t.robot, Current(u), NextNode(u),
                               compute_priority(t.robot, u))
  BY AskTypes
<1>2. /\ w.robot = t.robot /\ w.moving /\ w.path = u.path /\ w.idx = u.idx
      /\ w.patrol = u.patrol /\ Keep(t, w) /\ Ask(u).verdict = "GRANT"
  BY <1>1 DEF Departs
<1>3. /\ IInv /\ traffic \in Traffic /\ t.robot \in Robot
  BY TaskHolds, LeakInvParts DEF IInv, TypeOK
<1>4. \A n \in Node : traffic'.owner[n] =
        (IF n = NextNode(u) THEN t.robot
         ELSE IF n = Current(u) /\ traffic.owner[n] = t.robot THEN NoRobot
         ELSE traffic.owner[n])
  BY <1>3, DepartsOwner
<1> DEFINE asked == Ask(u).traffic
<1>5. /\ asked \in Traffic
      /\ \A s \in Robot : s # t.robot => asked.waitfor[s] = traffic.waitfor[s]
      /\ asked.waitfor[t.robot] = NoRobot
  BY <1>1, <1>2, <1>3, RequestMoveWaits, RequestMoveType
<1>6. /\ \A s \in Robot : s # t.robot => traffic'.waitfor[s] = traffic.waitfor[s]
      /\ traffic'.waitfor[t.robot] = NoRobot
  <2>1. \/ traffic' = asked
        \/ traffic' = ReleaseAll(asked, t.robot, {Current(u)})
    BY <1>1 DEF Departs
  <2>2. {Current(u)} \in SUBSET Node
    BY <1>1
  <2> HIDE DEF asked
  <2> QED BY <1>3, <1>5, <2>1, <2>2, ReleaseAllWaits
<1>7. Holding(w) = NextNode(u) /\ EndsOnRoute(w)
  BY <1>1, <1>2 DEF Holding, NextNode, EndsOnRoute
<1>8. \A n \in Node : traffic'.owner[n] = t.robot =>
        n = Holding(w) \/ mode[t.robot] \in {"STOP", "CHARGE"}
  BY <1>1, <1>3, <1>4, <1>7, TaskHolds
<1>9. \A n \in Node : traffic'.owner[n] \in {traffic.owner[n], NoRobot, t.robot}
  BY <1>4
<1> QED BY <1>2, <1>6, <1>7, <1>8, <1>9, LeakKeep

\* A task that ends gives back the vertex its robot was driving to.
LEMMA EndsLeak ==
    ASSUME LeakInv, IInv', NEW t \in tasks, NEW nodes \in SUBSET Node, NEW state,
           Ends(t, nodes, state)
    PROVE  LeakInv'
<1> DEFINE r == t.robot
<1>1. /\ t.moving /\ NextNode(t) \in nodes
      /\ tasks' = tasks \ {t} /\ mode' = mode
      /\ traffic' = ReleaseAll(traffic, r, nodes)
  BY DEF Ends, Finish
<1>2. r \in Robot /\ traffic \in Traffic
  BY TaskHolds, LeakInvParts DEF IInv, TypeOK
<1>3. \A v \in tasks : v.robot = r => v = t
  BY LeakInvParts DEF IInv, OneTaskPerRobot
<1>4. \A n \in Node : traffic'.owner[n] =
        (IF n \in nodes /\ traffic.owner[n] = r THEN NoRobot ELSE traffic.owner[n])
  BY <1>1, <1>2, ReleaseAllSpec
<1>5. /\ \A s \in Robot : s # r => traffic'.waitfor[s] = traffic.waitfor[s]
      /\ traffic'.waitfor[r] = NoRobot
  BY <1>1, <1>2, ReleaseAllWaits
<1>6. OnlyTouches(r)
  BY <1>1, <1>3, <1>4, <1>5 DEF OnlyTouches
<1>7. NoLeak(r)'
  <2> SUFFICES ASSUME NEW n \in Node, traffic'.owner[n] = r
               PROVE  mode[r] \in {"STOP", "CHARGE"}
    BY <1>1 DEF NoLeak
  <2> QED BY <1>1, <1>4, TaskHolds DEF Holding
<1>8. WaitsRight(r)'
  BY <1>5 DEF WaitsRight
<1>9. \A v \in tasks' : v.robot = r => EndsOnRoute(v)
  BY <1>1, <1>3
<1> QED BY <1>2, <1>6, <1>7, <1>8, <1>9, LeakStep

-----------------------------------------------------------------------------
(* New tasks and changed modes                                             *)

\* The step gives back r's vertices in S, then perhaps claims n for it.
Claims(r, S, n) ==
    LET freed == ReleaseAll(traffic, r, S)
    IN  \/ traffic' = freed
        \/ \E p \in Int : traffic' = request_move(freed, r, n, n, p).traffic

\* What that does to the reservations and to the wait-for graph.
Claimed(r, S, n) ==
    /\ \A m \in Node : traffic'.owner[m] \in {traffic.owner[m], NoRobot, r}
    /\ \A m \in Node : traffic'.owner[m] = r =>
         m = n \/ (traffic.owner[m] = r /\ m \notin S)
    /\ \A s \in Robot : s # r => traffic'.waitfor[s] = traffic.waitfor[s]
    /\ traffic'.waitfor[r] \in {NoRobot, traffic.waitfor[r]}
    /\ S # {} => traffic'.waitfor[r] = NoRobot

LEMMA ClaimSpec ==
    ASSUME traffic \in Traffic, NEW r \in Robot, NEW S \in SUBSET Node,
           NEW n \in Node, Claims(r, S, n)
    PROVE  Claimed(r, S, n)
<1> DEFINE freed == ReleaseAll(traffic, r, S)
<1>0. traffic' = freed \/ \E p \in Int : traffic' = request_move(freed, r, n, n, p).traffic
  BY DEF Claims
<1>1. /\ freed \in Traffic
      /\ \A m \in Node : freed.owner[m] =
           (IF m \in S /\ traffic.owner[m] = r THEN NoRobot ELSE traffic.owner[m])
  BY ReleaseAllSpec
<1>2. /\ \A s \in Robot : s # r => freed.waitfor[s] = traffic.waitfor[s]
      /\ freed.waitfor[r] \in {NoRobot, traffic.waitfor[r]}
      /\ S # {} => freed.waitfor[r] = NoRobot
  BY ReleaseAllWaits
<1>3. r # NoRobot
  BY RobotAssumption DEF NoRobot
<1> HIDE DEF freed
<1>4. CASE traffic' = freed
  BY <1>1, <1>2, <1>3, <1>4 DEF Claimed
<1>5. ASSUME NEW p \in Int, traffic' = request_move(freed, r, n, n, p).traffic
      PROVE  Claimed(r, S, n)
  <2>1. traffic' = request_move(freed, r, n, n, p).traffic
    BY <1>5
  <2>2. \/ traffic'.owner = freed.owner
        \/ traffic'.owner = [freed.owner EXCEPT ![n] = r]
    BY <1>1, <2>1, RequestMoveOwner
  <2>3. /\ \A s \in Robot : s # r => traffic'.waitfor[s] = freed.waitfor[s]
        /\ traffic'.waitfor[r] \in {NoRobot, freed.waitfor[r]}
    BY <1>1, <2>1, RequestMoveWaits
  <2>4. freed.owner \in [Node -> Robot \cup {NoRobot}]
    BY <1>1 DEF Traffic
  <2>5. /\ \A m \in Node : traffic'.owner[m] \in {freed.owner[m], r}
        /\ \A m \in Node : traffic'.owner[m] = r => m = n \/ freed.owner[m] = r
    BY <2>2, <2>4
  <2>6. \A m \in Node : traffic'.owner[m] \in {traffic.owner[m], NoRobot, r}
    BY <1>1, <2>5
  <2>7. \A m \in Node : traffic'.owner[m] = r =>
          m = n \/ (traffic.owner[m] = r /\ m \notin S)
    BY <1>1, <1>3, <2>5
  <2>8. /\ \A s \in Robot : s # r => traffic'.waitfor[s] = traffic.waitfor[s]
        /\ traffic'.waitfor[r] \in {NoRobot, traffic.waitfor[r]}
        /\ S # {} => traffic'.waitfor[r] = NoRobot
    BY <1>2, <2>3
  <2> QED BY <2>6, <2>7, <2>8 DEF Claimed
<1> QED BY <1>0, <1>4, <1>5

\* What a robot holds beyond its tasks' vertices, it holds in STOP or CHARGE.
LEMMA CancelledIsHeld ==
    ASSUME LeakInv, NEW r \in Robot, mode[r] \notin {"STOP", "CHARGE"},
           NEW n \in Node, traffic.owner[n] = r
    PROVE  n \in CancelledNodes(r)
<1>1. PICK t \in tasks : t.robot = r /\ n = Holding(t)
  BY LeakInvParts DEF NoLeak
<1> QED BY <1>1 DEF CancelledNodes, TasksOf, Holding

\* A robot that gets a new task holds the first vertex of its path, if any.
LEMMA LeakNew ==
    ASSUME LeakInv, IInv', NEW r \in Robot,
           NEW path \in Seq(Node), path[1] \in Node,
           NEW patrol, patrol => OnRoute(path[Len(path)]),
           Claims(r, CancelledNodes(r), path[1]),
           tasks' = TasksWithout(r) \cup {NewTask(r, path, patrol)},
           mode' = mode
    PROVE  LeakInv'
<1> DEFINE new == NewTask(r, path, patrol)
<1>1. /\ new.robot = r /\ new.patrol = patrol /\ ~new.moving
      /\ new.path = path /\ Current(new) = path[1]
  BY DEF NewTask, Current
<1>2. /\ \A v \in tasks' : v.robot = r => v = new
      /\ \A v \in tasks' : v.robot # r => v \in tasks
      /\ \A v \in tasks : v.robot # r => v \in tasks'
      /\ new \in tasks'
  BY <1>1 DEF TasksWithout, TasksOf
<1> HIDE DEF new
<1>3. traffic \in Traffic /\ WaitsRight(r)
  BY LeakInvParts DEF IInv, TypeOK
<1>4. /\ \A m \in Node : traffic'.owner[m] \in {traffic.owner[m], NoRobot, r}
      /\ \A m \in Node : traffic'.owner[m] = r =>
           m = path[1] \/ (traffic.owner[m] = r /\ m \notin CancelledNodes(r))
      /\ \A s \in Robot : s # r => traffic'.waitfor[s] = traffic.waitfor[s]
      /\ traffic'.waitfor[r] \in {NoRobot, traffic.waitfor[r]}
  <2>1. CancelledNodes(r) \in SUBSET Node
    BY CancelledType DEF LeakInv
  <2>2. Claimed(r, CancelledNodes(r), path[1])
    BY <1>3, <2>1, ClaimSpec
  <2> QED BY <2>2 DEF Claimed
<1>5. OnlyTouches(r)
  BY <1>2, <1>4 DEF OnlyTouches
<1>6. \A v \in tasks' : v.robot = r => EndsOnRoute(v)
  BY <1>1, <1>2 DEF EndsOnRoute
<1>7. NoLeak(r)'
  <2> SUFFICES ASSUME NEW n \in Node, traffic'.owner[n] = r,
                      mode[r] \notin {"STOP", "CHARGE"}
               PROVE  \E t \in tasks' : t.robot = r /\ n = Holding(t)
    BY DEF NoLeak, Holding, NextNode, Current
  <2>1. n = path[1]
    BY <1>4, CancelledIsHeld
  <2> QED BY <1>1, <1>2, <2>1 DEF Holding
<1>8. WaitsRight(r)'
  BY <1>1, <1>2, <1>3, <1>4 DEF WaitsRight
<1> QED BY <1>5, <1>6, <1>7, <1>8, LeakStep

\* A robot without a task has no vertices to give back on a cancellation.
LEMMA NothingCancelled ==
    ASSUME IInv, NEW r \in Robot, ~busy[r]
    PROVE  ReleaseAll(traffic, r, CancelledNodes(r)) = traffic
<1>1. CancelledNodes(r) = {}
  BY DEF IInv, BusyMatchesTasks, CancelledNodes
<1> QED BY <1>1 DEF ReleaseAll

\* Accepting a work task gives the robot a path from the vertex it claims.
LEMMA AcceptClaims ==
    ASSUME IInv, NEW r \in Robot, NEW goal \in Node, NEW arm_actions,
           Accept(r, goal, arm_actions)
    PROVE  /\ mode' = mode
           /\ \E path \in Seq(Node) :
                /\ path[1] \in Node
                /\ tasks' = TasksWithout(r) \cup {NewTask(r, path, FALSE)}
                /\ Claims(r, CancelledNodes(r), path[1])
<1>1. PICK path \in Seq(Node), freed \in Traffic, p \in Int :
        /\ Len(path) >= 2 /\ path[1] \in Node
        /\ tasks' = TasksWithout(r) \cup {NewTask(r, path, FALSE)}
        /\ \/ busy[r] /\ freed = ReleaseAll(traffic, r, CancelledNodes(r))
           \/ ~busy[r] /\ freed = traffic
        /\ traffic' = request_move(freed, r, path[1], path[1], p).traffic
  BY AcceptFacts
<1>2. freed = ReleaseAll(traffic, r, CancelledNodes(r))
  BY <1>1, NothingCancelled
<1>3. Claims(r, CancelledNodes(r), path[1])
  BY <1>1, <1>2 DEF Claims
<1> QED BY <1>1, <1>3, AcceptFacts

\* So does starting a patrol, and its path ends on the route.
LEMMA StartPatrolClaims ==
    ASSUME IInv, NEW r \in Robot, start_patrol(r)
    PROVE  /\ mode' = mode
           /\ \E path \in Seq(Node) :
                /\ path \in make_patrol_path(report[r])
                /\ path[1] \in Node /\ OnRoute(path[Len(path)])
                /\ tasks' = TasksWithout(r) \cup {NewTask(r, path, TRUE)}
                /\ Claims(r, CancelledNodes(r), path[1])
                /\ \E p \in Int :
                     traffic' = request_move(traffic, r, path[1], path[1], p).traffic
<1>1. PICK path \in make_patrol_path(report[r]) :
        /\ tasks' = tasks \cup {NewTask(r, path, TRUE)}
        /\ traffic' = request_move(traffic, r, path[1], path[1],
                          compute_priority(r, NewTask(r, path, TRUE))).traffic
  BY DEF start_patrol
<1>2. ~busy[r] /\ mode' = mode /\ Len(PatrolRoute) >= 2 /\ report[r] \in Position
  BY WorldType DEF start_patrol, Idlers, Patrollable, IInv
<1>3. /\ path \in Seq(Node) /\ Len(path) = Len(PatrolRoute) + 1
      /\ OnRoute(path[Len(path)])
  BY <1>2, LapSpec, LapEnds
<1>4. path[1] \in Node
  BY <1>2, <1>3, PatrolAssumption
<1>5. PICK p \in Int : p = compute_priority(r, NewTask(r, path, TRUE))
  BY <1>2, <1>3, NewTaskSpec, PriorityType, WorldType DEF IInv
<1>6. ReleaseAll(traffic, r, CancelledNodes(r)) = traffic
  BY <1>2, NothingCancelled
<1>7. tasks' = TasksWithout(r) \cup {NewTask(r, path, TRUE)}
  BY <1>1, <1>2, NotBusy
<1>8. Claims(r, CancelledNodes(r), path[1])
  BY <1>1, <1>5, <1>6 DEF Claims
<1> QED BY <1>1, <1>2, <1>3, <1>4, <1>5, <1>7, <1>8

\* Neither leaks anything.
LEMMA NewTaskLeak ==
    ASSUME LeakInv, IInv', NEW r \in Robot,
           \/ start_patrol(r)
           \/ \E goal \in Node : \E arm_actions : Accept(r, goal, arm_actions)
    PROVE  LeakInv'
<1>1. IInv
  BY DEF LeakInv
<1>2. CASE start_patrol(r)
  BY <1>1, <1>2, StartPatrolClaims, LeakNew
<1>3. ASSUME NEW goal \in Node, NEW arm_actions, Accept(r, goal, arm_actions)
      PROVE  LeakInv'
  BY <1>1, <1>3, AcceptClaims, LeakNew
<1> QED BY <1>2, <1>3

\* A step that leaves tasks and reservations alone leaks nothing as long as no
\* robot leaves STOP or CHARGE.
LEMMA LeakQuiet ==
    ASSUME LeakInv, IInv', UNCHANGED <<tasks, traffic>>,
           \A s \in Robot : mode[s] \in {"STOP", "CHARGE"} => mode'[s] \in {"STOP", "CHARGE"}
    PROVE  LeakInv'
<1>1. PatrolsEndOnRoute'
  BY DEF LeakInv, PatrolsEndOnRoute
<1>2. NothingLeaks'
  BY DEF LeakInv, NothingLeaks, OwnedBy, TasksOf, NextNode, Current
<1>3. WaitersStand'
  BY DEF LeakInv, WaitersStand, TasksOf
<1> QED BY <1>1, <1>2, <1>3 DEF LeakInv

\* Changing the mode claims at most the vertex the robot is at.
LEMMA SetModeClaims ==
    ASSUME IInv, NEW r \in Robot, NEW m \in Mode, on_set_mode(r, m), m # "CHARGE"
    PROVE  LET S == CancelledNodes(r) \cup OwnedBy(traffic, r)
               node == NearestNode(report[r])
           IN  S \in SUBSET Node /\ node \in Node /\ Claims(r, S, node)
<1> DEFINE S == CancelledNodes(r) \cup OwnedBy(traffic, r)
           freed == ReleaseAll(traffic, r, S)
           node == NearestNode(report[r])
<1>1. \/ traffic' = request_move(freed, r, node, node, KStopPrio).traffic
      \/ traffic' = freed
  BY DEF on_set_mode
<1>2. S \in SUBSET Node /\ node \in Node
  BY CancelledType, WorldType DEF OwnedBy, IInv, Position, NearestNode
<1>3. PICK p \in Int : p = KStopPrio
  BY PriorityAssumption DEF KStopPrio
<1>4. Claims(r, S, node)
  BY <1>1, <1>3 DEF Claims
<1> QED BY <1>2, <1>4

\* A change of mode leaks nothing: every mode but CHARGE gives back all that
\* the robot holds, and STOP may keep the claim it makes.
LEMMA SetModeLeak ==
    ASSUME LeakInv, IInv', NEW r \in Robot, NEW m \in Mode, on_set_mode(r, m)
    PROVE  LeakInv'
<1> DEFINE S == CancelledNodes(r) \cup OwnedBy(traffic, r)
           freed == ReleaseAll(traffic, r, S)
           node == NearestNode(report[r])
<1>1. /\ IInv /\ traffic \in Traffic /\ WaitsRight(r)
      /\ mode \in [Robot -> Mode \cup {"NONE"}] /\ node \in Node
  BY LeakInvParts, WorldType DEF IInv, Position, NearestNode
<1>2. mode' = [mode EXCEPT ![r] = m]
  BY DEF on_set_mode
<1>3. CASE m = "CHARGE"
  <2>1. UNCHANGED <<tasks, traffic>>
    BY <1>3 DEF on_set_mode
  <2> QED BY <1>1, <1>2, <1>3, <2>1, LeakQuiet
<1>4. CASE m # "CHARGE"
  <2>1. /\ tasks' = TasksWithout(r)
        /\ \/ m = "STOP" /\ traffic' = request_move(freed, r, node, node, KStopPrio).traffic
           \/ traffic' = freed
    BY <1>4 DEF on_set_mode
  <2>2. S \in SUBSET Node /\ Claims(r, S, node)
    BY <1>1, <1>4, SetModeClaims
  <2>3. \A n \in Node : traffic.owner[n] = r => n \in S
    BY DEF OwnedBy
  <2>4. S = {} => TasksOf(r) = {}
    BY DEF CancelledNodes
  <2> HIDE DEF S, node
  <2>5. Claimed(r, S, node)
    BY <1>1, <2>2, ClaimSpec
  <2>6. /\ \A v \in tasks' : v.robot # r /\ v \in tasks
        /\ \A v \in tasks : v.robot # r => v \in tasks'
    BY <2>1 DEF TasksWithout, TasksOf
  <2>7. OnlyTouches(r)
    BY <1>1, <1>2, <2>5, <2>6 DEF OnlyTouches, Claimed
  <2>8. NoLeak(r)'
    <3>1. CASE m = "STOP"
      BY <1>1, <1>2, <3>1 DEF NoLeak
    <3>2. CASE traffic' = freed
      <4>1. \A n \in Node : traffic'.owner[n] # r
        BY <1>1, <2>2, <2>3, <3>2, ReleaseAllSpec, RobotAssumption DEF NoRobot
      <4> QED BY <4>1 DEF NoLeak
    <3> QED BY <2>1, <3>1, <3>2
  <2>9. WaitsRight(r)'
    <3>1. traffic'.waitfor[r] = NoRobot
      BY <1>1, <2>4, <2>5 DEF WaitsRight, TasksOf, Claimed
    <3> QED BY <3>1 DEF WaitsRight
  <2> QED BY <2>6, <2>7, <2>8, <2>9, LeakStep
<1> QED BY <1>3, <1>4

-----------------------------------------------------------------------------
(* Nothing leaks, only standing robots wait                                *)

\* A served task leaks nothing, whatever the outcome.
LEMMA ServeTaskLeak ==
    ASSUME LeakInv, IInv', NEW t \in tasks, ServeTask(t)
    PROVE  LeakInv'
<1>1. IInv
  BY DEF LeakInv
<1> QED BY <1>1, ServeTaskSpec, DrivesOnLeak, EndsLeak, DepartsLeak, StaysLeak

\* A node without tasks and reservations has nothing to leak.
LEMMA EmptyLeak ==
    ASSUME tasks = {}, traffic = NoTraffic
    PROVE  PatrolsEndOnRoute /\ NothingLeaks /\ WaitersStand
<1>1. \A r \in Robot : r # NoRobot
  BY RobotAssumption DEF NoRobot
<1> QED BY <1>1 DEF PatrolsEndOnRoute, NothingLeaks, WaitersStand, OwnedBy, NoTraffic

\* A fresh traffic plugin has nothing to leak either.
LEMMA SetPluginsLeak == ASSUME LeakInv, IInv', on_set_plugins PROVE LeakInv'
<1>1. traffic' = NoTraffic /\ tasks' = tasks
  BY DEF on_set_plugins
<1>2. \A r \in Robot : r # NoRobot
  BY RobotAssumption DEF NoRobot
<1>3. PatrolsEndOnRoute'
  BY <1>1 DEF LeakInv, PatrolsEndOnRoute
<1>4. NothingLeaks' /\ WaitersStand'
  BY <1>1, <1>2 DEF NothingLeaks, WaitersStand, OwnedBy, NoTraffic
<1> QED BY <1>3, <1>4 DEF LeakInv

\* Every step keeps the invariant.
LEMMA NextLeak == LeakInv /\ [Next]_vars => LeakInv'
<1> SUFFICES ASSUME LeakInv, [Next]_vars PROVE LeakInv'
  OBVIOUS
<1>1. IInv /\ IInv'
  BY NextIInv DEF LeakInv
<1>2. CASE on_timer
  BY <1>1, <1>2, ServeTaskLeak, NewTaskLeak DEF on_timer, Serve, ServeTask
<1>3. ASSUME NEW r \in Robot, on_robot_state(r) \/ Drive(r) PROVE LeakInv'
  <2>1. mode \in [Robot -> Mode \cup {"NONE"}]
    BY <1>1, WorldType DEF IInv
  <2>2. CASE on_robot_state(r)
    <3>1. /\ UNCHANGED <<tasks, traffic>>
          /\ mode' = [mode EXCEPT ![r] =
                        IF mode[r] # "NONE" THEN mode[r]
                        ELSE IF PatrolDefault THEN "PATROL" ELSE "IDLE"]
      BY <2>2 DEF on_robot_state
    <3>2. \A s \in Robot : mode[s] # "NONE" => mode'[s] = mode[s]
      BY <2>1, <3>1
    <3> QED BY <1>1, <3>1, <3>2, LeakQuiet
  <2>3. CASE Drive(r)
    BY <1>1, <2>3, LeakQuiet DEF Drive, ledger
  <2> QED BY <1>3, <2>2, <2>3
<1>4. CASE Operator
  <2>1. ASSUME NEW r \in Managed, NEW goal \in Goals, NEW arm \in ArmActions,
               SubmitForced(r, goal, arm)
        PROVE  LeakInv'
    <3>1. r \in Robot /\ goal \in Node
      BY InputAssumption
    <3> QED BY <1>1, <2>1, <3>1, NewTaskLeak DEF SubmitForced
  <2>2. ASSUME NEW goal \in Goals, NEW arm \in ArmActions, SubmitAuto(goal, arm)
        PROVE  LeakInv'
    <3>1. PICK r \in Bidders : Accept(r, goal, arm)
      BY <2>2 DEF SubmitAuto, assign
    <3>2. r \in Robot /\ goal \in Node
      BY <1>1, WorldType, InputAssumption DEF IInv, Bidders
    <3> QED BY <1>1, <3>1, <3>2, NewTaskLeak
  <2>3. ASSUME NEW r \in Managed, NEW m \in Modes, on_set_mode(r, m) PROVE LeakInv'
    BY <1>1, <2>3, SetModeLeak, InputAssumption
  <2>4. ASSUME NEW r \in Managed, NEW level \in Levels, on_set_battery(r, level)
        PROVE  LeakInv'
    BY <1>1, <2>4, LeakQuiet DEF on_set_battery
  <2> QED BY <1>1, <1>4, <2>1, <2>2, <2>3, <2>4, SetPluginsLeak DEF Operator
<1>5. CASE UNCHANGED vars
  BY <1>1, <1>5, LeakQuiet DEF vars, ledger
<1> QED BY <1>2, <1>3, <1>4, <1>5 DEF Next

\* The inductive invariant holds in every reachable state, from either start.
THEOREM LeakInvariantHolds == (Spec \/ AllSeenSpec) => []LeakInv
<1>1. Init => LeakInv
  BY InitIInv, EmptyLeak DEF Init, LeakInv
<1>2. AllSeenInit => LeakInv
  BY AllSeenIInv, EmptyLeak DEF AllSeenInit, LeakInv
<1> QED BY <1>1, <1>2, NextLeak, PTL DEF Spec, AllSeenSpec

\* No reservation outlives its reason, in any run of the node: what a robot
\* holds is the vertex its task stands on or drives to, or a STOP claim.
THEOREM NothingIsLeaked == Spec => []NothingLeaks
<1>1. LeakInv => NothingLeaks
  BY DEF LeakInv
<1> QED BY <1>1, LeakInvariantHolds, PTL

\* The edges of the wait-for graph lead from standing robots with a task to
\* somebody else, so find_cycle only ever finds robots that stand.
THEOREM OnlyStandersWait == Spec => []WaitersStand
<1>1. LeakInv => WaitersStand
  BY DEF LeakInv
<1> QED BY <1>1, LeakInvariantHolds, PTL

-----------------------------------------------------------------------------
(* The fleet node implements the abstract ledger                           *)

\* r gives back vertices of its own, and takes at most the vertex m.
Trades(r, m) ==
    \A n \in Node :
        \/ traffic'.owner[n] = traffic.owner[n]
        \/ traffic.owner[n] = r /\ traffic'.owner[n] = NoRobot
        \/ n = m /\ traffic.owner[n] \in {NoRobot, r} /\ traffic'.owner[n] = r

\* Which is a step of the ledger.
LEMMA TradesRefines ==
    ASSUME traffic \in Traffic, traffic' \in Traffic,
           NEW r \in Robot, NEW m, Trades(r, m)
    PROVE  [Ledger!Next]_(traffic.owner)
<1> DEFINE back == {n \in Node : traffic.owner[n] = r /\ traffic'.owner[n] = NoRobot}
           left == [n \in Node |-> IF n \in back THEN NoRobot ELSE traffic.owner[n]]
<1>1. /\ traffic.owner \in [Node -> Robot \cup {NoRobot}]
      /\ traffic'.owner \in [Node -> Robot \cup {NoRobot}]
      /\ r # NoRobot
  BY RobotAssumption DEF Traffic, NoRobot
<1>2. back \in SUBSET Ledger!Holds(r)
  BY DEF Ledger!Holds
<1>3. \/ traffic'.owner = left
      \/ \E n \in Node : /\ left[n] \in {NoRobot, r}
                         /\ traffic'.owner = [left EXCEPT ![n] = r]
  <2>1. CASE m \in Node /\ traffic.owner[m] \in {NoRobot, r} /\ traffic'.owner[m] = r
    <3>1. left[m] \in {NoRobot, r}
      BY <1>1, <2>1
    <3>2. \A n \in Node : traffic'.owner[n] = [left EXCEPT ![m] = r][n]
      BY <1>1, <2>1 DEF Trades
    <3>3. traffic'.owner = [left EXCEPT ![m] = r]
      BY <1>1, <3>2
    <3> QED BY <2>1, <3>1, <3>3
  <2>2. CASE ~(m \in Node /\ traffic.owner[m] \in {NoRobot, r} /\ traffic'.owner[m] = r)
    <3>1. \A n \in Node : traffic'.owner[n] = left[n]
      BY <1>1, <2>2 DEF Trades
    <3> QED BY <1>1, <3>1
  <2> QED BY <2>1, <2>2
<1> HIDE DEF back
<1>4. Ledger!Exchange(r)
  BY <1>2, <1>3 DEF Ledger!Exchange
<1> QED BY <1>4 DEF Ledger!Next

\* A claim, with what is given back before it, is one.
LEMMA ClaimTrades ==
    ASSUME traffic \in Traffic, NEW r \in Robot, NEW S \in SUBSET Node,
           NEW n \in Node, Claims(r, S, n)
    PROVE  traffic' \in Traffic /\ Trades(r, n)
<1> DEFINE freed == ReleaseAll(traffic, r, S)
<1>1. traffic' = freed \/ \E p \in Int : traffic' = request_move(freed, r, n, n, p).traffic
  BY DEF Claims
<1>2. /\ freed \in Traffic
      /\ \A m \in Node : freed.owner[m] =
           (IF m \in S /\ traffic.owner[m] = r THEN NoRobot ELSE traffic.owner[m])
  BY ReleaseAllSpec
<1> HIDE DEF freed
<1>3. CASE traffic' = freed
  BY <1>2, <1>3 DEF Trades
<1>4. ASSUME NEW p \in Int, traffic' = request_move(freed, r, n, n, p).traffic
      PROVE  traffic' \in Traffic /\ Trades(r, n)
  <2>1. traffic' \in Traffic
    BY <1>2, <1>4, RequestMoveType
  <2>2. \/ traffic'.owner = freed.owner
        \/ /\ freed.owner[n] \in {NoRobot, r}
           /\ traffic'.owner = [freed.owner EXCEPT ![n] = r]
    BY <1>2, <1>4, RequestMoveOwner DEF Free
  <2>3. freed.owner \in [Node -> Robot \cup {NoRobot}]
    BY <1>2 DEF Traffic
  <2>4. \A m \in Node :
          \/ traffic'.owner[m] = freed.owner[m]
          \/ m = n /\ freed.owner[m] \in {NoRobot, r} /\ traffic'.owner[m] = r
    BY <2>2, <2>3
  <2> QED BY <1>2, <2>1, <2>4 DEF Trades
<1> QED BY <1>1, <1>3, <1>4

\* So is whatever a served task does.
LEMMA ServeTaskTrades ==
    ASSUME IInv, NEW t \in tasks, ServeTask(t)
    PROVE  traffic' \in Traffic /\ \E m : Trades(t.robot, m)
<1>1. /\ traffic \in Traffic /\ t.robot \in Robot
      /\ traffic.owner \in [Node -> Robot \cup {NoRobot}]
  BY DEF IInv, TypeOK, Task, Traffic
<1>2. ASSUME NEW w, DrivesOn(t, w)
      PROVE  traffic' \in Traffic /\ Trades(t.robot, NoNode)
  BY <1>1, <1>2 DEF DrivesOn, Trades
<1>3. ASSUME NEW nodes \in SUBSET Node, NEW state, Ends(t, nodes, state)
      PROVE  traffic' \in Traffic /\ Trades(t.robot, NoNode)
  <2>1. traffic' = ReleaseAll(traffic, t.robot, nodes)
    BY <1>3 DEF Ends, Finish
  <2> QED BY <1>1, <2>1, ReleaseAllSpec DEF Trades
<1>4. ASSUME NEW u \in Requesting(t), NEW w, Departs(t, u, w)
      PROVE  traffic' \in Traffic /\ Trades(t.robot, NextNode(u))
  BY <1>4, DepartsOwner DEF Trades
<1>5. ASSUME NEW u \in Requesting(t), NEW w, Stays(t, u, w)
      PROVE  traffic' \in Traffic /\ Trades(t.robot, NoNode)
  <2>1. /\ Ask(u).traffic \in Traffic
        /\ Ask(u).verdict # "GRANT" => Ask(u).traffic.owner = traffic.owner
    BY AskSpec
  <2> QED BY <1>5, <2>1 DEF Stays, Trades
<1> QED BY <1>2, <1>3, <1>4, <1>5, ServeTaskSpec

\* And a step of the node is one of a single robot, forgets everything or
\* leaves the ledger alone.
LEMMA NextRefines == IInv /\ [Next]_vars => [Ledger!Next]_(traffic.owner)
<1> SUFFICES ASSUME IInv, [Next]_vars PROVE [Ledger!Next]_(traffic.owner)
  OBVIOUS
<1>1. traffic \in Traffic
  BY DEF IInv, TypeOK
<1>2. ASSUME NEW t \in tasks, ServeTask(t) PROVE [Ledger!Next]_(traffic.owner)
  <2>1. t.robot \in Robot
    BY DEF IInv, TypeOK, Task
  <2>2. traffic' \in Traffic /\ \E m : Trades(t.robot, m)
    BY <1>2, ServeTaskTrades
  <2> QED BY <1>1, <2>1, <2>2, TradesRefines
<1>3. ASSUME NEW r \in Robot, NEW S \in SUBSET Node, NEW n \in Node, Claims(r, S, n)
      PROVE  [Ledger!Next]_(traffic.owner)
  BY <1>1, <1>3, ClaimTrades, TradesRefines
<1>4. ASSUME NEW r \in Robot, start_patrol(r) PROVE [Ledger!Next]_(traffic.owner)
  BY <1>3, <1>4, StartPatrolClaims, CancelledType
<1>5. ASSUME NEW r \in Robot, NEW goal \in Node, NEW arm_actions,
             Accept(r, goal, arm_actions)
      PROVE  [Ledger!Next]_(traffic.owner)
  BY <1>3, <1>5, AcceptClaims, CancelledType
<1>6. CASE on_timer
  BY <1>2, <1>4, <1>6 DEF on_timer, Serve, ServeTask
<1>7. ASSUME NEW r \in Robot, on_robot_state(r) \/ Drive(r)
      PROVE  [Ledger!Next]_(traffic.owner)
  BY <1>7 DEF on_robot_state, Drive
<1>8. CASE Operator
  <2>1. ASSUME NEW r \in Managed, NEW goal \in Goals, NEW arm \in ArmActions,
               SubmitForced(r, goal, arm)
        PROVE  [Ledger!Next]_(traffic.owner)
    BY <1>5, <2>1, InputAssumption DEF SubmitForced
  <2>2. ASSUME NEW goal \in Goals, NEW arm \in ArmActions, SubmitAuto(goal, arm)
        PROVE  [Ledger!Next]_(traffic.owner)
    <3>1. PICK r \in Bidders : Accept(r, goal, arm)
      BY <2>2 DEF SubmitAuto, assign
    <3>2. r \in Robot /\ goal \in Node
      BY WorldType, InputAssumption DEF IInv, Bidders
    <3> QED BY <1>5, <3>1, <3>2
  <2>3. ASSUME NEW r \in Managed, NEW m \in Modes, on_set_mode(r, m)
        PROVE  [Ledger!Next]_(traffic.owner)
    <3>1. CASE m = "CHARGE"
      BY <2>3, <3>1 DEF on_set_mode
    <3>2. CASE m # "CHARGE"
      BY <1>3, <2>3, <3>2, SetModeClaims, InputAssumption
    <3> QED BY <3>1, <3>2
  <2>4. ASSUME NEW r \in Managed, NEW level \in Levels, on_set_battery(r, level)
        PROVE  [Ledger!Next]_(traffic.owner)
    BY <2>4 DEF on_set_battery
  <2>5. CASE on_set_plugins
    BY <2>5 DEF on_set_plugins, NoTraffic, Ledger!Next, Ledger!Forget
  <2> QED BY <1>8, <2>1, <2>2, <2>3, <2>4, <2>5 DEF Operator
<1>9. CASE UNCHANGED vars
  BY <1>9 DEF vars
<1> QED BY <1>6, <1>7, <1>8, <1>9 DEF Next

\* The fleet node implements the abstract reservation ledger: nobody's vertex
\* is ever handed to somebody else.
THEOREM RefinesLedger == (Spec \/ AllSeenSpec) => ReservesLikeALedger
<1>1. Init => Ledger!Init
  BY DEF Init, NoTraffic, Ledger!Init
<1>2. AllSeenInit => Ledger!Init
  BY DEF AllSeenInit, NoTraffic, Ledger!Init
<1> QED BY <1>1, <1>2, NextRefines, InvariantHolds, InvariantHoldsAllSeen, PTL
        DEF Spec, AllSeenSpec, ReservesLikeALedger, Ledger!Spec

-----------------------------------------------------------------------------
(* Work that runs is not interrupted                                       *)

\* The work of a task goes on in the step, under its number, or has ended.
GoesOn(t) ==
    \/ \E u \in tasks' : u.seq = t.seq /\ u.robot = t.robot
    \/ feed'[t.robot] \in {"COMPLETED", "FAILED"}

\* A served task keeps its number and its robot until it ends, and the others
\* are not touched.
LEMMA ServeTaskGoesOn ==
    ASSUME IInv, NEW t \in tasks, ServeTask(t)
    PROVE  \A v \in tasks : GoesOn(v)
<1>1. t.robot \in Robot /\ feed \in [Robot -> FeedState]
  BY WorldType DEF IInv, TypeOK, Task
<1>2. ASSUME NEW w, Keep(t, w), w.seq = t.seq, w.robot = t.robot
      PROVE  \A v \in tasks : GoesOn(v)
  BY <1>2 DEF Keep, GoesOn
<1>3. ASSUME NEW w, DrivesOn(t, w) PROVE \A v \in tasks : GoesOn(v)
  BY <1>2, <1>3 DEF DrivesOn, Same
<1>4. ASSUME NEW nodes \in SUBSET Node, NEW state, Ends(t, nodes, state)
      PROVE  \A v \in tasks : GoesOn(v)
  <2>1. /\ tasks' = tasks \ {t}
        /\ feed' = [feed EXCEPT ![t.robot] = state]
        /\ state \in {"FAILED", "COMPLETED"}
    BY <1>4 DEF Ends, Finish
  <2>2. feed'[t.robot] \in {"COMPLETED", "FAILED"}
    BY <1>1, <2>1
  <2> QED BY <2>1, <2>2 DEF GoesOn
<1>5. ASSUME NEW u \in Requesting(t), NEW w, Departs(t, u, w) \/ Stays(t, u, w)
      PROVE  \A v \in tasks : GoesOn(v)
  <2>1. u.seq = t.seq /\ u.robot = t.robot
    BY RequestingSpec
  <2> QED BY <1>2, <1>5, <2>1 DEF Departs, Stays, WaitsAs
<1> QED BY <1>3, <1>4, <1>5, ServeTaskSpec

\* The robot a submission is left to has no work to lose: it is free or on
\* patrol.
LEMMA BidderHasNoWork ==
    ASSUME IInv, NEW r \in Bidders, NEW t \in tasks, t.robot = r
    PROVE  t.patrol
<1>1. r \in Robot /\ busy[r]
  BY WorldType DEF IInv, Bidders, BusyMatchesTasks, TasksOf
<1>2. is_on_patrol(r)
  BY <1>1 DEF Bidders
<1> QED BY <1>2 DEF is_on_patrol, TasksOf, IInv, OneTaskPerRobot

\* So no step of the node interrupts work as long as nobody names the robot
\* in a submission or takes it out of service.
LEMMA NextGoesOn ==
    ASSUME ~MayForce, Modes \subseteq {"CHARGE"}, IInv, [Next]_vars,
           NEW t \in tasks, ~t.patrol
    PROVE  GoesOn(t) \/ UNCHANGED vars
<1>1. ASSUME t \in tasks' PROVE GoesOn(t)
  BY <1>1 DEF GoesOn
<1>2. CASE on_timer
  <2>1. ASSUME NEW r \in Robot, start_patrol(r) PROVE GoesOn(t)
    BY <1>1, <2>1 DEF start_patrol
  <2> QED BY <1>2, <2>1, ServeTaskGoesOn DEF on_timer, Serve, ServeTask
<1>3. ASSUME NEW r \in Robot, on_robot_state(r) \/ Drive(r) PROVE GoesOn(t)
  BY <1>1, <1>3 DEF on_robot_state, Drive
<1>4. CASE Operator
  <2>1. ASSUME NEW goal \in Goals, NEW arm \in ArmActions, SubmitAuto(goal, arm)
        PROVE  GoesOn(t)
    <3>1. PICK r \in Bidders : Accept(r, goal, arm)
      BY <2>1 DEF SubmitAuto, assign
    <3>2. t.robot # r
      BY <3>1, BidderHasNoWork
    <3>3. r \in Robot /\ goal \in Node
      BY WorldType, InputAssumption DEF IInv, Bidders
    <3>4. \E path : tasks' = TasksWithout(r) \cup {NewTask(r, path, FALSE)}
      BY <3>1, <3>3, AcceptClaims
    <3> QED BY <1>1, <3>2, <3>4 DEF TasksWithout, TasksOf
  <2>2. ASSUME NEW r \in Managed, NEW m \in Modes, on_set_mode(r, m) PROVE GoesOn(t)
    BY <1>1, <2>2 DEF on_set_mode
  <2>3. ASSUME NEW r \in Managed, NEW level \in Levels, on_set_battery(r, level)
        PROVE  GoesOn(t)
    BY <1>1, <2>3 DEF on_set_battery
  <2>4. CASE on_set_plugins
    BY <1>1, <2>4 DEF on_set_plugins
  <2> QED BY <1>4, <2>1, <2>2, <2>3, <2>4 DEF Operator, SubmitForced
<1> QED BY <1>2, <1>3, <1>4 DEF Next

\* Left to itself the node ends a work task by completing or failing it, never
\* by giving its robot another one.  A forced submission or a mode other than
\* CHARGE may, and is meant to.
THEOREM WorkGoesOn ==
    ASSUME ~MayForce, Modes \subseteq {"CHARGE"}
    PROVE  (Spec \/ AllSeenSpec) => WorkIsNotInterrupted
<1>1. IInv /\ [Next]_vars =>
        [\A t \in tasks : ~t.patrol =>
            \/ \E u \in tasks' : u.seq = t.seq /\ u.robot = t.robot
            \/ feed'[t.robot] \in {"COMPLETED", "FAILED"}]_vars
  BY NextGoesOn DEF GoesOn
<1> QED BY <1>1, InvariantHolds, InvariantHoldsAllSeen, PTL
        DEF Spec, AllSeenSpec, WorkIsNotInterrupted

=============================================================================
