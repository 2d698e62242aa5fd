----------------------------- MODULE FleetProofs -----------------------------
(***************************************************************************)
(* Proofs about the fleet node, for every graph, number of robots, limit   *)
(* and input.                                                              *)
(***************************************************************************)
EXTENDS FleetProperties, TLAPS

-----------------------------------------------------------------------------
(* The priority code                                                       *)

\* A bigger factor makes a bigger product: all the arithmetic below needs.
LEMMA ProductOrder ==
    ASSUME NEW a \in Nat, NEW b \in Nat, NEW c \in Nat, a <= b
    PROVE  a * c <= b * c
<1>1. PICK d \in Nat : b = a + d
  <2>1. b - a \in Nat /\ b = a + (b - a)
    OBVIOUS
  <2> QED BY <2>1
<1>2. b * c = a * c + d * c
  BY <1>1, Z3
<1>3. d * c \in Nat
  OBVIOUS
<1>4. a * c \in Nat
  OBVIOUS
<1> QED BY <1>2, <1>3, <1>4

\* compute_priority orders tasks by tier, then by age as long as the older one
\* was created before kSeqMax, then by the lower battery: no part of the code
\* spills into the next.
THEOREM PriorityIsLexicographic ==
    ASSUME NEW a \in Nat, NEW b \in Nat, NEW s \in Nat, NEW u \in Nat,
           NEW x \in 0..100, NEW y \in 0..100,
           \/ a < b
           \/ a = b /\ s > u /\ u < KSeqMax
           \/ a = b /\ s = u /\ x > y
    PROVE  Priority(a, s, x) < Priority(b, u, y)
<1> DEFINE age(q) == KSeqMax - (IF q < KSeqMax THEN q ELSE KSeqMax)
           low == age(s) * KAgeStep
           high == age(u) * KAgeStep
<1>1. /\ KSeqMax \in Nat /\ KAgeStep \in Nat /\ KTierStep \in Nat
      /\ KAgeStep > 100 /\ KTierStep > KSeqMax * KAgeStep + 100
  BY PriorityAssumption
<1>2. age(s) \in Nat /\ age(u) \in Nat /\ age(s) <= KSeqMax
  BY <1>1
<1>3. /\ Priority(a, s, x) = a * KTierStep + low + (100 - x)
      /\ Priority(b, u, y) = b * KTierStep + high + (100 - y)
  BY DEF Priority
<1>4. low \in Nat /\ high \in Nat /\ a * KTierStep \in Nat /\ b * KTierStep \in Nat
  BY <1>1, <1>2
<1>5. low <= KSeqMax * KAgeStep /\ KSeqMax * KAgeStep \in Nat
  BY <1>1, <1>2, ProductOrder
<1>6. CASE a < b
  <2>1. a + 1 \in Nat /\ a + 1 <= b
    BY <1>6
  <2>2. (a + 1) * KTierStep <= b * KTierStep
    BY <1>1, <2>1, ProductOrder
  <2>3. (a + 1) * KTierStep = a * KTierStep + KTierStep
    BY <1>1, Z3
  <2> HIDE DEF low, high
  <2> QED BY <1>1, <1>3, <1>4, <1>5, <2>2, <2>3
<1>7. CASE a = b /\ s > u /\ u < KSeqMax
  <2>1. age(s) + 1 \in Nat /\ age(s) + 1 <= age(u)
    BY <1>1, <1>7
  <2> HIDE DEF age
  <2>2. (age(s) + 1) * KAgeStep <= age(u) * KAgeStep
    BY <1>1, <1>2, <2>1, ProductOrder
  <2>3. (age(s) + 1) * KAgeStep = age(s) * KAgeStep + KAgeStep
    BY <1>1, <1>2, Z3
  <2>4. low + KAgeStep <= high
    BY <2>2, <2>3
  <2> HIDE DEF low, high
  <2> QED BY <1>1, <1>3, <1>4, <1>7, <2>4
<1>8. CASE a = b /\ s = u /\ x > y
  <2>1. low = high
    BY <1>8
  <2> HIDE DEF low, high
  <2> QED BY <1>3, <1>4, <1>8, <2>1
<1> QED BY <1>6, <1>7, <1>8

-----------------------------------------------------------------------------
(* The traffic plugin                                                      *)

\* The plugin's maps keep their types.
LEMMA RequestMoveType ==
    ASSUME NEW tr \in Traffic, NEW r \in Robot, NEW from \in Node, NEW to \in Node,
           NEW p \in Int
    PROVE  request_move(tr, r, from, to, p).traffic \in Traffic
<1> DEFINE left == request_move(tr, r, from, to, p).traffic
<1>1. /\ [tr EXCEPT !.prio[r] = p] \in Traffic
      /\ [tr EXCEPT !.prio[r] = p].owner = tr.owner
  BY DEF Traffic
<1> DEFINE t1 == [tr EXCEPT !.prio[r] = p]
<1>2. Reserved(t1, r, to) \in Traffic
  BY <1>1 DEF Traffic, Reserved
<1> DEFINE t2 == [t1 EXCEPT !.waitfor[r] = t1.owner[to]]
<1>3. t2 \in Traffic
  BY <1>1 DEF Traffic
<1>4. [t2 EXCEPT !.waitfor[r] = NoRobot] \in Traffic
  BY <1>3 DEF Traffic
<1> QED BY <1>1, <1>2, <1>3, <1>4 DEF request_move, Waiting

\* What a request does to the reservations: a GRANT reserves a vertex that
\* was free or the robot's own, any other verdict changes none.
LEMMA RequestMoveOwner ==
    ASSUME NEW tr \in Traffic, NEW r \in Robot, NEW from \in Node, NEW to \in Node,
           NEW p \in Int
    PROVE  LET ans == request_move(tr, r, from, to, p)
           IN  \/ /\ Free(tr, r, to)
                  /\ ans.verdict = "GRANT"
                  /\ ans.traffic.owner = [tr.owner EXCEPT ![to] = r]
               \/ /\ ~Free(tr, r, to)
                  /\ ans.verdict # "GRANT"
                  /\ ans.traffic.owner = tr.owner
<1> DEFINE t1 == [tr EXCEPT !.prio[r] = p]
<1> DEFINE t2 == [t1 EXCEPT !.waitfor[r] = t1.owner[to]]
<1>1. t1 \in Traffic /\ t1.owner = tr.owner
  BY DEF Traffic
<1>2. Free(t1, r, to) <=> Free(tr, r, to)
  BY <1>1 DEF Free
<1>3. Reserved(t1, r, to).owner = [tr.owner EXCEPT ![to] = r]
  BY <1>1 DEF Reserved, Traffic
<1>4. t2.owner = tr.owner /\ [t2 EXCEPT !.waitfor[r] = NoRobot].owner = tr.owner
  BY <1>1 DEF Traffic
<1> QED BY <1>1, <1>2, <1>3, <1>4 DEF request_move, Waiting

\* Releasing keeps the types and gives back exactly the robot's own vertices.
LEMMA ReleaseAllSpec ==
    ASSUME NEW tr \in Traffic, NEW r \in Robot, NEW S \in SUBSET Node
    PROVE  /\ ReleaseAll(tr, r, S) \in Traffic
           /\ \A n \in Node : ReleaseAll(tr, r, S).owner[n] =
                (IF n \in S /\ tr.owner[n] = r THEN NoRobot ELSE tr.owner[n])
  BY DEF Traffic, ReleaseAll

-----------------------------------------------------------------------------
(* Paths and tasks                                                         *)

\* A route that dijkstra returns is a path between its two ends.
LEMMA DijkstraSpec ==
    ASSUME NEW from, NEW to, NEW avoid \in Node \cup {NoNode},
           NEW path \in dijkstra(from, to, avoid)
    PROVE  /\ from \in Node /\ to \in Node
           /\ path \in Seq(Node) /\ Len(path) >= 1
           /\ path[1] = from /\ path[Len(path)] = to
<1>1. from \in Node /\ to \in Node
  BY DEF dijkstra
<1>2. dijkstra(from, to, avoid) = ShortestOf(Routes(from, to, avoid))
  BY <1>1 DEF dijkstra, ShortestRoutes
<1>3. IsRoute(path, from, to, avoid)
  BY <1>2 DEF ShortestOf, Routes
<1> QED BY <1>1, <1>3 DEF IsRoute

\* A lap of the patrol route is a path with a first and a second vertex.
LEMMA LapSpec ==
    ASSUME Len(PatrolRoute) >= 2, NEW p \in Position, NEW lap \in make_patrol_path(p)
    PROVE  lap \in Seq(Node) /\ Len(lap) = Len(PatrolRoute) + 1
<1> DEFINE n == Len(PatrolRoute)
<1>1. n \in Nat /\ PatrolRoute \in [1..n -> Node]
  BY PatrolAssumption
<1>2. PICK k \in 1..n : lap = [i \in 1..(n + 1) |-> PatrolRoute[Cyclic(k + i - 1)]]
  BY DEF make_patrol_path, FirstIndex
<1>3. ASSUME NEW i \in 1..(n + 1)
      PROVE  PatrolRoute[Cyclic(k + i - 1)] \in Node
  <2>1. (k + i - 1) - 1 \in Nat
    BY <1>1
  <2>2. Cyclic(k + i - 1) \in 1..n
    BY <1>1, <2>1 DEF Cyclic
  <2> QED BY <1>1, <2>2
<1>4. lap \in [1..(n + 1) -> Node]
  BY <1>2, <1>3
<1>5. lap \in Seq(Node)
  BY <1>1, <1>4
<1> QED BY <1>1, <1>4, <1>5

\* Inside a task's path, both vertices around the index are vertices.
LEMMA TaskNodes ==
    ASSUME NEW t \in Task, t.idx \in 2..Len(t.path)
    PROVE  Current(t) \in Node /\ NextNode(t) \in Node
<1>1. t.path \in Seq(Node) /\ t.idx \in Nat /\ t.idx >= 2 /\ t.idx <= Len(t.path)
  BY DEF Task
<1>2. t.idx \in 1..Len(t.path) /\ t.idx - 1 \in 1..Len(t.path)
  BY <1>1
<1> QED BY <1>1, <1>2 DEF Current, NextNode

\* Every priority is an integer.
LEMMA PriorityType ==
    ASSUME TypeOK, NEW r \in Robot, NEW t \in Task
    PROVE  compute_priority(r, t) \in Int
<1>1. battery[r] \in Int
  <2>1. battery \in [Robot -> 0..100]
    BY DEF TypeOK
  <2> QED BY <2>1
<1>2. t.seq \in Int
  BY DEF Task
<1>3. ASSUME NEW tier \in Int PROVE Priority(tier, t.seq, battery[r]) \in Int
  BY <1>1, <1>2, PriorityAssumption DEF Priority
<1> QED BY <1>3 DEF compute_priority

-----------------------------------------------------------------------------
(* Steps that serve a task                                                 *)

\* What TypeOK says of the variables that no callback of the node but the
\* reports and the operator changes.
LEMMA WorldType ==
    ASSUME TypeOK
    PROVE  /\ report \in [Robot -> Position]
           /\ battery \in [Robot -> 0..100]
           /\ mode \in [Robot -> Mode \cup {"NONE"}]
           /\ busy \in [Robot -> BOOLEAN]
           /\ feed \in [Robot -> FeedState]
           /\ known \subseteq Robot
           /\ tasks \subseteq Task
           /\ traffic \in Traffic
           /\ task_seq \in Nat
  BY DEF TypeOK

\* Nobody but r gains or loses a vertex in the step.
OnlyRobot(r) ==
    \A n \in Node : traffic.owner[n] \notin {NoRobot, r}
                        => traffic'.owner[n] = traffic.owner[n]

\* A request concerns the reservations of its robot only.
LEMMA RequestOnlyRobot ==
    ASSUME traffic \in Traffic, NEW r \in Robot,
           NEW from \in Node, NEW to \in Node, NEW p \in Int,
           traffic' = request_move(traffic, r, from, to, p).traffic
    PROVE  traffic' \in Traffic /\ OnlyRobot(r)
<1>1. traffic' \in Traffic
  BY RequestMoveType
<1>2. \/ traffic'.owner = traffic.owner
      \/ Free(traffic, r, to) /\ traffic'.owner = [traffic.owner EXCEPT ![to] = r]
  BY RequestMoveOwner
<1>3. traffic.owner \in [Node -> Robot \cup {NoRobot}]
  BY DEF Traffic
<1> QED BY <1>1, <1>2, <1>3 DEF OnlyRobot, Free

\* Replacing the served task by one of the same robot keeps the invariant when
\* the robot's own reservations are the only ones touched and the new task,
\* if it is under way, holds its target.
LEMMA KeepStep ==
    ASSUME IInv, NEW t \in tasks, NEW u \in Task,
           u.robot = t.robot, u.patrol = t.patrol, u.idx \in 2..Len(u.path),
           Keep(t, u),
           traffic' \in Traffic, OnlyRobot(t.robot),
           ~MaySwap /\ u.moving => traffic'.owner[NextNode(u)] = t.robot,
           feed' \in [Robot -> FeedState],
           place' \in [Robot -> Position],
           cmd' \in [Robot -> Node \cup {NoNode}]
    PROVE  IInv'
<1> USE DEF IInv
<1>1. /\ tasks \subseteq Task /\ t \in Task /\ t.robot \in Robot /\ t.seq \in Nat
  BY WorldType DEF Task
<1>2. tasks' = (tasks \ {t}) \cup {u}
  BY DEF Keep
<1>3. /\ UNCHANGED <<known, report, battery, busy, mode, task_seq>>
      /\ cursor' \in Nat \cup {Idle}
  BY <1>1 DEF Keep, Served, ledger
<1>4. TypeOK'
  BY <1>1, <1>2, <1>3 DEF TypeOK
<1>5. OneTaskPerRobot'
  BY <1>2 DEF OneTaskPerRobot
<1>6. BusyMatchesTasks'
  BY <1>2, <1>3 DEF BusyMatchesTasks, TasksOf
<1>7. PatrolsHaveRoute'
  BY <1>2 DEF PatrolsHaveRoute
<1>8. IndexInsidePath'
  BY <1>2 DEF IndexInsidePath
<1>9. ~MaySwap => TargetsReserved'
  <2> SUFFICES ASSUME ~MaySwap, NEW v \in tasks', v.moving
               PROVE  traffic'.owner[NextNode(v)] = v.robot
    BY DEF TargetsReserved, NextNode
  <2>1. CASE v = u
    BY <2>1
  <2>2. CASE v # u
    <3>1. v \in tasks /\ v # t
      BY <1>2, <2>2
    <3>2. v.robot # t.robot /\ v.robot \in Robot
      BY <3>1, <1>1 DEF OneTaskPerRobot, Task
    <3>3. traffic.owner[NextNode(v)] = v.robot
      BY <3>1 DEF TargetsReserved
    <3>4. NextNode(v) \in Node
      BY <3>1, <1>1, TaskNodes DEF IndexInsidePath
    <3>5. v.robot # NoRobot
      BY <3>2, RobotAssumption DEF NoRobot
    <3> QED BY <3>2, <3>3, <3>4, <3>5 DEF OnlyRobot
  <2> QED BY <2>1, <2>2
<1>10. StoppedIsOutOfService'
  BY <1>2, <1>3 DEF StoppedIsOutOfService, TasksOf
<1> QED BY <1>4, <1>5, <1>6, <1>7, <1>8, <1>9, <1>10

\* The end of a task, failed or completed, keeps the invariant.
LEMMA FinishStep ==
    ASSUME IInv, NEW t \in tasks, NEW nodes \in SUBSET Node,
           NEW state \in FeedState, Finish(t, nodes, state)
    PROVE  IInv'
<1> USE DEF IInv
<1>1. /\ tasks \subseteq Task /\ t \in Task /\ t.robot \in Robot /\ t.seq \in Nat
      /\ traffic \in Traffic
  BY WorldType DEF Task
<1>2. /\ tasks' = tasks \ {t}
      /\ traffic' = ReleaseAll(traffic, t.robot, nodes)
      /\ busy' = [busy EXCEPT ![t.robot] = FALSE]
      /\ feed' = [feed EXCEPT ![t.robot] = state]
      /\ UNCHANGED <<known, report, battery, mode, task_seq, place, cmd>>
      /\ cursor' \in Nat \cup {Idle}
  BY <1>1 DEF Finish, Served, world
<1>3. /\ traffic' \in Traffic
      /\ \A n \in Node : traffic'.owner[n] =
            (IF n \in nodes /\ traffic.owner[n] = t.robot THEN NoRobot
             ELSE traffic.owner[n])
  BY <1>1, <1>2, ReleaseAllSpec
<1>4. TypeOK'
  BY <1>1, <1>2, <1>3 DEF TypeOK
<1>5. OneTaskPerRobot'
  BY <1>2 DEF OneTaskPerRobot
<1>6. BusyMatchesTasks'
  <2> SUFFICES ASSUME NEW r \in Robot
               PROVE  busy'[r] <=> \E v \in tasks' : v.robot = r
    BY DEF BusyMatchesTasks, TasksOf
  <2>1. busy[r] <=> \E v \in tasks : v.robot = r
    BY DEF BusyMatchesTasks, TasksOf
  <2>2. busy \in [Robot -> BOOLEAN]
    BY WorldType
  <2>3. CASE r = t.robot
    <3>1. ~ \E v \in tasks' : v.robot = r
      BY <1>2, <2>3 DEF OneTaskPerRobot
    <3>2. busy'[r] = FALSE
      BY <1>2, <2>2, <2>3
    <3> QED BY <3>1, <3>2
  <2>4. CASE r # t.robot
    <3>1. busy'[r] = busy[r]
      BY <1>2, <2>2, <2>4
    <3>2. (\E v \in tasks : v.robot = r) <=> (\E v \in tasks' : v.robot = r)
      BY <1>2, <2>4
    <3> QED BY <2>1, <3>1, <3>2
  <2> QED BY <2>3, <2>4
<1>7. PatrolsHaveRoute' /\ IndexInsidePath' /\ StoppedIsOutOfService'
  BY <1>2 DEF PatrolsHaveRoute, IndexInsidePath, StoppedIsOutOfService, TasksOf
<1>8. ~MaySwap => TargetsReserved'
  <2> SUFFICES ASSUME ~MaySwap, NEW v \in tasks', v.moving
               PROVE  traffic'.owner[NextNode(v)] = v.robot
    BY DEF TargetsReserved, NextNode
  <2>1. v \in tasks /\ v.robot # t.robot
    BY <1>2 DEF OneTaskPerRobot
  <2>2. NextNode(v) \in Node
    BY <2>1, <1>1, TaskNodes DEF IndexInsidePath
  <2>3. traffic.owner[NextNode(v)] = v.robot
    BY <2>1 DEF TargetsReserved
  <2> QED BY <1>3, <2>1, <2>2, <2>3
<1> QED BY <1>4, <1>5, <1>6, <1>7, <1>8

-----------------------------------------------------------------------------
(* What a served task becomes                                              *)

\* Counting the ticks without progress changes nothing else of a task.
LEMMA TickedSpec ==
    ASSUME NEW t \in Task, NEW v \in Ticked(t)
    PROVE  /\ v \in Task
           /\ v.robot = t.robot /\ v.patrol = t.patrol /\ v.moving = t.moving
           /\ v.path = t.path /\ v.idx = t.idx /\ v.seq = t.seq
           /\ v.wait_logged = t.wait_logged
<1>1. PICK still \in BOOLEAN :
        v = [t EXCEPT !.no_move = IF t.moving /\ still THEN @ + 1 ELSE 0]
  BY DEF Ticked
<1> DEFINE d == IF t.moving /\ still THEN t.no_move + 1 ELSE 0
<1>2. d \in Nat
  BY DEF Task
<1>3. v = [t EXCEPT !.no_move = d]
  BY <1>1
<1> HIDE DEF d
<1> QED BY <1>2, <1>3 DEF Task

\* Two tasks that agree in all the invariant speaks of.
Same(v, w) ==
    /\ v \in Task
    /\ v.robot = w.robot /\ v.patrol = w.patrol /\ v.moving = w.moving
    /\ v.path = w.path /\ v.idx = w.idx /\ v.seq = w.seq

\* Updates of the other fields, one at a time.
LEMMA SameSpec ==
    ASSUME NEW v \in Task
    PROVE  /\ \A b \in BOOLEAN : /\ Same([v EXCEPT !.wait_logged = b], v)
                                /\ Same([v EXCEPT !.stuck = b], v)
           /\ \A n \in Nat : /\ Same([v EXCEPT !.reroutes = n], v)
                            /\ Same([v EXCEPT !.wait_ticks = n], v)
<1> SUFFICES ASSUME NEW b \in BOOLEAN, NEW n \in Nat
             PROVE  /\ Same([v EXCEPT !.wait_logged = b], v)
                    /\ Same([v EXCEPT !.stuck = b], v)
                    /\ Same([v EXCEPT !.reroutes = n], v)
                    /\ Same([v EXCEPT !.wait_ticks = n], v)
  OBVIOUS
<1>1. Same([v EXCEPT !.wait_logged = b], v)
  BY DEF Same, Task
<1>2. Same([v EXCEPT !.stuck = b], v)
  BY DEF Same, Task
<1>3. Same([v EXCEPT !.reroutes = n], v)
  BY DEF Same, Task
<1>4. Same([v EXCEPT !.wait_ticks = n], v)
  BY DEF Same, Task
<1> QED BY <1>1, <1>2, <1>3, <1>4

\* An arrival moves the index on by one and leaves the robot standing.
LEMMA AdvancedSpec ==
    ASSUME NEW v \in Task
    PROVE  /\ Advanced(v) \in Task
           /\ Advanced(v).robot = v.robot /\ Advanced(v).patrol = v.patrol
           /\ Advanced(v).path = v.path /\ Advanced(v).idx = v.idx + 1
           /\ ~Advanced(v).moving /\ Advanced(v).seq = v.seq
<1> DEFINE a == [v EXCEPT !.idx = @ + 1]
           b == [a EXCEPT !.moving = FALSE]
           c == [b EXCEPT !.reroutes = 0]
           d == [c EXCEPT !.wait_ticks = 0]
<1>1. /\ a \in Task /\ a.robot = v.robot /\ a.patrol = v.patrol /\ a.path = v.path
      /\ a.idx = v.idx + 1 /\ a.seq = v.seq
  BY DEF Task
<1>2. Advanced(v) = d
  BY DEF Advanced
<1> HIDE DEF a
<1>3. /\ b \in Task /\ b.robot = a.robot /\ b.patrol = a.patrol /\ b.path = a.path
      /\ b.idx = a.idx /\ ~b.moving /\ b.seq = a.seq
  BY <1>1 DEF Task
<1> HIDE DEF b
<1>4. Same(c, b)
  BY <1>3, SameSpec
<1> HIDE DEF c
<1>5. Same(d, c)
  <2>1. c \in Task
    BY <1>4 DEF Same
  <2> QED BY <2>1, SameSpec
<1> HIDE DEF d
<1> QED BY <1>1, <1>2, <1>3, <1>4, <1>5 DEF Same

\* A departing robot is under way along the same path.
LEMMA DepartedSpec ==
    ASSUME NEW v \in Task
    PROVE  LET w == [v EXCEPT !.moving = TRUE, !.wait_logged = FALSE,
                              !.stuck = FALSE, !.wait_ticks = 0]
           IN  /\ w \in Task
               /\ w.robot = v.robot /\ w.patrol = v.patrol
               /\ w.path = v.path /\ w.idx = v.idx
               /\ w.seq = v.seq /\ w.moving /\ ~w.wait_logged
<1> DEFINE a == [v EXCEPT !.moving = TRUE]
           b == [a EXCEPT !.wait_logged = FALSE]
           c == [b EXCEPT !.stuck = FALSE]
           d == [c EXCEPT !.wait_ticks = 0]
<1>1. /\ a \in Task /\ a.robot = v.robot /\ a.patrol = v.patrol /\ a.path = v.path
      /\ a.idx = v.idx /\ a.seq = v.seq /\ a.moving
  BY DEF Task
<1>2. [v EXCEPT !.moving = TRUE, !.wait_logged = FALSE,
                !.stuck = FALSE, !.wait_ticks = 0] = d
  OBVIOUS
<1> HIDE DEF a
<1>3. Same(b, a) /\ ~b.wait_logged
  BY <1>1, SameSpec DEF Task
<1> HIDE DEF b
<1>4. Same(c, b) /\ c.wait_logged = b.wait_logged
  <2>1. b \in Task
    BY <1>3 DEF Same
  <2> QED BY <2>1, SameSpec DEF Task
<1> HIDE DEF c
<1>5. Same(d, c) /\ d.wait_logged = c.wait_logged
  <2>1. c \in Task
    BY <1>4 DEF Same
  <2> QED BY <2>1, SameSpec DEF Task
<1> HIDE DEF d
<1> QED BY <1>1, <1>2, <1>3, <1>4, <1>5 DEF Same

\* A detour is a new path from the same vertex, entered at its second vertex.
LEMMA ReroutedSpec ==
    ASSUME NEW v \in Task, NEW path \in Seq(Node), Len(path) >= 2
    PROVE  /\ Rerouted(v, path) \in Task
           /\ Rerouted(v, path).robot = v.robot
           /\ Rerouted(v, path).patrol = v.patrol
           /\ Rerouted(v, path).moving = v.moving
           /\ Rerouted(v, path).path = path
           /\ Rerouted(v, path).idx = 2 /\ 2 \in 2..Len(path)
           /\ Rerouted(v, path).seq = v.seq
           /\ ~Rerouted(v, path).wait_logged
           /\ Rerouted(v, path).stuck = v.stuck
<1> DEFINE a == [v EXCEPT !.path = path]
           b == [a EXCEPT !.idx = 2]
           c == [b EXCEPT !.wait_logged = FALSE]
<1>1. /\ a \in Task /\ a.robot = v.robot /\ a.patrol = v.patrol /\ a.path = path
      /\ a.moving = v.moving /\ a.seq = v.seq /\ a.stuck = v.stuck
  BY DEF Task
<1>2. Rerouted(v, path) = c
  BY DEF Rerouted
<1> HIDE DEF a
<1>3. /\ b \in Task /\ b.robot = a.robot /\ b.patrol = a.patrol /\ b.path = a.path
      /\ b.moving = a.moving /\ b.idx = 2 /\ b.seq = a.seq
      /\ b.stuck = a.stuck
  BY <1>1 DEF Task
<1> HIDE DEF b
<1>4. Same(c, b) /\ ~c.wait_logged /\ c.stuck = b.stuck
  BY <1>3, SameSpec DEF Task
<1> HIDE DEF c
<1>5. 2 \in 2..Len(path)
  OBVIOUS
<1> QED BY <1>1, <1>2, <1>3, <1>4, <1>5 DEF Same

\* A task that asks for its next vertex is the served one, standing, with the
\* index inside its path.
LEMMA RequestingSpec ==
    ASSUME IInv, NEW t \in tasks, NEW u \in Requesting(t)
    PROVE  /\ t \in Task
           /\ u \in Task
           /\ u.robot = t.robot /\ u.patrol = t.patrol /\ u.seq = t.seq /\ ~u.moving
           /\ u.idx \in 2..Len(u.path)
           /\ Current(u) \in Node /\ NextNode(u) \in Node
           /\ u.path[Len(u.path)] \in Node
           /\ ~t.moving => u.path = t.path /\ u.idx = t.idx
<1>1. t \in Task /\ t.idx \in 2..Len(t.path) /\ (t.patrol => Len(PatrolRoute) >= 2)
  BY DEF IInv, TypeOK, IndexInsidePath, PatrolsHaveRoute
<1>2. PICK v \in Ticked(t) :
        u \in (IF ~v.moving THEN {v}
               ELSE IF ~HasArrived(v) THEN {}
               ELSE IF ~AtEnd(v) THEN {Advanced(v)}
               ELSE IF ~v.patrol THEN {}
               ELSE {[Advanced(v) EXCEPT !.path = lap, !.idx = 2] :
                        lap \in make_patrol_path(report[v.robot])})
  BY DEF Requesting
<1>3. /\ v \in Task
      /\ v.robot = t.robot /\ v.patrol = t.patrol /\ v.moving = t.moving
      /\ v.path = t.path /\ v.idx = t.idx /\ v.seq = t.seq
  BY <1>1, TickedSpec
<1>4. /\ u \in Task /\ u.seq = t.seq
      /\ u.robot = t.robot /\ u.patrol = t.patrol /\ ~u.moving
      /\ u.idx \in 2..Len(u.path)
  <2>1. CASE ~v.moving
    BY <1>1, <1>2, <1>3, <2>1
  <2>2. CASE v.moving /\ HasArrived(v) /\ ~AtEnd(v)
    <3>1. u = Advanced(v)
      BY <1>2, <2>2
    <3>2. v.idx # Len(v.path) /\ v.idx \in 2..Len(v.path) /\ Len(v.path) \in Nat
      BY <1>1, <1>3, <2>2 DEF AtEnd, Task
    <3>3. v.idx + 1 \in 2..Len(v.path)
      BY <3>2
    <3> QED BY <1>3, <3>1, <3>3, AdvancedSpec
  <2>3. CASE v.moving /\ HasArrived(v) /\ AtEnd(v) /\ v.patrol
    <3>1. PICK lap \in make_patrol_path(report[v.robot]) :
            u = [Advanced(v) EXCEPT !.path = lap, !.idx = 2]
      BY <1>2, <2>3
    <3>2. v.robot \in Robot /\ report[v.robot] \in Position
      <4>1. report \in [Robot -> Position]
        BY WorldType DEF IInv
      <4> QED BY <1>3, <4>1 DEF Task
    <3>3. lap \in Seq(Node) /\ Len(lap) = Len(PatrolRoute) + 1
      BY <1>1, <1>3, <2>3, <3>2, LapSpec
    <3>4. 2 \in 2..Len(lap)
      BY <1>1, <1>3, <2>3, <3>3, PatrolAssumption
    <3>5. /\ u \in Task /\ u.path = lap /\ u.idx = 2
          /\ u.robot = v.robot /\ u.patrol = v.patrol /\ u.seq = v.seq /\ ~u.moving
      BY <1>3, <3>1, <3>3, AdvancedSpec DEF Task
    <3> QED BY <1>3, <3>4, <3>5
  <2> QED BY <1>2, <2>1, <2>2, <2>3
<1>5. u.path[Len(u.path)] \in Node
  BY <1>4 DEF Task
<1>6. ~t.moving => u.path = t.path /\ u.idx = t.idx
  BY <1>2, <1>3
<1> QED BY <1>1, <1>4, <1>5, <1>6, TaskNodes

\* The request a served task makes changes the reservations of its robot only.
LEMMA AskSpec ==
    ASSUME IInv, NEW t \in tasks, NEW u \in Requesting(t)
    PROVE  /\ Ask(u).traffic \in Traffic
           /\ traffic' = Ask(u).traffic => OnlyRobot(t.robot)
           /\ Ask(u).verdict = "GRANT" =>
                /\ Ask(u).traffic.owner = [traffic.owner EXCEPT ![NextNode(u)] = t.robot]
                /\ Free(traffic, t.robot, NextNode(u))
           /\ Ask(u).verdict # "GRANT" => Ask(u).traffic.owner = traffic.owner
<1>1. /\ u \in Task /\ u.robot = t.robot /\ t.robot \in Robot
      /\ Current(u) \in Node /\ NextNode(u) \in Node
  BY RequestingSpec DEF Task
<1>2. compute_priority(u.robot, u) \in Int /\ traffic \in Traffic
  BY <1>1, PriorityType, WorldType DEF IInv
<1>3. Ask(u).traffic \in Traffic
  BY <1>1, <1>2, RequestMoveType DEF Ask
<1>4. traffic' = Ask(u).traffic => OnlyRobot(t.robot)
  BY <1>1, <1>2, RequestOnlyRobot DEF Ask
<1>5. \/ /\ Free(traffic, t.robot, NextNode(u))
         /\ Ask(u).verdict = "GRANT"
         /\ Ask(u).traffic.owner = [traffic.owner EXCEPT ![NextNode(u)] = t.robot]
      \/ /\ Ask(u).verdict # "GRANT"
         /\ Ask(u).traffic.owner = traffic.owner
  <2>1. PICK p \in Int : p = compute_priority(u.robot, u)
    BY <1>2
  <2>2. Ask(u) = request_move(traffic, t.robot, Current(u), NextNode(u), p)
    BY <1>1, <2>1 DEF Ask
  <2> QED BY <1>1, <1>2, <2>2, RequestMoveOwner
<1> QED BY <1>3, <1>4, <1>5

-----------------------------------------------------------------------------
(* The actions of on_timer                                                 *)

\* What a task u that has to wait may become: it stays where it is, or goes
\* around from the same vertex and is to announce its next wait anew.
WaitsAs(u, w) ==
    /\ w \in Task
    /\ w.robot = u.robot /\ w.patrol = u.patrol /\ w.moving = u.moving
    /\ w.seq = u.seq
    /\ \/ w.path = u.path /\ w.idx = u.idx
       \/ /\ w.idx = 2 /\ ~w.wait_logged
          /\ \E goal \in {DetourGoal(u), u.path[Len(u.path)]} :
                w.path \in Detours(u, goal)

\* The four outcomes of serving a task t: it is still on the way, it ends (a
\* patrol only for want of progress), its request is granted, or it is not.
DrivesOn(t, w) ==
    /\ Same(w, t) /\ w.wait_logged = t.wait_logged
    /\ t.moving
    /\ Keep(t, w)
    /\ UNCHANGED <<traffic, feed, world>>

Ends(t, nodes, state) ==
    /\ t.moving
    /\ ~t.patrol \/ \E u \in Ticked(t) : u.no_move > KStuckTicks
    /\ NextNode(t) \in nodes /\ state \in {"FAILED", "COMPLETED"}
    /\ Finish(t, nodes, state)

Departs(t, u, w) ==
    /\ w \in Task
    /\ w.robot = u.robot /\ w.patrol = u.patrol /\ w.seq = u.seq
    /\ w.path = u.path /\ w.idx = u.idx /\ w.moving /\ ~w.wait_logged
    /\ Keep(t, w)
    /\ Ask(u).verdict = "GRANT"
    /\ traffic' = IF Current(u) = NextNode(u) THEN Ask(u).traffic
                  ELSE ReleaseAll(Ask(u).traffic, u.robot, {Current(u)})
    /\ cmd' = [cmd EXCEPT ![u.robot] = NextNode(u)]
    /\ UNCHANGED <<feed, place>>

Stays(t, u, w) ==
    /\ WaitsAs(u, w)
    /\ Keep(t, w)
    /\ Ask(u).verdict # "GRANT"
    /\ Ask(u).verdict = "WAIT" => w.stuck = u.stuck
    /\ traffic' = Ask(u).traffic
    /\ feed' = feed \/ Publish(u, "EXECUTING")
    /\ UNCHANGED world

\* A way around is a path that starts with a step.
LEMMA DetoursSpec ==
    ASSUME NEW u \in Task, u.idx \in 2..Len(u.path), NEW goal,
           NEW path \in Detours(u, goal)
    PROVE  /\ path \in Seq(Node) /\ Len(path) >= 2
           /\ path[1] = Current(u) /\ path[Len(path)] = goal /\ goal \in Node
<1>1. NextNode(u) \in Node
  BY TaskNodes
<1>2. path \in dijkstra(Current(u), goal, NextNode(u)) /\ Len(path) >= 2
  BY DEF Detours
<1> QED BY <1>1, <1>2, DijkstraSpec

\* A detour out of a circular wait is a way to wait.
LEMMA YieldByDetourStays ==
    ASSUME IInv, NEW t \in tasks, YieldByDetour(t)
    PROVE  \E u \in Requesting(t) : \E w : Stays(t, u, w)
<1>1. PICK u \in Requesting(t), path \in Seq(Node) :
        /\ path \in Detours(u, DetourGoal(u))
        /\ Keep(t, [Rerouted(u, path) EXCEPT !.reroutes = @ + 1, !.stuck = FALSE])
        /\ Ask(u).verdict = "DEADLOCK"
        /\ traffic' = Ask(u).traffic
        /\ UNCHANGED <<feed, world>>
  BY RequestingSpec, DetoursSpec DEF YieldByDetour
<1>2. u \in Task /\ u.idx \in 2..Len(u.path)
  BY RequestingSpec
<1>3. Len(path) >= 2
  BY <1>1, <1>2, DetoursSpec
<1> DEFINE v == Rerouted(u, path)
           w == [v EXCEPT !.reroutes = @ + 1]
           x == [w EXCEPT !.stuck = FALSE]
<1>4. /\ v \in Task /\ v.robot = u.robot /\ v.patrol = u.patrol /\ v.moving = u.moving
      /\ v.path = path /\ v.idx = 2 /\ v.seq = u.seq /\ ~v.wait_logged
  BY <1>2, <1>3, ReroutedSpec
<1>5. Keep(t, x)
  BY <1>1
<1> HIDE DEF v
<1>6. Same(w, v) /\ w.wait_logged = v.wait_logged
  <2>1. v.reroutes + 1 \in Nat
    BY <1>4 DEF Task
  <2> QED BY <1>4, <2>1, SameSpec DEF Task
<1> HIDE DEF w
<1>7. Same(x, w) /\ x.wait_logged = w.wait_logged
  <2>1. w \in Task
    BY <1>6 DEF Same
  <2> QED BY <2>1, SameSpec DEF Task
<1> HIDE DEF x
<1>8. WaitsAs(u, x)
  BY <1>1, <1>4, <1>6, <1>7 DEF Same, WaitsAs
<1> QED BY <1>1, <1>5, <1>8 DEF Stays

\* So is an escalation.
LEMMA EscalateStays ==
    ASSUME IInv, NEW t \in tasks, Escalate(t)
    PROVE  \E u \in Requesting(t) : \E w : Stays(t, u, w)
<1>1. PICK u \in Requesting(t) :
        /\ Keep(t, [u EXCEPT !.stuck = TRUE, !.wait_logged = TRUE])
        /\ PublishWait(u)
        /\ Ask(u).verdict = "DEADLOCK"
        /\ traffic' = Ask(u).traffic
        /\ UNCHANGED world
  BY DEF Escalate
<1>2. u \in Task
  BY RequestingSpec
<1> DEFINE v == [u EXCEPT !.stuck = TRUE]
           w == [v EXCEPT !.wait_logged = TRUE]
<1>3. Keep(t, w)
  BY <1>1
<1>4. Same(v, u)
  BY <1>2, SameSpec
<1> HIDE DEF v
<1>5. Same(w, v)
  <2>1. v \in Task
    BY <1>4 DEF Same
  <2> QED BY <2>1, SameSpec
<1> HIDE DEF w
<1>6. WaitsAs(u, w)
  BY <1>4, <1>5 DEF Same, WaitsAs
<1>7. feed' = feed \/ Publish(u, "EXECUTING")
  BY <1>1 DEF PublishWait
<1> QED BY <1>1, <1>3, <1>6, <1>7 DEF Stays

\* Waiting behind a stopped robot, or passing it.
LEMMA PassStoppedStays ==
    ASSUME IInv, NEW t \in tasks, PassStopped(t)
    PROVE  \E u \in Requesting(t) : \E w : Stays(t, u, w)
<1>1. PICK u \in Requesting(t) :
        /\ LET around == Detours(u, u.path[Len(u.path)])
           IN  IF around = {} THEN Keep(t, [u EXCEPT !.wait_logged = TRUE])
               ELSE \E path \in around : Keep(t, Rerouted(u, path))
        /\ Ask(u).verdict = "WAIT"
        /\ traffic' = Ask(u).traffic
        /\ UNCHANGED <<feed, world>>
  BY DEF PassStopped
<1>2. u \in Task /\ u.idx \in 2..Len(u.path)
  BY RequestingSpec
<1> DEFINE w == [u EXCEPT !.wait_logged = TRUE]
<1>3. CASE Keep(t, w)
  <2>1. Same(w, u) /\ w.stuck = u.stuck
    BY <1>2, SameSpec DEF Task
  <2> HIDE DEF w
  <2>2. WaitsAs(u, w)
    BY <2>1 DEF Same, WaitsAs
  <2> QED BY <1>1, <1>3, <2>1, <2>2 DEF Stays
<1>4. ASSUME NEW path \in Detours(u, u.path[Len(u.path)]), Keep(t, Rerouted(u, path))
      PROVE  \E x : Stays(t, u, x)
  <2>1. path \in Seq(Node) /\ Len(path) >= 2
    BY <1>2, DetoursSpec
  <2> DEFINE v == Rerouted(u, path)
  <2>2. /\ v \in Task /\ v.robot = u.robot /\ v.patrol = u.patrol
        /\ v.moving = u.moving /\ v.path = path /\ v.idx = 2 /\ v.seq = u.seq
        /\ ~v.wait_logged /\ v.stuck = u.stuck
    BY <1>2, <2>1, ReroutedSpec
  <2>3. Keep(t, v)
    BY <1>4
  <2> HIDE DEF v
  <2>4. WaitsAs(u, v)
    BY <2>2 DEF WaitsAs
  <2> QED BY <1>1, <2>2, <2>3, <2>4 DEF Stays
<1> QED BY <1>1, <1>3, <1>4

\* Any other wait, with or without a timed detour.
LEMMA WaitStays ==
    ASSUME IInv, NEW t \in tasks, Wait(t)
    PROVE  \E u \in Requesting(t) : \E w : Stays(t, u, w)
<1> DEFINE ticked(u) == [u EXCEPT !.wait_ticks = @ + 1]
           waits(u) == [u EXCEPT !.wait_ticks = @ + 1, !.wait_logged = TRUE]
<1>1. PICK u \in Requesting(t) :
        /\ \/ Keep(t, waits(u))
           \/ Keep(t, [waits(u) EXCEPT !.wait_ticks = 0])
           \/ \E path \in Detours(u, DetourGoal(u)) :
                 Keep(t, [Rerouted(waits(u), path) EXCEPT !.wait_ticks = 0])
        /\ PublishWait(u)
        /\ Ask(u).verdict = "WAIT"
        /\ traffic' = Ask(u).traffic
        /\ UNCHANGED world
  BY DEF Wait
<1>2. u \in Task /\ u.idx \in 2..Len(u.path)
  BY RequestingSpec
<1>3. feed' = feed \/ Publish(u, "EXECUTING")
  BY <1>1 DEF PublishWait
<1> DEFINE a == ticked(u)
           b == [a EXCEPT !.wait_logged = TRUE]
           c == [b EXCEPT !.wait_ticks = 0]
<1>4. waits(u) = b
  OBVIOUS
<1>5. Same(a, u) /\ a.stuck = u.stuck
  <2>1. u.wait_ticks + 1 \in Nat
    BY <1>2 DEF Task
  <2> QED BY <1>2, <2>1, SameSpec DEF Task
<1> HIDE DEF a
<1>6. Same(b, a) /\ b.stuck = a.stuck
  <2>1. a \in Task
    BY <1>5 DEF Same
  <2> QED BY <2>1, SameSpec DEF Task
<1> HIDE DEF waits
<1>7. Same(b, u) /\ b.stuck = u.stuck
  BY <1>5, <1>6 DEF Same
<1> HIDE DEF b
<1>8. Same(c, u) /\ c.stuck = u.stuck
  <2>1. b \in Task
    BY <1>7 DEF Same
  <2>2. Same(c, b) /\ c.stuck = b.stuck
    BY <2>1, SameSpec DEF Task
  <2> HIDE DEF c
  <2> QED BY <1>7, <2>2 DEF Same
<1>9. ASSUME NEW w, Same(w, u), w.stuck = u.stuck, Keep(t, w)
      PROVE  Stays(t, u, w)
  <2>1. WaitsAs(u, w)
    BY <1>9 DEF Same, WaitsAs
  <2> QED BY <1>1, <1>3, <1>9, <2>1 DEF Stays
<1>10. ASSUME NEW path \in Detours(u, DetourGoal(u)),
              Keep(t, [Rerouted(b, path) EXCEPT !.wait_ticks = 0])
       PROVE  \E w : Stays(t, u, w)
  <2>1. path \in Seq(Node) /\ Len(path) >= 2
    BY <1>2, DetoursSpec
  <2>2. /\ b \in Task /\ b.robot = u.robot /\ b.patrol = u.patrol
        /\ b.moving = u.moving /\ b.seq = u.seq /\ b.stuck = u.stuck
    BY <1>7 DEF Same
  <2> DEFINE v == Rerouted(b, path)
             w == [v EXCEPT !.wait_ticks = 0]
  <2>3. /\ v \in Task /\ v.robot = u.robot /\ v.patrol = u.patrol
        /\ v.moving = u.moving /\ v.path = path /\ v.idx = 2 /\ v.seq = u.seq
        /\ ~v.wait_logged /\ v.stuck = u.stuck
    BY <2>1, <2>2, ReroutedSpec
  <2>4. Keep(t, w)
    BY <1>10
  <2> HIDE DEF v
  <2>5. Same(w, v) /\ w.wait_logged = v.wait_logged /\ w.stuck = v.stuck
    BY <2>3, SameSpec DEF Task
  <2> HIDE DEF w
  <2>6. WaitsAs(u, w)
    BY <2>3, <2>5 DEF Same, WaitsAs
  <2> QED BY <1>1, <1>3, <2>3, <2>4, <2>5, <2>6 DEF Stays
<1>11. CASE Keep(t, waits(u))
  BY <1>4, <1>7, <1>9, <1>11
<1>12. CASE Keep(t, [waits(u) EXCEPT !.wait_ticks = 0])
  BY <1>4, <1>8, <1>9, <1>12
<1> QED BY <1>1, <1>4, <1>10, <1>11, <1>12

\* The action of the second loop on the task t, whichever it is.
ServeTask(t) ==
    \/ FailStuck(t) \/ KeepDriving(t) \/ Complete(t) \/ Depart(t)
    \/ YieldByDetour(t) \/ Escalate(t) \/ PassStopped(t) \/ Wait(t)

\* Serving a task has one of the four outcomes.
LEMMA ServeTaskSpec ==
    ASSUME IInv, NEW t \in tasks, ServeTask(t)
    PROVE  \/ \E w : DrivesOn(t, w)
           \/ \E nodes \in SUBSET Node : \E state : Ends(t, nodes, state)
           \/ \E u \in Requesting(t) : \E w : Departs(t, u, w) \/ Stays(t, u, w)
<1>1. /\ t \in Task /\ t.idx \in 2..Len(t.path)
      /\ Current(t) \in Node /\ NextNode(t) \in Node
  BY TaskNodes DEF IInv, TypeOK, IndexInsidePath
<1>2. CASE KeepDriving(t)
  <2>1. PICK w \in Ticked(t) : Keep(t, w) /\ UNCHANGED <<traffic, feed, world>>
    BY <1>2 DEF KeepDriving
  <2>2. Same(w, t) /\ w.wait_logged = t.wait_logged
    BY <1>1, TickedSpec DEF Same
  <2> QED BY <1>2, <2>1, <2>2 DEF DrivesOn, KeepDriving
<1>3. CASE Complete(t)
  BY <1>1, <1>3 DEF Complete, HasArrived, Ends
<1>4. CASE FailStuck(t)
  <2>1. PICK w \in Ticked(t) : w.no_move > KStuckTicks
    BY <1>4 DEF FailStuck
  <2>2. t.moving
    <3> SUFFICES ASSUME ~t.moving PROVE FALSE
      OBVIOUS
    <3>1. w = [t EXCEPT !.no_move = 0]
      BY DEF Ticked
    <3>2. w.no_move = 0
      BY <1>1, <3>1 DEF Task
    <3> QED BY <2>1, <3>2, LimitAssumption
  <2> QED BY <1>1, <1>4, <2>2 DEF FailStuck, Ends
<1>5. CASE Depart(t)
  <2> DEFINE gone(u) == [u EXCEPT !.moving = TRUE, !.wait_logged = FALSE,
                                  !.stuck = FALSE, !.wait_ticks = 0]
  <2>1. PICK u \in Requesting(t) :
          /\ Ask(u).verdict = "GRANT"
          /\ Keep(t, gone(u))
          /\ traffic' = IF Current(u) = NextNode(u) THEN Ask(u).traffic
                        ELSE ReleaseAll(Ask(u).traffic, u.robot, {Current(u)})
          /\ cmd' = [cmd EXCEPT ![u.robot] = NextNode(u)]
          /\ UNCHANGED <<feed, place>>
    BY <1>5 DEF Depart
  <2>2. u \in Task
    BY RequestingSpec
  <2>3. /\ gone(u) \in Task
        /\ gone(u).robot = u.robot /\ gone(u).patrol = u.patrol
        /\ gone(u).path = u.path /\ gone(u).idx = u.idx
        /\ gone(u).seq = u.seq /\ gone(u).moving /\ ~gone(u).wait_logged
    BY <2>2, DepartedSpec
  <2> HIDE DEF gone
  <2> QED BY <2>1, <2>3 DEF Departs
<1> QED BY <1>2, <1>3, <1>4, <1>5, YieldByDetourStays, EscalateStays,
           PassStoppedStays, WaitStays DEF ServeTask

\* A task that waits is well formed.
LEMMA WaitsAsSpec ==
    ASSUME NEW u \in Task, u.idx \in 2..Len(u.path), NEW w, WaitsAs(u, w)
    PROVE  w.idx \in 2..Len(w.path) /\ Current(w) = Current(u)
<1>1. CASE w.path = u.path /\ w.idx = u.idx
  BY <1>1 DEF Current
<1>2. ASSUME NEW goal, w.path \in Detours(u, goal), w.idx = 2
      PROVE  w.idx \in 2..Len(w.path) /\ Current(w) = Current(u)
  <2>1. w.path \in Seq(Node) /\ Len(w.path) >= 2 /\ w.path[1] = Current(u)
    BY <1>2, DetoursSpec
  <2>2. w.idx - 1 = 1 /\ 2 \in 2..Len(w.path)
    BY <1>2, <2>1
  <2> QED BY <1>2, <2>1, <2>2 DEF Current
<1> QED BY <1>1, <1>2 DEF WaitsAs

\* What a granted departure does to the reservations: the vertex driven to was
\* free or the robot's own and is its own now, the vertex left is given back.
LEMMA DepartsOwner ==
    ASSUME IInv, NEW t \in tasks, NEW u \in Requesting(t), NEW w, Departs(t, u, w)
    PROVE  /\ traffic' \in Traffic
           /\ traffic.owner[NextNode(u)] \in {NoRobot, t.robot}
           /\ \A n \in Node : traffic'.owner[n] =
                (IF n = NextNode(u) THEN t.robot
                 ELSE IF n = Current(u) /\ traffic.owner[n] = t.robot THEN NoRobot
                 ELSE traffic.owner[n])
<1>1. /\ u \in Task /\ u.robot = t.robot /\ t.robot \in Robot
      /\ Current(u) \in Node /\ NextNode(u) \in Node
  BY RequestingSpec DEF Task
<1> DEFINE asked == Ask(u).traffic
<1>2. /\ asked \in Traffic
      /\ asked.owner = [traffic.owner EXCEPT ![NextNode(u)] = t.robot]
      /\ traffic.owner[NextNode(u)] \in {NoRobot, t.robot}
      /\ traffic.owner \in [Node -> Robot \cup {NoRobot}]
  BY AskSpec, WorldType DEF IInv, Free, Traffic, Departs
<1>3. CASE Current(u) = NextNode(u)
  <2>1. traffic' = asked
    BY <1>3 DEF Departs
  <2> HIDE DEF asked
  <2> QED BY <1>1, <1>2, <1>3, <2>1
<1>4. CASE Current(u) # NextNode(u)
  <2>1. traffic' = ReleaseAll(asked, t.robot, {Current(u)})
    BY <1>1, <1>4 DEF Departs
  <2>2. {Current(u)} \in SUBSET Node
    BY <1>1
  <2> HIDE DEF asked
  <2>3. /\ traffic' \in Traffic
        /\ \A n \in Node : traffic'.owner[n] =
             (IF n = Current(u) /\ asked.owner[n] = t.robot THEN NoRobot
              ELSE asked.owner[n])
    BY <1>1, <1>2, <2>1, <2>2, ReleaseAllSpec
  <2> QED BY <1>1, <1>2, <1>4, <2>3
<1> QED BY <1>3, <1>4

\* Serving a task keeps the invariant, whatever its outcome.
LEMMA ServeTaskInv == ASSUME IInv, NEW t \in tasks, ServeTask(t) PROVE IInv'
<1>1. t \in Task /\ t.robot \in Robot /\ t.idx \in 2..Len(t.path)
  BY DEF IInv, TypeOK, IndexInsidePath, Task
<1>2. ASSUME NEW w, DrivesOn(t, w) PROVE IInv'
  <2>1. /\ w \in Task /\ w.robot = t.robot /\ w.patrol = t.patrol
        /\ w.moving = t.moving /\ w.path = t.path /\ w.idx = t.idx
        /\ Keep(t, w) /\ UNCHANGED <<traffic, feed, world>>
    BY <1>2 DEF DrivesOn, Same
  <2>2. ~MaySwap /\ w.moving => traffic'.owner[NextNode(w)] = t.robot
    BY <2>1 DEF IInv, TargetsReserved, NextNode
  <2>3. traffic' \in Traffic /\ OnlyRobot(t.robot)
    BY <2>1, WorldType DEF IInv, OnlyRobot
  <2>4. /\ feed' \in [Robot -> FeedState] /\ place' \in [Robot -> Position]
        /\ cmd' \in [Robot -> Node \cup {NoNode}]
    BY <2>1 DEF IInv, TypeOK, world
  <2> QED BY <1>1, <2>1, <2>2, <2>3, <2>4, KeepStep
<1>3. ASSUME NEW nodes \in SUBSET Node, NEW state, Ends(t, nodes, state) PROVE IInv'
  <2>1. Finish(t, nodes, state) /\ state \in FeedState
    BY <1>3 DEF Ends, FeedState
  <2> QED BY <2>1, FinishStep
<1>4. ASSUME NEW u \in Requesting(t), NEW w, Departs(t, u, w) PROVE IInv'
  <2>1. /\ w \in Task /\ w.robot = t.robot /\ w.patrol = t.patrol
        /\ w.idx \in 2..Len(w.path) /\ NextNode(w) = NextNode(u)
        /\ u.robot = t.robot /\ NextNode(u) \in Node
        /\ Keep(t, w)
    BY <1>4, RequestingSpec DEF Departs, NextNode
  <2>2. traffic' \in Traffic /\ OnlyRobot(t.robot)
    BY <1>4, <2>1, DepartsOwner DEF OnlyRobot
  <2>3. traffic'.owner[NextNode(w)] = t.robot
    BY <1>4, <2>1, DepartsOwner
  <2>4. /\ feed' \in [Robot -> FeedState] /\ place' \in [Robot -> Position]
        /\ cmd' \in [Robot -> Node \cup {NoNode}]
    BY <1>1, <1>4, <2>1 DEF IInv, TypeOK, Departs
  <2> QED BY <2>1, <2>2, <2>3, <2>4, KeepStep
<1>5. ASSUME NEW u \in Requesting(t), NEW w, Stays(t, u, w) PROVE IInv'
  <2>1. /\ u \in Task /\ u.robot = t.robot /\ u.patrol = t.patrol /\ ~u.moving
        /\ u.idx \in 2..Len(u.path)
    BY RequestingSpec
  <2>2. /\ w \in Task /\ w.robot = t.robot /\ w.patrol = t.patrol /\ ~w.moving
        /\ w.idx \in 2..Len(w.path)
    BY <1>5, <2>1, WaitsAsSpec DEF Stays, WaitsAs
  <2>3. traffic' \in Traffic /\ OnlyRobot(t.robot)
    BY <1>5, AskSpec DEF Stays
  <2>4. feed' \in [Robot -> FeedState]
    <3>1. feed \in [Robot -> FeedState] /\ "EXECUTING" \in FeedState
      BY WorldType DEF IInv, FeedState
    <3> QED BY <1>1, <1>5, <2>1, <3>1 DEF Stays, Publish
  <2>5. place' \in [Robot -> Position] /\ cmd' \in [Robot -> Node \cup {NoNode}]
    BY <1>5 DEF Stays, IInv, TypeOK, world
  <2>6. Keep(t, w)
    BY <1>5 DEF Stays
  <2> QED BY <2>2, <2>3, <2>4, <2>5, <2>6, KeepStep
<1> QED BY <1>2, <1>3, <1>4, <1>5, ServeTaskSpec

-----------------------------------------------------------------------------
(* New tasks                                                               *)

\* A new task is well formed.
LEMMA NewTaskSpec ==
    ASSUME task_seq \in Nat, NEW r \in Robot, NEW path \in Seq(Node),
           NEW patrol \in BOOLEAN
    PROVE  NewTask(r, path, patrol) \in Task
<1>1. task_seq + 1 \in Nat
  OBVIOUS
<1> QED BY <1>1 DEF NewTask, Task

\* The vertices a cancelled task gives back are vertices.
LEMMA CancelledType ==
    ASSUME IInv, NEW r \in Robot
    PROVE  CancelledNodes(r) \in SUBSET Node
<1>1. ASSUME NEW t \in TasksOf(r) PROVE {Current(t), NextNode(t)} \subseteq Node
  BY TaskNodes DEF IInv, TypeOK, IndexInsidePath, TasksOf
<1> QED BY <1>1 DEF CancelledNodes

\* Giving back one's own vertices and then claiming one concerns nobody else.
LEMMA ClaimOnlyRobot ==
    ASSUME traffic \in Traffic, NEW r \in Robot, NEW S \in SUBSET Node,
           NEW freed, freed = ReleaseAll(traffic, r, S) \/ freed = traffic,
           NEW n \in Node, NEW p \in Int,
           traffic' = request_move(freed, r, n, n, p).traffic \/ traffic' = freed
    PROVE  traffic' \in Traffic /\ OnlyRobot(r)
<1>1. /\ freed \in Traffic
      /\ \A m \in Node : \/ freed.owner[m] = traffic.owner[m]
                         \/ traffic.owner[m] = r /\ freed.owner[m] = NoRobot
  BY ReleaseAllSpec
<1>2. CASE traffic' = freed
  BY <1>1, <1>2 DEF OnlyRobot
<1>3. CASE traffic' = request_move(freed, r, n, n, p).traffic
  <2>1. traffic' \in Traffic
    BY <1>1, <1>3, RequestMoveType
  <2>2. \/ traffic'.owner = freed.owner
        \/ Free(freed, r, n) /\ traffic'.owner = [freed.owner EXCEPT ![n] = r]
    BY <1>1, <1>3, RequestMoveOwner
  <2>3. freed.owner \in [Node -> Robot \cup {NoRobot}]
    BY <1>1 DEF Traffic
  <2> QED BY <1>1, <2>1, <2>2, <2>3 DEF OnlyRobot, Free
<1> QED BY <1>2, <1>3

\* A change of r's reservations leaves every other robot its target.
LEMMA OthersKeepTargets ==
    ASSUME IInv, ~MaySwap, NEW r \in Robot, OnlyRobot(r),
           NEW v \in tasks, v.robot # r, v.moving
    PROVE  traffic'.owner[NextNode(v)] = v.robot
<1>1. v \in Task /\ v.robot \in Robot /\ NextNode(v) \in Node
  BY TaskNodes DEF IInv, TypeOK, IndexInsidePath, Task
<1>2. traffic.owner[NextNode(v)] = v.robot /\ v.robot # NoRobot
  BY <1>1, RobotAssumption DEF IInv, TargetsReserved, NoRobot
<1> QED BY <1>1, <1>2 DEF OnlyRobot

\* Giving a robot that is not stopped one task, instead of what it had, keeps
\* the invariant: this is where the busy flag has to be right.
LEMMA AddStep ==
    ASSUME IInv, NEW r \in Robot, mode[r] # "STOP",
           NEW path \in Seq(Node), Len(path) >= 2,
           NEW patrol \in BOOLEAN, patrol => Len(PatrolRoute) >= 2,
           tasks' = TasksWithout(r) \cup {NewTask(r, path, patrol)},
           busy' = [busy EXCEPT ![r] = TRUE],
           task_seq' = task_seq + 1,
           traffic' \in Traffic, OnlyRobot(r),
           cursor' \in Nat \cup {Idle},
           feed' \in [Robot -> FeedState],
           UNCHANGED <<known, report, battery, mode, world>>
    PROVE  IInv'
<1> DEFINE new == NewTask(r, path, patrol)
<1>1. new \in Task
  BY NewTaskSpec, WorldType DEF IInv
<1>2. /\ new.robot = r /\ new.patrol = patrol /\ ~new.moving
      /\ new.path = path /\ new.idx \in 2..Len(new.path)
  BY DEF NewTask
<1>3. tasks' = (tasks \ {v \in tasks : v.robot = r}) \cup {new}
  BY DEF TasksWithout, TasksOf
<1>4. task_seq + 1 \in Nat /\ busy' \in [Robot -> BOOLEAN]
  BY WorldType DEF IInv
<1> HIDE DEF new
<1>5. TypeOK'
  BY <1>1, <1>3, <1>4 DEF IInv, TypeOK, world
<1>6. OneTaskPerRobot'
  BY <1>2, <1>3 DEF IInv, OneTaskPerRobot
<1>7. BusyMatchesTasks'
  <2> SUFFICES ASSUME NEW s \in Robot
               PROVE  busy'[s] <=> \E v \in tasks' : v.robot = s
    BY DEF BusyMatchesTasks, TasksOf
  <2>1. busy[s] <=> \E v \in tasks : v.robot = s
    BY DEF IInv, BusyMatchesTasks, TasksOf
  <2>2. busy \in [Robot -> BOOLEAN]
    BY WorldType DEF IInv
  <2>3. CASE s = r
    BY <1>2, <1>3, <2>2, <2>3
  <2>4. CASE s # r
    <3>1. busy'[s] = busy[s]
      BY <2>2, <2>4
    <3>2. (\E v \in tasks : v.robot = s) <=> (\E v \in tasks' : v.robot = s)
      BY <1>2, <1>3, <2>4
    <3> QED BY <2>1, <3>1, <3>2
  <2> QED BY <2>3, <2>4
<1>8. PatrolsHaveRoute'
  BY <1>2, <1>3 DEF IInv, PatrolsHaveRoute
<1>9. IndexInsidePath'
  BY <1>2, <1>3 DEF IInv, IndexInsidePath
<1>10. ~MaySwap => TargetsReserved'
  <2> SUFFICES ASSUME ~MaySwap, NEW v \in tasks', v.moving
               PROVE  traffic'.owner[NextNode(v)] = v.robot
    BY DEF TargetsReserved, NextNode
  <2>1. v \in tasks /\ v.robot # r
    BY <1>2, <1>3
  <2> QED BY <2>1, OthersKeepTargets
<1>11. StoppedIsOutOfService'
  BY <1>2, <1>3 DEF IInv, StoppedIsOutOfService, TasksOf
<1> QED BY <1>5, <1>6, <1>7, <1>8, <1>9, <1>10, <1>11 DEF IInv

\* A robot that is not busy has no task to lose.
LEMMA NotBusy ==
    ASSUME IInv, NEW r \in Robot, ~busy[r]
    PROVE  TasksWithout(r) = tasks
  BY DEF IInv, BusyMatchesTasks, TasksWithout

\* What accepting a work task comes to: the robot gives back what its old task
\* holds, claims the vertex nearest to it and gets a path from there.
LEMMA AcceptFacts ==
    ASSUME IInv, NEW r \in Robot, NEW goal \in Node, NEW arm_actions,
           Accept(r, goal, arm_actions)
    PROVE  /\ UNCHANGED <<known, report, battery, mode, cursor, world>>
           /\ busy' = [busy EXCEPT ![r] = TRUE]
           /\ task_seq' = task_seq + 1
           /\ feed' = [feed EXCEPT ![r] = "ASSIGNED"]
           /\ \E path \in Seq(Node), freed \in Traffic, p \in Int :
                /\ Len(path) >= 2 /\ path[1] \in Node
                /\ tasks' = TasksWithout(r) \cup {NewTask(r, path, FALSE)}
                /\ \/ busy[r] /\ freed = ReleaseAll(traffic, r, CancelledNodes(r))
                   \/ ~busy[r] /\ freed = traffic
                /\ traffic' = request_move(freed, r, path[1], path[1], p).traffic
<1> DEFINE start == NearestNode(report[r])
           routes == IF start = goal THEN {<<goal, goal>>}
                     ELSE dijkstra(start, goal, NoNode)
           kept == IF busy[r] THEN TasksWithout(r) ELSE tasks
           freed == IF busy[r] THEN ReleaseAll(traffic, r, CancelledNodes(r))
                    ELSE traffic
           p(path) == compute_priority(r, NewTask(r, path, FALSE))
<1>1. PICK path \in routes :
        /\ traffic' = request_move(freed, r, start, start, p(path)).traffic
        /\ tasks' = kept \cup {NewTask(r, path, FALSE)}
        /\ busy' = [busy EXCEPT ![r] = TRUE]
        /\ task_seq' = task_seq + 1
        /\ feed' = [feed EXCEPT ![r] = "ASSIGNED"]
        /\ UNCHANGED <<known, report, battery, mode, cursor, world>>
  BY DEF Accept
<1>2. start \in Node
  BY WorldType DEF IInv, Position, NearestNode
<1>3. path \in Seq(Node) /\ Len(path) >= 2 /\ path[1] = start
  <2>1. CASE start = goal
    <3>1. path = <<goal, goal>>
      BY <2>1
    <3>2. path[1] = start
      BY <2>1, <3>1
    <3> HIDE DEF start, routes
    <3> QED BY <3>1, <3>2
  <2>2. CASE start # goal
    <3>1. path \in dijkstra(start, goal, NoNode)
      BY <2>2
    <3> HIDE DEF start
    <3>2. /\ path \in Seq(Node) /\ Len(path) >= 1
          /\ path[1] = start /\ path[Len(path)] = goal
      BY <3>1, DijkstraSpec
    <3> QED BY <2>2, <3>2
  <2> QED BY <2>1, <2>2
<1>4. tasks' = TasksWithout(r) \cup {NewTask(r, path, FALSE)}
  BY <1>1, NotBusy
<1>5. /\ freed \in Traffic
      /\ \/ busy[r] /\ freed = ReleaseAll(traffic, r, CancelledNodes(r))
         \/ ~busy[r] /\ freed = traffic
  BY CancelledType, ReleaseAllSpec, WorldType DEF IInv
<1>6. p(path) \in Int
  BY <1>3, NewTaskSpec, PriorityType, WorldType DEF IInv
<1> HIDE DEF start, routes, kept, freed, p
<1>7. traffic' = request_move(freed, r, path[1], path[1], p(path)).traffic
  BY <1>1, <1>3
<1>8. \E f \in Traffic, q \in Int :
         /\ \/ busy[r] /\ f = ReleaseAll(traffic, r, CancelledNodes(r))
            \/ ~busy[r] /\ f = traffic
         /\ traffic' = request_move(f, r, path[1], path[1], q).traffic
  <2>1. freed \in Traffic /\ p(path) \in Int
    BY <1>5, <1>6
  <2> QED BY <1>5, <1>7, <2>1
<1> QED BY <1>1, <1>2, <1>3, <1>4, <1>8

\* Accepting a work task keeps the invariant.
LEMMA AcceptInv ==
    ASSUME IInv, NEW r \in Robot, mode_of(r) # "STOP", NEW goal \in Node,
           NEW arm_actions, Accept(r, goal, arm_actions)
    PROVE  IInv'
<1>1. /\ UNCHANGED <<known, report, battery, mode, cursor, world>>
      /\ busy' = [busy EXCEPT ![r] = TRUE]
      /\ task_seq' = task_seq + 1
      /\ feed' = [feed EXCEPT ![r] = "ASSIGNED"]
  BY AcceptFacts
<1>2. PICK path \in Seq(Node), freed \in Traffic, p \in Int :
        /\ Len(path) >= 2 /\ path[1] \in Node
        /\ tasks' = TasksWithout(r) \cup {NewTask(r, path, FALSE)}
        /\ \/ busy[r] /\ freed = ReleaseAll(traffic, r, CancelledNodes(r))
           \/ ~busy[r] /\ freed = traffic
        /\ traffic' = request_move(freed, r, path[1], path[1], p).traffic
  BY AcceptFacts
<1>3. traffic' \in Traffic /\ OnlyRobot(r)
  BY <1>2, CancelledType, ClaimOnlyRobot, WorldType DEF IInv
<1>4. mode[r] # "STOP"
  BY DEF mode_of
<1>5. cursor' \in Nat \cup {Idle} /\ feed' \in [Robot -> FeedState]
  BY <1>1 DEF IInv, TypeOK, FeedState
<1> QED BY <1>1, <1>2, <1>3, <1>4, <1>5, AddStep

\* Starting a patrol keeps the invariant.
LEMMA StartPatrolInv ==
    ASSUME IInv, NEW r \in Robot, start_patrol(r)
    PROVE  IInv'
<1>1. PICK path \in make_patrol_path(report[r]) :
        /\ tasks' = tasks \cup {NewTask(r, path, TRUE)}
        /\ traffic' = request_move(traffic, r, path[1], path[1],
                          compute_priority(r, NewTask(r, path, TRUE))).traffic
  BY DEF start_patrol
<1>2. /\ Len(PatrolRoute) >= 2
      /\ ~busy[r] /\ mode[r] # "STOP"
      /\ cursor' = 0
      /\ busy' = [busy EXCEPT ![r] = TRUE]
      /\ task_seq' = task_seq + 1
      /\ feed' = [feed EXCEPT ![r] = "PATROL"]
      /\ UNCHANGED <<known, report, battery, mode, world>>
  BY DEF start_patrol, Patrollable, Idlers, mode_of
<1>3. report[r] \in Position
  BY WorldType DEF IInv
<1>4. path \in Seq(Node) /\ Len(path) = Len(PatrolRoute) + 1
  BY <1>2, <1>3, LapSpec
<1>5. Len(path) >= 2
  BY <1>2, <1>4, PatrolAssumption
<1>6. path[1] \in Node
  BY <1>4, <1>5
<1>7. compute_priority(r, NewTask(r, path, TRUE)) \in Int
  BY <1>4, NewTaskSpec, PriorityType, WorldType DEF IInv
<1>8. traffic' \in Traffic /\ OnlyRobot(r)
  BY <1>1, <1>6, <1>7, RequestOnlyRobot, WorldType DEF IInv
<1>9. tasks' = TasksWithout(r) \cup {NewTask(r, path, TRUE)}
  BY <1>1, <1>2, NotBusy
<1>10. cursor' \in Nat \cup {Idle} /\ feed' \in [Robot -> FeedState]
  BY <1>2, WorldType DEF IInv, FeedState
<1> QED BY <1>2, <1>4, <1>5, <1>8, <1>9, <1>10, AddStep

-----------------------------------------------------------------------------
(* Services and robots                                                     *)

\* Changing a robot's mode keeps the invariant: only CHARGE lets it keep its
\* task, and no task survives STOP.
LEMMA SetModeInv ==
    ASSUME IInv, NEW r \in Robot, NEW m \in Mode, on_set_mode(r, m)
    PROVE  IInv'
<1> DEFINE S == CancelledNodes(r) \cup OwnedBy(traffic, r)
           freed == ReleaseAll(traffic, r, S)
           node == NearestNode(report[r])
<1>1. /\ mode' = [mode EXCEPT ![r] = m]
      /\ UNCHANGED <<known, report, battery, task_seq, cursor, feed, world>>
  BY DEF on_set_mode
<1>2. mode \in [Robot -> Mode \cup {"NONE"}] /\ busy \in [Robot -> BOOLEAN]
  BY WorldType DEF IInv
<1>3. CASE m = "CHARGE"
  <2>1. UNCHANGED <<tasks, busy, traffic>>
    BY <1>3 DEF on_set_mode
  <2>2. TypeOK'
    BY <1>1, <1>2, <2>1 DEF IInv, TypeOK, world
  <2>3. StoppedIsOutOfService'
    BY <1>1, <1>2, <1>3, <2>1 DEF IInv, StoppedIsOutOfService, TasksOf
  <2>4. /\ OneTaskPerRobot' /\ BusyMatchesTasks' /\ PatrolsHaveRoute'
        /\ IndexInsidePath' /\ (~MaySwap => TargetsReserved')
    BY <2>1 DEF IInv, OneTaskPerRobot, BusyMatchesTasks, PatrolsHaveRoute,
                IndexInsidePath, TargetsReserved, TasksOf, NextNode
  <2> QED BY <2>2, <2>3, <2>4 DEF IInv
<1>4. CASE m # "CHARGE"
  <2>1. /\ tasks' = TasksWithout(r)
        /\ busy' = [busy EXCEPT ![r] = FALSE]
        /\ \/ traffic' = request_move(freed, r, node, node, KStopPrio).traffic
           \/ traffic' = freed
    BY <1>4 DEF on_set_mode
  <2>2. S \in SUBSET Node
    BY CancelledType DEF OwnedBy
  <2>3. node \in Node /\ KStopPrio \in Int
    BY WorldType, PriorityAssumption DEF IInv, Position, NearestNode, KStopPrio
  <2> HIDE DEF S, node
  <2>4. traffic' \in Traffic /\ OnlyRobot(r)
    BY <2>1, <2>2, <2>3, ClaimOnlyRobot, WorldType DEF IInv
  <2>5. \A v \in tasks' : v \in tasks /\ v.robot # r
    BY <2>1 DEF TasksWithout, TasksOf
  <2>6. \A v \in tasks : v.robot # r => v \in tasks'
    BY <2>1 DEF TasksWithout, TasksOf
  <2>7. TypeOK'
    <3>1. tasks' \subseteq Task /\ busy' \in [Robot -> BOOLEAN]
      BY <1>2, <2>1, <2>5, WorldType DEF IInv
    <3> QED BY <1>1, <1>2, <2>4, <3>1 DEF IInv, TypeOK, world
  <2>8. BusyMatchesTasks'
    <3> SUFFICES ASSUME NEW s \in Robot
                 PROVE  busy'[s] <=> \E v \in tasks' : v.robot = s
      BY DEF BusyMatchesTasks, TasksOf
    <3>1. busy[s] <=> \E v \in tasks : v.robot = s
      BY DEF IInv, BusyMatchesTasks, TasksOf
    <3>2. CASE s = r
      BY <1>2, <2>1, <2>5, <3>2
    <3>3. CASE s # r
      <4>1. busy'[s] = busy[s]
        BY <1>2, <2>1, <3>3
      <4>2. (\E v \in tasks : v.robot = s) <=> (\E v \in tasks' : v.robot = s)
        BY <2>5, <2>6, <3>3
      <4> QED BY <3>1, <4>1, <4>2
    <3> QED BY <3>2, <3>3
  <2>9. ~MaySwap => TargetsReserved'
    <3> SUFFICES ASSUME ~MaySwap, NEW v \in tasks', v.moving
                 PROVE  traffic'.owner[NextNode(v)] = v.robot
      BY DEF TargetsReserved, NextNode
    <3> QED BY <2>4, <2>5, OthersKeepTargets
  <2>10. StoppedIsOutOfService'
    BY <1>1, <1>2, <2>5 DEF IInv, StoppedIsOutOfService, TasksOf
  <2>11. OneTaskPerRobot' /\ PatrolsHaveRoute' /\ IndexInsidePath'
    BY <2>5 DEF IInv, OneTaskPerRobot, PatrolsHaveRoute, IndexInsidePath
  <2> QED BY <2>7, <2>8, <2>9, <2>10, <2>11 DEF IInv
<1> QED BY <1>3, <1>4

\* A change that leaves tasks, busy flags, targets and stopped robots alone
\* keeps the invariant as long as the types are right.
LEMMA QuietStep ==
    ASSUME IInv, TypeOK', UNCHANGED <<tasks, busy, traffic>>,
           \A r \in Robot : mode'[r] = "STOP" => mode[r] = "STOP"
    PROVE  IInv'
<1>1. /\ OneTaskPerRobot' /\ BusyMatchesTasks' /\ PatrolsHaveRoute'
      /\ IndexInsidePath' /\ (~MaySwap => TargetsReserved')
  BY DEF IInv, OneTaskPerRobot, BusyMatchesTasks, PatrolsHaveRoute,
         IndexInsidePath, TargetsReserved, TasksOf, NextNode
<1>2. StoppedIsOutOfService'
  BY DEF IInv, StoppedIsOutOfService, TasksOf
<1> QED BY <1>1, <1>2 DEF IInv

\* A report and the mode it may introduce keep the invariant.
LEMMA RobotStateInv ==
    ASSUME IInv, NEW r \in Robot, on_robot_state(r)
    PROVE  IInv'
<1>1. /\ mode \in [Robot -> Mode \cup {"NONE"}]
      /\ mode' = [mode EXCEPT ![r] =
                    IF mode[r] # "NONE" THEN mode[r]
                    ELSE IF PatrolDefault THEN "PATROL" ELSE "IDLE"]
  BY WorldType DEF IInv, on_robot_state
<1>2. mode' \in [Robot -> Mode \cup {"NONE"}]
  BY <1>1 DEF Mode
<1>3. \A s \in Robot : mode'[s] = "STOP" => mode[s] = "STOP"
  BY <1>1
<1>4. /\ UNCHANGED <<battery, busy, tasks, task_seq, traffic, cursor, feed, place, cmd>>
      /\ known' = known \cup {r}
      /\ report' = [report EXCEPT ![r] = place[r]]
  BY DEF on_robot_state, world
<1>5. TypeOK'
  <2>1. place[r] \in Position
    BY DEF IInv, TypeOK
  <2> QED BY <1>2, <1>4, <2>1 DEF IInv, TypeOK
<1> QED BY <1>3, <1>4, <1>5, QuietStep

\* The motion of a robot keeps the invariant.
LEMMA DriveInv ==
    ASSUME IInv, NEW r \in Robot, Drive(r)
    PROVE  IInv'
<1>1. /\ cmd[r] \in Node /\ place[r] \in Position
      /\ place' = [place EXCEPT ![r] = Toward(place[r], cmd[r])]
      /\ UNCHANGED <<known, report, battery, busy, mode, tasks, task_seq, traffic,
                     cursor, feed, cmd>>
  BY DEF Drive, IInv, TypeOK, ledger
<1>2. Toward(place[r], cmd[r]) \in Position
  BY <1>1 DEF Toward, Position, At
<1>3. TypeOK'
  BY <1>1, <1>2 DEF IInv, TypeOK
<1> QED BY <1>1, <1>3, QuietStep

\* Setting a battery level keeps the invariant.
LEMMA SetBatteryInv ==
    ASSUME IInv, NEW r \in Robot, NEW level \in 0..100, on_set_battery(r, level)
    PROVE  IInv'
<1>1. /\ known' = known \cup {r}
      /\ battery' = [battery EXCEPT ![r] = level]
      /\ UNCHANGED <<report, busy, mode, tasks, task_seq, traffic, cursor, feed,
                     place, cmd>>
  BY DEF on_set_battery, world
<1>2. TypeOK'
  BY <1>1 DEF IInv, TypeOK
<1> QED BY <1>1, <1>2, QuietStep

\* A fresh traffic plugin keeps the invariant.
LEMMA SetPluginsInv == ASSUME IInv, on_set_plugins PROVE IInv'
<1>1. /\ MaySwap /\ traffic' = NoTraffic
      /\ UNCHANGED <<known, report, battery, busy, mode, tasks, task_seq, cursor,
                     feed, place, cmd>>
  BY DEF on_set_plugins, ledger, world
<1>2. NoTraffic \in Traffic
  BY DEF NoTraffic, Traffic
<1>3. TypeOK'
  BY <1>1, <1>2 DEF IInv, TypeOK
<1>4. /\ OneTaskPerRobot' /\ BusyMatchesTasks' /\ PatrolsHaveRoute'
      /\ IndexInsidePath' /\ StoppedIsOutOfService'
  BY <1>1 DEF IInv, OneTaskPerRobot, BusyMatchesTasks, PatrolsHaveRoute,
         IndexInsidePath, StoppedIsOutOfService, TasksOf
<1> QED BY <1>1, <1>3, <1>4 DEF IInv

-----------------------------------------------------------------------------
(* The theorems                                                            *)

\* The invariant holds when the node starts.
LEMMA InitIInv == Init => IInv
<1> SUFFICES ASSUME Init PROVE IInv
  OBVIOUS
<1>1. NoTraffic \in Traffic
  BY DEF NoTraffic, Traffic
<1>2. TypeOK
  BY <1>1, PlaceAssumption, InputAssumption DEF Init, TypeOK, FeedState
<1>3. /\ OneTaskPerRobot /\ BusyMatchesTasks /\ PatrolsHaveRoute
      /\ IndexInsidePath /\ TargetsReserved /\ StoppedIsOutOfService
  BY DEF Init, OneTaskPerRobot, BusyMatchesTasks, PatrolsHaveRoute,
         IndexInsidePath, TargetsReserved, StoppedIsOutOfService, TasksOf
<1> QED BY <1>2, <1>3 DEF IInv

\* Every step of the node, of an operator or of a robot keeps it.
LEMMA NextIInv == IInv /\ [Next]_vars => IInv'
<1> SUFFICES ASSUME IInv, [Next]_vars PROVE IInv'
  OBVIOUS
<1>2. CASE on_timer
  BY <1>2, ServeTaskInv, StartPatrolInv DEF on_timer, Serve, ServeTask
<1>3. ASSUME NEW r \in Robot, on_robot_state(r) \/ Drive(r) PROVE IInv'
  BY <1>3, RobotStateInv, DriveInv
<1>4. CASE Operator
  <2>1. ASSUME NEW r \in Managed, NEW goal \in Goals, NEW arm \in ArmActions,
               SubmitForced(r, goal, arm)
        PROVE  IInv'
    <3>1. r \in Robot /\ goal \in Node
      BY InputAssumption
    <3> QED BY <2>1, <3>1, AcceptInv DEF SubmitForced
  <2>2. ASSUME NEW goal \in Goals, NEW arm \in ArmActions, SubmitAuto(goal, arm)
        PROVE  IInv'
    <3>1. PICK r \in assign(goal, arm, Bidders,
                            [s \in Robot |-> NearestNode(report[s])], battery) :
            Accept(r, goal, arm)
      BY <2>2 DEF SubmitAuto
    <3>2. r \in Bidders
      BY <3>1 DEF assign
    <3>3. r \in Robot /\ mode_of(r) # "STOP" /\ goal \in Node
      BY <3>2, WorldType, InputAssumption DEF IInv, Bidders
    <3> QED BY <3>1, <3>3, AcceptInv
  <2>3. ASSUME NEW r \in Managed, NEW m \in Modes, on_set_mode(r, m) PROVE IInv'
    BY <2>3, SetModeInv, InputAssumption
  <2>4. ASSUME NEW r \in Managed, NEW level \in Levels, on_set_battery(r, level)
        PROVE  IInv'
    BY <2>4, SetBatteryInv, InputAssumption
  <2> QED BY <1>4, <2>1, <2>2, <2>3, <2>4, SetPluginsInv DEF Operator
<1>5. CASE UNCHANGED vars
  <2>1. UNCHANGED <<known, report, battery, busy, mode, tasks, task_seq, traffic,
                    cursor, feed, place, cmd>>
    BY <1>5 DEF vars, ledger, world
  <2>2. TypeOK'
    BY <2>1 DEF IInv, TypeOK
  <2> QED BY <2>1, <2>2, QuietStep
<1> QED BY <1>2, <1>3, <1>4, <1>5 DEF Next

\* The inductive invariant holds in every reachable state, for any graph, any
\* number of robots, any limits and any operator input.
THEOREM InvariantHolds == Spec => []IInv
<1> QED BY InitIInv, NextIInv, PTL DEF Spec

\* The same from the state in which every robot has reported once.
LEMMA AllSeenIInv == AllSeenInit => IInv
<1> SUFFICES ASSUME AllSeenInit PROVE IInv
  OBVIOUS
<1>1. NoTraffic \in Traffic
  BY DEF NoTraffic, Traffic
<1>2. TypeOK
  BY <1>1, PlaceAssumption, InputAssumption DEF AllSeenInit, TypeOK, FeedState, Mode
<1>3. /\ OneTaskPerRobot /\ BusyMatchesTasks /\ PatrolsHaveRoute
      /\ IndexInsidePath /\ TargetsReserved /\ StoppedIsOutOfService
  BY DEF AllSeenInit, OneTaskPerRobot, BusyMatchesTasks, PatrolsHaveRoute,
         IndexInsidePath, TargetsReserved, StoppedIsOutOfService, TasksOf
<1> QED BY <1>2, <1>3 DEF IInv

\* So the invariant holds from there too.
THEOREM InvariantHoldsAllSeen == AllSeenSpec => []IInv
<1> QED BY AllSeenIInv, NextIInv, PTL DEF AllSeenSpec

\* Type correctness of the node, its plugin and the robots.
THEOREM TypeCorrect == Spec => []TypeOK
<1>1. IInv => TypeOK
  BY DEF IInv
<1> QED BY <1>1, InvariantHolds, PTL

\* No robot is ever given a second task beside its first.
THEOREM OneTask == Spec => []OneTaskPerRobot
<1>1. IInv => OneTaskPerRobot
  BY DEF IInv
<1> QED BY <1>1, InvariantHolds, PTL

\* The busy flag is set exactly for the robots that have a task.
THEOREM BusyIsRight == Spec => []BusyMatchesTasks
<1>1. IInv => BusyMatchesTasks
  BY DEF IInv
<1> QED BY <1>1, InvariantHolds, PTL

\* No handler reads outside a path.
THEOREM IndexIsInside == Spec => []IndexInsidePath
<1>1. IInv => IndexInsidePath
  BY DEF IInv
<1> QED BY <1>1, InvariantHolds, PTL

\* Every robot under way holds the vertex it drives to, as long as nobody swaps
\* the traffic plugin.
THEOREM TargetsAreReserved == ASSUME ~MaySwap PROVE Spec => []TargetsReserved
<1>1. IInv => TargetsReserved
  BY DEF IInv
<1> QED BY <1>1, InvariantHolds, PTL

\* A stopped robot has no task.
THEOREM StoppedHasNoTask == Spec => []StoppedIsOutOfService
<1>1. IInv => StoppedIsOutOfService
  BY DEF IInv
<1> QED BY <1>1, InvariantHolds, PTL

\* Then no two robots are ever on their way to the same vertex.
THEOREM TargetsDiffer ==
    ASSUME ~MaySwap
    PROVE  Spec => [](\A t, u \in tasks :
                  t.moving /\ u.moving /\ NextNode(t) = NextNode(u) => t = u)
<1>1. IInv => \A t, u \in tasks :
                  t.moving /\ u.moving /\ NextNode(t) = NextNode(u) => t = u
  BY DEF IInv, TargetsReserved, OneTaskPerRobot
<1> QED BY <1>1, InvariantHolds, PTL

=============================================================================
