# Verification of the libi fleet manager

TLA+ modules, TLC configurations and TLAPS proofs for the fleet manager of this
repository: the node that accepts delivery tasks, chooses a robot, drives it
vertex by vertex over a navigation graph, and keeps robots apart by reserving
vertices. Paths below are relative to `src/libi_fleet/src/libi_fleet/` unless
they start with `src/`.

To repeat a result: `tlc -config Patrol.cfg MCFleet.tla` (`Routes.cfg` and
`Tangle.cfg` go with `MCRoutes.tla`, `Edit.cfg`, `ReloadCrash.cfg`, `OneWay.cfg`
and `StrayRoad.cfg` with `MCGraphEdit.tla`, `Calls.cfg` with `MCServiceCalls.tla`, every other `.cfg` with
`MCFleet.tla`) and `tlapm FleetProofs.tla` (likewise `FleetLedgerProofs`,
`FleetTrafficProofs`, `GraphEditProofs`, `ServiceCallsProofs`, `DijkstraProofs`,
`PatrolCycleProofs`, `RecursionLemmas`).

## 1. The system

| Part | State | Operations | Talks to |
|---|---|---|---|
| Fleet node (`src/fleet_node.cpp`) | `robots_` (last report, battery, busy), `robot_mode_`, `tasks_`, `task_seq_`, the graph, the patrol route, one dispatcher and one traffic plugin | `on_robot_state`, `on_submit`, `on_set_mode`, `on_set_battery`, `on_set_plugins`, `on_reload`, `on_timer` (every 150 ms) | robots by `/robot_path_requests` and `/robot_state`; console and service by ROS services; plugins by calls |
| Traffic plugin (`plugins/reservation_deadlock.cpp`) | `node_owner_`, `waitfor_`, `prio_` | `request_move`, `release`, `release_node`, `occupancy` | called by the node only |
| Dispatcher plugin (`plugins/auction.cpp`) | none | `assign` | called by `on_submit` |
| Navigation graph (`src/navgraph.cpp`) | vertices, lanes | `load`, `nearest`, `dijkstra`, `path_cost` | node and dispatcher |
| Automatic patrol route (`src/patrol_cycle.cpp`) | none | `right_hand_boundary_cycle` | called once when the node starts |
| Slotcar (outside the repository) | pose, current path | drives to the last vertex of the last `PathRequest` | reports `/robot_state` |
| aba_service (`src/service/aba_service/aba_service/main.py`, `ros_bridge.py`) | one ROS client | `POST /tasks` | calls `/fms/submit_task`, waits at most 5 s |
| Console (`src/service/aba_service/aba_service/console.py`) | copies of the feeds, an editable graph | submit, mode, battery, plugins, graph editing | all services of the node; writes the graph file |
| Drive controller (`src/controller/.../drive_node.cpp`) | none | a stub that answers success | nobody yet |
| Demos, launch files, scripts | - | start things by hand | - |

The node is spun by `rclcpp::spin`, a single-threaded executor: callbacks never
overlap, so what makes it hard is not data races but *sequences* of callbacks
and what each of them assumes the previous ones left behind.

* `RobotInfo.busy` (six writers) and `tasks_` (five writers) say the same thing
  twice; the traffic plugin's `node_owner_` says it a third time, by vertex.
* A move is a request (reserve the target) and a release (give back the origin)
  with detours, laps, cancellations, mode changes and failures between them.
* A task's path is replaced while its index is used (`path[idx]` unchecked).
* Decisions use the last report, which lags behind the robot, and an answer of
  the traffic plugin that is ignored in three places.
* Waits form cycles, found by `find_cycle` from `waitfor_` edges which are
  cleaned up only as a side effect of other calls, and broken by priorities that
  may be one tick old.
* A robot that does not move is either slow, stuck or has lost its request.

Around the node things do run at the same time: every HTTP request to
aba_service or to the console is handled in a thread of its own, and each of
them waits for the node with a timeout of five seconds.

* A call that timed out is still in the node's queue; the node may die with it
  or serve it later.
* The console saves the map by emptying the file, filling it and then asking the
  node to reload it; other saves, other reloads and restarts come in between.
* Edits change the console's lists in several statements and without a lock, next
  to each other and to saves that copy the lists one by one.
* Vertices are numbers. Deleting one renumbers the others, in the console and in
  the file, but not in the tasks and the patrol route of the running node.

What makes each part correct: the node never has a robot under way to a vertex
somebody else holds, never loses a robot (busy without task) nor gives it two
tasks, never leaves a reservation behind, keeps stopped robots out of service,
does not interrupt work to start other work, and gets every task done or
reported; the plugin never hands a held vertex to somebody else and finds every
circular wait; the dispatcher picks the nearest robot that can finish; the
graph answers with a shortest route. The services tell their callers the truth
or or that they do not know it; an edit changes what it names; a saved map reaches
the node, every lane in both directions. Every hazard is listed with its line and
the properties aimed at it under `hazards` in `PROJECT.json`.

## 2. The modules

```
Navgraph <- Auction ------------,
        \<- ReservationDeadlock -+- FleetNode <- FleetProperties <- MCFleet (TLC)
                                                      |    \<- FleetProofs <- FleetLedgerProofs
                                                      |              \<- FleetTrafficProofs (TLAPS)
                                             NodeReservation (abstract ledger)

PatrolCycle  <- PatrolCycleProperties  <- MCRoutes,       PatrolCycleProofs
Dijkstra (its loop against Navgraph)   <- MCRoutes,       DijkstraProofs
GraphEdit    <- GraphEditProperties    <- MCGraphEdit,    GraphEditProofs     MapDrawing (abstract)
ServiceCalls <- ServiceCallsProperties <- MCServiceCalls, ServiceCallsProofs

RecursionLemmas <- FleetLedgerProofs, DijkstraProofs
```

* `Navgraph`: vertices, lanes, distances; `dijkstra(from, to, avoid)` is the
  *set* of shortest routes, because which of several equally short ones the code
  returns depends on floating point coordinates. Positions are abstract:
  `<<n, n>>` is within `kArrive` of vertex n, `<<n, m>>` is in the lane between
  n and m and nearest to n. Vertices closer than `2 * kArrive` are excluded by
  this abstraction.
* `ReservationDeadlock`: the plugin's three maps as one record, its calls as
  operators on that record. `request_move` returns the verdict and the record
  left behind; `find_cycle` follows the wait-for edges exactly as the code does
  (each robot waits for one other at most); `ReleaseAll` is a series of
  `release`/`release_node` calls, with their side effect on the wait-for edge.
* `Auction`: the battery gate and the bid, ties to the smaller name.
* `FleetNode`: the node, the plugins' state, the robots. One action per handler;
  `on_timer` is one action per loop iteration, in the code's order, and `cursor`
  remembers how far the callback has come. No handler and no robot moves in the
  middle of a callback, which is as fine as the single-threaded executor allows.
* `NodeReservation`: the abstract ledger: a step concerns one robot, which gives
  back only its own vertices and takes one that is free.
* `FleetProperties`: the properties, the inductive invariants and the fairness.
  `MCFleet`: graphs and constants for TLC. `FleetProofs`, `FleetLedgerProofs`,
  `FleetTrafficProofs`: the theorems, each module on top of the one before.
* `RecursionLemmas`: least elements of sets of natural numbers; existence and
  uniqueness of recursive functions. Both proofs of graphs rest on it.
* `Dijkstra`: the loop of `dijkstra`, one action per iteration; neighbours are
  relaxed together, which makes no difference as each is looked at once. Lanes
  lead one way, as in `adj_`, each with a length of its own; lengths are whole
  numbers. `FindsShortest` says that the result is one that
  `Navgraph` allows. `DijkstraProofs`: its proof.
* `PatrolCycle`, `PatrolCycleProperties`, `MCRoutes`: the walk around the
  map that makes the patrol route when the node starts. `cycle`, its last two
  elements (`cur`, `previous`) and the number of steps are one variable; the graph
  is chosen by `Init` and never changes. Points are those of a grid and lanes go
  in the eight directions of the compass, so the angles of the code are exact
  and no two lanes leave a vertex in the same direction. `FleetNode` does not
  use the walk: it is modelled for any patrol route. `PatrolCycleProofs`: why the
  walk comes back.
* `GraphEdit`: the console's editor, the navgraph file and what the node does
  with it: `load` when it starts and in `on_reload`, and the lookups of vertices
  afterwards. A lane is a pair of indices counted from 0, as in the file; `places`
  remembers which place an index stands for, which the code does not. The node
  can die and start again. Each request to the console is a thread (`Editor`,
  `Session`) and takes one step for each statement that reads or writes the shared
  lists, the shared document `ng_full` or the file. An edit may name any index of
  `Number`, as neither the methods nor the page ask whether a lane's ends exist.
  `MapDrawing` is the abstract map of places and roads that an operator believes
  to be drawing, and of roads that were asked for to nowhere (`strays`).
* `ServiceCalls`: the threads of aba_service and of the console, the node's
  queues of requests, and what the node is set to. `accepted`, `told` and `sure`
  only record what happened. It composes with `FleetNode` by the answers: whether
  work is accepted is a choice here and worked out there.
* `GraphEditProperties`, `ServiceCallsProperties`: properties, inductive
  invariants and fairness; `MCGraphEdit`, `MCServiceCalls`: constants for TLC;
  `GraphEditProofs`, `ServiceCallsProofs`: theorems.

How actions correspond to the code (line numbers are in `PROJECT.json`, `map`):

| Action | Code |
|---|---|
| `on_robot_state`, `on_set_mode`, `on_set_battery`, `on_set_plugins` | the handler of that name, rejected calls being stuttering steps |
| `SubmitForced`, `SubmitAuto` | `on_submit` with and without a robot name; both end in `Accept` (route, battery gate, cancel, claim, push) |
| `start_patrol` | one iteration of `on_timer`'s first loop |
| `FailStuck`, `Complete`, `KeepDriving`, `Depart`, `YieldByDetour`, `Escalate`, `PassStopped`, `Wait` | one iteration of its second loop, by the way it ends; an arrival and the request for the next vertex that follows it in the same iteration are one action (`Requesting` is the task after the arrival) |
| `Drive` | the slotcar, external |
| `add_vertex`; `add_lane`, `AppendBack`; `del_lane`, `AssignLanes`; `del_vertex`, `Relane`, `AssignLanes` (`GraphEdit`) | the methods of the console's `Bridge`, each in a thread: the one append; the append of either direction; the list of lanes that stay and its assignment; the pop, the renumbered list and its assignment. `add_lane` checks that the indices differ, `del_vertex` that its index exists, as the code does |
| `CopyVertices`, `CopyLanes`, `Truncate`, `Dump`, `Close`, `Call`, `Answered`, `TimedOut` (`GraphEdit`) | `save_navgraph`: the copies of the two lists into `ng_full`; `open(..., "w")`; `safe_dump`; the end of `with`; the service call; its ends |
| `Start`, `Reload`, `ReloadThrows`, `Dies` (`GraphEdit`) | the node's constructor; `on_reload`; an exception of the YAML parser; an exception nobody catches |
| `start_patrol`, `on_submit`, `ServeTask`, `TimerThrows` (`GraphEdit`) | where vertices are looked up: only the highest index of the route (`route`) and of what is left of the path (`ahead`) is kept, as indices have no gaps |
| `get_bridge`, `InitRos`, `SetBridge` (`ServiceCalls`) | `get_bridge` in `main.py`, step by step: two threads may be in it |
| `Send`, `NotThere`, `Answered`, `TimedOut` (`ServiceCalls`) | `submit_task` of both bridges, `set_mode`, `set_plugins` |
| `Serve` (`ServiceCalls`) | `on_submit`, `on_set_plugins` (with the half-done swap), `on_set_mode`, reduced to answer and setting |

Abstractions: `tasks_` is a set walked by `seq`, since the vector is in creation
order and `start_seq` numbers the creations; `idx` counts from 1; task names and
the UI priority are left out because nothing reads them; a report is a copy of
the position at delivery, and how far it may lag is `MayLag` (reports may be
missing for any number of steps) or one step of motion; "no progress since the
last tick" is a choice of the environment (`MayStall`) because positions are
coarse: a slow robot, a stuck one and a lost path request look the same to the
node. The robots' battery does not drain (the node does not track it either, it
is set by a service). `on_set_plugins` may come at any time: the handler checks
nothing, the comment beside it only says that tests swap when idle. `MaySwap`
says whether somebody does. A dispatcher swap changes nothing, there being one
dispatcher.

Abstractions of the map: coordinates are left out, and `move_vertex` with them;
a thread is not interrupted within a statement. Two consequences are left out:
a vertex popped while another thread walks over the list hides the one behind it
from that save, whose text then lacks a vertex; and `Dump` reads the lanes of
`ng_full` in the same step as the vertices, which in the code may be newer if
another save copies them meanwhile. No property is about the number of vertices
in a text, or about lanes fitting its vertices. Text reaches the file when it is
closed, because the writer holds 8192 characters back: `SmallMapAssumption` says
that the map cannot outgrow them within `MaxRequests` (a vertex or a lane is 20 to
90 characters, so `Buffer` is 90 of them), and a file being written is empty. On larger maps
a reload may find the beginning of a text, about which nothing is claimed. A longer
text that another writer put there in between leaves its end behind, on which the
parser throws or which it takes for an entry behind the last one that `load` does
not read. One robot stands for all. The route that is taken when none is found is a
loop over the vertices 0 to 7 in the code and 0 to `DefaultRoute` here.

Abstractions of the calls: requests of a service are served in order; the node's
reaction takes one step; a caller posts a job again when he was not told that it
was accepted; the first free thread takes a request. HTTP 500 comes from
`rclpy.init()` called twice or from two threads of aba_service that spin the same
executor; in both cases the caller does not know whether the work was accepted,
as after a timeout, and `told` counts them together.

## 3. What is checked

Constants are small but chosen so that the interesting cases occur: two robots
are enough for conflicts, circular waits, overtaking on the way and preemption,
three for circles that have somebody beside the two who meet (`Crowd`);
a ring of four has exactly two ways to everywhere (a detour exists and is
different), a triangle is the smallest graph with a way around every vertex.
`KMaxReroutes` is 1, `KStuckTicks` 0 and `KRerouteWaitTicks` 1 or 2, so that
every limit is reached and exceeded. The bounds are `MaxTasks` (tasks ever
created, 2 or 3: an old task, its replacement, one more) and `Managed` (the
robots named in service calls: robot 1; the other one is subject to the auction
and the timer only). The priority constants are scaled down but keep the
relations the code's comments state (`PriorityAssumption`). Deadlock is not
checked anywhere: with all tasks created and done the system has nothing to do.
Robots are not symmetric (names break ties), so no symmetry is used.

| Run | Question | Answer |
|---|---|---|
| `Patrol` | patrols with late reports, under fairness | `StandersHold`, `LaneExclusive`, `PatrolNeverRests` hold: as long as robots only patrol, a standing robot holds its vertex, nobody meets in a lane, and nobody stands still for good |
| `Dispatch` | auctioned work, robots stall, reports lag, under fairness | `TargetsReserved`, `WorkIsNotInterrupted`, `WorkEndsOrEscalates` hold: a task is done, or its wait has been found to be circular and it has been escalated. `KSeqMax` is 1 here, so the ages of later tasks tie as they do in a node that has created more than 100,000 |
| `Crowd` | three robots with batteries of two levels patrol two triangles with four vertices, so that they wait for each other in circles of two and of three | `DeadlocksAreReal`, `OneYields` hold |
| `Operator` | from a cold start (robots appear one by one, one battery is set low by the service): forced and auctioned work, mode changes and swaps of the traffic plugin in the middle of tasks, interleaved with the timer | `TypeOK`, `OneTaskPerRobot`, `BusyMatchesTasks`, `IndexInsidePath`, `NothingLeaks`, `WaitersStand`, `StoppedIsOutOfService`, `ReservesLikeALedger` hold |
| `Routes` | the automatic patrol route, on every graph over nine points with twelve streets and a pair of crossing diagonals (62,927 of them); the search for a shortest route, on 6,561 graphs | `RouteCloses`, `OutlineIsWalked`, `NoVertexTwice`, `FindsShortest` hold |
| `Edit` | three edits and saves in any mixture, two of each at a time and each in several steps, on a map of three vertices; the node runs, dies, starts | `EditsLikeADrawing`, `ReloadedMeansSaved`, `GraphIsWhole`, `SavesReachTheNode` hold |
| `Calls` | three HTTP requests, two at a time, for two jobs, plugins and a mode; the node dies and starts | `AnswersAddUp`, `AcceptedOnce`, `ShowsWhatRuns`, `EveryCallEnds` hold |
| `HeadOn` | is vertex reservation enough against head-on meetings? | violated |
| `StopClaim` | does a stopped robot hold its place? | violated |
| `StandOff` | does escalation resolve? | violated |
| `BehindStop` | do patrols pass a stopped robot? | violated |
| `ReloadCrash` | does the node survive an edit of its map? | violated |

What `Routes` shows. A behaviour is either one walk or one search. The search
runs on two triangles and a last vertex with every choice of lengths, which has
ties, detours round every vertex, unreachable goals and entries of the queue that
are stale when they come to the top; start and goal may be avoided, equal or
missing. The result is always one of `Navgraph`'s shortest routes, so the runs and
proofs of the node, which take `Navgraph` as the definition, are about this loop;
section 4 has it for every graph.
Of the walk it shows: the limit of `4n + 4` steps is never what ends
it on these maps, so a route is a loop along lanes (section 4 has this for every map
with at most 2n + 2 lanes); where the graph does not fall apart at the start
vertex the loop passes everything that lies furthest out; where it falls apart
nowhere no vertex comes twice, on which `patrol_succ` relies. Both conditions are needed: from a start with a dead end to the east the code turns
back at once and finds no route, and a dead end elsewhere makes the route pass
its neighbour twice. Nine points give dead ends, cut vertices, detached parts
and inner vertices.

What `Crowd` shows. A robot that may not enter a vertex leaves an edge to its
holder in the plugin, and the edges of all robots are searched for a circle. They
are from different moments, so the question is whether a circle of edges is a
circle of robots. `DeadlocksAreReal` says that it is, with one exception: a robot
that `on_timer` has just sent another way still has its edge until it is served
again, and `FalseAlarm` is such a case. An edge to a robot that has left in the
meantime does no harm, because it is renewed before that robot asks again.
`OneYields` says that in a circle of waiting robots exactly one is told to make
way, whoever asks first, although each question is answered by priorities of
different ages. Two triangles with a common side let three robots wait in a circle
of three and pass each other, and the lower battery of one makes priorities differ.
`WaitInv` held as an invariant of this run, too, before it was proved.

What `Edit` shows. `EditsLikeADrawing` is a refinement: with indices replaced by
the places they stand for, and an edit under way counted as done
(`Finished`), every edit is one stroke on a map of places and roads,
which is what the renumbering in `del_vertex` is for. It is stated for edits that
do not meet each other (`~crossed`); when they do, a lane added between the pop and
the assignment of `del_vertex` is lost or renumbered wrongly, and the code promises
nothing. Saves may run beside the edits. `Number` has an index in front of others, one in
the middle and one that no vertex has until one is added: `add_lane` takes it, and
the property says that such a stray lane changes no road, which leaves it to come
alive with a later vertex (`StrayRoad` below). Three requests delete a vertex in
front of others and use the moved indices, draw a stray lane and add its vertex,
or let two saves and an edit cross.

The answer "reloaded" is true, of this save or a later one, unless an earlier save
had its text ready and not yet written when this one made its own (`overtaken`):
then the older text may be what lands last. A reload that finds the file empty
fails and keeps the old graph, so the node never runs on an empty one; it still
comes to run what is in the file, since either a later reload or a restart reads
it. `GraphIsWhole` also says that every lane the node has leads back, on which the
comment in `Navgraph::load` relies, unless edits met before or the save copied
the lanes while an edit was unfinished; the next save that meets none is whole
again. Two saves are enough for every order of copying, truncating, writing and
reloading.

What `Calls` shows. "No" and "yes" can be relied on, so a caller who repeats only
what was refused has it done once; after a timeout he cannot know. The docstring
of `main.py` (`거절 → HTTP 503`, no queue) reads as if 503 always meant refused:
`fleet_timeout` is a 503 as well, after which the work may still be accepted
later. Three calls are enough for a late acceptance, its repetition and a call
beside it. The console shows what runs, also after a half-done plugin swap, with
two exceptions that are in the property: calls of one service that cross, and a
node that has been restarted.

`AllSeenSpec` starts after every robot's first report, a state `Init` reaches;
`Spec` starts with nothing known.

Fairness (`FairSpec`): weak fairness of `on_timer`, because the wall timer of
150 ms fires again and again and the executor finishes each callback; strong
fairness of `on_robot_state` and `Drive` of each robot, because reports keep
arriving and the robot obeys its last request, but both compete with the timer's
callbacks and are enabled repeatedly, not continuously, in the model. Nothing is
assumed of operators. With `MayStall = FALSE` a robot under way does progress;
`Patrol` uses that, since a patrol whose robot stands still for ever makes no lap. In
`Dispatch` robots may stall: `FailStuck` then ends the task, which is an end.

In `Edit` the threads of the console go on with a save until it ends (weak
fairness of its steps up to `Close`, `Call` and `Answered`; no assumption that anybody saves, nor
that a call times out), and the executor comes to reload requests (weak fairness
of `on_reload`). Nobody has to start a dead node. In `Calls` only the threads are
fair: the node may forget every request.

### What the five violations show

* **Head-on meetings.** `README.md:54` and the comments of the plugin say that
  taking the target before releasing the origin prevents them. It does while
  every robot stands on a vertex it holds, which is `StandersHold`. It stops
  being true when a task completes: the vertex is released (line 266) and the
  robot stays there. The next robot is granted that vertex; the first one is
  dispatched, its claim fails and the answer is ignored (line 210), and it
  leaves by the lane the other is coming in.
* **A stopped robot's claim.** `on_set_mode` cancels the task but sends nothing
  to the slotcar, and claims the nearest vertex by the last report: a robot under
  way ends on another vertex than the one it claimed.
* **Stand-off.** Two neighbours with each other's vertex as goal have no detour.
  Both escalate to the top tier, where neither makes way.
* **Behind a stopped robot.** The detour of a patrol leads to the last vertex of
  its lap rather than the one after the blocked vertex, as in the two other
  branches; when that is where it stands, or what is blocked, there is none.
* **A smaller map.** `README.md:73` offers deleting vertices with the fleet
  reloading on save. `on_reload` replaces the graph and nothing else. A path or
  the patrol route that contains the highest vertex has an index too many after
  any deletion, and the next tick looks it up with `vertices_.at`, which throws;
  the exception leaves `rclpy::spin` and the process ends. A fallback route of
  vertices 0 to 7 on a small map does the same at the first patrol (`Start`).

### Four instances that show where a theorem ends

`FalseAlarm.cfg` (with `MCFleet.tla`), `Tangle.cfg` (with `MCRoutes.tla`),
`OneWay.cfg` and `StrayRoad.cfg` (with `MCGraphEdit.tla`) are not among the runs;
each violates its one property.

* **A false alarm.** `traffic_base.hpp:21` calls DEADLOCK a circle of waits; without
  the exception for rerouted robots (`DeadlocksAreCircles`) this does not hold. A
  timed detour (line 331), and the one around a stopped robot (309), replaces the
  path without a call of the plugin. Until the robot asks again, one tick later, the
  plugin believes it to wait for the one it gave way to, and when that one asks for
  the vertex of the first in between, tells it that there is a deadlock. It takes a
  detour of its own, one of the `kMaxReroutes` it has.
* **A walk that does not return.** `patrol_cycle.hpp:11` promises an empty vector
  when no cycle is formed. The loop ends after `4n + 4` steps, and what has been
  walked is returned in either case. `Tangle` is a map of 24 vertices with
  51 = 2n + 3 lanes, many of which cross: no lane joins the last vertex of the route
  to the first, but `make_patrol_path` drives from one to the other. With one lane
  less it cannot happen (`RoutesClose`, section 4).
* **A one-way lane.** `add_lane` appends the two directions one after the other; a
  save in another thread copies the list in between, and the node drives on a map
  that has the lane in one direction (`LanesLeadBack`). So `GraphIsWhole` exempts
  the save that met the edit.
* **A road nobody drew.** `add_lane` takes an index that no vertex has, and the page
  posts a selection it has kept over a deletion. `load` drops the lane, but the
  console keeps it, and the next vertex that is added comes with a road
  (`NoStrayRoads`). So `MapDrawing` has `StraySite`.

## 4. What is proved

A run shows a property on one small instance; a theorem shows it for every
graph, number of robots, threads and jobs, every limit and every input
that satisfies the named assumptions of the modules. The assumptions are what
the code guarantees: indices are natural numbers, a loaded graph has vertices and
lanes between them, limits are not negative, the constants of the priority keep
the relations stated in `fleet_task.hpp`, and there are finitely many threads.

| Module | Theorem | What holds |
|---|---|---|
| `FleetProofs` | `InvariantHolds` | `[]IInv` |
| | `TypeCorrect`, `OneTask`, `BusyIsRight`, `IndexIsInside`, `StoppedHasNoTask` | its conjuncts |
| | `TargetsAreReserved`, `TargetsDiffer` | a robot under way holds its target, no two have the same; both if `~MaySwap` |
| | `PriorityIsLexicographic` | tier, then age (below `kSeqMax`), then battery |
| `FleetLedgerProofs` | `LeakInvariantHolds`, `NothingIsLeaked`, `OnlyStandersWait` | `[]LeakInv`, `[]NothingLeaks`, `[]WaitersStand` |
| | `RefinesLedger` | the node implements `NodeReservation` |
| | `WorkGoesOn` | `WorkIsNotInterrupted`, an action property, if nobody forces a robot or sets a mode but CHARGE |
| `FleetTrafficProofs` | `PatrolInvariantHolds`, `StandersHoldTheirVertex`, `LanesAreExclusive` | `[]PatrolInv`, `[]StandersHold`, `[]LaneExclusive`, if robots only patrol (`OnlyPatrols`) |
| | `CirclesAreFound` | `find_cycle` finds every circular wait, from each of its robots |
| | `WaitInvariantHolds`, `DeadlocksAreRealOnes` | `[]WaitInv`, `[]DeadlocksAreReal` |
| | `OneRobotYields` | `[]OneYields`, if nobody sets `CHARGE` or a battery (`PrioritiesStay`) |
| `GraphEditProofs` | `EditInvariantHolds`, `NodeRunsWholeGraphs`, `SavesAreReloaded` | `[]EditInv`, `[]GraphIsWhole`, `[]ReloadedMeansSaved` |
| | `ImplementsTheDrawing` | the editor implements `MapDrawing` as long as edits do not meet |
| `ServiceCallsProofs` | `CallsInvariantHolds`, `BooksAddUp`, `JobsAcceptedOnce`, `ConsoleShowsWhatRuns` | `[]CallsInv`, `[]AnswersAddUp`, `[]AcceptedOnce`, `[]ShowsWhatRuns` |
| `DijkstraProofs` | `SearchInvariantHolds`, `ReturnsShortest` | `[]SearchInv`, `[]FindsShortest` |
| `PatrolCycleProofs` | `WalkInvariantHolds`, `RoutesClose` | `[]WalkInv`; `[]RouteCloses`, if there are at most 2n + 2 lanes on n vertices |

### The fleet node

None of the properties is inductive alone. `BusyMatchesTasks`
is why `on_submit` and `start_patrol`, which only look at the flag, do not give a
robot a second task (`NotBusy`, `AddStep`). `OneTaskPerRobot` is why a step that
serves one task cannot disturb the reservation of another robot's target
(`OthersKeepTargets`). `IndexInsidePath` makes `path[idx]` a vertex, without
which nothing can be said of what is reserved or released; it needs
`PatrolsHaveRoute` for the lap that replaces a finished patrol path.
`StoppedIsOutOfService` needs `BusyMatchesTasks` for the patrols.
`TargetsAreReserved` and `TargetsDiffer` assume `~MaySwap`: a fresh traffic
plugin knows nothing of the tasks that are running, and the next robot that asks
is granted a vertex another one is driving to. Everything else holds with swaps.

Lemmas about the plugin's operators (`RequestMoveOwner`,
`ReleaseAllSpec`) say what they do to reservations; `OnlyRobot(r)` collects it:
nobody but r gains or loses a vertex. Three lemmas say when replacing the served
task (`KeepStep`), ending it (`FinishStep`) and creating one (`AddStep`)
keep the invariant; one lemma per action applies them; `NextIInv` joins them.

*Reservations that outlive their reason* (`LeakInv`). A task gives back the
vertex behind it and what it holds when it ends; that this is all it holds needs
`NothingLeaks` itself, and for a patrol one more fact: at the end of a lap the
new path must start with the vertex the robot stands on, or that vertex is held
for ever. `start_patrol` and `on_timer` look the vertex up in the route, so the
lap, which a detour may have replaced, must end on the route
(`PatrolsEndOnRoute`). `WaitersStand` rests on the release at every departure:
it drops the wait-for edge, and only a standing robot asks again.

*The ledger.* `Exchange(r)` of `NodeReservation` lets one robot give back its own
vertices and take a free one. Every callback maps to one such step, a `Forget`
(plugin swap) or a stutter; that what is taken is free is what `request_move`
checks, that what is given back is one's own is what `release_node` checks
(`Serve` may do both, in this order).

*Patrols* (`PatrolInv`). `StandersHold` is violated once a task completes, as
run `HeadOn` shows, so the theorems are about robots that only patrol:
`OnlyPatrols` says that no work is submitted, no mode set, no plugin swapped,
nobody stalls, and the robots start on vertices of the route, each on its own.
`OnItsWay` relates the place of a robot, its last report and its last command
with its task: that the node, which only sees the report, gives the origin
back when the robot has left it rests on `report[r] = At(n) => place[r] = At(n)`.
`Starting => NobodyLeft` is needed because the claim of a first vertex may fail:
the first loop of `on_timer` makes every patrol before the second moves anybody,
so each claim meets a vertex nobody else wants. `NobodyMeets` is `LaneExclusive`
by tasks: robots that drive towards each other would each hold what the other
stands on.

*Circular waits* (`WaitInv`). `find_cycle` follows edges until it is back, at an
end, or somewhere it has been. `CirclesAreFound` is about this operator alone: take
the shortest closed chain from a robot; by the pigeon hole principle it visits
nobody twice (a chain that does has a shorter one in it), so the search, which has
as many steps as there are robots, comes back. `FollowTogether` and
`CircleOfMember`: the members of a circle find the same circle, whoever asks.

What the edges say of robots is `EdgesAreTrue`. An edge is written when a vertex
is refused and leads to its holder; the holder may leave, and gives the vertex
back. Then its own edge is gone (`request_move` erases it with the grant), and it is
on its way or at its next vertex, where it may ask again only when it is served. The
invariant needs the order of `on_timer`: the task with the old edge is served before
(`IsServedBefore`), and renews it or is granted the vertex. This is an induction over
`cursor`, in `ServedKeepsOrder`, and the reason that tasks are numbered apart.
A new task, a cancelled one, a failed one and a new plugin each erase the edges they
must (`AcceptWait`, `EndsWait`, `SetPluginsWait`), a detour does not: it clears
`wait_logged`, which is how the invariant tells a robot that was sent another way.
That a detour goes to a different vertex at all, so that its next request is no
claim of the vertex it is on, is geometry of `Navgraph` (`DetoursMove`).

`DeadlocksAreReal` follows: the robot that asks is served now, so no member of the
circle can have left since the edge to it was written, for it would have to be
served after the one before it. `OneYields`: in a circle of waiting robots every
recorded priority is the present one (`PrioritiesStay`; with a battery set in
between TLC finds circles in which nobody makes way), all see the same circle,
and the lowest member is one robot since ties go to the larger name (`LowestSpec`).

### The map

`EditInv` has four parts beside the types. `DrawingFits`: places are numbered
apart, and new numbers are larger than all before, so that an index stands for
one place; without it `del_vertex`, which renumbers indices and not places, could
not be mapped to taking one site and its roads away. `EditsApart`: while edits do
not meet, at most one is unfinished, and the lanes lead both ways once it is
finished. `TextsLeadBack`: so do those of every document on its way to the node
that met no unfinished edit; which ones did is recorded when the lanes are copied
(`half`), and travels with the document through other saves, which may copy
newer lanes into it, the file, crashes and reloads. `SavesInOrder`: a save that
overtook no earlier one is followed by later ones only, in the file and in the
node; `ReloadedMeansSaved` is its last conjunct and not inductive without the
order of the stamps of texts that are still to be written.

`ImplementsTheDrawing` maps the first step of each edit to one stroke and its
other steps, a save, a reload or a crash to none, since `Finished` counts the edit
as done from its first step on; that is where `EditsApart` is needed, as `Finished` goes on
with one edit. Nothing is assumed of the indices an edit names. `PulledSpec` is the
lemma on which `del_vertex` rests: behind the deleted vertex indices and places move
together. `SmallMapAssumption` is what makes the model of the file right (one that
is open for writing is empty); the steps of the proofs do not cite it.

### The calls

`AnswersAddUp` relates what was accepted with what callers were told. Between
the two are requests in a queue whose caller has given up (`Orphans`) and answers
that have not been read (`Pending`); `BooksBalance` adds them, as sizes of
finite sets: a time-out turns a call into an orphan and one "unclear", the node
turns an orphan into an acceptance nobody hears of, and a queued request or the
answer to it into a pending "yes". That a request in the queue is that of one
thread or of nobody is `NumbersTell`. `OneCaller` is how callers behave: nobody
takes up a job somebody is busy with or was told "yes" about; with it `Pending`
has one member at most, and none once somebody was told "yes", so `AcceptedOnce`
follows from the balance. `CallsApart` is behind `ShowsWhatRuns`: a call that
crossed no other is the last in its queue, and once it is answered nothing is
left there that could change the setting before the console shows it.

### The search

`ReturnsShortest` says that the loop of `dijkstra` and the definition of
`Navgraph`, by which the node and the auction are modelled, mean the same routes
on every graph. `SearchAssumption` asks for finitely many vertices, numbered by
natural numbers, lanes between them with positive lengths, and that the lengths
of as many lanes as there are vertices do not add up to the largest number: the
code tells "not reached" from "far away" by that number.

`SearchInv` calls a vertex settled when it has been reached and no entry with its
distance is queued (`Settled`). `Frontier`: whatever is queued is at least as far
away as everything settled, and what is linked to a settled vertex is no farther
than over it. `Tree`: `prev` leads from every reached vertex to a settled one that
is nearer by a lane. Taking the top of the queue settles its vertex and no other
(`ExpandKeeps`), since lengths are positive; a stale entry settles nothing
(`SkipStaleKeeps`), since it is not the last way found to its vertex. The loop
stops when the goal comes to the top, with entries still queued: then every vertex
nearer than the goal is settled (`NearerIsSettled`), so along any route the
distance of each vertex, or that of the goal, is at most the cost so far
(`NoRouteIsShorter`). That a route is found where there is one rests on
`CostIsSmall`. The way back over `prev` visits no vertex twice, is one of the
walks of `Navgraph` and costs the distance of the goal (`BackwardCosts`).

`path_cost`, `LaneWalks` and the way back are recursive functions, so it is
proved first that their equations have one solution each (`RecursionExists`,
`RecursionIsUnique`: the argument becomes smaller by some rank), and that a sum
over an interval does not depend on the order (`SumInAnyOrder`).

### The walk

`RouteCloses` is not inductive, and it is not true of all graphs; the proof attempt
is what led to `Tangle`. `WalkInv` says that the walk has not been at the start
since it left, that it turns as it should at every vertex (`GoesOn`), and that it has
taken no lane twice in the same direction. The last is inductive because turning can be
undone: `CameFrom` shows that where the walk goes on from a vertex tells where it
came from, the neighbours being in different directions (`HeadingSpec`). So the
first lane to be taken twice would have another before it, unless it is the first of
the walk, and that one leaves the start (`WalkIsNew`). There are two directions for
each lane and the one that leads back into the start is never taken, hence fewer
than `2 * Cardinality(streets)` steps (`FewSteps`, counting by an injection). With
2n + 2 lanes that is below `4n + 4`.

### How

Every inductive invariant was model-checked before it was proved. Induction
over data is by a least counterexample (`LeastNatural`), since the induction
theorems of the library cannot be applied here.

Only model-checked: everything under fairness, which the prover does not handle;
that the patrol route is the outline of the map and visits no vertex twice
(`OutlineIsWalked`, `NoVertexTwice`), which is geometry of planar drawings (what lies
inside a closed curve), and that planar maps with more than 2n + 2 lanes have
closed routes, for the same reason. That the search ends at
all is liveness and not stated: each iteration takes an entry from the queue, and
what is pushed is nearer than before.

## 5. Not modelled

Coordinates in the editor; what a
deletion makes of claims and paths whose indices still exist (they mean other
places; `GraphEdit` only knows their height); the console's battery call, bids,
parameter file and page; the feeds of the node, which are computed anew from its
state each tick and only copied by the console, beyond the last task state of
each robot. The drive controller is a stub: it accepts every goal and reports
success at once, has no state, and nobody calls it. The interface definitions are
types; launch files, demos and scripts start things by hand. `PROJECT.json`
(`components`) has the reasons.

## 6. Plan

In order of importance; what is marked done is in this directory.

1. Graph, traffic plugin, dispatcher, fleet node; safety and liveness (done).
2. The abstract ledger and the refinement, checked (done).
3. The inductive invariant and its proof; the automatic patrol route (done).
4. The map editor, the file, reloading and restarts; the HTTP calls, timeouts and
   retries; the loop of Dijkstra's algorithm (done).
5. `FleetLedgerProofs`, `FleetTrafficProofs`: leaks, waits, the refinement of
   the ledger, patrols (done).
6. `GraphEditProofs`, `ServiceCallsProofs`: the refinement of the drawing, saves,
   the books of callers and node; `DijkstraProofs`: the search (done).
7. Circular waits: `DeadlocksAreReal`, `OneYields` and `CirclesAreFound` in
   `FleetTrafficProofs`, checked and proved in the fleet node itself rather than in a
   model of the plugin alone (done); `PatrolCycleProofs` (done).
8. `TaskFeed`: what a subscriber of `/fms/task_states` sees of a task's life,
   against an abstract life cycle (not begun).
