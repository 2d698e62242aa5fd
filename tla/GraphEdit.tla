------------------------------ MODULE GraphEdit ------------------------------
(***************************************************************************)
(* The map while it is edited: the console's drawing (console.py), the     *)
(* navgraph file, and the fleet node that reads the file when it starts    *)
(* and when it is told to reload (fleet_node.cpp, navgraph.cpp).           *)
(*                                                                         *)
(* A vertex is known by its index in the console, in the file and in the   *)
(* node; `places` keeps which place an index stands for.  Coordinates are  *)
(* left out, and move_vertex with them.                                    *)
(*                                                                         *)
(* Every request to the console runs in a thread of its own and the lists  *)
(* are shared without a lock.  A step is one statement that reads or       *)
(* writes them: edits and saves may cross between any two.  Left out: a    *)
(* vertex popped while a save walks over the list hides the next one from  *)
(* it, so that a text may lack a vertex.                                   *)
(***************************************************************************)
EXTENDS Integers, SequencesExt

CONSTANTS
    Editor,         \* requests to edit that may be under way together
    Session,        \* requests to save that may be under way together
    Number,         \* what requests name as indices, of vertices or of none
    StartGraph,     \* the map when console and node start
    DefaultRoute,   \* highest vertex of the route taken when none is found
    MayCrash,       \* the node may die of something else
    MaxRequests     \* bound on edits and saves together

ASSUME EditAssumption ==
    /\ Number \subseteq Int
    /\ MayCrash \in BOOLEAN
    /\ DefaultRoute \in Nat /\ MaxRequests \in Nat

\* A map that can be loaded, with its places numbered and every lane in both
\* directions.
ASSUME StartAssumption ==
    LET n == Len(StartGraph.places)
    IN  /\ StartGraph.places \in Seq(1..n) /\ n > 0
        /\ \A i, j \in 1..n : StartGraph.places[i] = StartGraph.places[j] => i = j
        /\ StartGraph.lanes \subseteq (0..(n - 1)) \X (0..(n - 1))
        /\ \A l \in StartGraph.lanes :
              l[1] # l[2] /\ <<l[2], l[1]>> \in StartGraph.lanes

\* The writer of the file holds 8192 characters back until the file is closed.
\* So many vertices and lanes are sure to fit; an edit adds two at most.
Buffer == 90

ASSUME SmallMapAssumption ==
    Len(StartGraph.places) + Cardinality(StartGraph.lanes) + 2 * MaxRequests <= Buffer

VARIABLES
    \* The console.  `crossed` and the stamps and marks only record what happened.
    places,     \* self.vertices: the place each index stands for
    lanes,      \* self.lanes: pairs of indices, counted from 0
    edits,      \* edits begun; the next new place gets the next number
    hand,       \* how far each edit is
    full,       \* self.ng_full: the lists last copied, stamped with the save
                \* begun last, and whether the lanes met an unfinished edit
    saves,      \* saves begun, each one has its number as stamp
    session,    \* how far each save is
    crossed,    \* an edit ever met an unfinished one
    \* The file
    file,
    \* The node
    up,
    graph,      \* graph_
    route,      \* the highest vertex of patrol_route_
    ahead,      \* the highest vertex on what is left of the robot's path
    requests    \* reload requests, by the stamp of the save

drawing == <<places, lanes, edits, hand>>
saving == <<full, saves, session, file>>
console == <<drawing, crossed, full, saves>>
node == <<up, graph, route, ahead, requests>>
vars == <<drawing, crossed, saving, node>>

Indices(g) == 0..(Len(g.places) - 1)

Whole(text) == [kind |-> "whole", text |-> text]

NoText == [stamp |-> 0, places |-> <<>>, lanes |-> {}, half |-> FALSE]

Empty == [kind |-> "empty", text |-> NoText]

Ready == [pc |-> "ready", stamp |-> 0, text |-> NoText, overtaken |-> FALSE,
          reply |-> "none"]

-----------------------------------------------------------------------------
(* Reading the file                                                        *)

\* Navgraph::load says whether there is anything.  A file that is being
\* written is empty, as documents are shorter than the buffer of the writer.
Loadable(f) == f.kind # "empty" /\ f.text.places # <<>>

\* What it makes of it: lanes to vertices that do not exist are dropped.
load(f) ==
    [f.text EXCEPT !.lanes = {l \in @ : {l[1], l[2]} \subseteq Indices(f.text)}]

\* Only the highest vertex of a route or path matters here, as vertices are
\* numbered without gaps.  One that follows lanes can end up with these.
Heights(g) == {Max({l[1], l[2]}) : l \in g.lanes}

\* The automatic route (PatrolCycle has it in full) follows lanes, or is the
\* default where the walk from the start vertex comes to nothing.
Routes(g) == Heights(g) \cup {DefaultRoute}

\* Nothing to look up.
None == -1

-----------------------------------------------------------------------------
(* The console: edits                                                      *)

Idle == [pc |-> "idle", a |-> 0, b |-> 0, relanes |-> {}]

Unfinished == \E e \in Editor : hand[e].pc # "idle"

Turns(e, step) == hand' = [hand EXCEPT ![e] = step]

\* A request gets a thread.  Threads are alike, so the first free one takes it.
Begin(e) ==
    /\ hand[e].pc = "idle"
    /\ \A o \in Editor : hand[o].pc = "idle" => e <= o
    /\ edits + saves < MaxRequests
    /\ edits' = edits + 1
    /\ crossed' = (crossed \/ Unfinished)

add_vertex(e) ==
    /\ Begin(e)
    /\ places' = Append(places, Len(StartGraph.places) + edits + 1)
    /\ UNCHANGED <<lanes, hand, saving, node>>

\* Any two numbers that differ are taken, and the directions are appended one
\* after the other.
add_lane(e, a, b) ==
    /\ Begin(e)
    /\ a # b
    /\ lanes' = lanes \cup {<<a, b>>}
    /\ Turns(e, [Idle EXCEPT !.pc = "one way", !.a = a, !.b = b])
    /\ UNCHANGED <<places, saving, node>>

AppendBack(e) ==
    /\ hand[e].pc = "one way"
    /\ lanes' = lanes \cup {<<hand[e].b, hand[e].a>>}
    /\ Turns(e, Idle)
    /\ UNCHANGED <<places, edits, crossed, saving, node>>

\* Variant: the way back is kept.
WithoutOneWay(ls, a, b) == ls \ {<<a, b>>}

Without(ls, a, b) == {l \in ls : {l[1], l[2]} # {a, b}}

\* The lanes that stay are put into a new list, which then becomes self.lanes.
del_lane(e, a, b) ==
    /\ Begin(e)
    /\ Turns(e, [Idle EXCEPT !.pc = "relaned", !.relanes = Without(lanes, a, b)])
    /\ UNCHANGED <<places, lanes, saving, node>>

\* Variant: the vertex right behind the deleted one keeps its index.
PulledLate(a, i) == IF a > i + 1 THEN a - 1 ELSE a

\* Index a once vertex i is gone.
Pulled(a, i) == IF a > i THEN a - 1 ELSE a

Renumbered(ls, i) ==
    {<<Pulled(l[1], i), Pulled(l[2], i)>> : l \in {l \in ls : i \notin {l[1], l[2]}}}

\* The vertex goes first; the lanes are renumbered into a new list after that.
del_vertex(e, i) ==
    /\ Begin(e)
    /\ i \in 0..(Len(places) - 1)
    /\ places' = RemoveAt(places, i + 1)
    /\ Turns(e, [Idle EXCEPT !.pc = "popped", !.a = i])
    /\ UNCHANGED <<lanes, saving, node>>

Relane(e) ==
    /\ hand[e].pc = "popped"
    /\ Turns(e, [Idle EXCEPT !.pc = "relaned",
                             !.relanes = Renumbered(lanes, hand[e].a)])
    /\ UNCHANGED <<places, lanes, edits, crossed, saving, node>>

\* The end of del_lane and of del_vertex: lanes added since are lost.
AssignLanes(e) ==
    /\ hand[e].pc = "relaned"
    /\ lanes' = hand[e].relanes
    /\ Turns(e, Idle)
    /\ UNCHANGED <<places, edits, crossed, saving, node>>

-----------------------------------------------------------------------------
(* The console: save_navgraph                                              *)

Goes(s, step) == session' = [session EXCEPT ![s] = step]

\* The lists go into the document one after the other; other saves do the same.
\* Sessions are alike, so the first free one takes the next save.
CopyVertices(s) ==
    /\ session[s].pc = "ready"
    /\ \A o \in Session : session[o].pc = "ready" => s <= o
    /\ edits + saves < MaxRequests
    /\ saves' = saves + 1
    /\ full' = [full EXCEPT !.places = places]
    /\ Goes(s, [Ready EXCEPT !.pc = "vertices", !.stamp = saves + 1])
    /\ UNCHANGED <<drawing, crossed, file, node>>

\* The vertices in the document are at least as new as these lanes.
CopyLanes(s) ==
    /\ session[s].pc = "vertices"
    /\ full' = [full EXCEPT !.stamp = saves, !.lanes = lanes, !.half = Unfinished]
    /\ Goes(s, [session[s] EXCEPT !.pc = "lanes"])
    /\ UNCHANGED <<drawing, crossed, saves, file, node>>

\* open(NAVGRAPH, "w")
Truncate(s) ==
    /\ session[s].pc = "lanes"
    /\ file' = Empty
    /\ Goes(s, [session[s] EXCEPT !.pc = "open"])
    /\ UNCHANGED <<drawing, crossed, full, saves, node>>

\* safe_dump makes text of what ng_full holds now, of the lanes first: vertices
\* that another save copies meanwhile are newer still.  The save is overtaken
\* if an older text has not been written yet.
Dump(s) ==
    /\ session[s].pc = "open"
    /\ Goes(s, [session[s] EXCEPT
                  !.pc = "dumped",
                  !.text = full,
                  !.overtaken = \E o \in Session :
                      session[o].pc = "dumped" /\ session[o].text.stamp < session[s].stamp])
    /\ UNCHANGED <<drawing, crossed, full, saves, file, node>>

Size(text) == Len(text.places) + Cardinality(text.lanes)

\* The text reaches the file when it is closed.  If a longer one was written
\* since the file was emptied, the end of that one stays behind.
Close(s) ==
    /\ session[s].pc = "dumped"
    /\ LET text == session[s].text
       IN  file' = IF Size(file.text) > Size(text)
                   THEN [kind |-> "garbled", text |-> text]
                   ELSE Whole(text)
    /\ Goes(s, [session[s] EXCEPT !.pc = "saved", !.text = NoText])
    /\ UNCHANGED <<console, node>>

\* The save ends; only the good news is worth remembering.
Says(s, answer) ==
    Goes(s, IF answer = "reloaded" THEN [session[s] EXCEPT !.pc = "ready"] ELSE Ready)

\* The reload service is called if the node is there within two seconds.
Call(s) ==
    /\ session[s].pc = "saved"
    /\ IF up THEN /\ requests' = Append(requests, session[s].stamp)
                  /\ Goes(s, [session[s] EXCEPT !.pc = "waiting"])
       ELSE Says(s, "unconnected") /\ UNCHANGED requests
    /\ UNCHANGED <<console, file, up, graph, route, ahead>>

Answered(s) ==
    /\ session[s].pc = "waiting" /\ session[s].reply # "none"
    /\ Says(s, session[s].reply)
    /\ UNCHANGED <<console, file, node>>

\* After five seconds the save ends without an answer; the request stays.
TimedOut(s) ==
    /\ session[s].pc = "waiting"
    /\ Says(s, "timeout")
    /\ UNCHANGED <<console, file, node>>

-----------------------------------------------------------------------------
(* The node                                                                *)

\* An exception nobody catches ends the process; what was queued is lost.
Dies ==
    /\ up' = FALSE
    /\ ahead' = None
    /\ requests' = <<>>
    /\ UNCHANGED <<graph, route>>

Crash == MayCrash /\ up /\ Dies /\ UNCHANGED <<console, session, file>>

\* The constructor: it throws where the file cannot be loaded.
Start ==
    /\ ~up
    /\ Loadable(file)
    /\ up' = TRUE
    /\ graph' = load(file)
    /\ route' \in Routes(load(file))
    /\ UNCHANGED <<console, session, file, ahead, requests>>

\* The answer goes to the save that asked, if it still waits.
Reply(answer) ==
    session' = [s \in Session |->
        IF session[s].pc = "waiting" /\ session[s].stamp = Head(requests)
        THEN [session[s] EXCEPT !.reply = answer] ELSE session[s]]

\* Variant: a load that failed is reported as done.
ReloadUnchecked ==
    /\ up /\ requests # <<>>
    /\ graph' = IF Loadable(file) THEN load(file) ELSE graph
    /\ Reply("reloaded")
    /\ requests' = Tail(requests)
    /\ UNCHANGED <<console, file, up, route, ahead>>

\* Variant: the new graph is read but not kept.
ReloadForgets ==
    /\ up /\ requests # <<>>
    /\ Reply("reloaded")
    /\ requests' = Tail(requests)
    /\ UNCHANGED <<console, file, up, graph, route, ahead>>

\* on_reload replaces the graph and nothing else: the patrol route, running
\* tasks and reservations keep their indices.
Reload ==
    /\ up /\ requests # <<>>
    /\ IF Loadable(file) THEN graph' = load(file) /\ Reply("reloaded")
       ELSE UNCHANGED graph /\ Reply("load failed")
    /\ requests' = Tail(requests)
    /\ UNCHANGED <<console, file, up, route, ahead>>

\* The parser throws on what two writers left behind.
ReloadThrows ==
    /\ up /\ requests # <<>> /\ file.kind = "garbled"
    /\ Dies
    /\ UNCHANGED <<console, session, file>>

on_reload == Reload \/ ReloadThrows

\* on_submit refuses goals that do not exist; the path stays in the graph.
on_submit ==
    /\ up
    /\ ahead' \in Indices(graph)
    /\ UNCHANGED <<console, session, file, up, graph, route, requests>>

\* on_timer gives an idle robot a lap; every vertex of the route is looked up.
start_patrol ==
    /\ up /\ ahead = None
    /\ route < Len(graph.places)
    /\ ahead' = route
    /\ UNCHANGED <<console, session, file, up, graph, route, requests>>

\* The task loop and publish_routes look up what is left of the path.
ServeTask ==
    /\ up /\ ahead # None /\ ahead < Len(graph.places)
    /\ ahead' \in None..ahead
    /\ UNCHANGED <<console, session, file, up, graph, route, requests>>

\* A vertex that does not exist: vertices_.at throws.
TimerThrows ==
    /\ up
    /\ (IF ahead = None THEN route ELSE ahead) >= Len(graph.places)
    /\ Dies
    /\ UNCHANGED <<console, session, file>>

on_timer == start_patrol \/ ServeTask \/ TimerThrows

-----------------------------------------------------------------------------

Init ==
    /\ places = StartGraph.places /\ lanes = StartGraph.lanes
    /\ edits = 0 /\ saves = 0
    /\ hand = [e \in Editor |-> Idle] /\ crossed = FALSE
    /\ full = [stamp |-> 0, places |-> places, lanes |-> lanes, half |-> FALSE]
    /\ file = Whole(full)
    /\ session = [s \in Session |-> Ready]
    /\ up = TRUE /\ graph = load(file) /\ route \in Heights(graph)
    /\ ahead = None /\ requests = <<>>

Edit(e) ==
    \/ add_vertex(e)
    \/ \E a, b \in Number : add_lane(e, a, b) \/ del_lane(e, a, b)
    \/ AppendBack(e)
    \/ \E i \in Number : del_vertex(e, i)
    \/ Relane(e)
    \/ AssignLanes(e)

Save(s) ==
    \/ CopyVertices(s) \/ CopyLanes(s) \/ Truncate(s) \/ Dump(s) \/ Close(s)
    \/ Call(s) \/ Answered(s) \/ TimedOut(s)

Fleet == Crash \/ Start \/ on_reload \/ on_submit \/ on_timer

Next == (\E e \in Editor : Edit(e)) \/ (\E s \in Session : Save(s)) \/ Fleet

Spec == Init /\ [][Next]_vars

=============================================================================
