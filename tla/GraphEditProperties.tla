------------------------ MODULE GraphEditProperties ------------------------
(***************************************************************************)
(* What editing the map promises, and what it does to a running node.      *)
(***************************************************************************)
EXTENDS GraphEdit

\* What becomes of lanes ls when the edit h goes on to its end.
Outcome(h, ls) ==
    CASE h.pc = "idle" -> ls
      [] h.pc = "one way" -> ls \cup {<<h.b, h.a>>}
      [] h.pc = "popped" -> Renumbered(ls, h.a)
      [] h.pc = "relaned" -> h.relanes

\* The lanes once the edit under way is finished.
Finished(hands, ls) ==
    LET busy == {e \in Editor : hands[e].pc # "idle"}
    IN  IF busy = {} THEN ls ELSE Outcome(hands[CHOOSE e \in busy : TRUE], ls)

Exists(l, ps) == {l[1], l[2]} \subseteq 0..(Len(ps) - 1)

\* Lanes ls with indices replaced by the places they stand for.
Roads(ps, ls) ==
    {<<ps[l[1] + 1], ps[l[2] + 1]>> : l \in {l \in ls : Exists(l, ps)}}

Strays(ps, ls) == \E l \in ls : ~Exists(l, ps)

\* What the console's lists stand for.
Drawing == INSTANCE MapDrawing WITH
    sites <- ToSet(places),
    roads <- Roads(places, Finished(hand, lanes)),
    strays <- Strays(places, Finished(hand, lanes))

\* As long as no edit meets an unfinished one, whatever is added and deleted, in
\* whatever order and beside whatever saves: an edit changes what it names and
\* nothing else, deleting a vertex leaves every road between the places it
\* connected although all indices behind it move (del_vertex), and a lane to an
\* index that no vertex has, which add_lane takes, touches no road until a
\* vertex is added.
EditsLikeADrawing == Drawing!Draws /\ [][~crossed' => Drawing!Step]_vars

\* What does not hold, as add_lane asks no index whether it exists (run
\* StrayRoad): a new vertex has no road until one is drawn.
NoStrayRoads == [][~crossed' => (Drawing!StraySite => UNCHANGED Roads(places, lanes))]_vars

\* An operator who is told "reloaded" has a node that runs this save or a
\* later one, restarts, late answers and other saves notwithstanding, as long
\* as no text that is older was still on its way to the disk.
ReloadedMeansSaved ==
    \A s \in Session :
        session[s].pc = "ready" /\ session[s].reply = "reloaded"
          /\ ~session[s].overtaken /\ up
        => graph.stamp >= session[s].stamp

BothWays(ls) == \A l \in ls : <<l[2], l[1]>> \in ls

\* The node never runs on an empty file, and every lane it has leads back, on
\* which the comment in Navgraph::load relies, unless the save met an edit that
\* was not finished or two edits met before: that a save or a restart reads the
\* file at a bad time, that saves mix what they copied, and lanes to nowhere do
\* no harm to it, and a save that met an edit does none to the next one.
GraphIsWhole ==
    up => /\ graph.places # <<>>
          /\ ~crossed /\ ~graph.half => BothWays(graph.lanes)

\* What does not hold, as add_lane appends the directions one after the other
\* beside save_navgraph (run OneWay): every lane the node runs on leads back.
LanesLeadBack == up => BothWays(graph.lanes)

-----------------------------------------------------------------------------
(* The inductive invariant behind these                                    *)

Text ==
    [stamp : Nat, places : Seq(Nat), lanes : SUBSET (Int \X Int), half : BOOLEAN]

EditStep ==
    [pc : {"idle", "one way", "popped", "relaned"}, a : Int, b : Int,
     relanes : SUBSET (Int \X Int)]

SaveStep ==
    [pc : {"ready", "vertices", "lanes", "open", "dumped", "saved", "waiting"},
     stamp : Nat, text : Text, overtaken : BOOLEAN,
     reply : {"none", "reloaded", "load failed"}]

TypeOK ==
    /\ places \in Seq(Nat) /\ lanes \subseteq Int \X Int
    /\ edits \in Nat /\ saves \in Nat /\ crossed \in BOOLEAN
    /\ hand \in [Editor -> EditStep]
    /\ full \in Text /\ session \in [Session -> SaveStep]
    /\ file \in [kind : {"whole", "empty", "garbled"}, text : Text]
    /\ up \in BOOLEAN /\ graph \in Text
    /\ route \in Int /\ ahead \in Int
    /\ requests \in Seq(Nat)

\* The console's vertices are different places; new ones get numbers not used
\* before.
DrawingFits ==
    /\ \A i, j \in 1..Len(places) : places[i] = places[j] => i = j
    /\ \A i \in 1..Len(places) : places[i] <= Len(StartGraph.places) + edits

\* While edits do not meet, at most one is unfinished, and what it leaves
\* behind leads both ways.
EditsApart ==
    ~crossed =>
        /\ \A e, o \in Editor : hand[e].pc # "idle" /\ hand[o].pc # "idle" => e = o
        /\ BothWays(Finished(hand, lanes))

\* So does every document on its way to the node that met no unfinished edit.
LeadsBack(text) == ~crossed /\ ~text.half => BothWays(text.lanes)

TextsLeadBack ==
    /\ LeadsBack(full) /\ LeadsBack(file.text) /\ LeadsBack(graph)
    /\ \A s \in Session : LeadsBack(session[s].text)
    /\ up => graph.places # <<>>

\* What a save writes was copied after it began.  One that overtook no older
\* text is only followed by newer ones, in the file and in the node;
\* `reloaded` says that it got there.
SavesInOrder ==
    /\ full.stamp <= saves
    /\ \A s \in Session :
        /\ session[s].stamp <= saves
        /\ session[s].pc # "vertices" => full.stamp >= session[s].stamp
        /\ session[s].pc = "dumped" => session[s].text.stamp >= session[s].stamp
        /\ session[s].pc \in {"vertices", "lanes", "open"} => session[s].reply = "none"
        /\ session[s].pc \notin {"vertices", "lanes", "open"} /\ ~session[s].overtaken =>
              /\ \A o \in Session :
                    session[o].pc = "dumped" => session[o].text.stamp >= session[s].stamp
              /\ \/ session[s].pc = "dumped"
                 \/ file.kind = "empty"
                 \/ file.text.stamp >= session[s].stamp
              /\ session[s].reply = "reloaded" =>
                    /\ session[s].pc \in {"waiting", "ready"}
                    /\ graph.stamp >= session[s].stamp

EditInv == TypeOK /\ DrawingFits /\ EditsApart /\ TextsLeadBack /\ SavesInOrder

-----------------------------------------------------------------------------
(* Steps                                                                   *)

\* The node survives what is done to the map: the README offers adding,
\* moving and deleting vertices with the fleet reloading on save.
NodeSurvives == [][up => up']_vars

-----------------------------------------------------------------------------
(* Liveness: saves go through their steps (a thread of the console), and   *)
(* the executor of the node comes to the requests while it runs.           *)

Writes(s) == CopyLanes(s) \/ Truncate(s) \/ Dump(s) \/ Close(s)

FairSpec ==
    /\ Spec
    /\ \A s \in Session : WF_vars(Writes(s) \/ Call(s) \/ Answered(s))
    /\ WF_vars(on_reload)

InStep == up => (Loadable(file) => graph = load(file))

\* A running node comes to run what is in the file again and again, although
\* answers are given up after five seconds, requests are lost with the
\* process, and a node that is down when the save ends is never told.
SavesReachTheNode == []<>InStep

=============================================================================
