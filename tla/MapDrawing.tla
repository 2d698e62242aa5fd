----------------------------- MODULE MapDrawing -----------------------------
(***************************************************************************)
(* What an operator who edits the map draws: places that keep their        *)
(* identity and roads that can be driven both ways.  Each step is one      *)
(* stroke.  The console and the navgraph file number the places instead.   *)
(***************************************************************************)
VARIABLES
    sites,      \* the places on the map
    roads,      \* pairs of places
    strays      \* a road was asked for to a place that is not on the map

Draws == roads \subseteq sites \X sites /\ strays \in BOOLEAN

\* A new place has no road yet and takes none from the others.
AddSite ==
    /\ \E v \in sites' \ sites : sites' = sites \cup {v}
    /\ ~strays
    /\ UNCHANGED <<roads, strays>>

\* A stray road comes to lead to the place that is added next.
StraySite ==
    /\ strays
    /\ \E v \in sites' \ sites :
          /\ sites' = sites \cup {v}
          /\ roads \subseteq roads'
          /\ \A road \in roads' \ roads : v \in {road[1], road[2]}

\* A place goes together with its roads, and nothing else goes.
RemoveSite ==
    \E v \in sites :
       /\ sites' = sites \ {v}
       /\ roads' = {road \in roads : v \notin {road[1], road[2]}}
       /\ strays' => strays

AddRoad ==
    /\ \E v, w \in sites : v # w /\ roads' = roads \cup {<<v, w>>, <<w, v>>}
    /\ UNCHANGED <<sites, strays>>

RemoveRoad ==
    /\ \E v, w \in sites : roads' = roads \ {<<v, w>>, <<w, v>>}
    /\ UNCHANGED <<sites, strays>>

\* Roads to nowhere change nothing else.
StrayRoad == UNCHANGED <<sites, roads>>

Stroke == AddSite \/ StraySite \/ RemoveSite \/ AddRoad \/ RemoveRoad \/ StrayRoad

Step == Stroke \/ UNCHANGED <<sites, roads, strays>>

=============================================================================
