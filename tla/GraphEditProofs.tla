-------------------------- MODULE GraphEditProofs --------------------------
(***************************************************************************)
(* Proofs about editing the map: the console edits like a drawing as long  *)
(* as edits keep apart, what the node runs on leads back, and a save that  *)
(* is reported as reloaded is.                                             *)
(***************************************************************************)
EXTENDS GraphEditProperties, SequenceTheorems, TLAPS

-----------------------------------------------------------------------------
(* Sequences and lanes                                                     *)

\* What is left of a list without one of its elements (places.pop).
LEMMA RemoveAtSpec ==
    ASSUME NEW S, NEW q \in Seq(S), NEW i \in 1..Len(q)
    PROVE  /\ RemoveAt(q, i) \in Seq(S)
           /\ Len(RemoveAt(q, i)) = Len(q) - 1
           /\ \A k \in 1..(Len(q) - 1) :
                 RemoveAt(q, i)[k] = IF k < i THEN q[k] ELSE q[k + 1]
<1> DEFINE front == SubSeq(q, 1, i - 1)
           back == SubSeq(q, i + 1, Len(q))
<1>1. Len(q) \in Nat /\ i \in Nat /\ \A k \in 1..Len(q) : q[k] \in S
  BY LenProperties, ElementOfSeq
<1>2. /\ front \in Seq(S) /\ Len(front) = i - 1
      /\ \A k \in 1..(i - 1) : front[k] = q[k]
  <2>1. /\ front \in Seq(S) /\ Len(front) = IF 1 <= i - 1 THEN (i - 1) - 1 + 1 ELSE 0
        /\ \A k \in 1..((i - 1) - 1 + 1) : front[k] = q[1 + k - 1]
    <3>1. 1 \in Int /\ i - 1 \in Int /\ \A k \in 1..(i - 1) : q[k] \in S
      BY <1>1
    <3> QED BY <3>1, SubSeqProperties
  <2> QED BY <1>1, <2>1
<1>3. /\ back \in Seq(S) /\ Len(back) = Len(q) - i
      /\ \A k \in 1..(Len(q) - i) : back[k] = q[k + i]
  <2>1. /\ back \in Seq(S)
        /\ Len(back) = IF i + 1 <= Len(q) THEN Len(q) - (i + 1) + 1 ELSE 0
        /\ \A k \in 1..(Len(q) - (i + 1) + 1) : back[k] = q[(i + 1) + k - 1]
    <3>1. i + 1 \in Int /\ Len(q) \in Int /\ \A k \in (i + 1)..Len(q) : q[k] \in S
      BY <1>1
    <3> QED BY <3>1, SubSeqProperties
  <2> QED BY <1>1, <2>1
<1>4. /\ front \o back \in Seq(S)
      /\ Len(front \o back) = Len(front) + Len(back)
      /\ \A k \in 1..(Len(front) + Len(back)) :
            (front \o back)[k] =
               IF k <= Len(front) THEN front[k] ELSE back[k - Len(front)]
  BY <1>2, <1>3, ConcatProperties
<1>5. RemoveAt(q, i) = front \o back
  BY DEF RemoveAt
<1>6. RemoveAt(q, i) \in Seq(S) /\ Len(RemoveAt(q, i)) = Len(q) - 1
  <2> HIDE DEF front, back
  <2> QED BY <1>1, <1>2, <1>3, <1>4, <1>5
<1>7. ASSUME NEW k \in 1..(Len(q) - 1)
      PROVE  RemoveAt(q, i)[k] = IF k < i THEN q[k] ELSE q[k + 1]
  <2> HIDE DEF front, back
  <2>1. k \in 1..(Len(front) + Len(back))
    BY <1>1, <1>2, <1>3
  <2>2. CASE k < i
    BY <1>1, <1>2, <1>4, <1>5, <2>1, <2>2
  <2>3. CASE ~(k < i)
    <3>1. /\ ~(k <= Len(front)) /\ k - Len(front) \in 1..(Len(q) - i)
          /\ k - Len(front) + i = k + 1
      BY <1>1, <1>2, <2>3
    <3>2. RemoveAt(q, i)[k] = back[k - Len(front)]
      BY <1>4, <1>5, <2>1, <3>1
    <3>3. back[k - Len(front)] = q[k - Len(front) + i]
      BY <1>3, <3>1
    <3> QED BY <3>1, <3>2, <3>3, <2>3
  <2> QED BY <2>2, <2>3
<1> QED BY <1>6, <1>7

\* Indices behind a deleted one move with their elements, and a number that is
\* no index does not become one.
LEMMA PulledSpec ==
    ASSUME NEW q \in Seq(Nat), NEW i \in 0..(Len(q) - 1), NEW a \in Int, a # i
    PROVE  /\ Pulled(a, i) \in Int
           /\ Pulled(a, i) \in 0..(Len(q) - 2) <=> a \in 0..(Len(q) - 1)
           /\ a \in 0..(Len(q) - 1) =>
                 RemoveAt(q, i + 1)[Pulled(a, i) + 1] = q[a + 1]
<1>1. Len(q) \in Nat /\ i + 1 \in 1..Len(q)
  BY LenProperties
<1>2. \A k \in 1..(Len(q) - 1) :
         RemoveAt(q, i + 1)[k] = IF k < i + 1 THEN q[k] ELSE q[k + 1]
  BY <1>1, RemoveAtSpec
<1>3. /\ Pulled(a, i) \in Int
      /\ Pulled(a, i) \in 0..(Len(q) - 2) <=> a \in 0..(Len(q) - 1)
  BY <1>1 DEF Pulled
<1>4. ASSUME a \in 0..(Len(q) - 1)
      PROVE  RemoveAt(q, i + 1)[Pulled(a, i) + 1] = q[a + 1]
  <2>1. CASE a > i
    <3>1. Pulled(a, i) + 1 = a /\ a \in 1..(Len(q) - 1) /\ ~(a < i + 1)
      BY <1>1, <1>4, <2>1 DEF Pulled
    <3> QED BY <3>1, <1>2
  <2>2. CASE ~(a > i)
    <3>1. Pulled(a, i) + 1 = a + 1 /\ a + 1 \in 1..(Len(q) - 1) /\ a + 1 < i + 1
      BY <1>1, <1>4, <2>2 DEF Pulled
    <3> QED BY <3>1, <1>2
  <2> QED BY <2>1, <2>2
<1> QED BY <1>3, <1>4

\* What edits make of a list of lanes stays a list of lanes that lead back.
LEMMA LanesSpec ==
    ASSUME NEW ls \in SUBSET (Int \X Int), NEW a \in Int, NEW b \in Int
    PROVE  /\ Without(ls, a, b) \in SUBSET (Int \X Int)
           /\ Renumbered(ls, a) \in SUBSET (Int \X Int)
           /\ BothWays(ls) => /\ BothWays(Without(ls, a, b))
                              /\ BothWays(Renumbered(ls, a))
                              /\ BothWays(ls \cup {<<a, b>>, <<b, a>>})
<1>1. ASSUME NEW l \in ls
      PROVE  /\ l = <<l[1], l[2]>> /\ l[1] \in Int /\ l[2] \in Int
             /\ Pulled(l[1], a) \in Int /\ Pulled(l[2], a) \in Int
  BY <1>1 DEF Pulled
<1>2. Without(ls, a, b) \in SUBSET (Int \X Int)
  BY DEF Without
<1>3. Renumbered(ls, a) \in SUBSET (Int \X Int)
  BY <1>1 DEF Renumbered
<1>4. ASSUME BothWays(ls) PROVE BothWays(Without(ls, a, b))
  <2>1. ASSUME NEW l \in Without(ls, a, b)
        PROVE  <<l[2], l[1]>> \in Without(ls, a, b)
    <3>1. l \in ls /\ {l[1], l[2]} # {a, b} /\ <<l[2], l[1]>> \in ls
      BY <1>4 DEF Without, BothWays
    <3>2. {<<l[2], l[1]>>[1], <<l[2], l[1]>>[2]} = {l[1], l[2]}
      OBVIOUS
    <3> QED BY <3>1, <3>2 DEF Without
  <2> QED BY <2>1 DEF BothWays
<1>5. ASSUME BothWays(ls) PROVE BothWays(Renumbered(ls, a))
  <2>1. ASSUME NEW l \in Renumbered(ls, a)
        PROVE  <<l[2], l[1]>> \in Renumbered(ls, a)
    <3>1. PICK m \in ls : a \notin {m[1], m[2]} /\ l = <<Pulled(m[1], a), Pulled(m[2], a)>>
      BY DEF Renumbered
    <3>2. PICK w \in ls : w = <<m[2], m[1]>>
      BY <1>5 DEF BothWays
    <3>3. /\ a \notin {w[1], w[2]}
          /\ <<l[2], l[1]>> = <<Pulled(w[1], a), Pulled(w[2], a)>>
      BY <3>1, <3>2
    <3> QED BY <3>3 DEF Renumbered
  <2> QED BY <2>1 DEF BothWays
<1>6. ASSUME BothWays(ls) PROVE BothWays(ls \cup {<<a, b>>, <<b, a>>})
  <2>1. ASSUME NEW l \in ls \cup {<<a, b>>, <<b, a>>}
        PROVE  <<l[2], l[1]>> \in ls \cup {<<a, b>>, <<b, a>>}
    <3>1. CASE l \in ls
      BY <1>6, <3>1 DEF BothWays
    <3>2. CASE l = <<a, b>>
      BY <3>2
    <3>3. CASE l = <<b, a>>
      BY <3>3
    <3> QED BY <3>1, <3>2, <3>3
  <2> QED BY <2>1 DEF BothWays
<1> QED BY <1>2, <1>3, <1>4, <1>5, <1>6

\* The heights of routes and paths are numbers.
LEMMA RoutesAreNumbers ==
    ASSUME NEW g, g.lanes \in SUBSET (Int \X Int)
    PROVE  Heights(g) \subseteq Int /\ Routes(g) \subseteq Int
<1>1. \A a, b \in Int : Max({a, b}) \in Int
  <2> SUFFICES ASSUME NEW a \in Int, NEW b \in Int PROVE Max({a, b}) \in Int
    OBVIOUS
  <2>1. \E x \in {a, b} : \A y \in {a, b} : x >= y
    <3>1. CASE a >= b BY <3>1
    <3>2. CASE b >= a BY <3>2
    <3> QED BY <3>1, <3>2
  <2> QED BY <2>1 DEF Max
<1>2. Heights(g) \subseteq Int
  <2> SUFFICES ASSUME NEW l \in g.lanes PROVE Max({l[1], l[2]}) \in Int
    BY DEF Heights
  <2>1. l[1] \in Int /\ l[2] \in Int
    OBVIOUS
  <2> QED BY <1>1, <2>1
<1> QED BY <1>2, EditAssumption DEF Routes

\* A loaded document: lanes that led both ways still do.
LEMMA LoadSpec ==
    ASSUME NEW f, f.text \in Text
    PROVE  /\ load(f) \in Text
           /\ load(f).stamp = f.text.stamp /\ load(f).places = f.text.places
           /\ load(f).half = f.text.half
           /\ BothWays(f.text.lanes) => BothWays(load(f).lanes)
<1> DEFINE ls == {l \in f.text.lanes : {l[1], l[2]} \subseteq Indices(f.text)}
<1>1. load(f) = [f.text EXCEPT !.lanes = ls]
  BY DEF load
<1>2. ls \subseteq f.text.lanes /\ ls \in SUBSET (Int \X Int)
  BY DEF Text
<1>3. /\ load(f) \in Text
      /\ load(f).stamp = f.text.stamp /\ load(f).places = f.text.places
      /\ load(f).half = f.text.half /\ load(f).lanes = ls
  BY <1>1, <1>2 DEF Text
<1>4. ASSUME BothWays(f.text.lanes) PROVE BothWays(ls)
  BY <1>4 DEF BothWays
<1> QED BY <1>3, <1>4

-----------------------------------------------------------------------------
(* Types                                                                   *)

\* Nothing, an empty file, and threads that are free.
LEMMA NothingYet ==
    /\ NoText \in Text /\ NoText.lanes = {} /\ NoText.half = FALSE
    /\ Ready \in SaveStep /\ Idle \in EditStep
    /\ Empty \in [kind : {"whole", "empty", "garbled"}, text : Text]
<1>1. <<>> \in Seq(Nat)
  BY EmptySeq
<1> QED BY <1>1 DEF NoText, Text, Ready, SaveStep, Empty, Idle, EditStep

\* A step of one session.
LEMMA GoesSpec ==
    ASSUME TypeOK, NEW s \in Session, NEW step \in SaveStep, Goes(s, step)
    PROVE  /\ session' \in [Session -> SaveStep]
           /\ \A o \in Session : session'[o] = IF o = s THEN step ELSE session[o]
BY DEF TypeOK, Goes

\* A step of one edit.
LEMMA TurnsSpec ==
    ASSUME TypeOK, NEW e \in Editor, NEW step \in EditStep, Turns(e, step)
    PROVE  /\ hand' \in [Editor -> EditStep]
           /\ \A o \in Editor : hand'[o] = IF o = e THEN step ELSE hand[o]
BY DEF TypeOK, Turns

\* The answers a save may be given.
Answers == {"reloaded", "load failed", "unconnected", "timeout"}

\* The end of a save.
LEMMA SaysSpec ==
    ASSUME TypeOK, NEW s \in Session, NEW answer \in Answers, Says(s, answer)
    PROVE  /\ session' \in [Session -> SaveStep]
           /\ \A o \in Session \ {s} : session'[o] = session[o]
           /\ \/ session'[s] = Ready
              \/ /\ answer = "reloaded"
                 /\ session'[s] = [session[s] EXCEPT !.pc = "ready"]
<1> DEFINE step == IF answer = "reloaded"
                   THEN [session[s] EXCEPT !.pc = "ready"] ELSE Ready
<1>1. step \in SaveStep
  BY NothingYet DEF TypeOK, SaveStep
<1>2. Goes(s, step)
  BY DEF Says
<1> HIDE DEF step
<1>3. /\ session' \in [Session -> SaveStep]
      /\ \A o \in Session : session'[o] = IF o = s THEN step ELSE session[o]
  BY <1>1, <1>2, GoesSpec
<1> QED BY <1>3 DEF step

\* The answer of the node reaches the sessions that wait for it, no other one.
LEMMA ReplySpec ==
    ASSUME TypeOK, NEW answer \in {"reloaded", "load failed"}, Reply(answer)
    PROVE  /\ session' \in [Session -> SaveStep]
           /\ \A s \in Session :
                 \/ session'[s] = session[s]
                 \/ /\ session[s].pc = "waiting"
                    /\ session'[s] = [session[s] EXCEPT !.reply = answer]
<1> DEFINE step(s) ==
        IF session[s].pc = "waiting" /\ session[s].stamp = Head(requests)
        THEN [session[s] EXCEPT !.reply = answer] ELSE session[s]
<1>1. session' = [s \in Session |-> step(s)]
  BY DEF Reply
<1>2. \A s \in Session : step(s) \in SaveStep
  BY DEF TypeOK, SaveStep
<1> QED BY <1>1, <1>2

\* What a finished edit leaves behind.
LEMMA OutcomeSpec ==
    ASSUME NEW h \in EditStep, NEW ls \in SUBSET (Int \X Int)
    PROVE  /\ Outcome(h, ls) \in SUBSET (Int \X Int)
           /\ h.pc = "idle" => Outcome(h, ls) = ls
           /\ h.pc = "one way" => Outcome(h, ls) = ls \cup {<<h.b, h.a>>}
           /\ h.pc = "popped" => Outcome(h, ls) = Renumbered(ls, h.a)
           /\ h.pc = "relaned" => Outcome(h, ls) = h.relanes
<1>1. /\ h.a \in Int /\ h.b \in Int /\ h.relanes \in SUBSET (Int \X Int)
      /\ <<h.b, h.a>> \in Int \X Int
      /\ h.pc \in {"idle", "one way", "popped", "relaned"}
  BY DEF EditStep
<1>2. Renumbered(ls, h.a) \in SUBSET (Int \X Int)
  BY <1>1, LanesSpec
<1>3. CASE h.pc = "idle"
  BY <1>1, <1>3 DEF Outcome
<1>4. CASE h.pc = "one way"
  BY <1>1, <1>4 DEF Outcome
<1>5. CASE h.pc = "popped"
  BY <1>2, <1>5 DEF Outcome
<1>6. CASE h.pc = "relaned"
  BY <1>1, <1>6 DEF Outcome
<1> QED BY <1>1, <1>3, <1>4, <1>5, <1>6

\* It is what the only unfinished edit leaves behind, if there is one.
LEMMA FinishedSpec ==
    ASSUME NEW hands, NEW ls
    PROVE  /\ (\A e \in Editor : hands[e].pc = "idle") => Finished(hands, ls) = ls
           /\ \A e \in Editor :
                 /\ hands[e].pc # "idle"
                 /\ \A o \in Editor : hands[o].pc # "idle" => o = e
                 => Finished(hands, ls) = Outcome(hands[e], ls)
<1> DEFINE busy == {e \in Editor : hands[e].pc # "idle"}
<1>1. Finished(hands, ls) =
         IF busy = {} THEN ls ELSE Outcome(hands[CHOOSE e \in busy : TRUE], ls)
  BY DEF Finished
<1>2. ASSUME \A e \in Editor : hands[e].pc = "idle"
      PROVE  Finished(hands, ls) = ls
  <2>1. busy = {}
    BY <1>2
  <2> QED BY <1>1, <2>1
<1>3. ASSUME NEW e \in Editor, hands[e].pc # "idle",
             \A o \in Editor : hands[o].pc # "idle" => o = e
      PROVE  Finished(hands, ls) = Outcome(hands[e], ls)
  <2>1. busy = {e}
    BY <1>3
  <2>2. (CHOOSE o \in busy : TRUE) = e
    BY <2>1
  <2> HIDE DEF busy
  <2> QED BY <1>1, <2>1, <2>2
<1> QED BY <1>2, <1>3

\* An edit touches nothing but the drawing.
LEMMA EditTouches ==
    ASSUME NEW e \in Editor, Edit(e)
    PROVE  /\ UNCHANGED <<full, saves, session, file>>
           /\ UNCHANGED <<up, graph, route, ahead, requests>>
<1>1. UNCHANGED <<saving, node>>
  <2>1. CASE add_vertex(e) \/ AppendBack(e) \/ Relane(e) \/ AssignLanes(e)
    BY <2>1 DEF add_vertex, AppendBack, Relane, AssignLanes
  <2>2. CASE \E a, b \in Number : add_lane(e, a, b) \/ del_lane(e, a, b)
    BY <2>2 DEF add_lane, del_lane
  <2>3. CASE \E i \in Number : del_vertex(e, i)
    BY <2>3 DEF del_vertex
  <2> QED BY <2>1, <2>2, <2>3 DEF Edit
<1> QED BY <1>1 DEF saving, node

\* Edits keep the types.
LEMMA EditKeepsTypes ==
    ASSUME TypeOK, NEW e \in Editor, Edit(e)
    PROVE  TypeOK'
<1>1. /\ Len(places) \in Nat /\ Len(StartGraph.places) \in Nat
      /\ places \in Seq(Nat) /\ lanes \in SUBSET (Int \X Int) /\ hand[e] \in EditStep
      /\ hand[e].a \in Int /\ hand[e].b \in Int
      /\ hand[e].relanes \in SUBSET (Int \X Int)
  BY LenProperties, StartAssumption DEF TypeOK, EditStep
<1>2. Begin(e) => edits' \in Nat /\ crossed' \in BOOLEAN
  BY DEF TypeOK, Begin, Unfinished
<1> DEFINE Kept == /\ places' \in Seq(Nat) /\ lanes' \in SUBSET (Int \X Int)
                   /\ hand' \in [Editor -> EditStep]
                   /\ edits' \in Nat /\ crossed' \in BOOLEAN
<1>3. ASSUME add_vertex(e) PROVE Kept
  <2>1. Len(StartGraph.places) + edits + 1 \in Nat
    BY <1>1 DEF TypeOK
  <2>2. places' \in Seq(Nat)
    BY <1>1, <1>3, <2>1, AppendProperties DEF add_vertex
  <2> QED BY <1>2, <1>3, <2>2 DEF add_vertex, TypeOK, saving, node
<1>4. ASSUME NEW a \in Number, NEW b \in Number, add_lane(e, a, b)
      PROVE  Kept
  <2> DEFINE step == [Idle EXCEPT !.pc = "one way", !.a = a, !.b = b]
  <2>1. a \in Int /\ b \in Int
    BY EditAssumption
  <2>2. step \in EditStep /\ Turns(e, step)
    BY <1>4, <2>1, NothingYet DEF add_lane, EditStep
  <2> HIDE DEF step
  <2>3. hand' \in [Editor -> EditStep]
    BY <2>2, TurnsSpec
  <2>4. lanes' \in SUBSET (Int \X Int)
    BY <1>1, <1>4, <2>1 DEF add_lane
  <2> QED BY <1>2, <1>4, <2>3, <2>4 DEF add_lane, TypeOK
<1>5. ASSUME AppendBack(e) PROVE Kept
  <2>1. hand' \in [Editor -> EditStep]
    BY <1>5, TurnsSpec, NothingYet DEF AppendBack
  <2>2. lanes' \in SUBSET (Int \X Int)
    <3>1. <<hand[e].b, hand[e].a>> \in Int \X Int
      BY <1>1
    <3> QED BY <1>1, <1>5, <3>1 DEF AppendBack
  <2> QED BY <1>5, <2>1, <2>2 DEF AppendBack, TypeOK, saving, node
<1>6. ASSUME NEW a \in Number, NEW b \in Number, del_lane(e, a, b)
      PROVE  Kept
  <2> DEFINE step == [Idle EXCEPT !.pc = "relaned", !.relanes = Without(lanes, a, b)]
  <2>1. Without(lanes, a, b) \in SUBSET (Int \X Int)
    BY <1>1, EditAssumption, LanesSpec
  <2>2. step \in EditStep /\ Turns(e, step)
    BY <1>6, <2>1, NothingYet DEF del_lane, EditStep
  <2> HIDE DEF step
  <2>3. hand' \in [Editor -> EditStep]
    BY <2>2, TurnsSpec
  <2> QED BY <1>2, <1>6, <2>3 DEF del_lane, TypeOK
<1>7. ASSUME NEW i \in Number, del_vertex(e, i)
      PROVE  Kept
  <2> DEFINE step == [Idle EXCEPT !.pc = "popped", !.a = i]
  <2>1. i \in Int /\ i + 1 \in 1..Len(places)
    BY <1>1, <1>7, EditAssumption DEF del_vertex
  <2>2. places' \in Seq(Nat)
    BY <1>1, <1>7, <2>1, RemoveAtSpec DEF del_vertex
  <2>3. step \in EditStep /\ Turns(e, step)
    BY <1>7, <2>1, NothingYet DEF del_vertex, EditStep
  <2> HIDE DEF step
  <2>4. hand' \in [Editor -> EditStep]
    BY <2>3, TurnsSpec
  <2> QED BY <1>2, <1>7, <2>2, <2>4 DEF del_vertex, TypeOK
<1>8. ASSUME Relane(e) PROVE Kept
  <2> DEFINE step == [Idle EXCEPT !.pc = "relaned",
                                  !.relanes = Renumbered(lanes, hand[e].a)]
  <2>1. Renumbered(lanes, hand[e].a) \in SUBSET (Int \X Int)
    BY <1>1, LanesSpec
  <2>2. step \in EditStep /\ Turns(e, step)
    BY <1>8, <2>1, NothingYet DEF Relane, EditStep
  <2> HIDE DEF step
  <2>3. hand' \in [Editor -> EditStep]
    BY <2>2, TurnsSpec
  <2> QED BY <1>8, <2>3 DEF Relane, TypeOK, saving, node
<1>9. ASSUME AssignLanes(e) PROVE Kept
  <2>1. hand' \in [Editor -> EditStep]
    BY <1>9, TurnsSpec, NothingYet DEF AssignLanes
  <2>2. lanes' \in SUBSET (Int \X Int)
    BY <1>1, <1>9 DEF AssignLanes, saving, node
  <2> QED BY <1>9, <2>1, <2>2 DEF AssignLanes, TypeOK, saving, node
<1>10. Kept
  <2> HIDE DEF Kept
  <2> QED BY <1>3, <1>4, <1>5, <1>6, <1>7, <1>8, <1>9 DEF Edit
<1> QED BY <1>10, EditTouches DEF TypeOK

\* So do saves.
LEMMA SaveKeepsTypes ==
    ASSUME TypeOK, NEW s \in Session, Save(s)
    PROVE  TypeOK'
<1> DEFINE Files == [kind : {"whole", "empty", "garbled"}, text : Text]
<1>1. /\ UNCHANGED <<places, lanes, edits, hand, crossed, up, graph, route, ahead>>
      /\ session[s] \in SaveStep /\ saves \in Nat
  BY DEF Save, CopyVertices, CopyLanes, Truncate, Dump, Close, Call, Answered,
         TimedOut, console, drawing, node, TypeOK
<1> DEFINE Kept == /\ full' \in Text /\ saves' \in Nat /\ file' \in Files
                   /\ session' \in [Session -> SaveStep] /\ requests' \in Seq(Nat)
<1>2. ASSUME CopyVertices(s) PROVE Kept
  <2> DEFINE step == [Ready EXCEPT !.pc = "vertices", !.stamp = saves + 1]
  <2>1. step \in SaveStep
    <3>1. saves + 1 \in Nat
      BY <1>1
    <3> QED BY <3>1, NothingYet DEF SaveStep, Ready
  <2>2. Goes(s, step)
    BY <1>2 DEF CopyVertices
  <2> HIDE DEF step
  <2>3. session' \in [Session -> SaveStep]
    BY <2>1, <2>2, GoesSpec
  <2>4. full' \in Text
    BY <1>2 DEF CopyVertices, Text, TypeOK
  <2> QED BY <1>2, <2>3, <2>4 DEF CopyVertices, TypeOK, drawing, node
<1>3. ASSUME CopyLanes(s) PROVE Kept
  <2> DEFINE step == [session[s] EXCEPT !.pc = "lanes"]
  <2>1. step \in SaveStep /\ Goes(s, step)
    BY <1>1, <1>3 DEF CopyLanes, SaveStep
  <2> HIDE DEF step
  <2>2. session' \in [Session -> SaveStep]
    BY <2>1, GoesSpec
  <2>3. full' \in Text
    BY <1>3 DEF CopyLanes, Text, TypeOK, Unfinished
  <2> QED BY <1>3, <2>2, <2>3 DEF CopyLanes, TypeOK, drawing, node
<1>4. ASSUME Truncate(s) PROVE Kept
  <2> DEFINE step == [session[s] EXCEPT !.pc = "open"]
  <2>1. step \in SaveStep /\ Goes(s, step)
    BY <1>1, <1>4 DEF Truncate, SaveStep
  <2> HIDE DEF step
  <2>2. session' \in [Session -> SaveStep]
    BY <2>1, GoesSpec
  <2> QED BY <1>4, <2>2, NothingYet DEF Truncate, TypeOK, drawing, node
<1>5. ASSUME Dump(s) PROVE Kept
  <2> DEFINE late == \E o \in Session :
                        session[o].pc = "dumped" /\ session[o].text.stamp < session[s].stamp
             step == [session[s] EXCEPT !.pc = "dumped", !.text = full, !.overtaken = late]
  <2>1. step \in SaveStep /\ Goes(s, step)
    BY <1>1, <1>5 DEF Dump, SaveStep, TypeOK
  <2> HIDE DEF step
  <2>2. session' \in [Session -> SaveStep]
    BY <2>1, GoesSpec
  <2> QED BY <1>5, <2>2 DEF Dump, TypeOK, drawing, node
<1>6. ASSUME Close(s) PROVE Kept
  <2> DEFINE step == [session[s] EXCEPT !.pc = "saved", !.text = NoText]
  <2>1. step \in SaveStep /\ Goes(s, step) /\ session[s].text \in Text
    BY <1>1, <1>6, NothingYet DEF Close, SaveStep
  <2> HIDE DEF step
  <2>2. session' \in [Session -> SaveStep]
    BY <2>1, GoesSpec
  <2>3. file' \in Files
    BY <1>6, <2>1 DEF Close, Whole
  <2> QED BY <1>6, <2>2, <2>3 DEF Close, TypeOK, console, drawing, node
<1>7. ASSUME Call(s) PROVE Kept
  <2>1. CASE up
    <3> DEFINE step == [session[s] EXCEPT !.pc = "waiting"]
    <3>1. step \in SaveStep /\ Goes(s, step) /\ session[s].stamp \in Nat
      BY <1>1, <1>7, <2>1 DEF Call, SaveStep
    <3> HIDE DEF step
    <3>2. session' \in [Session -> SaveStep]
      BY <3>1, GoesSpec
    <3>3. requests' \in Seq(Nat)
      <4>1. requests' = Append(requests, session[s].stamp) /\ requests \in Seq(Nat)
        BY <1>7, <2>1 DEF Call, TypeOK
      <4> QED BY <3>1, <4>1, AppendProperties
    <3> QED BY <1>7, <3>2, <3>3 DEF Call, TypeOK, console, drawing
  <2>2. CASE ~up
    <3>1. session' \in [Session -> SaveStep]
      BY <1>7, <2>2, SaysSpec DEF Call, Answers
    <3> QED BY <1>7, <2>2, <3>1 DEF Call, TypeOK, console, drawing
  <2> QED BY <2>1, <2>2
<1>8. ASSUME Answered(s) PROVE Kept
  <2>1. session[s].reply \in Answers /\ Says(s, session[s].reply)
    BY <1>1, <1>8 DEF Answered, SaveStep, Answers
  <2>2. session' \in [Session -> SaveStep]
    BY <2>1, SaysSpec
  <2> QED BY <1>8, <2>2 DEF Answered, TypeOK, console, drawing, node
<1>9. ASSUME TimedOut(s) PROVE Kept
  <2>1. "timeout" \in Answers /\ Says(s, "timeout")
    BY <1>9 DEF TimedOut, Answers
  <2>2. session' \in [Session -> SaveStep]
    BY <2>1, SaysSpec
  <2> QED BY <1>9, <2>2 DEF TimedOut, TypeOK, console, drawing, node
<1>10. Kept
  <2> HIDE DEF Kept
  <2> QED BY <1>2, <1>3, <1>4, <1>5, <1>6, <1>7, <1>8, <1>9 DEF Save
<1> QED BY <1>1, <1>10 DEF TypeOK

\* And what the node does.
LEMMA FleetKeepsTypes ==
    ASSUME TypeOK, Fleet
    PROVE  TypeOK'
<1>1. UNCHANGED <<places, lanes, edits, hand, crossed, full, saves, file>>
  BY DEF Fleet, Crash, Start, on_reload, Reload, ReloadThrows, on_submit,
         on_timer, start_patrol, ServeTask, TimerThrows, console, drawing
<1>2. file.text \in Text /\ load(file) \in Text /\ Routes(load(file)) \subseteq Int
  <2>1. file.text \in Text /\ load(file) \in Text
    BY LoadSpec DEF TypeOK
  <2>2. load(file).lanes \in SUBSET (Int \X Int)
    BY <2>1 DEF Text
  <2> QED BY <2>1, <2>2, RoutesAreNumbers
<1>3. ASSUME Dies, UNCHANGED session
      PROVE  TypeOK'
  <2>1. requests' \in Seq(Nat)
    BY <1>3, EmptySeq DEF Dies
  <2>2. ahead' \in Int
    BY <1>3 DEF Dies, None
  <2>3. /\ up' \in BOOLEAN /\ graph' \in Text /\ route' \in Int
        /\ session' \in [Session -> SaveStep]
    BY <1>3 DEF Dies, TypeOK
  <2> QED BY <1>1, <2>1, <2>2, <2>3 DEF TypeOK
<1>4. CASE Crash \/ ReloadThrows \/ TimerThrows
  BY <1>3, <1>4 DEF Crash, ReloadThrows, TimerThrows
<1>5. CASE Start
  BY <1>1, <1>2, <1>5 DEF Start, TypeOK
<1>6. CASE Reload
  <2>1. session' \in [Session -> SaveStep] /\ graph' \in Text
    BY <1>2, <1>6, ReplySpec DEF Reload, TypeOK
  <2>2. requests' \in Seq(Nat)
    BY <1>6, HeadTailProperties DEF Reload, TypeOK
  <2> QED BY <1>1, <1>6, <2>1, <2>2 DEF Reload, TypeOK
<1>7. CASE on_submit
  <2>1. Len(graph.places) \in Nat
    BY LenProperties DEF TypeOK, Text
  <2>2. ahead' \in Int
    BY <1>7, <2>1 DEF on_submit, Indices
  <2> QED BY <1>1, <1>7, <2>2 DEF on_submit, TypeOK
<1>8. CASE start_patrol
  BY <1>1, <1>8 DEF start_patrol, TypeOK
<1>9. CASE ServeTask
  <2>1. ahead' \in Int
    BY <1>9 DEF ServeTask, TypeOK, None
  <2> QED BY <1>1, <1>9, <2>1 DEF ServeTask, TypeOK
<1> QED BY <1>4, <1>5, <1>6, <1>7, <1>8, <1>9 DEF Fleet, on_reload, on_timer

-----------------------------------------------------------------------------
(* Edits that keep apart                                                   *)

\* While at most edit e is unfinished, what matters is what it leaves behind.
LEMMA TurnsFinished ==
    ASSUME TypeOK, NEW e \in Editor, \A o \in Editor \ {e} : hand[o].pc = "idle",
           NEW step \in EditStep, Turns(e, step), NEW ls \in SUBSET (Int \X Int)
    PROVE  /\ Finished(hand', ls) = Outcome(step, ls)
           /\ \A o \in Editor \ {e} : hand'[o].pc = "idle"
<1>1. \A o \in Editor : hand'[o] = IF o = e THEN step ELSE hand[o]
  BY TurnsSpec
<1>2. CASE step.pc = "idle"
  <2>1. \A o \in Editor : hand'[o].pc = "idle"
    BY <1>1, <1>2
  <2>2. Finished(hand', ls) = ls
    BY <2>1, FinishedSpec
  <2>3. Outcome(step, ls) = ls
    BY <1>2, OutcomeSpec
  <2> QED BY <2>1, <2>2, <2>3
<1>3. CASE step.pc # "idle"
  <2>1. hand'[e] = step /\ \A o \in Editor : hand'[o].pc # "idle" => o = e
    BY <1>1
  <2> QED BY <1>1, <1>3, <2>1, FinishedSpec
<1> QED BY <1>2, <1>3

\* What edits make of the vertices, and of the lanes once they are finished.
Edited(new, old, fin, unfin) ==
    \/ new = Append(old, Len(StartGraph.places) + edits + 1) /\ fin = unfin
    \/ /\ new = old
       /\ \E a, b \in Int : a # b /\ fin = unfin \cup {<<a, b>>, <<b, a>>}
    \/ new = old /\ \E a, b \in Int : fin = Without(unfin, a, b)
    \/ \E i \in 0..(Len(old) - 1) :
          new = RemoveAt(old, i + 1) /\ fin = Renumbered(unfin, i)
    \/ new = old /\ fin = unfin

\* An edit that meets no other one does what it says, all told.
LEMMA EditSpec ==
    ASSUME TypeOK, EditsApart, NEW e \in Editor, Edit(e), ~crossed'
    PROVE  /\ ~crossed
           /\ \A o \in Editor \ {e} : hand'[o].pc = "idle"
           /\ Edited(places', places, Finished(hand', lanes'), Finished(hand, lanes))
<1> DEFINE Apart == \A o \in Editor \ {e} : hand[o].pc = "idle"
           Goal == /\ ~crossed
                   /\ \A o \in Editor \ {e} : hand'[o].pc = "idle"
                   /\ Edited(places', places, Finished(hand', lanes'),
                             Finished(hand, lanes))
<1>1. /\ lanes \in SUBSET (Int \X Int) /\ hand[e] \in EditStep
      /\ hand[e].a \in Int /\ hand[e].b \in Int
      /\ hand[e].relanes \in SUBSET (Int \X Int) /\ lanes' \in SUBSET (Int \X Int)
      /\ crossed \in BOOLEAN
  <2>1. TypeOK'
    BY EditKeepsTypes
  <2> QED BY <2>1 DEF TypeOK, EditStep
<1>2. ASSUME Begin(e)
      PROVE  /\ ~crossed /\ Apart /\ hand[e].pc = "idle"
             /\ Finished(hand, lanes) = lanes
  <2>1. ~crossed /\ ~Unfinished
    BY <1>2 DEF Begin
  <2>2. \A o \in Editor : hand[o].pc = "idle"
    BY <2>1 DEF Unfinished
  <2> QED BY <2>1, <2>2, FinishedSpec
<1>3. ASSUME UNCHANGED crossed, hand[e].pc # "idle"
      PROVE  /\ ~crossed /\ Apart
             /\ Finished(hand, lanes) = Outcome(hand[e], lanes)
  <2>1. ~crossed
    BY <1>3
  <2>2. \A o \in Editor : hand[o].pc # "idle" => o = e
    BY <1>3, <2>1 DEF EditsApart
  <2> QED BY <1>3, <2>1, <2>2, FinishedSpec
<1>4. ASSUME add_vertex(e) PROVE Goal
  <2>1. Begin(e) /\ UNCHANGED <<lanes, hand>>
        /\ places' = Append(places, Len(StartGraph.places) + edits + 1)
    BY <1>4 DEF add_vertex
  <2>2. ~crossed /\ Apart
    BY <1>2, <2>1
  <2> QED BY <2>1, <2>2 DEF Edited
<1>5. ASSUME NEW a \in Number, NEW b \in Number, add_lane(e, a, b) PROVE Goal
  <2> DEFINE step == [Idle EXCEPT !.pc = "one way", !.a = a, !.b = b]
  <2>1. a \in Int /\ b \in Int
    BY EditAssumption
  <2>2. /\ Begin(e) /\ a # b /\ UNCHANGED places
        /\ lanes' = lanes \cup {<<a, b>>} /\ Turns(e, step)
    BY <1>5 DEF add_lane
  <2>3. step \in EditStep /\ step.pc = "one way" /\ step.a = a /\ step.b = b
    BY <2>1, NothingYet DEF EditStep
  <2> HIDE DEF step
  <2>4. ~crossed /\ Apart /\ Finished(hand, lanes) = lanes
    BY <1>2, <2>2
  <2>5. /\ Finished(hand', lanes') = Outcome(step, lanes')
        /\ \A o \in Editor \ {e} : hand'[o].pc = "idle"
    BY <1>1, <2>2, <2>3, <2>4, TurnsFinished
  <2>6. Outcome(step, lanes') = lanes' \cup {<<b, a>>}
    BY <1>1, <2>3, OutcomeSpec
  <2>7. Finished(hand', lanes') = Finished(hand, lanes) \cup {<<a, b>>, <<b, a>>}
    BY <2>2, <2>4, <2>5, <2>6
  <2> QED BY <2>1, <2>2, <2>4, <2>5, <2>7 DEF Edited
<1>6. ASSUME AppendBack(e) PROVE Goal
  <2>1. /\ hand[e].pc = "one way" /\ UNCHANGED <<places, crossed>>
        /\ lanes' = lanes \cup {<<hand[e].b, hand[e].a>>} /\ Turns(e, Idle)
    BY <1>6 DEF AppendBack
  <2>2. ~crossed /\ Apart /\ Finished(hand, lanes) = Outcome(hand[e], lanes)
    BY <1>3, <2>1
  <2>3. Outcome(hand[e], lanes) = lanes'
    BY <1>1, <2>1, OutcomeSpec
  <2>4. /\ Finished(hand', lanes') = Outcome(Idle, lanes')
        /\ \A o \in Editor \ {e} : hand'[o].pc = "idle"
    <3>1. Idle \in EditStep /\ lanes' \in SUBSET (Int \X Int) /\ Turns(e, Idle)
      BY <1>1, <2>1, NothingYet
    <3> QED BY <2>2, <3>1, TurnsFinished
  <2>5. Outcome(Idle, lanes') = lanes'
    BY <1>1, NothingYet, OutcomeSpec DEF Idle
  <2> QED BY <2>1, <2>2, <2>3, <2>4, <2>5 DEF Edited
<1>7. ASSUME NEW a \in Number, NEW b \in Number, del_lane(e, a, b) PROVE Goal
  <2> DEFINE step == [Idle EXCEPT !.pc = "relaned", !.relanes = Without(lanes, a, b)]
  <2>1. a \in Int /\ b \in Int /\ Without(lanes, a, b) \in SUBSET (Int \X Int)
    BY <1>1, EditAssumption, LanesSpec
  <2>2. Begin(e) /\ UNCHANGED <<places, lanes>> /\ Turns(e, step)
    BY <1>7 DEF del_lane
  <2>3. /\ step \in EditStep /\ step.pc = "relaned"
        /\ step.relanes = Without(lanes, a, b)
    BY <2>1, NothingYet DEF EditStep
  <2> HIDE DEF step
  <2>4. ~crossed /\ Apart /\ Finished(hand, lanes) = lanes
    BY <1>2, <2>2
  <2>5. /\ Finished(hand', lanes') = Outcome(step, lanes')
        /\ \A o \in Editor \ {e} : hand'[o].pc = "idle"
    BY <1>1, <2>2, <2>3, <2>4, TurnsFinished
  <2>6. Outcome(step, lanes') = Without(lanes, a, b)
    BY <1>1, <2>3, OutcomeSpec
  <2>7. Finished(hand', lanes') = Without(Finished(hand, lanes), a, b)
    BY <2>4, <2>5, <2>6
  <2> QED BY <2>1, <2>2, <2>4, <2>5, <2>7 DEF Edited
<1>8. ASSUME NEW i \in Number, del_vertex(e, i) PROVE Goal
  <2> DEFINE step == [Idle EXCEPT !.pc = "popped", !.a = i]
  <2>1. /\ Begin(e) /\ i \in 0..(Len(places) - 1) /\ UNCHANGED lanes
        /\ places' = RemoveAt(places, i + 1) /\ Turns(e, step)
    BY <1>8 DEF del_vertex
  <2>2. step \in EditStep /\ step.pc = "popped" /\ step.a = i
    BY EditAssumption, NothingYet DEF EditStep
  <2> HIDE DEF step
  <2>3. ~crossed /\ Apart /\ Finished(hand, lanes) = lanes
    BY <1>2, <2>1
  <2>4. /\ Finished(hand', lanes') = Outcome(step, lanes')
        /\ \A o \in Editor \ {e} : hand'[o].pc = "idle"
    BY <1>1, <2>1, <2>2, <2>3, TurnsFinished
  <2>5. Outcome(step, lanes') = Renumbered(lanes, i)
    BY <1>1, <2>1, <2>2, OutcomeSpec
  <2>6. Finished(hand', lanes') = Renumbered(Finished(hand, lanes), i)
    BY <2>3, <2>4, <2>5
  <2> QED BY <2>1, <2>3, <2>4, <2>6 DEF Edited
<1>9. ASSUME Relane(e) PROVE Goal
  <2> DEFINE step == [Idle EXCEPT !.pc = "relaned",
                                  !.relanes = Renumbered(lanes, hand[e].a)]
  <2>1. /\ hand[e].pc = "popped" /\ UNCHANGED <<places, lanes, crossed>>
        /\ Turns(e, step)
    BY <1>9 DEF Relane
  <2>2. Renumbered(lanes, hand[e].a) \in SUBSET (Int \X Int)
    BY <1>1, LanesSpec
  <2>3. /\ step \in EditStep /\ step.pc = "relaned"
        /\ step.relanes = Renumbered(lanes, hand[e].a)
    BY <2>2, NothingYet DEF EditStep
  <2> HIDE DEF step
  <2>4. ~crossed /\ Apart /\ Finished(hand, lanes) = Outcome(hand[e], lanes)
    BY <1>3, <2>1
  <2>5. /\ Finished(hand', lanes') = Outcome(step, lanes')
        /\ \A o \in Editor \ {e} : hand'[o].pc = "idle"
    BY <1>1, <2>1, <2>3, <2>4, TurnsFinished
  <2>6. Outcome(step, lanes') = Outcome(hand[e], lanes)
    BY <1>1, <2>1, <2>3, OutcomeSpec
  <2> QED BY <2>1, <2>4, <2>5, <2>6 DEF Edited
<1>10. ASSUME AssignLanes(e) PROVE Goal
  <2>1. /\ hand[e].pc = "relaned" /\ UNCHANGED <<places, crossed>>
        /\ lanes' = hand[e].relanes /\ Turns(e, Idle)
    BY <1>10 DEF AssignLanes
  <2>2. ~crossed /\ Apart /\ Finished(hand, lanes) = Outcome(hand[e], lanes)
    BY <1>3, <2>1
  <2>3. Outcome(hand[e], lanes) = lanes'
    BY <1>1, <2>1, OutcomeSpec
  <2>4. /\ Finished(hand', lanes') = Outcome(Idle, lanes')
        /\ \A o \in Editor \ {e} : hand'[o].pc = "idle"
    <3>1. Idle \in EditStep /\ lanes' \in SUBSET (Int \X Int) /\ Turns(e, Idle)
      BY <1>1, <2>1, NothingYet
    <3> QED BY <2>2, <3>1, TurnsFinished
  <2>5. Outcome(Idle, lanes') = lanes'
    BY <1>1, NothingYet, OutcomeSpec DEF Idle
  <2> QED BY <2>1, <2>2, <2>3, <2>4, <2>5 DEF Edited
<1> HIDE DEF Goal
<1>11. Goal
  BY <1>4, <1>5, <1>6, <1>7, <1>8, <1>9, <1>10 DEF Edit
<1> QED BY <1>11 DEF Goal

\* The lanes an edit leaves behind when it is finished lead both ways if they
\* did before.
LEMMA EditKeepsApart ==
    ASSUME TypeOK, EditsApart, NEW e \in Editor, Edit(e)
    PROVE  EditsApart'
<1> SUFFICES ASSUME ~crossed'
             PROVE  /\ \A f, o \in Editor :
                          hand'[f].pc # "idle" /\ hand'[o].pc # "idle" => f = o
                    /\ BothWays(Finished(hand', lanes'))
  BY DEF EditsApart
<1> DEFINE D == Finished(hand, lanes)
           E == Finished(hand', lanes')
<1>1. /\ ~crossed /\ \A o \in Editor \ {e} : hand'[o].pc = "idle"
      /\ Edited(places', places, E, D)
  BY EditSpec
<1>2. BothWays(D) /\ D \in SUBSET (Int \X Int)
  <2>1. BothWays(D)
    BY <1>1 DEF EditsApart
  <2>2. \A o \in Editor : Outcome(hand[o], lanes) \in SUBSET (Int \X Int)
    BY OutcomeSpec DEF TypeOK
  <2>3. D \in SUBSET (Int \X Int)
    BY <2>2 DEF Finished, TypeOK
  <2> QED BY <2>1, <2>3
<1> HIDE DEF D, E
<1>3. BothWays(E)
  <2>1. CASE E = D
    BY <1>2, <2>1
  <2>2. CASE \E a, b \in Int : a # b /\ E = D \cup {<<a, b>>, <<b, a>>}
    <3>1. PICK a \in Int, b \in Int : E = D \cup {<<a, b>>, <<b, a>>}
      BY <2>2
    <3>2. BothWays(D \cup {<<a, b>>, <<b, a>>})
      BY <1>2, LanesSpec
    <3> QED BY <3>1, <3>2
  <2>3. CASE \E a, b \in Int : E = Without(D, a, b)
    BY <1>2, <2>3, LanesSpec
  <2>4. CASE \E i \in 0..(Len(places) - 1) : E = Renumbered(D, i)
    <3>1. \A i \in 0..(Len(places) - 1) : i \in Int
      BY LenProperties DEF TypeOK
    <3> QED BY <1>2, <2>4, <3>1, LanesSpec
  <2> QED BY <1>1, <2>1, <2>2, <2>3, <2>4 DEF Edited
<1> QED BY <1>1, <1>3 DEF E

-----------------------------------------------------------------------------
(* The drawing                                                             *)

\* The places of a list of vertices, and an index among them.
LEMMA SitesSpec ==
    ASSUME NEW ps \in Seq(Nat)
    PROVE  /\ ToSet(ps) = {ps[k] : k \in 1..Len(ps)}
           /\ \A a \in 0..(Len(ps) - 1) :
                 a + 1 \in 1..Len(ps) /\ ps[a + 1] \in ToSet(ps)
<1>1. Len(ps) \in Nat /\ DOMAIN ps = 1..Len(ps)
  BY LenProperties
<1>2. ToSet(ps) = {ps[k] : k \in 1..Len(ps)}
  BY <1>1 DEF ToSet
<1>3. \A a \in 0..(Len(ps) - 1) : a + 1 \in 1..Len(ps)
  BY <1>1
<1> QED BY <1>2, <1>3

\* Every vertex stands for a place of its own.
Distinct(ps) == \A i, j \in 1..Len(ps) : ps[i] = ps[j] => i = j

\* Different vertices stand for different places.
LEMMA DistinctSpec ==
    ASSUME NEW ps \in Seq(Nat), Distinct(ps),
           NEW a \in 0..(Len(ps) - 1), NEW b \in 0..(Len(ps) - 1)
    PROVE  ps[a + 1] = ps[b + 1] <=> a = b
<1>1. a + 1 \in 1..Len(ps) /\ b + 1 \in 1..Len(ps) /\ a \in Int /\ b \in Int
  BY SitesSpec, LenProperties
<1>2. ASSUME ps[a + 1] = ps[b + 1] PROVE a = b
  <2>1. a + 1 = b + 1
    BY <1>1, <1>2 DEF Distinct
  <2> QED BY <1>1, <2>1
<1> QED BY <1>2

\* Where a lane leads on the map.
Road(ps, l) == <<ps[l[1] + 1], ps[l[2] + 1]>>

\* Roads are those of the lanes that exist, and join places on the map.
LEMMA RoadsSpec ==
    ASSUME NEW ps \in Seq(Nat), NEW ls \in SUBSET (Int \X Int)
    PROVE  /\ \A l \in ls : Exists(l, ps) <=> /\ l[1] \in 0..(Len(ps) - 1)
                                              /\ l[2] \in 0..(Len(ps) - 1)
           /\ \A r : r \in Roads(ps, ls)
                       <=> \E l \in ls : Exists(l, ps) /\ r = Road(ps, l)
           /\ Roads(ps, ls) \subseteq ToSet(ps) \X ToSet(ps)
           /\ Strays(ps, ls) \in BOOLEAN
           /\ Strays(ps, ls) <=> \E l \in ls : ~Exists(l, ps)
<1>1. \A l \in ls : Exists(l, ps) <=> /\ l[1] \in 0..(Len(ps) - 1)
                                      /\ l[2] \in 0..(Len(ps) - 1)
  BY DEF Exists
<1>2. \A r : r \in Roads(ps, ls) <=> \E l \in ls : Exists(l, ps) /\ r = Road(ps, l)
  BY DEF Roads, Road
<1>3. Roads(ps, ls) \subseteq ToSet(ps) \X ToSet(ps)
  <2>1. ASSUME NEW l \in ls, Exists(l, ps)
        PROVE  Road(ps, l) \in ToSet(ps) \X ToSet(ps)
    <3>1. ps[l[1] + 1] \in ToSet(ps) /\ ps[l[2] + 1] \in ToSet(ps)
      BY <1>1, <2>1, SitesSpec
    <3> QED BY <3>1 DEF Road
  <2> QED BY <1>2, <2>1
<1> QED BY <1>1, <1>2, <1>3 DEF Strays

\* A new vertex comes behind the others.
LEMMA AddedSite ==
    ASSUME NEW ps \in Seq(Nat), NEW v \in Nat, NEW qs, qs = Append(ps, v)
    PROVE  /\ qs \in Seq(Nat) /\ Len(qs) = Len(ps) + 1
           /\ \A k \in 1..Len(ps) : qs[k] = ps[k]
           /\ qs[Len(ps) + 1] = v
           /\ ToSet(qs) = ToSet(ps) \cup {v}
<1> DEFINE n == Len(ps)
<1>1. /\ n \in Nat /\ qs \in Seq(Nat) /\ Len(qs) = n + 1
      /\ \A k \in 1..n : qs[k] = ps[k]
      /\ qs[n + 1] = v
  BY LenProperties, AppendProperties
<1>2. \A k \in 1..Len(qs) : k \in 1..n \/ k = n + 1
  BY <1>1
<1>3. n + 1 \in 1..Len(qs) /\ \A k \in 1..n : k \in 1..Len(qs)
  BY <1>1
<1>4. /\ ToSet(qs) = {qs[k] : k \in 1..Len(qs)}
      /\ ToSet(ps) = {ps[k] : k \in 1..n}
  BY <1>1, SitesSpec
<1>5. ToSet(qs) = ToSet(ps) \cup {v}
  BY <1>1, <1>2, <1>3, <1>4
<1> QED BY <1>1, <1>5

\* It has no roads unless there were strays.
LEMMA AddVertexDraws ==
    ASSUME NEW ps \in Seq(Nat), NEW ls \in SUBSET (Int \X Int),
           NEW v \in Nat, v \notin ToSet(ps), NEW qs, qs = Append(ps, v)
    PROVE  /\ Roads(ps, ls) \subseteq Roads(qs, ls)
           /\ \A r \in Roads(qs, ls) \ Roads(ps, ls) : v \in {r[1], r[2]}
           /\ ~Strays(ps, ls) => ~Strays(qs, ls) /\ Roads(qs, ls) = Roads(ps, ls)
<1> DEFINE n == Len(ps)
<1>1. /\ n \in Nat /\ qs \in Seq(Nat) /\ Len(qs) = n + 1
      /\ \A k \in 1..n : qs[k] = ps[k]
      /\ qs[n + 1] = v
  BY LenProperties, AddedSite
<1>2. \A a \in 0..(n - 1) : a \in 0..(Len(qs) - 1) /\ qs[a + 1] = ps[a + 1]
  BY <1>1, SitesSpec
<1>3. \A a \in 0..(Len(qs) - 1) : a \in 0..(n - 1) \/ qs[a + 1] = v
  BY <1>1
<1> HIDE DEF n
<1>4. ASSUME NEW l \in ls, Exists(l, ps)
      PROVE  Exists(l, qs) /\ Road(qs, l) = Road(ps, l)
  <2>1. l[1] \in 0..(n - 1) /\ l[2] \in 0..(n - 1)
    BY <1>4 DEF Exists, n
  <2>2. /\ l[1] \in 0..(Len(qs) - 1) /\ qs[l[1] + 1] = ps[l[1] + 1]
        /\ l[2] \in 0..(Len(qs) - 1) /\ qs[l[2] + 1] = ps[l[2] + 1]
    BY <1>2, <2>1
  <2> QED BY <2>2 DEF Exists, Road
<1>5. ASSUME NEW l \in ls, Exists(l, qs), ~Exists(l, ps)
      PROVE  v \in {Road(qs, l)[1], Road(qs, l)[2]}
  <2>1. /\ l[1] \in 0..(n - 1) \/ qs[l[1] + 1] = v
        /\ l[2] \in 0..(n - 1) \/ qs[l[2] + 1] = v
    BY <1>3, <1>5 DEF Exists
  <2>2. ~(l[1] \in 0..(n - 1) /\ l[2] \in 0..(n - 1))
    BY <1>5 DEF Exists, n
  <2>3. qs[l[1] + 1] = v \/ qs[l[2] + 1] = v
    BY <2>1, <2>2
  <2> QED BY <2>3 DEF Road
<1>6. /\ Roads(ps, ls) = {Road(ps, l) : l \in {l \in ls : Exists(l, ps)}}
      /\ Roads(qs, ls) = {Road(qs, l) : l \in {l \in ls : Exists(l, qs)}}
  BY DEF Roads, Road
<1>7. Roads(ps, ls) \subseteq Roads(qs, ls)
  BY <1>4, <1>6
<1>8. ASSUME NEW r \in Roads(qs, ls) \ Roads(ps, ls)
      PROVE  v \in {r[1], r[2]}
  <2>1. PICK l \in ls : Exists(l, qs) /\ r = Road(qs, l)
    BY <1>6
  <2>2. ~Exists(l, ps)
    BY <1>4, <1>6, <2>1
  <2> QED BY <1>5, <2>1, <2>2
<1>9. ASSUME ~Strays(ps, ls)
      PROVE  ~Strays(qs, ls) /\ Roads(qs, ls) = Roads(ps, ls)
  <2>1. \A l \in ls : Exists(l, ps)
    BY <1>9 DEF Strays
  <2>2. ~Strays(qs, ls)
    BY <1>4, <2>1 DEF Strays
  <2>3. Roads(qs, ls) \subseteq Roads(ps, ls)
    BY <1>4, <1>6, <2>1
  <2> QED BY <1>7, <2>2, <2>3
<1> QED BY <1>7, <1>8, <1>9

\* What add_lane makes of pairs s, be they of indices or of places.
Joined(s, a, b) == s \cup {<<a, b>>, <<b, a>>}

\* A lane and its way back are a road, or lead nowhere.
LEMMA AddLaneDraws ==
    ASSUME NEW ps \in Seq(Nat), Distinct(ps), NEW ls \in SUBSET (Int \X Int),
           NEW a \in Int, NEW b \in Int, a # b,
           NEW ms, ms = Joined(ls, a, b)
    PROVE  \/ Roads(ps, ms) = Roads(ps, ls)
           \/ /\ \E v, w \in ToSet(ps) :
                    v # w /\ Roads(ps, ms) = Joined(Roads(ps, ls), v, w)
              /\ Strays(ps, ms) = Strays(ps, ls)
<1> USE DEF Joined
<1>1. ms \in SUBSET (Int \X Int)
  OBVIOUS
<1> DEFINE there == a \in 0..(Len(ps) - 1) /\ b \in 0..(Len(ps) - 1)
<1>2. /\ Exists(<<a, b>>, ps) <=> there
      /\ Exists(<<b, a>>, ps) <=> there
  BY DEF Exists
<1> HIDE DEF there
<1>3. CASE ~there
  <2>1. {l \in ms : Exists(l, ps)} = {l \in ls : Exists(l, ps)}
    BY <1>2, <1>3
  <2>2. Roads(ps, ms) = Roads(ps, ls)
    BY <2>1 DEF Roads
  <2> QED BY <2>2
<1>4. CASE there
  <2> DEFINE v == ps[a + 1]
             w == ps[b + 1]
  <2>1. v \in ToSet(ps) /\ w \in ToSet(ps) /\ v # w
    BY <1>4, SitesSpec, DistinctSpec DEF there
  <2>2. Road(ps, <<a, b>>) = <<v, w>> /\ Road(ps, <<b, a>>) = <<w, v>>
    BY DEF Road
  <2>3. <<a, b>> \in ms /\ <<b, a>> \in ms /\ \A l \in ls : l \in ms
    OBVIOUS
  <2>4. \A l \in ms : l \in ls \/ l = <<a, b>> \/ l = <<b, a>>
    OBVIOUS
  <2> HIDE DEF v, w
  <2>5. Roads(ps, ms) = Roads(ps, ls) \cup {<<v, w>>, <<w, v>>}
    <3>1. {l \in ms : Exists(l, ps)}
             = {l \in ls : Exists(l, ps)} \cup {<<a, b>>, <<b, a>>}
      BY <1>2, <1>4
    <3>2. /\ Roads(ps, ls) = {Road(ps, l) : l \in {l \in ls : Exists(l, ps)}}
          /\ Roads(ps, ms) = {Road(ps, l) : l \in {l \in ms : Exists(l, ps)}}
      BY DEF Roads, Road
    <3> QED BY <2>2, <3>1, <3>2
  <2>6. Strays(ps, ms) <=> Strays(ps, ls)
    <3>1. (\E l \in ms : ~Exists(l, ps)) <=> (\E l \in ls : ~Exists(l, ps))
      BY <1>2, <1>4, <2>3, <2>4
    <3> QED BY <3>1 DEF Strays
  <2>7. Strays(ps, ms) = Strays(ps, ls)
    BY <1>1, <2>6, RoadsSpec
  <2> QED BY <2>1, <2>5, <2>7
<1> QED BY <1>3, <1>4

\* Taking a lane away takes the road between two places, both ways, or nothing.
LEMMA DelLaneDraws ==
    ASSUME NEW ps \in Seq(Nat), Distinct(ps), NEW ls \in SUBSET (Int \X Int),
           NEW a \in Int, NEW b \in Int, NEW ms, ms = Without(ls, a, b)
    PROVE  \/ Roads(ps, ms) = Roads(ps, ls)
           \/ /\ \E v, w \in ToSet(ps) :
                    Roads(ps, ms) = Roads(ps, ls) \ {<<v, w>>, <<w, v>>}
              /\ Strays(ps, ms) = Strays(ps, ls)
<1> DEFINE there == a \in 0..(Len(ps) - 1) /\ b \in 0..(Len(ps) - 1)
<1>1. \A l \in ls : l \in ms <=> {l[1], l[2]} # {a, b}
  BY DEF Without
<1>2. ms \subseteq ls
  BY DEF Without
<1>3. \A l \in ls : {l[1], l[2]} = {a, b} => (Exists(l, ps) <=> there)
  BY DEF Exists
<1>4. /\ Roads(ps, ls) = {Road(ps, l) : l \in {l \in ls : Exists(l, ps)}}
      /\ Roads(ps, ms) = {Road(ps, l) : l \in {l \in ms : Exists(l, ps)}}
  BY DEF Roads, Road
<1>5. CASE ~there
  <2> HIDE DEF there
  <2>1. {l \in ms : Exists(l, ps)} = {l \in ls : Exists(l, ps)}
    BY <1>1, <1>2, <1>3, <1>5
  <2> QED BY <1>4, <2>1
<1>6. CASE there
  <2> DEFINE v == ps[a + 1]
             w == ps[b + 1]
  <2>1. v \in ToSet(ps) /\ w \in ToSet(ps)
    BY <1>6, SitesSpec
  <2>2. ASSUME NEW l \in ls, Exists(l, ps)
        PROVE  {l[1], l[2]} = {a, b} <=> Road(ps, l) \in {<<v, w>>, <<w, v>>}
    <3>1. l[1] \in 0..(Len(ps) - 1) /\ l[2] \in 0..(Len(ps) - 1)
      BY <2>2, RoadsSpec
    <3>2. /\ ps[l[1] + 1] = v <=> l[1] = a
          /\ ps[l[1] + 1] = w <=> l[1] = b
          /\ ps[l[2] + 1] = v <=> l[2] = a
          /\ ps[l[2] + 1] = w <=> l[2] = b
      BY <1>6, <3>1, DistinctSpec
    <3> HIDE DEF v, w
    <3> QED BY <3>2 DEF Road
  <2> HIDE DEF v, w, there
  <2>3. Roads(ps, ms) = Roads(ps, ls) \ {<<v, w>>, <<w, v>>}
    BY <1>1, <1>2, <1>4, <2>2
  <2>4. Strays(ps, ms) <=> Strays(ps, ls)
    BY <1>1, <1>2, <1>3, <1>6 DEF Strays
  <2>5. Strays(ps, ms) = Strays(ps, ls)
    BY <2>4 DEF Strays
  <2> QED BY <2>1, <2>3, <2>5
<1> QED BY <1>5, <1>6

\* What remains of the places.
LEMMA RemainingSites ==
    ASSUME NEW ps \in Seq(Nat), Distinct(ps), NEW i \in 0..(Len(ps) - 1),
           NEW qs, qs = RemoveAt(ps, i + 1)
    PROVE  /\ qs \in Seq(Nat) /\ Len(qs) = Len(ps) - 1
           /\ Distinct(qs)
           /\ ToSet(qs) = ToSet(ps) \ {ps[i + 1]}
<1> DEFINE v == ps[i + 1]
<1>1. Len(ps) \in Nat /\ i + 1 \in 1..Len(ps) /\ i \in Nat
  BY LenProperties
<1>2. /\ qs \in Seq(Nat) /\ Len(qs) = Len(ps) - 1
      /\ \A k \in 1..(Len(ps) - 1) : qs[k] = IF k < i + 1 THEN ps[k] ELSE ps[k + 1]
  BY <1>1, RemoveAtSpec
<1> DEFINE From(k) == IF k < i + 1 THEN k ELSE k + 1
<1>3. ASSUME NEW k \in 1..(Len(ps) - 1)
      PROVE  From(k) \in 1..Len(ps) /\ From(k) # i + 1 /\ qs[k] = ps[From(k)]
  <2>1. k \in Int /\ 1 <= k /\ k <= Len(ps) - 1
    BY <1>1
  <2>2. qs[k] = IF k < i + 1 THEN ps[k] ELSE ps[k + 1]
    BY <1>2
  <2>3. From(k) \in 1..Len(ps) /\ From(k) # i + 1
    BY <1>1, <2>1
  <2>4. qs[k] = ps[From(k)]
    BY ONLY <2>2
  <2> QED BY <2>3, <2>4
<1>4. ASSUME NEW j \in 1..Len(ps), j # i + 1
      PROVE  \E k \in 1..(Len(ps) - 1) : From(k) = j
  <2>1. CASE j < i + 1
    <3>1. j \in 1..(Len(ps) - 1) /\ From(j) = j
      BY <1>1, <2>1
    <3> QED BY <3>1
  <2>2. CASE ~(j < i + 1)
    <3>1. j - 1 \in 1..(Len(ps) - 1) /\ From(j - 1) = j
      BY <1>1, <1>4, <2>2
    <3> QED BY <3>1
  <2> QED BY <2>1, <2>2
<1>5. \A j, k \in 1..(Len(ps) - 1) : From(j) = From(k) => j = k
  BY <1>1
<1>6. \A j \in 1..Len(ps) : ps[j] = v <=> j = i + 1
  BY <1>1 DEF Distinct
<1>7. /\ ToSet(qs) = {qs[k] : k \in 1..(Len(ps) - 1)}
      /\ ToSet(ps) = {ps[j] : j \in 1..Len(ps)}
  BY <1>2, SitesSpec
<1> HIDE DEF v, From
<1>8. ToSet(qs) = ToSet(ps) \ {v}
  <2>1. \A x \in ToSet(qs) : x \in ToSet(ps) \ {v}
    <3>1. \A k \in 1..(Len(ps) - 1) : qs[k] \in ToSet(ps) /\ qs[k] # v
      BY <1>3, <1>6, <1>7
    <3> QED BY <1>7, <3>1
  <2>2. \A x \in ToSet(ps) \ {v} : x \in ToSet(qs)
    <3>1. ASSUME NEW j \in 1..Len(ps), ps[j] # v PROVE ps[j] \in ToSet(qs)
      <4>1. PICK k \in 1..(Len(ps) - 1) : From(k) = j
        BY <1>4, <1>6, <3>1
      <4>2. qs[k] = ps[j]
        BY <1>3, <4>1
      <4> QED BY <1>7, <4>2
    <3> QED BY <1>7, <3>1
  <2> QED BY <2>1, <2>2
<1>9. Distinct(qs)
  <2>1. ASSUME NEW j \in 1..Len(qs), NEW k \in 1..Len(qs), qs[j] = qs[k]
        PROVE  j = k
    <3>1. j \in 1..(Len(ps) - 1) /\ k \in 1..(Len(ps) - 1)
      BY <1>2
    <3>2. From(j) = From(k)
      BY <1>3, <2>1, <3>1 DEF Distinct
    <3> QED BY <1>5, <3>1, <3>2
  <2> QED BY <2>1 DEF Distinct
<1> QED BY <1>2, <1>8, <1>9 DEF v

\* Deleting a vertex takes its place with its roads and no other one, although
\* all indices behind it move.
LEMMA DelVertexDraws ==
    ASSUME NEW ps \in Seq(Nat), Distinct(ps), NEW ls \in SUBSET (Int \X Int),
           NEW i \in 0..(Len(ps) - 1), NEW qs, qs = RemoveAt(ps, i + 1),
           NEW ms, ms = Renumbered(ls, i)
    PROVE  /\ \E v \in ToSet(ps) :
                 /\ ToSet(qs) = ToSet(ps) \ {v}
                 /\ Roads(qs, ms) = {r \in Roads(ps, ls) : v \notin {r[1], r[2]}}
           /\ Strays(qs, ms) => Strays(ps, ls)
<1> DEFINE v == ps[i + 1]
           Moved(l) == <<Pulled(l[1], i), Pulled(l[2], i)>>
           rest == {l \in ls : i \notin {l[1], l[2]}}
<1>1. /\ v \in ToSet(ps) /\ ToSet(qs) = ToSet(ps) \ {v}
      /\ qs \in Seq(Nat) /\ Len(qs) = Len(ps) - 1 /\ Len(ps) \in Nat
  BY RemainingSites, SitesSpec, LenProperties
<1>2. ASSUME NEW a \in Int, a # i
      PROVE  /\ Pulled(a, i) \in Int
             /\ Pulled(a, i) \in 0..(Len(qs) - 1) <=> a \in 0..(Len(ps) - 1)
             /\ a \in 0..(Len(ps) - 1) => qs[Pulled(a, i) + 1] = ps[a + 1]
  <2>1. 0..(Len(qs) - 1) = 0..(Len(ps) - 2)
    BY <1>1
  <2> QED BY <1>2, <2>1, PulledSpec
<1>3. ASSUME NEW l \in rest
      PROVE  /\ Exists(Moved(l), qs) <=> Exists(l, ps)
             /\ Exists(l, ps) => Road(qs, Moved(l)) = Road(ps, l)
  <2>1. l[1] \in Int /\ l[2] \in Int /\ l[1] # i /\ l[2] # i
    OBVIOUS
  <2>2. /\ Pulled(l[1], i) \in 0..(Len(qs) - 1) <=> l[1] \in 0..(Len(ps) - 1)
        /\ Pulled(l[2], i) \in 0..(Len(qs) - 1) <=> l[2] \in 0..(Len(ps) - 1)
        /\ l[1] \in 0..(Len(ps) - 1) => qs[Pulled(l[1], i) + 1] = ps[l[1] + 1]
        /\ l[2] \in 0..(Len(ps) - 1) => qs[Pulled(l[2], i) + 1] = ps[l[2] + 1]
    BY <1>2, <2>1
  <2>3. /\ Exists(l, ps) <=> l[1] \in 0..(Len(ps) - 1) /\ l[2] \in 0..(Len(ps) - 1)
        /\ Exists(Moved(l), qs) <=> /\ Pulled(l[1], i) \in 0..(Len(qs) - 1)
                                    /\ Pulled(l[2], i) \in 0..(Len(qs) - 1)
    BY DEF Exists
  <2> QED BY <2>2, <2>3 DEF Road
<1>4. ASSUME NEW l \in ls, Exists(l, ps)
      PROVE  l \in rest <=> v \notin {Road(ps, l)[1], Road(ps, l)[2]}
  <2>1. l[1] \in 0..(Len(ps) - 1) /\ l[2] \in 0..(Len(ps) - 1)
    BY <1>4, RoadsSpec
  <2>2. (v = ps[l[1] + 1] <=> i = l[1]) /\ (v = ps[l[2] + 1] <=> i = l[2])
    BY <2>1, DistinctSpec
  <2> HIDE DEF v
  <2> QED BY <2>2 DEF Road
<1>5. ms = {Moved(l) : l \in rest} /\ rest \subseteq ls
  BY DEF Renumbered
<1>6. /\ Roads(ps, ls) = {Road(ps, l) : l \in {l \in ls : Exists(l, ps)}}
      /\ Roads(qs, ms) = {Road(qs, l) : l \in {l \in ms : Exists(l, qs)}}
  BY DEF Roads, Road
<1> HIDE DEF v, Moved, rest
<1>7. Roads(qs, ms) = {r \in Roads(ps, ls) : v \notin {r[1], r[2]}}
  <2>1. ASSUME NEW r \in Roads(qs, ms)
        PROVE  r \in Roads(ps, ls) /\ v \notin {r[1], r[2]}
    <3>1. PICK m \in ms : Exists(m, qs) /\ r = Road(qs, m)
      BY <1>6
    <3>2. PICK l \in rest : m = Moved(l)
      BY <1>5
    <3>3. l \in ls /\ Exists(l, ps) /\ r = Road(ps, l)
      BY <1>3, <1>5, <3>1, <3>2
    <3> QED BY <1>4, <1>6, <3>2, <3>3
  <2>2. ASSUME NEW r \in Roads(ps, ls), v \notin {r[1], r[2]}
        PROVE  r \in Roads(qs, ms)
    <3>1. PICK l \in ls : Exists(l, ps) /\ r = Road(ps, l)
      BY <1>6
    <3>2. l \in rest
      BY <1>4, <2>2, <3>1
    <3>3. Moved(l) \in ms /\ Exists(Moved(l), qs) /\ r = Road(qs, Moved(l))
      BY <1>3, <1>5, <3>1, <3>2
    <3> QED BY <1>6, <3>3
  <2> QED BY <2>1, <2>2
<1>8. Strays(qs, ms) => Strays(ps, ls)
  BY <1>3, <1>5 DEF Strays
<1> QED BY <1>1, <1>7, <1>8

\* What an edit makes of the vertices, whatever other edits do meanwhile.
LEMMA EditPlaces ==
    ASSUME TypeOK, NEW e \in Editor, Edit(e)
    PROVE  \/ places' = places /\ edits' \in {edits, edits + 1}
           \/ /\ places' = Append(places, Len(StartGraph.places) + edits + 1)
              /\ edits' = edits + 1
           \/ /\ \E i \in 0..(Len(places) - 1) : places' = RemoveAt(places, i + 1)
              /\ edits' = edits + 1
<1>1. CASE add_vertex(e)
  BY <1>1 DEF add_vertex, Begin
<1>2. CASE \E a, b \in Number : add_lane(e, a, b) \/ del_lane(e, a, b)
  BY <1>2 DEF add_lane, del_lane, Begin
<1>3. CASE \E i \in Number : del_vertex(e, i)
  BY <1>3 DEF del_vertex, Begin
<1>4. CASE AppendBack(e) \/ Relane(e) \/ AssignLanes(e)
  BY <1>4 DEF AppendBack, Relane, AssignLanes
<1> QED BY <1>1, <1>2, <1>3, <1>4 DEF Edit

\* The vertices stay different places.
LEMMA EditKeepsFit ==
    ASSUME TypeOK, DrawingFits, NEW e \in Editor, Edit(e)
    PROVE  DrawingFits'
<1> DEFINE N == Len(StartGraph.places)
<1>1. /\ places \in Seq(Nat) /\ N \in Nat /\ edits \in Nat /\ edits' \in Nat
      /\ places' \in Seq(Nat) /\ Len(places) \in Nat
  BY EditKeepsTypes, LenProperties, StartAssumption DEF TypeOK
<1>2. /\ Distinct(places)
      /\ \A x \in ToSet(places) : x \in Nat /\ x <= N + edits
  BY <1>1, SitesSpec, ElementOfSeq DEF DrawingFits, Distinct
<1> HIDE DEF N
<1>3. ASSUME Distinct(places'), \A x \in ToSet(places') : x <= N + edits'
      PROVE  DrawingFits'
  <2>1. ToSet(places') = {places'[k] : k \in 1..Len(places')}
    BY <1>1, SitesSpec
  <2> QED BY <1>3, <2>1 DEF DrawingFits, Distinct, N
<1>4. CASE places' = places /\ edits' \in {edits, edits + 1}
  BY <1>1, <1>2, <1>3, <1>4
<1>5. CASE places' = Append(places, N + edits + 1) /\ edits' = edits + 1
  <2> DEFINE v == N + edits + 1
             n == Len(places)
  <2>1. v \in Nat /\ v \notin ToSet(places)
    BY <1>1, <1>2
  <2>2. ToSet(places') = ToSet(places) \cup {v}
    BY <1>1, <1>5, <2>1, AddedSite
  <2>3. \A x \in ToSet(places') : x <= N + edits'
    BY <1>1, <1>2, <1>5, <2>2
  <2>4. /\ Len(places') = n + 1 /\ places'[n + 1] = v
        /\ \A k \in 1..n : places'[k] = places[k] /\ places[k] \in ToSet(places)
    BY <1>1, <1>5, <2>1, AddedSite, SitesSpec
  <2> HIDE DEF v
  <2>5. Distinct(places')
    <3>1. ASSUME NEW j \in 1..(n + 1), NEW k \in 1..(n + 1), places'[j] = places'[k]
          PROVE  j = k
      <4>1. (j \in 1..n \/ j = n + 1) /\ (k \in 1..n \/ k = n + 1)
        BY <1>1
      <4>2. \A h \in 1..n : places'[h] # v
        BY <2>1, <2>4
      <4> QED BY <1>2, <2>4, <3>1, <4>1, <4>2 DEF Distinct
    <3> QED BY <2>4, <3>1 DEF Distinct
  <2> QED BY <1>3, <2>3, <2>5
<1>6. CASE /\ \E i \in 0..(Len(places) - 1) : places' = RemoveAt(places, i + 1)
           /\ edits' = edits + 1
  <2>1. PICK i \in 0..(Len(places) - 1) : places' = RemoveAt(places, i + 1)
    BY <1>6
  <2>2. Distinct(places') /\ ToSet(places') = ToSet(places) \ {places[i + 1]}
    BY <1>1, <1>2, <2>1, RemainingSites
  <2> QED BY <1>1, <1>2, <1>3, <1>6, <2>2
<1> QED BY <1>4, <1>5, <1>6, EditPlaces DEF N

\* An edit that meets no other one is a stroke.
LEMMA EditIsStroke ==
    ASSUME TypeOK, DrawingFits, EditsApart, NEW e \in Editor, Edit(e), ~crossed'
    PROVE  Drawing!Step
<1> DEFINE D == Finished(hand, lanes)
           E == Finished(hand', lanes')
           v == Len(StartGraph.places) + edits + 1
<1>1. Edited(places', places, E, D)
  BY EditSpec
<1>2. /\ places \in Seq(Nat) /\ D \in SUBSET (Int \X Int)
      /\ Distinct(places) /\ v \in Nat /\ v \notin ToSet(places)
  <2>1. places \in Seq(Nat) /\ Distinct(places)
    BY DEF TypeOK, DrawingFits, Distinct
  <2>2. \A o \in Editor : Outcome(hand[o], lanes) \in SUBSET (Int \X Int)
    BY OutcomeSpec DEF TypeOK
  <2>3. D \in SUBSET (Int \X Int)
    BY <2>2 DEF Finished, TypeOK
  <2>4. v \in Nat /\ \A k \in 1..Len(places) : places[k] < v
    BY LenProperties, ElementOfSeq, StartAssumption DEF TypeOK, DrawingFits
  <2>5. v \notin ToSet(places)
    BY <2>1, <2>4, SitesSpec
  <2> QED BY <2>1, <2>3, <2>4, <2>5
<1>3. /\ ToSet(places)' = ToSet(places')
      /\ Roads(places, Finished(hand, lanes))' = Roads(places', E)
      /\ Strays(places, Finished(hand, lanes))' = Strays(places', E)
  OBVIOUS
<1>4. Strays(places, D) \in BOOLEAN /\ Strays(places', E) \in BOOLEAN
  BY DEF Strays
<1> HIDE DEF D, E, v
<1>5. CASE places' = Append(places, v) /\ E = D
  <2>1. ToSet(places') = ToSet(places) \cup {v}
    BY <1>2, <1>5, AddedSite
  <2>2. /\ Roads(places, D) \subseteq Roads(places', D)
        /\ \A r \in Roads(places', D) \ Roads(places, D) : v \in {r[1], r[2]}
        /\ ~Strays(places, D) =>
              ~Strays(places', D) /\ Roads(places', D) = Roads(places, D)
    <3>1. \A qs : qs = Append(places, v) =>
             /\ Roads(places, D) \subseteq Roads(qs, D)
             /\ \A r \in Roads(qs, D) \ Roads(places, D) : v \in {r[1], r[2]}
             /\ ~Strays(places, D) => ~Strays(qs, D) /\ Roads(qs, D) = Roads(places, D)
      BY <1>2, AddVertexDraws
    <3> QED BY <1>5, <3>1
  <2>3. v \in ToSet(places') \ ToSet(places)
    BY <1>2, <2>1
  <2>4. CASE Strays(places, D)
    <3>1. Drawing!StraySite
      BY <1>3, <1>5, <2>1, <2>2, <2>3, <2>4 DEF Drawing!StraySite, D
    <3> QED BY <3>1 DEF Drawing!Step, Drawing!Stroke
  <2>5. CASE ~Strays(places, D)
    <3>1. Drawing!AddSite
      BY <1>3, <1>4, <1>5, <2>1, <2>2, <2>3, <2>5 DEF Drawing!AddSite, D
    <3> QED BY <3>1 DEF Drawing!Step, Drawing!Stroke
  <2> QED BY <2>4, <2>5
<1>6. CASE places' = places /\ \E a, b \in Int : a # b /\ E = D \cup {<<a, b>>, <<b, a>>}
  <2>1. PICK a \in Int, b \in Int : a # b /\ E = Joined(D, a, b)
    BY <1>6 DEF Joined
  <2>2. \/ Roads(places, E) = Roads(places, D)
        \/ /\ \E x, w \in ToSet(places) :
                 x # w /\ Roads(places, E) = Joined(Roads(places, D), x, w)
           /\ Strays(places, E) = Strays(places, D)
    BY <1>2, <2>1, AddLaneDraws
  <2>3. Drawing!StrayRoad \/ Drawing!AddRoad
    BY <1>3, <1>6, <2>2 DEF Drawing!StrayRoad, Drawing!AddRoad, D, Joined
  <2> QED BY <2>3 DEF Drawing!Step, Drawing!Stroke
<1>7. CASE places' = places /\ \E a, b \in Int : E = Without(D, a, b)
  <2>1. PICK a \in Int, b \in Int : E = Without(D, a, b)
    BY <1>7
  <2>2. \/ Roads(places, E) = Roads(places, D)
        \/ /\ \E x, w \in ToSet(places) :
                 Roads(places, E) = Roads(places, D) \ {<<x, w>>, <<w, x>>}
           /\ Strays(places, E) = Strays(places, D)
    BY <1>2, <2>1, DelLaneDraws
  <2>3. Drawing!StrayRoad \/ Drawing!RemoveRoad
    BY <1>3, <1>7, <2>2 DEF Drawing!StrayRoad, Drawing!RemoveRoad, D
  <2> QED BY <2>3 DEF Drawing!Step, Drawing!Stroke
<1>8. CASE \E i \in 0..(Len(places) - 1) :
              places' = RemoveAt(places, i + 1) /\ E = Renumbered(D, i)
  <2>1. /\ \E x \in ToSet(places) :
              /\ ToSet(places') = ToSet(places) \ {x}
              /\ Roads(places', E) = {r \in Roads(places, D) : x \notin {r[1], r[2]}}
        /\ Strays(places', E) => Strays(places, D)
    BY <1>2, <1>8, DelVertexDraws
  <2>2. Drawing!RemoveSite
    BY <1>3, <2>1 DEF Drawing!RemoveSite, D
  <2> QED BY <2>2 DEF Drawing!Step, Drawing!Stroke
<1>9. CASE places' = places /\ E = D
  BY <1>3, <1>9 DEF Drawing!Step, D
<1> QED BY <1>1, <1>5, <1>6, <1>7, <1>8, <1>9 DEF Edited, v

-----------------------------------------------------------------------------
(* What is on its way to the node                                          *)

\* Saves and the node leave the drawing alone.
LEMMA RestTouches ==
    ASSUME (\E s \in Session : Save(s)) \/ Fleet
    PROVE  UNCHANGED <<places, lanes, edits, hand, crossed>>
<1>1. UNCHANGED <<drawing, crossed>>
  <2>1. ASSUME NEW s \in Session, Save(s)
        PROVE  UNCHANGED <<drawing, crossed>>
    BY <2>1 DEF Save, CopyVertices, CopyLanes, Truncate, Dump, Close, Call,
                Answered, TimedOut, console
  <2>2. CASE Fleet
    BY <2>2 DEF Fleet, Crash, Start, on_reload, Reload, ReloadThrows, on_submit,
                on_timer, start_patrol, ServeTask, TimerThrows, console
  <2> QED BY <2>1, <2>2
<1> QED BY <1>1 DEF drawing

\* Once edits have met, that is not forgotten.
LEMMA CrossedStays ==
    ASSUME TypeOK, EditsApart, Next, ~crossed'
    PROVE  ~crossed
BY EditSpec, RestTouches DEF Next

\* The documents the console makes, the file and what the node runs on lead
\* back, if no edit met another one and the save met no edit.
LEMMA TextsStayLead ==
    ASSUME TypeOK, EditsApart, TextsLeadBack, Next
    PROVE  TextsLeadBack'
<1>1. /\ LeadsBack(full) /\ LeadsBack(file.text) /\ LeadsBack(graph)
      /\ \A s \in Session : LeadsBack(session[s].text) /\ session[s] \in SaveStep
      /\ up => graph.places # <<>>
      /\ full \in Text /\ file.text \in Text
  BY DEF TextsLeadBack, TypeOK
<1>2. ~crossed' => ~crossed
  BY CrossedStays
<1> DEFINE After(text) == ~crossed' /\ ~text.half => BothWays(text.lanes)
<1>3. \A text : LeadsBack(text) => After(text)
  BY <1>2 DEF LeadsBack
<1>4. After(NoText)
  BY NothingYet DEF BothWays
<1>5. ASSUME After(full'), After(file'.text), After(graph'),
             \A s \in Session : After(session'[s].text), up' => graph'.places # <<>>
      PROVE  TextsLeadBack'
  BY <1>5 DEF TextsLeadBack, LeadsBack
<1> HIDE DEF After
<1>6. ASSUME NEW e \in Editor, Edit(e) PROVE TextsLeadBack'
  BY <1>1, <1>3, <1>5, <1>6, EditTouches
<1>7. ASSUME NEW s \in Session, NEW step \in SaveStep, Goes(s, step), After(step.text)
      PROVE  \A o \in Session : After(session'[o].text)
  BY <1>1, <1>3, <1>7, GoesSpec
<1>8. ASSUME NEW s \in Session, NEW answer \in Answers, Says(s, answer)
      PROVE  \A o \in Session : After(session'[o].text)
  <2>1. \A o \in Session : \/ session'[o] = session[o] \/ session'[o] = Ready
                           \/ session'[o] = [session[o] EXCEPT !.pc = "ready"]
    BY <1>8, SaysSpec
  <2>2. \A x \in SaveStep : [x EXCEPT !.pc = "ready"].text = x.text
    BY DEF SaveStep
  <2>3. Ready.text = NoText
    BY DEF Ready
  <2>4. \A o \in Session : session'[o].text \in {session[o].text, NoText}
    BY <1>1, <2>1, <2>2, <2>3
  <2> QED BY <1>1, <1>3, <1>4, <2>4
<1>9. ASSUME NEW s \in Session, CopyVertices(s) PROVE TextsLeadBack'
  <2> DEFINE step == [Ready EXCEPT !.pc = "vertices", !.stamp = saves + 1]
  <2>1. step \in SaveStep /\ step.text = NoText
    <3>1. saves + 1 \in Nat
      BY DEF TypeOK
    <3> QED BY <3>1, NothingYet DEF SaveStep, Ready
  <2>2. /\ Goes(s, step) /\ full' = [full EXCEPT !.places = places]
        /\ UNCHANGED <<file, up, graph>>
    BY <1>9 DEF CopyVertices, node
  <2> HIDE DEF step
  <2>3. LeadsBack(full')
    BY <1>1, <2>2 DEF LeadsBack, Text
  <2>4. \A o \in Session : After(session'[o].text)
    BY <1>4, <1>7, <2>1, <2>2
  <2> QED BY <1>1, <1>3, <1>5, <2>2, <2>3, <2>4
<1>10. ASSUME NEW s \in Session, CopyLanes(s) PROVE TextsLeadBack'
  <2> DEFINE step == [session[s] EXCEPT !.pc = "lanes"]
  <2>1. step \in SaveStep /\ step.text = session[s].text
    BY <1>1 DEF SaveStep
  <2>2. /\ Goes(s, step) /\ UNCHANGED <<crossed, file, up, graph>>
        /\ full' = [full EXCEPT !.stamp = saves, !.lanes = lanes, !.half = Unfinished]
    BY <1>10 DEF CopyLanes, node
  <2> HIDE DEF step
  <2>3. full'.lanes = lanes /\ full'.half = Unfinished
    BY <1>1, <2>2 DEF Text
  <2>4. ASSUME ~crossed, ~Unfinished
        PROVE  BothWays(lanes)
    <3>1. Finished(hand, lanes) = lanes
      BY <2>4, FinishedSpec DEF Unfinished
    <3> QED BY <2>4, <3>1 DEF EditsApart
  <2>5. After(full')
    BY <2>2, <2>3, <2>4 DEF After
  <2>6. \A o \in Session : After(session'[o].text)
    BY <1>1, <1>3, <1>7, <2>1, <2>2
  <2> QED BY <1>1, <1>3, <1>5, <2>2, <2>5, <2>6
<1>11. ASSUME NEW s \in Session, Truncate(s) PROVE TextsLeadBack'
  <2> DEFINE step == [session[s] EXCEPT !.pc = "open"]
  <2>1. step \in SaveStep /\ step.text = session[s].text
    BY <1>1 DEF SaveStep
  <2>2. /\ Goes(s, step) /\ UNCHANGED <<full, up, graph>> /\ file'.text = NoText
    BY <1>11 DEF Truncate, Empty, node
  <2> HIDE DEF step
  <2>3. \A o \in Session : After(session'[o].text)
    BY <1>1, <1>3, <1>7, <2>1, <2>2
  <2> QED BY <1>1, <1>3, <1>4, <1>5, <2>2, <2>3
<1>12. ASSUME NEW s \in Session, Dump(s) PROVE TextsLeadBack'
  <2> DEFINE late == \E o \in Session :
                        session[o].pc = "dumped" /\ session[o].text.stamp < session[s].stamp
             step == [session[s] EXCEPT !.pc = "dumped", !.text = full, !.overtaken = late]
  <2>1. step \in SaveStep /\ step.text = full
    BY <1>1 DEF SaveStep
  <2>2. Goes(s, step) /\ UNCHANGED <<full, file, up, graph>>
    BY <1>12 DEF Dump, node
  <2> HIDE DEF step
  <2>3. \A o \in Session : After(session'[o].text)
    BY <1>1, <1>3, <1>7, <2>1, <2>2
  <2> QED BY <1>1, <1>3, <1>5, <2>2, <2>3
<1>13. ASSUME NEW s \in Session, Close(s) PROVE TextsLeadBack'
  <2> DEFINE step == [session[s] EXCEPT !.pc = "saved", !.text = NoText]
  <2>1. step \in SaveStep /\ step.text = NoText
    BY <1>1, NothingYet DEF SaveStep
  <2>2. /\ Goes(s, step) /\ UNCHANGED <<full, up, graph>>
        /\ file'.text = session[s].text
    BY <1>13 DEF Close, Whole, console, node
  <2> HIDE DEF step
  <2>3. \A o \in Session : After(session'[o].text)
    BY <1>4, <1>7, <2>1, <2>2
  <2> QED BY <1>1, <1>3, <1>5, <2>2, <2>3
<1>14. ASSUME NEW s \in Session, Call(s) PROVE TextsLeadBack'
  <2>1. UNCHANGED <<full, file, up, graph>>
    BY <1>14 DEF Call, console
  <2>2. \A o \in Session : After(session'[o].text)
    <3>1. CASE up
      <4> DEFINE step == [session[s] EXCEPT !.pc = "waiting"]
      <4>1. step \in SaveStep /\ step.text = session[s].text /\ Goes(s, step)
        BY <1>1, <1>14, <3>1 DEF Call, SaveStep
      <4> HIDE DEF step
      <4> QED BY <1>1, <1>3, <1>7, <4>1
    <3>2. CASE ~up
      <4>1. "unconnected" \in Answers /\ Says(s, "unconnected")
        BY <1>14, <3>2 DEF Call, Answers
      <4> QED BY <1>8, <4>1
    <3> QED BY <3>1, <3>2
  <2> QED BY <1>1, <1>3, <1>5, <2>1, <2>2
<1>15. ASSUME NEW s \in Session, Answered(s) \/ TimedOut(s) PROVE TextsLeadBack'
  <2>1. UNCHANGED <<full, file, up, graph>>
    BY <1>15 DEF Answered, TimedOut, console, node
  <2>2. \E answer \in Answers : Says(s, answer)
    BY <1>1, <1>15 DEF Answered, TimedOut, SaveStep, Answers
  <2> QED BY <1>1, <1>3, <1>5, <1>8, <2>1, <2>2
<1>16. load(file).places = file.text.places /\ LeadsBack(load(file))
  <2>1. /\ load(file).places = file.text.places /\ load(file).half = file.text.half
        /\ BothWays(file.text.lanes) => BothWays(load(file).lanes)
    BY <1>1, LoadSpec
  <2> QED BY <1>1, <2>1 DEF LeadsBack
<1>17. CASE Start
  <2>1. /\ UNCHANGED <<full, file, session>> /\ graph' = load(file)
        /\ file.text.places # <<>>
    BY <1>17 DEF Start, Loadable, console
  <2> QED BY <1>1, <1>3, <1>5, <1>16, <2>1
<1>18. CASE Reload
  <2>1. UNCHANGED <<full, file, up>>
    BY <1>18 DEF Reload, console
  <2>2. \/ graph' = graph
        \/ graph' = load(file) /\ file.text.places # <<>>
    BY <1>18 DEF Reload, Loadable
  <2>3. \E answer \in {"reloaded", "load failed"} : Reply(answer)
    BY <1>18 DEF Reload
  <2>4. \A s \in Session : session'[s].text = session[s].text
    BY <1>1, <2>3, ReplySpec DEF SaveStep
  <2> QED BY <1>1, <1>3, <1>5, <1>16, <2>1, <2>2, <2>4
<1>19. CASE Crash \/ ReloadThrows \/ TimerThrows
  <2>1. UNCHANGED <<full, file, session, graph>> /\ ~up'
    BY <1>19 DEF Crash, ReloadThrows, TimerThrows, Dies, console
  <2> QED BY <1>1, <1>3, <1>5, <2>1
<1>20. CASE on_submit \/ start_patrol \/ ServeTask
  <2>1. UNCHANGED <<full, file, session, up, graph>>
    BY <1>20 DEF on_submit, start_patrol, ServeTask, console
  <2> QED BY <1>1, <1>3, <1>5, <2>1
<1>21. CASE Fleet
  BY <1>17, <1>18, <1>19, <1>20, <1>21 DEF Fleet, on_reload, on_timer
<1>22. ASSUME NEW s \in Session, Save(s) PROVE TextsLeadBack'
  BY <1>9, <1>10, <1>11, <1>12, <1>13, <1>14, <1>15, <1>22 DEF Save
<1> QED BY <1>6, <1>21, <1>22 DEF Next

-----------------------------------------------------------------------------
(* Saves in order                                                          *)

\* Before a save has made its text, and after that.
Early == {"vertices", "lanes", "open"}

InOrder(s) ==
    /\ session[s].stamp <= saves
    /\ session[s].pc # "vertices" => full.stamp >= session[s].stamp
    /\ session[s].pc = "dumped" => session[s].text.stamp >= session[s].stamp
    /\ session[s].pc \in Early => session[s].reply = "none"
    /\ session[s].pc \notin Early /\ ~session[s].overtaken =>
          /\ \A o \in Session :
                session[o].pc = "dumped" => session[o].text.stamp >= session[s].stamp
          /\ \/ session[s].pc = "dumped"
             \/ file.kind = "empty"
             \/ file.text.stamp >= session[s].stamp
          /\ session[s].reply = "reloaded" =>
                /\ session[s].pc \in {"waiting", "ready"}
                /\ graph.stamp >= session[s].stamp

\* SavesInOrder session by session.
LEMMA InOrderSpec ==
    ASSUME TypeOK
    PROVE  /\ SavesInOrder <=> full.stamp <= saves /\ \A s \in Session : InOrder(s)
           /\ SavesInOrder' <=> full'.stamp <= saves' /\ \A s \in Session : InOrder(s)'
           /\ saves \in Nat /\ full.stamp \in Nat /\ file.text.stamp \in Nat
           /\ graph.stamp \in Nat
           /\ \A s \in Session :
                 /\ session[s] \in SaveStep /\ session[s].stamp \in Nat
                 /\ session[s].text.stamp \in Nat
<1>1. /\ SavesInOrder <=> full.stamp <= saves /\ \A s \in Session : InOrder(s)
      /\ SavesInOrder' <=> full'.stamp <= saves' /\ \A s \in Session : InOrder(s)'
  BY DEF SavesInOrder, InOrder, Early
<1>2. /\ saves \in Nat /\ full.stamp \in Nat /\ file.text.stamp \in Nat
      /\ graph.stamp \in Nat
  BY DEF TypeOK, Text
<1>3. \A s \in Session : /\ session[s] \in SaveStep /\ session[s].stamp \in Nat
                         /\ session[s].text.stamp \in Nat
  BY DEF TypeOK, SaveStep, Text
<1> QED BY <1>1, <1>2, <1>3

\* A session that stays as it is, is free, or goes on behind its write.
Calm(new, old) ==
    \/ new = old
    \/ new = Ready
    \/ /\ old.pc \in {"saved", "waiting"} /\ new.pc \in {"waiting", "ready"}
       /\ new.stamp = old.stamp /\ new.overtaken = old.overtaken
       /\ new.reply \in {old.reply, "load failed"}

\* Nothing else needs to be known of a step that leaves document, file and
\* graph alone.
LEMMA CalmKeepsOrder ==
    ASSUME TypeOK, SavesInOrder, UNCHANGED <<full, saves, file, graph>>,
           \A s \in Session : Calm(session'[s], session[s])
    PROVE  SavesInOrder'
<1>1. /\ full.stamp <= saves
      /\ \A s \in Session : InOrder(s) /\ session[s].stamp \in Nat
                            /\ session[s].text.stamp \in Nat
      /\ saves \in Nat /\ full.stamp \in Nat /\ file.text.stamp \in Nat
  BY InOrderSpec
<1>2. /\ Ready.stamp = 0 /\ Ready.pc = "ready" /\ Ready.reply = "none"
  BY DEF Ready
<1>3. \A o \in Session : session'[o].pc = "dumped" => session'[o] = session[o]
  BY <1>2 DEF Calm
<1>4. ASSUME NEW s \in Session
      PROVE  InOrder(s)'
  <2>1. session[s].stamp \in Nat /\ InOrder(s)
    BY <1>1
  <2>2. CASE session'[s] = session[s]
    BY <1>3, <2>1, <2>2 DEF InOrder
  <2>3. CASE session'[s] = Ready
    <3>1. \A o \in Session : session'[o].pc = "dumped" => session'[o].text.stamp >= 0
      BY <1>1, <1>3
    <3> QED BY <1>1, <1>2, <2>3, <3>1 DEF InOrder, Early
  <2>4. CASE /\ session[s].pc \in {"saved", "waiting"}
             /\ session'[s].pc \in {"waiting", "ready"}
             /\ session'[s].stamp = session[s].stamp
             /\ session'[s].overtaken = session[s].overtaken
             /\ session'[s].reply \in {session[s].reply, "load failed"}
    BY <1>3, <2>1, <2>4 DEF InOrder, Early
  <2> QED BY <2>2, <2>3, <2>4 DEF Calm
<1> QED BY <1>1, <1>4, InOrderSpec

\* What a save does until its text is made: lists are copied into a document
\* that only gets newer, and the file is emptied.
LEMMA EarlyKeepsOrder ==
    ASSUME TypeOK, SavesInOrder, NEW s \in Session, NEW step \in SaveStep,
           Goes(s, step), step.pc \in Early, step.reply = "none",
           session[s].pc = "ready" \/ session[s].pc \in Early,
           saves' \in {saves, saves + 1}, graph' = graph,
           file' = file \/ file'.kind = "empty",
           full'.stamp \in {full.stamp, saves},
           step.stamp \in Nat, step.stamp <= saves',
           step.pc # "vertices" => full'.stamp >= step.stamp
    PROVE  SavesInOrder'
<1>1. /\ full.stamp <= saves /\ saves \in Nat /\ full.stamp \in Nat
      /\ \A r \in Session : InOrder(r) /\ session[r].stamp \in Nat
  BY InOrderSpec
<1>2. \A r \in Session : session'[r] = IF r = s THEN step ELSE session[r]
  BY GoesSpec
<1>3. full'.stamp >= full.stamp /\ full'.stamp <= saves' /\ saves <= saves'
      /\ full'.stamp \in Nat /\ saves' \in Nat
  BY <1>1
<1>4. \A o \in Session : session'[o].pc = "dumped" => session'[o] = session[o]
  BY <1>2 DEF Early
<1>5. InOrder(s)'
  BY <1>2 DEF InOrder, Early
<1>6. ASSUME NEW r \in Session, r # s
      PROVE  InOrder(r)'
  <2>1. session'[r] = session[r] /\ InOrder(r) /\ session[r].stamp \in Nat
    BY <1>1, <1>2, <1>6
  <2>2. /\ session[r].stamp <= saves'
        /\ session[r].pc # "vertices" => full'.stamp >= session[r].stamp
    BY <1>1, <1>3, <2>1 DEF InOrder
  <2> QED BY <1>4, <2>1, <2>2 DEF InOrder
<1> QED BY <1>3, <1>5, <1>6, InOrderSpec

\* The text a save makes is as new as the save.  If an older text is still on
\* its way, the save is overtaken.
LEMMA DumpKeepsOrder ==
    ASSUME TypeOK, SavesInOrder, NEW s \in Session, Dump(s)
    PROVE  SavesInOrder'
<1> DEFINE late == \E o \in Session :
                      session[o].pc = "dumped" /\ session[o].text.stamp < session[s].stamp
           step == [session[s] EXCEPT !.pc = "dumped", !.text = full, !.overtaken = late]
<1>1. /\ full.stamp <= saves /\ saves \in Nat /\ full.stamp \in Nat
      /\ \A r \in Session : /\ InOrder(r) /\ session[r].stamp \in Nat
                            /\ session[r].text.stamp \in Nat
      /\ session[s] \in SaveStep /\ full \in Text
  BY InOrderSpec DEF TypeOK
<1>2. /\ step \in SaveStep /\ step.pc = "dumped" /\ step.stamp = session[s].stamp
      /\ step.text = full /\ step.overtaken = late /\ step.reply = session[s].reply
  BY <1>1 DEF SaveStep
<1>3. /\ session[s].pc = "open" /\ Goes(s, step)
      /\ UNCHANGED <<full, saves, file, graph>>
  BY DEF Dump, node
<1> HIDE DEF step
<1>4. \A o \in Session : session'[o] = IF o = s THEN step ELSE session[o]
  BY <1>2, <1>3, GoesSpec
<1>5. full.stamp >= session[s].stamp /\ session[s].reply = "none"
  BY <1>1, <1>3 DEF InOrder, Early
<1>6. InOrder(s)'
  <2>1. ~late => \A o \in Session :
           session'[o].pc = "dumped" => session'[o].text.stamp >= session[s].stamp
    BY <1>1, <1>2, <1>4, <1>5
  <2> HIDE DEF late
  <2> QED BY <1>1, <1>2, <1>3, <1>4, <1>5, <2>1 DEF InOrder, Early
<1>7. ASSUME NEW r \in Session, r # s
      PROVE  InOrder(r)'
  <2>1. session'[r] = session[r] /\ InOrder(r)
    BY <1>1, <1>4, <1>7
  <2>2. session[r].pc # "vertices" => session'[s].text.stamp >= session[r].stamp
    BY <1>2, <1>4, <2>1 DEF InOrder
  <2>3. session[r].pc \notin Early /\ ~session[r].overtaken =>
           \A o \in Session :
              session'[o].pc = "dumped" => session'[o].text.stamp >= session[r].stamp
    BY <1>4, <2>1, <2>2 DEF InOrder, Early
  <2> QED BY <1>3, <2>1, <2>3 DEF InOrder
<1> QED BY <1>1, <1>3, <1>6, <1>7, InOrderSpec

\* What is written is at least as new as every save behind it that was not
\* overtaken.
LEMMA CloseKeepsOrder ==
    ASSUME TypeOK, SavesInOrder, NEW s \in Session, Close(s)
    PROVE  SavesInOrder'
<1> DEFINE step == [session[s] EXCEPT !.pc = "saved", !.text = NoText]
<1>1. /\ full.stamp <= saves
      /\ \A r \in Session : /\ InOrder(r) /\ session[r].stamp \in Nat
                            /\ session[r].text.stamp \in Nat
      /\ session[s] \in SaveStep /\ session[s].pc = "dumped"
  BY InOrderSpec DEF Close
<1>2. /\ step \in SaveStep /\ step.pc = "saved" /\ step.stamp = session[s].stamp
      /\ step.overtaken = session[s].overtaken /\ step.reply = session[s].reply
  BY <1>1, NothingYet DEF SaveStep
<1>3. /\ Goes(s, step) /\ UNCHANGED <<full, saves, graph>>
      /\ file'.text = session[s].text
  BY DEF Close, Whole, console, node
<1> HIDE DEF step
<1>4. \A o \in Session : session'[o] = IF o = s THEN step ELSE session[o]
  BY <1>2, <1>3, GoesSpec
<1>5. \A o \in Session : session'[o].pc = "dumped" => o # s /\ session'[o] = session[o]
  BY <1>2, <1>4
<1>6. InOrder(s)'
  <2>1. session'[s] = step /\ InOrder(s)
    BY <1>1, <1>4
  <2>2. ~session[s].overtaken => session[s].reply # "reloaded"
    BY <1>1, <2>1 DEF InOrder, Early
  <2>3. file'.text.stamp >= session[s].stamp
    BY <1>1, <1>3, <2>1 DEF InOrder
  <2> QED BY <1>1, <1>2, <1>3, <1>5, <2>1, <2>2, <2>3 DEF InOrder, Early
<1>7. ASSUME NEW r \in Session, r # s
      PROVE  InOrder(r)'
  <2>1. session'[r] = session[r] /\ InOrder(r)
    BY <1>1, <1>4, <1>7
  <2>2. session[r].pc \notin Early /\ ~session[r].overtaken =>
           file'.text.stamp >= session[r].stamp
    BY <1>1, <1>3, <2>1 DEF InOrder
  <2> QED BY <1>3, <1>5, <2>1, <2>2 DEF InOrder
<1> QED BY <1>1, <1>3, <1>6, <1>7, InOrderSpec

\* A node that takes the file takes at least what every save in order wrote.
LEMMA LoadKeepsOrder ==
    ASSUME TypeOK, SavesInOrder, UNCHANGED <<full, saves, file>>,
           file.kind # "empty" /\ graph' = load(file),
           \A s \in Session :
              \/ session'[s] = session[s]
              \/ /\ session[s].pc = "waiting"
                 /\ session'[s] = [session[s] EXCEPT !.reply = "reloaded"]
    PROVE  SavesInOrder'
<1>1. graph'.stamp = file.text.stamp /\ file.text.stamp \in Nat
  BY LoadSpec DEF TypeOK, Text
<1>2. \A s \in Session :
         /\ session'[s].pc = session[s].pc /\ session'[s].stamp = session[s].stamp
         /\ session'[s].text = session[s].text
         /\ session'[s].overtaken = session[s].overtaken
         /\ \/ session'[s].reply = session[s].reply
            \/ session[s].pc = "waiting"
  <2>1. \A s \in Session : session[s] \in SaveStep
    BY DEF TypeOK
  <2> QED BY <2>1 DEF SaveStep
<1>3. ASSUME NEW s \in Session
      PROVE  InOrder(s)'
  <2>1. InOrder(s) /\ session[s].stamp \in Nat
    BY InOrderSpec
  <2>2. session[s].pc \notin Early /\ ~session[s].overtaken
           /\ session'[s].reply = "reloaded" =>
           session[s].pc \in {"waiting", "ready"}
    BY <1>2, <2>1 DEF InOrder
  <2>3. session[s].pc \notin Early /\ ~session[s].overtaken /\ session[s].pc # "dumped" =>
           file.text.stamp >= session[s].stamp
    BY <2>1 DEF InOrder
  <2>4. session[s].pc \in Early => session'[s].reply = "none"
    BY <1>2, <2>1 DEF InOrder, Early
  <2> QED BY <1>1, <1>2, <2>1, <2>2, <2>3, <2>4 DEF InOrder
<1> QED BY <1>3, InOrderSpec

\* No step puts saves out of order.
LEMMA SavesStayInOrder ==
    ASSUME TypeOK, SavesInOrder, Next
    PROVE  SavesInOrder'
<1>1. \A s \in Session : session[s] \in SaveStep /\ session[s].stamp \in Nat
  BY InOrderSpec
<1>2. \A x \in SaveStep :
         /\ Calm(x, x)
         /\ x.pc \in {"saved", "waiting"} =>
               /\ Calm([x EXCEPT !.pc = "ready"], x)
               /\ Calm([x EXCEPT !.pc = "waiting"], x)
         /\ x.pc = "waiting" => Calm([x EXCEPT !.reply = "load failed"], x)
  BY DEF Calm, SaveStep
<1>3. ASSUME UNCHANGED <<full, saves, session, file, graph>>
      PROVE  SavesInOrder'
  BY <1>1, <1>2, <1>3, CalmKeepsOrder
<1>4. ASSUME NEW e \in Editor, Edit(e)
      PROVE  SavesInOrder'
  BY <1>3, <1>4, EditTouches
<1>5. ASSUME NEW s \in Session, CopyVertices(s)
      PROVE  SavesInOrder'
  <2> DEFINE step == [Ready EXCEPT !.pc = "vertices", !.stamp = saves + 1]
  <2>1. saves + 1 \in Nat /\ full \in Text
    BY InOrderSpec DEF TypeOK
  <2>2. /\ step \in SaveStep /\ step.pc = "vertices" /\ step.stamp = saves + 1
        /\ step.reply = "none"
    BY <2>1, NothingYet DEF SaveStep, Ready
  <2>3. /\ session[s].pc = "ready" /\ Goes(s, step) /\ saves' = saves + 1
        /\ full' = [full EXCEPT !.places = places] /\ UNCHANGED <<file, graph>>
    BY <1>5 DEF CopyVertices, node
  <2>4. full'.stamp = full.stamp
    BY <2>1, <2>3 DEF Text
  <2> HIDE DEF step
  <2> QED BY <2>1, <2>2, <2>3, <2>4, EarlyKeepsOrder DEF Early
<1>6. ASSUME NEW s \in Session, CopyLanes(s)
      PROVE  SavesInOrder'
  <2> DEFINE step == [session[s] EXCEPT !.pc = "lanes"]
  <2>1. /\ session[s].pc = "vertices" /\ Goes(s, step)
        /\ full' = [full EXCEPT !.stamp = saves, !.lanes = lanes, !.half = Unfinished]
        /\ UNCHANGED <<saves, file, graph>>
    BY <1>6 DEF CopyLanes, node
  <2>2. /\ step \in SaveStep /\ step.pc = "lanes" /\ step.stamp = session[s].stamp
        /\ step.reply = session[s].reply
    BY <1>1 DEF SaveStep
  <2>3. session[s].stamp <= saves /\ session[s].reply = "none"
    BY <2>1, InOrderSpec DEF InOrder, Early
  <2>4. full'.stamp = saves
    BY <2>1 DEF TypeOK, Text
  <2> HIDE DEF step
  <2> QED BY <1>1, <2>1, <2>2, <2>3, <2>4, EarlyKeepsOrder DEF Early
<1>7. ASSUME NEW s \in Session, Truncate(s)
      PROVE  SavesInOrder'
  <2> DEFINE step == [session[s] EXCEPT !.pc = "open"]
  <2>1. /\ session[s].pc = "lanes" /\ Goes(s, step) /\ file'.kind = "empty"
        /\ UNCHANGED <<full, saves, graph>>
    BY <1>7 DEF Truncate, Empty, node
  <2>2. /\ step \in SaveStep /\ step.pc = "open" /\ step.stamp = session[s].stamp
        /\ step.reply = session[s].reply
    BY <1>1 DEF SaveStep
  <2>3. /\ session[s].stamp <= saves /\ session[s].reply = "none"
        /\ full.stamp >= session[s].stamp
    BY <2>1, InOrderSpec DEF InOrder, Early
  <2> HIDE DEF step
  <2> QED BY <1>1, <2>1, <2>2, <2>3, EarlyKeepsOrder DEF Early
<1>8. ASSUME NEW s \in Session, NEW answer \in Answers, Says(s, answer),
             session[s].pc \in {"saved", "waiting"},
             UNCHANGED <<full, saves, file, graph>>
      PROVE  SavesInOrder'
  <2>1. \A o \in Session :
           \/ session'[o] = session[o] \/ session'[o] = Ready
           \/ o = s /\ session'[o] = [session[o] EXCEPT !.pc = "ready"]
    BY <1>8, SaysSpec
  <2>2. \A o \in Session : Calm(session'[o], session[o])
    <3>1. \A o \in Session : session'[o] = Ready => Calm(session'[o], session[o])
      BY DEF Calm
    <3>2. Calm([session[s] EXCEPT !.pc = "ready"], session[s])
      BY <1>1, <1>2, <1>8
    <3> QED BY <1>1, <1>2, <2>1, <3>1, <3>2
  <2> QED BY <1>8, <2>2, CalmKeepsOrder
<1>9. ASSUME NEW s \in Session, Call(s)
      PROVE  SavesInOrder'
  <2>1. session[s].pc = "saved" /\ UNCHANGED <<full, saves, file, graph>>
    BY <1>9 DEF Call, console
  <2>2. CASE up
    <3> DEFINE step == [session[s] EXCEPT !.pc = "waiting"]
    <3>1. step \in SaveStep /\ Goes(s, step) /\ Calm(step, session[s])
      BY <1>1, <1>2, <1>9, <2>1, <2>2 DEF Call, SaveStep
    <3> HIDE DEF step
    <3>2. \A o \in Session : session'[o] = IF o = s THEN step ELSE session[o]
      BY <3>1, GoesSpec
    <3>3. \A o \in Session : Calm(session'[o], session[o])
      BY <1>1, <1>2, <3>1, <3>2
    <3> QED BY <2>1, <3>3, CalmKeepsOrder
  <2>3. CASE ~up
    BY <1>8, <1>9, <2>1, <2>3 DEF Call, Answers
  <2> QED BY <2>2, <2>3
<1>10. ASSUME NEW s \in Session, Answered(s) \/ TimedOut(s)
       PROVE  SavesInOrder'
  <2>1. \E answer \in Answers : Says(s, answer)
    BY <1>1, <1>10 DEF Answered, TimedOut, SaveStep, Answers
  <2>2. session[s].pc = "waiting" /\ UNCHANGED <<full, saves, file, graph>>
    BY <1>10 DEF Answered, TimedOut, console, node
  <2> QED BY <1>8, <2>1, <2>2
<1>11. CASE Start
  <2>1. /\ file.kind # "empty" /\ graph' = load(file)
        /\ UNCHANGED <<full, saves, session, file>>
    BY <1>11 DEF Start, Loadable, console
  <2> QED BY <2>1, LoadKeepsOrder
<1>12. CASE Reload
  <2>1. UNCHANGED <<full, saves, file>>
    BY <1>12 DEF Reload, console
  <2>2. CASE Loadable(file)
    <3>1. file.kind # "empty" /\ graph' = load(file) /\ Reply("reloaded")
      BY <1>12, <2>2 DEF Reload, Loadable
    <3>2. \A s \in Session :
             \/ session'[s] = session[s]
             \/ /\ session[s].pc = "waiting"
                /\ session'[s] = [session[s] EXCEPT !.reply = "reloaded"]
      BY <3>1, ReplySpec
    <3> QED BY <2>1, <3>1, <3>2, LoadKeepsOrder
  <2>3. CASE ~Loadable(file)
    <3>1. UNCHANGED graph /\ Reply("load failed")
      BY <1>12, <2>3 DEF Reload
    <3>2. \A s \in Session :
             \/ session'[s] = session[s]
             \/ /\ session[s].pc = "waiting"
                /\ session'[s] = [session[s] EXCEPT !.reply = "load failed"]
      BY <3>1, ReplySpec
    <3>3. \A s \in Session : Calm(session'[s], session[s])
      BY <1>1, <1>2, <3>2
    <3> QED BY <2>1, <3>1, <3>3, CalmKeepsOrder
  <2> QED BY <2>2, <2>3
<1>13. CASE Crash \/ ReloadThrows \/ TimerThrows
  BY <1>3, <1>13 DEF Crash, ReloadThrows, TimerThrows, Dies, console
<1>14. CASE on_submit \/ start_patrol \/ ServeTask
  BY <1>3, <1>14 DEF on_submit, start_patrol, ServeTask, console
<1>15. CASE Fleet
  BY <1>11, <1>12, <1>13, <1>14, <1>15 DEF Fleet, on_reload, on_timer
<1>16. ASSUME NEW s \in Session, Save(s)
       PROVE  SavesInOrder'
  BY <1>5, <1>6, <1>7, <1>9, <1>10, <1>16, DumpKeepsOrder, CloseKeepsOrder DEF Save
<1> QED BY <1>4, <1>15, <1>16 DEF Next

-----------------------------------------------------------------------------
(* What holds whatever the instance                                        *)

\* The console and the node start with one map that can be loaded.
LEMMA EditInit ==
    ASSUME Init
    PROVE  EditInv
<1> DEFINE n == Len(StartGraph.places)
<1>1. /\ n \in Nat /\ n > 0 /\ StartGraph.places \in Seq(1..n)
      /\ \A i, j \in 1..n : StartGraph.places[i] = StartGraph.places[j] => i = j
      /\ \A i \in 1..n : StartGraph.places[i] \in 1..n
  BY StartAssumption, LenProperties, ElementOfSeq
<1>2. /\ StartGraph.lanes \subseteq (0..(n - 1)) \X (0..(n - 1))
      /\ BothWays(StartGraph.lanes)
  BY StartAssumption DEF BothWays
<1>3. /\ places = StartGraph.places /\ lanes = StartGraph.lanes
      /\ edits = 0 /\ saves = 0 /\ file = Whole(full) /\ crossed = FALSE
      /\ hand = [e \in Editor |-> Idle] /\ session = [s \in Session |-> Ready]
      /\ full = [stamp |-> 0, places |-> places, lanes |-> lanes, half |-> FALSE]
      /\ up = TRUE /\ graph = load(file) /\ route \in Heights(graph)
      /\ ahead = None /\ requests = <<>>
  BY DEF Init
<1>4. places \in Seq(Nat) /\ lanes \in SUBSET (Int \X Int)
  <2>1. 1..n \subseteq Nat /\ 0..(n - 1) \subseteq Int
    BY <1>1
  <2>2. places \in Seq(Nat)
    BY <1>1, <1>3, <2>1, SeqMonotonic
  <2> QED BY <1>2, <1>3, <2>1, <2>2
<1>5. /\ full \in Text /\ full.stamp = 0 /\ full.half = FALSE
      /\ full.places = places /\ full.lanes = lanes
  BY <1>3, <1>4 DEF Text
<1>6. /\ file \in [kind : {"whole", "empty", "garbled"}, text : Text]
      /\ file.text = full
  BY <1>3, <1>5 DEF Whole
<1>7. /\ graph \in Text /\ graph.stamp = 0 /\ graph.places = places
      /\ BothWays(graph.lanes)
  <2>1. file.text \in Text /\ BothWays(file.text.lanes)
    BY <1>2, <1>3, <1>5, <1>6
  <2>2. /\ load(file) \in Text /\ BothWays(load(file).lanes)
        /\ load(file).stamp = file.text.stamp /\ load(file).places = file.text.places
    BY <2>1, LoadSpec
  <2> QED BY <1>3, <1>5, <1>6, <2>2
<1>8. route \in Int
  BY <1>3, <1>7, RoutesAreNumbers DEF Text
<1>9. /\ hand \in [Editor -> EditStep] /\ session \in [Session -> SaveStep]
      /\ requests \in Seq(Nat) /\ ahead \in Int
  BY <1>3, NothingYet, EmptySeq DEF None
<1>10. TypeOK
  BY <1>3, <1>4, <1>5, <1>6, <1>7, <1>8, <1>9 DEF TypeOK
<1>11. DrawingFits
  <2>1. \A i \in 1..Len(places) : places[i] <= Len(StartGraph.places) + edits
    BY <1>1, <1>3
  <2> QED BY <1>1, <1>3, <2>1 DEF DrawingFits
<1>12. EditsApart
  <2>1. \A e \in Editor : hand[e].pc = "idle"
    BY <1>3 DEF Idle
  <2>2. Finished(hand, lanes) = lanes
    BY <2>1, FinishedSpec
  <2> QED BY <1>2, <1>3, <2>1, <2>2 DEF EditsApart
<1>13. TextsLeadBack
  <2>1. \A s \in Session : BothWays(session[s].text.lanes)
    BY <1>3, NothingYet DEF Ready, BothWays
  <2>2. graph.places # <<>>
    BY <1>1, <1>3, <1>7, EmptySeq
  <2> QED BY <1>2, <1>3, <1>5, <1>6, <1>7, <2>1, <2>2 DEF TextsLeadBack, LeadsBack
<1>14. SavesInOrder
  BY <1>3, <1>5, <1>6 DEF SavesInOrder, Ready
<1> QED BY <1>10, <1>11, <1>12, <1>13, <1>14 DEF EditInv

\* The invariant is inductive.
LEMMA EditInvStep ==
    ASSUME EditInv, [Next]_vars
    PROVE  EditInv'
<1>1. CASE UNCHANGED vars
  <2>1. /\ UNCHANGED <<places, lanes, edits, hand, crossed>>
        /\ UNCHANGED <<full, saves, session, file>>
        /\ UNCHANGED <<up, graph, route, ahead, requests>>
    BY <1>1 DEF vars, drawing, saving, node
  <2>2. TypeOK'
    BY <2>1 DEF EditInv, TypeOK
  <2>3. DrawingFits' /\ EditsApart'
    BY <2>1 DEF EditInv, DrawingFits, EditsApart
  <2>4. TextsLeadBack' /\ SavesInOrder'
    BY <2>1 DEF EditInv, TextsLeadBack, LeadsBack, SavesInOrder
  <2> QED BY <2>2, <2>3, <2>4 DEF EditInv
<1>2. CASE Next
  <2>1. TypeOK'
    BY <1>2, EditKeepsTypes, SaveKeepsTypes, FleetKeepsTypes DEF Next, EditInv
  <2>2. DrawingFits' /\ EditsApart'
    <3>1. CASE \E e \in Editor : Edit(e)
      BY <3>1, EditKeepsFit, EditKeepsApart DEF EditInv
    <3>2. CASE (\E s \in Session : Save(s)) \/ Fleet
      <4>1. UNCHANGED <<places, lanes, edits, hand, crossed>>
        BY <3>2, RestTouches
      <4> QED BY <4>1 DEF EditInv, DrawingFits, EditsApart
    <3> QED BY <1>2, <3>1, <3>2 DEF Next
  <2>3. TextsLeadBack' /\ SavesInOrder'
    BY <1>2, TextsStayLead, SavesStayInOrder DEF EditInv
  <2> QED BY <2>1, <2>2, <2>3 DEF EditInv
<1> QED BY <1>1, <1>2

\* Vertices stay different places, edits that keep apart leave lanes that lead
\* both ways, documents that met no unfinished edit have such lanes, and saves
\* are in order, in every reachable state: for every small map to start with,
\* whatever indices requests name, and for any number of threads that edit and
\* save (console.py add_vertex to save_navgraph, fleet_node.cpp on_reload).
THEOREM EditInvariantHolds == Spec => []EditInv
<1>1. Init => EditInv
  BY EditInit
<1>2. EditInv /\ [Next]_vars => EditInv'
  BY EditInvStep
<1> QED BY <1>1, <1>2, PTL DEF Spec

\* The node never runs on an empty file, and its lanes lead back unless an edit
\* met a save or another edit half way (Navgraph::load, save_navgraph).
THEOREM NodeRunsWholeGraphs == Spec => []GraphIsWhole
<1>1. EditInv => GraphIsWhole
  BY DEF EditInv, TextsLeadBack, LeadsBack, GraphIsWhole
<1> QED BY <1>1, EditInvariantHolds, PTL

\* Who is told "reloaded", and overtook no older text, has a node that runs this
\* save or a later one (save_navgraph, on_reload).
THEOREM SavesAreReloaded == Spec => []ReloadedMeansSaved
<1>1. EditInv => ReloadedMeansSaved
  BY DEF EditInv, SavesInOrder, ReloadedMeansSaved
<1> QED BY <1>1, EditInvariantHolds, PTL

\* A step is a stroke or leaves the drawing alone, until edits meet.
LEMMA StepsAreStrokes ==
    ASSUME EditInv, [Next]_vars
    PROVE  [~crossed' => Drawing!Step]_vars
<1>1. ASSUME NEW e \in Editor, Edit(e), ~crossed' PROVE Drawing!Step
  BY <1>1, EditIsStroke DEF EditInv
<1>2. CASE (\E s \in Session : Save(s)) \/ Fleet
  <2>1. UNCHANGED <<places, lanes, hand>>
    BY <1>2, RestTouches
  <2> QED BY <2>1 DEF Drawing!Step, ToSet
<1> QED BY <1>1, <1>2 DEF Next

\* The console implements the drawing of an operator as long as no edit meets an
\* unfinished one, for every map, any number of edits whatever indices they
\* name, and any number of saves beside them: an edit changes what it names and
\* nothing else (add_vertex, add_lane, del_lane, del_vertex).
THEOREM ImplementsTheDrawing == Spec => EditsLikeADrawing
<1>1. EditInv => Drawing!Draws
  <2>1. ASSUME EditInv PROVE Drawing!Draws
    <3>1. \A o \in Editor : Outcome(hand[o], lanes) \in SUBSET (Int \X Int)
      BY <2>1, OutcomeSpec DEF EditInv, TypeOK
    <3>2. places \in Seq(Nat) /\ Finished(hand, lanes) \in SUBSET (Int \X Int)
      BY <2>1, <3>1 DEF Finished, EditInv, TypeOK
    <3> QED BY <3>2, RoadsSpec DEF Drawing!Draws
  <2> QED BY <2>1
<1>2. Init => Drawing!Draws
  BY <1>1, EditInit
<1>3. EditInv /\ [Next]_vars => [~crossed' => Drawing!Step]_vars
  BY StepsAreStrokes
<1> QED BY <1>2, <1>3, EditInvariantHolds, PTL DEF Spec, EditsLikeADrawing

=============================================================================
