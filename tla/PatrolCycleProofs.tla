-------------------------- MODULE PatrolCycleProofs --------------------------
(***************************************************************************)
(* Proofs about the walk that makes the patrol route: it takes no lane     *)
(* twice in the same direction, so that it comes back to its start before  *)
(* it runs out of steps, on every graph with few enough lanes.             *)
(***************************************************************************)
EXTENDS PatrolCycleProperties, FiniteSetTheorems, TLAPS

-----------------------------------------------------------------------------
(* Headings                                                                *)

\* The ends of a street are neighbouring points.
LEMMA StreetSpec ==
    ASSUME NEW p, NEW q, {p, q} \in Street
    PROVE  /\ p \in Point /\ q \in Point /\ p # q
           /\ p[1] \in Int /\ p[2] \in Int /\ q[1] \in Int /\ q[2] \in Int
           /\ p = <<p[1], p[2]>> /\ q = <<q[1], q[2]>>
           /\ q[1] - p[1] \in -1..1 /\ q[2] - p[2] \in -1..1
<1>1. PICK a \in Point, b \in Point :
        a # b /\ {p, q} = {a, b} /\ \A i \in 1..2 : a[i] - b[i] \in -1..1
  BY StreetAssumption
<1>2. /\ a \in Int \X Int /\ b \in Int \X Int
      /\ (p = a /\ q = b) \/ (p = b /\ q = a)
  BY <1>1, PointAssumption
<1>3. a[1] - b[1] \in -1..1 /\ a[2] - b[2] \in -1..1
  BY <1>1
<1>4. /\ a[1] \in Int /\ a[2] \in Int /\ a = <<a[1], a[2]>>
      /\ b[1] \in Int /\ b[2] \in Int /\ b = <<b[1], b[2]>>
  BY <1>2
<1>5. b[1] - a[1] \in -1..1 /\ b[2] - a[2] \in -1..1
  BY <1>3, <1>4
<1> QED BY <1>1, <1>2, <1>3, <1>4, <1>5

\* A heading is one of eight and tells the neighbours of a vertex apart.
LEMMA HeadingSpec ==
    ASSUME NEW b, NEW p, NEW q, {b, p} \in Street, {b, q} \in Street
    PROVE  /\ Heading(b, p) \in 0..7
           /\ Heading(b, p) = Heading(b, q) => p = q
<1> DEFINE e(x) == x[1] - b[1]
           n(x) == x[2] - b[2]
<1>1. ASSUME NEW x, {b, x} \in Street
      PROVE  /\ x = <<b[1] + e(x), b[2] + n(x)>>
             /\ e(x) \in -1..1 /\ n(x) \in -1..1 /\ ~(e(x) = 0 /\ n(x) = 0)
  <2>1. /\ b # x /\ b[1] \in Int /\ b[2] \in Int /\ x[1] \in Int /\ x[2] \in Int
        /\ b = <<b[1], b[2]>> /\ x = <<x[1], x[2]>>
        /\ e(x) \in -1..1 /\ n(x) \in -1..1
    BY <1>1, StreetSpec
  <2>2. b[1] + e(x) = x[1] /\ b[2] + n(x) = x[2]
    BY <2>1
  <2>3. ~(x[1] = b[1] /\ x[2] = b[2])
    BY <2>1
  <2> QED BY <2>1, <2>2, <2>3
<1>2. ASSUME NEW x, {b, x} \in Street
      PROVE  Heading(b, x) = IF n(x) = 0 THEN (IF e(x) > 0 THEN 0 ELSE 4)
                             ELSE IF n(x) > 0 THEN 2 - e(x) ELSE 6 + e(x)
  <2>1. e(x) \in -1..1 /\ n(x) \in -1..1
    BY <1>1, <1>2
  <2> QED BY <2>1 DEF Heading
<1> HIDE DEF e, n
<1>3. Heading(b, p) \in 0..7
  BY <1>1, <1>2
<1>4. Heading(b, p) = Heading(b, q) => e(p) = e(q) /\ n(p) = n(q)
  <2>1. /\ e(p) \in -1..1 /\ n(p) \in -1..1 /\ ~(e(p) = 0 /\ n(p) = 0)
        /\ e(q) \in -1..1 /\ n(q) \in -1..1 /\ ~(e(q) = 0 /\ n(q) = 0)
    BY <1>1
  <2> QED BY <1>2, <2>1
<1>5. Heading(b, p) = Heading(b, q) => p = q
  <2>1. /\ p = <<b[1] + e(p), b[2] + n(p)>>
        /\ q = <<b[1] + e(q), b[2] + n(q)>>
    BY <1>1
  <2> QED BY <1>4, <2>1
<1> QED BY <1>3, <1>5

\* The turn to the next lane can be undone: where the walk goes on to tells by
\* which lane it came.
LEMMA CameFrom ==
    ASSUME streets \subseteq {s \in Street : s \subseteq vertices},
           NEW a, NEW d, NEW b, NEW c, {b, a} \in streets, {b, d} \in streets,
           GoesOn(a, b, c), GoesOn(d, b, c)
    PROVE  a = d
<1> SUFFICES ASSUME a # d PROVE FALSE
  OBVIOUS
<1>1. /\ streets \subseteq Street /\ {b, c} \in streets
      /\ a \in neighbors(b) /\ d \in neighbors(b) /\ c # a /\ c # d
  BY DEF GoesOn, neighbors
<1> DEFINE ha == Heading(b, a)
           hd == Heading(b, d)
           hc == Heading(b, c)
<1>2. /\ ha \in 0..7 /\ hd \in 0..7 /\ hc \in 0..7
      /\ ha # hd /\ ha # hc /\ hd # hc
  BY <1>1, HeadingSpec
<1>3. TurnFrom(a, b, c) <= TurnFrom(a, b, d) /\ TurnFrom(d, b, c) <= TurnFrom(d, b, a)
  BY <1>1 DEF GoesOn
<1>4. (ha - hc) % 8 <= (ha - hd) % 8 /\ (hd - hc) % 8 <= (hd - ha) % 8
  BY <1>2, <1>3 DEF TurnFrom
<1> HIDE DEF ha, hd, hc
<1> QED BY <1>2, <1>4

-----------------------------------------------------------------------------
(* The walk                                                                *)

\* The walk's parts, and that it has numbers of steps to compare.
LEMMA WalkTypes ==
    ASSUME WalkInv
    PROVE  /\ Len(cycle) \in Nat \ {0} /\ Step \in Nat /\ MaxSteps \in Nat
           /\ cur = cycle[Len(cycle)]
           /\ Len(cycle) # 1 => previous = cycle[Len(cycle) - 1]
           /\ IsFiniteSet(vertices) /\ IsFiniteSet(streets)
<1>1. Len(cycle) \in Nat \ {0} /\ Step \in Nat
  BY DEF WalkInv, Step
<1>2. cur = cycle[Len(cycle)]
  BY DEF cur, Last
<1>3. IsFiniteSet(vertices)
  BY PointAssumption, FS_Subset DEF WalkInv
<1>4. IsFiniteSet(streets)
  <2>1. IsFiniteSet(SUBSET vertices) /\ streets \subseteq SUBSET vertices
    BY <1>3, FS_SUBSET DEF WalkInv
  <2> QED BY <2>1, FS_Subset
<1>5. MaxSteps \in Nat
  BY <1>3, FS_CardinalityType DEF MaxSteps
<1> QED BY <1>1, <1>2, <1>3, <1>4, <1>5 DEF previous

\* A next vertex is joined to the current one, and the right one for the lane
\* the walk came by.
LEMMA BestGoesOn ==
    ASSUME WalkInv, NEW q \in Best
    PROVE  /\ {cur, q} \in streets /\ q \in Point
           /\ Len(cycle) # 1 => GoesOn(previous, cur, q)
<1>1. q \in neighbors(cur)
  BY DEF Best
<1>2. {cur, q} \in streets /\ q \in Point
  BY <1>1 DEF neighbors, WalkInv
<1>3. ASSUME Len(cycle) # 1 PROVE GoesOn(previous, cur, q)
  <2>1. \A x : Turn(x) = TurnFrom(previous, cur, x)
    BY <1>3 DEF Turn, TurnFrom, back_angle
  <2>2. CASE neighbors(cur) \ {previous} = {}
    <3>1. q = previous /\ neighbors(cur) \subseteq {previous}
      BY <1>1, <2>2
    <3> QED BY <1>2, <3>1 DEF GoesOn
  <2>3. CASE neighbors(cur) \ {previous} # {}
    <3>1. /\ q \in neighbors(cur) \ {previous}
          /\ \A o \in neighbors(cur) \ {previous} : Turn(q) <= Turn(o)
      BY <2>3 DEF Best
    <3> QED BY <1>2, <2>1, <3>1 DEF GoesOn
  <2> QED BY <2>2, <2>3
<1> QED BY <1>2, <1>3

\* One more step takes a street that has not been taken in that direction: the
\* first one would lead away from the start, and any other came by a street
\* that had been taken already.
LEMMA WalkIsNew ==
    ASSUME WalkInv, NEW q \in Best, NEW j \in 1..Step,
           cycle[j] = cur, cycle[j + 1] = q
    PROVE  FALSE
<1> DEFINE n == Len(cycle)
<1>1. n \in Nat /\ Step = n - 1 /\ cur = cycle[n] /\ previous = cycle[n - 1]
      /\ n # 1 /\ n - 1 \in 1..Step /\ (n - 1) + 1 = n
  BY WalkTypes DEF Step
<1> HIDE DEF n
<1>2. {cycle[n - 1], cycle[n]} \in streets /\ cycle[n] # Start
  BY <1>1 DEF WalkInv
<1>3. CASE j = 1
  BY <1>1, <1>2, <1>3 DEF WalkInv
<1>4. CASE j # 1
  <2>1. j \in 2..Step /\ j - 1 \in 1..Step /\ (j - 1) + 1 = j
    BY <1>1, <1>4
  <2>2. {cycle[j - 1], cycle[j]} \in streets /\ GoesOn(cycle[j - 1], cycle[j], cycle[j + 1])
    BY <2>1 DEF WalkInv
  <2>3. GoesOn(cycle[n - 1], cur, q)
    BY <1>1, BestGoesOn DEF n
  <2>4. {cur, cycle[j - 1]} \in streets /\ {cur, cycle[n - 1]} \in streets
    <3>1. \A x, y : {x, y} = {y, x}
      OBVIOUS
    <3> QED BY <1>1, <1>2, <2>2, <3>1
  <2>5. cycle[j - 1] = cycle[n - 1]
    BY <2>2, <2>3, <2>4, CameFrom DEF WalkInv
  <2>6. j - 1 = n - 1
    BY <1>1, <2>1, <2>5 DEF WalkInv
  <2> QED BY <1>1, <2>6
<1> QED BY <1>3, <1>4

LEMMA WalkKeeps == ASSUME WalkInv, Walk PROVE WalkInv'
<1>1. PICK q \in Best : q # Start /\ cycle' = Append(cycle, q)
  BY DEF Walk
<1> DEFINE n == Len(cycle)
<1>2. /\ UNCHANGED <<vertices, streets, outcome>> /\ outcome = "walking"
      /\ Start' = Start
  BY DEF Walk, Start
<1>3. /\ n \in Nat \ {0} /\ Step = n - 1 /\ cur = cycle[n]
      /\ n # 1 => previous = cycle[n - 1]
  BY WalkTypes DEF Step
<1>4. {cur, q} \in streets /\ q \in Point
  BY BestGoesOn
<1>5. /\ cycle \in Seq(Point \cup {Start})
      /\ \A i \in 1..Step : {cycle[i], cycle[i + 1]} \in streets /\ cycle[i + 1] # Start
      /\ \A i \in 2..Step : GoesOn(cycle[i - 1], cycle[i], cycle[i + 1])
      /\ \A i, j \in 1..Step : cycle[i] = cycle[j] /\ cycle[i + 1] = cycle[j + 1] => i = j
      /\ cycle[1] = Start
  BY DEF WalkInv
<1>6. /\ cycle' \in Seq(Point \cup {Start}) /\ Len(cycle') = n + 1
      /\ cycle'[n + 1] = q /\ \A i \in 1..n : cycle'[i] = cycle[i]
  BY <1>1, <1>4, <1>5
<1>7. Step' = n
  BY <1>3, <1>6 DEF Step
<1> HIDE DEF n
<1>8. \A i \in 1..n : {cycle'[i], cycle'[i + 1]} \in streets /\ cycle'[i + 1] # Start
  <2> SUFFICES ASSUME NEW i \in 1..n
               PROVE  {cycle'[i], cycle'[i + 1]} \in streets /\ cycle'[i + 1] # Start
    OBVIOUS
  <2>1. CASE i = n
    BY <1>1, <1>3, <1>4, <1>6, <2>1
  <2>2. CASE i # n
    <3>1. i \in 1..Step /\ i + 1 \in 1..n
      BY <1>3, <2>2
    <3> QED BY <1>5, <1>6, <3>1
  <2> QED BY <2>1, <2>2
<1>9. ASSUME NEW i \in 2..n PROVE GoesOn(cycle'[i - 1], cycle'[i], cycle'[i + 1])
  <2>1. i \in 1..n /\ i - 1 \in 1..n
    BY <1>3
  <2>2. CASE i = n
    <3>1. n # 1
      BY <1>3, <2>2
    <3>2. cycle'[i - 1] = previous /\ cycle'[i] = cur /\ cycle'[i + 1] = q
      BY <1>3, <1>6, <2>1, <2>2, <3>1
    <3>3. Len(cycle) # 1
      BY <3>1 DEF n
    <3> QED BY <3>2, <3>3, BestGoesOn
  <2>3. CASE i # n
    <3>1. i \in 2..Step /\ i + 1 \in 1..n
      BY <1>3, <2>3
    <3> QED BY <1>5, <1>6, <2>1, <3>1
  <2> QED BY <2>2, <2>3
<1>10. \A a, b, c : GoesOn(a, b, c)' <=> GoesOn(a, b, c)
  BY <1>2 DEF GoesOn, TurnFrom, neighbors
<1>11. ASSUME NEW i \in 1..n, NEW j \in 1..n,
              cycle'[i] = cycle'[j], cycle'[i + 1] = cycle'[j + 1]
       PROVE  i = j
  <2>1. CASE i # n /\ j # n
    <3>1. i \in 1..Step /\ j \in 1..Step /\ i + 1 \in 1..n /\ j + 1 \in 1..n
      BY <1>3, <2>1
    <3> QED BY <1>5, <1>6, <1>11, <3>1
  <2>2. CASE i = n /\ j # n
    <3>1. j \in 1..Step /\ j + 1 \in 1..n
      BY <1>3, <2>2
    <3> QED BY <1>3, <1>6, <1>11, <2>2, <3>1, WalkIsNew
  <2>3. CASE i # n /\ j = n
    <3>1. i \in 1..Step /\ i + 1 \in 1..n
      BY <1>3, <2>3
    <3> QED BY <1>3, <1>6, <1>11, <2>3, <3>1, WalkIsNew
  <2> QED BY <2>1, <2>2, <2>3
<1>12. cycle' # <<>> /\ cycle'[1] = Start
  BY <1>3, <1>5, <1>6
<1>13. vertices \subseteq Point /\ streets \subseteq {s \in Street : s \subseteq vertices}
  BY DEF WalkInv
<1> QED BY <1>2, <1>6, <1>7, <1>8, <1>9, <1>10, <1>11, <1>12, <1>13 DEF WalkInv

\* The walk ends back at the start or out of steps.
LEMMA StopKeeps == ASSUME WalkInv, Stop \/ Isolated \/ UNCHANGED walk PROVE WalkInv'
<1>1. UNCHANGED <<vertices, streets, cycle>> /\ Start' = Start
  BY DEF Stop, Isolated, walk, Start
<1>2. /\ Step' = Step /\ MaxSteps' = MaxSteps /\ cur' = cur
      /\ \A a, b, c : GoesOn(a, b, c)' <=> GoesOn(a, b, c)
  BY <1>1 DEF Step, MaxSteps, cur, GoesOn, TurnFrom, neighbors
<1>3. outcome' = "route" => Step >= MaxSteps \/ {cur, Start} \in streets
  <2>1. CASE Stop
    <3>1. Step < MaxSteps => Start \in Best
      BY <2>1 DEF Stop
    <3> QED BY <3>1, WalkTypes, BestGoesOn
  <2>2. CASE Isolated
    BY <2>2 DEF Isolated
  <2>3. CASE UNCHANGED walk
    BY <2>3 DEF walk, WalkInv
  <2> QED BY <2>1, <2>2, <2>3
<1> QED BY <1>1, <1>2, <1>3 DEF WalkInv

LEMMA InitWalk == WalkInit => WalkInv
<1> SUFFICES ASSUME WalkInit PROVE WalkInv
  OBVIOUS
<1>1. /\ cycle = <<Start>> /\ outcome # "route"
      /\ vertices \subseteq Point
      /\ streets \subseteq {s \in Street : s \subseteq vertices}
  BY DEF WalkInit
<1>2. /\ cycle \in Seq(Point \cup {Start}) /\ cycle # <<>> /\ cycle[1] = Start
      /\ Len(cycle) = 1
  <2> HIDE DEF Start
  <2> QED BY <1>1
<1>3. Step = 0
  BY <1>2 DEF Step
<1> QED BY <1>1, <1>2, <1>3 DEF WalkInv

\* No lane is walked twice in the same direction, and the start is not left
\* again before the walk ends, in every graph.
THEOREM WalkInvariantHolds == WalkSpec => []WalkInv
<1>1. WalkInv /\ [WalkNext]_walk => WalkInv'
  BY WalkKeeps, StopKeeps DEF WalkNext
<1> QED BY <1>1, InitWalk, PTL DEF WalkSpec

\* So there are fewer steps than lanes: the walk does not come by the one it
\* set out by.
LEMMA FewSteps ==
    ASSUME WalkInv, Step >= 1
    PROVE  Cardinality(streets) \in Nat /\ Step < 2 * Cardinality(streets)
<1> DEFINE T == streets \X {1, 2}
           Up(p, q) == p[1] < q[1] \/ (p[1] = q[1] /\ p[2] < q[2])
           side(p, q) == IF Up(p, q) THEN 1 ELSE 2
           lane(i) == <<{cycle[i], cycle[i + 1]}, side(cycle[i], cycle[i + 1])>>
           f == [i \in 1..Step |-> lane(i)]
           away == <<{cycle[1], cycle[2]}, side(cycle[2], cycle[1])>>
<1>1. /\ Step \in Nat /\ IsFiniteSet(streets) /\ Cardinality(streets) \in Nat
      /\ streets \subseteq Street
      /\ \A i \in 1..Step : {cycle[i], cycle[i + 1]} \in streets /\ cycle[i + 1] # Start
      /\ \A i, j \in 1..Step : cycle[i] = cycle[j] /\ cycle[i + 1] = cycle[j + 1] => i = j
      /\ cycle[1] = Start
  BY WalkTypes, FS_CardinalityType DEF WalkInv
<1>2. ASSUME NEW p, NEW q, NEW a, NEW b, {p, q} \in streets, {p, q} = {a, b},
             side(p, q) = side(a, b)
      PROVE  p = a /\ q = b
  <2>1. \/ p = a /\ q = b
        \/ p = b /\ q = a
    BY <1>2
  <2>2. /\ p # q /\ p[1] \in Int /\ p[2] \in Int /\ q[1] \in Int /\ q[2] \in Int
        /\ p = <<p[1], p[2]>> /\ q = <<q[1], q[2]>>
    BY <1>1, <1>2, StreetSpec
  <2>3. ~(p[1] = q[1] /\ p[2] = q[2])
    BY <2>2
  <2>4. ~(p = b /\ q = a)
    BY <1>2, <2>2, <2>3
  <2> QED BY <2>1, <2>4
<1>3. away \in T
  <2>1. {cycle[1], cycle[2]} \in streets
    BY <1>1
  <2> QED BY <2>1
<1>4. ASSUME NEW i \in 1..Step PROVE lane(i) \in T \ {away}
  <2>1. lane(i) \in T
    BY <1>1
  <2>2. lane(i) # away
    <3> SUFFICES ASSUME lane(i) = away PROVE FALSE
      OBVIOUS
    <3>1. /\ {cycle[i], cycle[i + 1]} = {cycle[2], cycle[1]}
          /\ side(cycle[i], cycle[i + 1]) = side(cycle[2], cycle[1])
      OBVIOUS
    <3> HIDE DEF side
    <3>2. cycle[i + 1] = cycle[1]
      <4>1. {cycle[i], cycle[i + 1]} \in streets
        BY <1>1
      <4> QED BY <1>2, <3>1, <4>1
    <3> QED BY <1>1, <3>2
  <2> QED BY <2>1, <2>2
<1>5. ASSUME NEW i \in 1..Step, NEW j \in 1..Step, lane(i) = lane(j) PROVE i = j
  <2>1. /\ {cycle[i], cycle[i + 1]} = {cycle[j], cycle[j + 1]}
        /\ side(cycle[i], cycle[i + 1]) = side(cycle[j], cycle[j + 1])
    BY <1>5
  <2> HIDE DEF side
  <2>2. cycle[i] = cycle[j] /\ cycle[i + 1] = cycle[j + 1]
    BY <1>1, <1>2, <2>1
  <2> QED BY <1>1, <2>2
<1> HIDE DEF lane, away
<1>6. f \in Injection(1..Step, T \ {away})
  BY <1>4, <1>5 DEF Injection, IsInjective
<1>7. IsFiniteSet(T) /\ Cardinality(T) = 2 * Cardinality(streets)
  <2>1. IsFiniteSet({1, 2}) /\ Cardinality({1, 2}) = 2
    <3>1. {1, 2} = 1..2 /\ 1 \in Int /\ 2 \in Int /\ ~(1 > 2) /\ 2 - 1 + 1 = 2
      OBVIOUS
    <3> QED BY <3>1, FS_Interval
  <2>2. IsFiniteSet(T) /\ Cardinality(T) = Cardinality(streets) * 2
    BY <1>1, <2>1, FS_Product
  <2> QED BY <1>1, <2>2
<1>8. /\ IsFiniteSet(T \ {away})
      /\ Cardinality(T \ {away}) = 2 * Cardinality(streets) - 1
  <2> HIDE DEF T
  <2> QED BY <1>3, <1>7, FS_RemoveElement
<1>9. Cardinality(1..Step) = Step
  <2>1. 1 \in Int /\ Step \in Int /\ ~(1 > Step) /\ Step - 1 + 1 = Step
    BY <1>1
  <2> QED BY <2>1, FS_Interval
<1>10. Cardinality(1..Step) <= Cardinality(T \ {away})
  <2> HIDE DEF T, f
  <2> QED BY <1>6, <1>8, FS_Injection
<1> QED BY <1>1, <1>8, <1>9, <1>10

\* Where there are at most twice as many streets as vertices, and two, the
\* route is closed by a street: the walk never runs out of steps.  (A map of
\* roads along a grid has fewer.)
THEOREM RoutesClose ==
    WalkSpec => [](Cardinality(streets) <= 2 * Cardinality(vertices) + 2 => RouteCloses)
<1>1. WalkInv => (Cardinality(streets) <= 2 * Cardinality(vertices) + 2 => RouteCloses)
  <2> SUFFICES ASSUME WalkInv, outcome = "route",
                      Cardinality(streets) <= 2 * Cardinality(vertices) + 2
               PROVE  {Last(cycle), Start} \in streets
    BY DEF RouteCloses
  <2>1. Step >= MaxSteps \/ {cur, Start} \in streets
    BY DEF WalkInv
  <2>2. Cardinality(vertices) \in Nat /\ Step \in Nat
    BY WalkTypes, FS_CardinalityType
  <2>3. ~(Step >= MaxSteps)
    BY <2>2, FewSteps DEF MaxSteps
  <2> QED BY <2>1, <2>3 DEF cur
<1> QED BY <1>1, WalkInvariantHolds, PTL

=============================================================================
