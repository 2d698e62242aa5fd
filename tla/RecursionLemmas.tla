--------------------------- MODULE RecursionLemmas ---------------------------
(***************************************************************************)
(* Lemmas about natural numbers and about functions that are defined by    *)
(* recursion.                                                              *)
(***************************************************************************)
EXTENDS Integers, WellFoundedInduction, TLAPS

\* A set of natural numbers has a least element.
LEMMA LeastNatural ==
    ASSUME NEW T \in SUBSET Nat, T # {}
    PROVE  \E m \in T : \A k \in T : m <= k
<1>1. PICK m \in T : \A k \in T : ~(<<k, m>> \in OpToRel(<, Nat))
  BY NatLessThanWellFounded, WFMin
<1>2. \A k \in T : ~(k < m)
  BY <1>1 DEF OpToRel
<1> QED BY <1>2

\* Outside of B, next goes down a rank.
WellRanked(D, B, next, rank, bound) ==
    /\ rank \in [D -> Nat] /\ bound \in Nat /\ \A x \in D : rank[x] <= bound
    /\ B \in SUBSET D
    /\ \A x \in D \ B : next[x] \in D /\ rank[next[x]] < rank[x]

IsRecursive(h, D, B, next, base, step) ==
    \A x \in D : h[x] = IF x \in B THEN base[x] ELSE step[<<x, h[next[x]]>>]

\* A function that is defined at x by its value at next[x], of lower rank,
\* exists: the form of all recursive functions here.
LEMMA RecursionExists ==
    ASSUME NEW D, NEW V, NEW rank, NEW bound, NEW B, NEW next,
           WellRanked(D, B, next, rank, bound),
           NEW base \in [B -> V], NEW step \in [(D \ B) \X V -> V]
    PROVE  \E h \in [D -> V] : IsRecursive(h, D, B, next, base, step)
<1> USE DEF WellRanked, IsRecursive
<1> DEFINE Low(n) == {x \in D : rank[x] <= n}
           Solves(h, n) == \A x \in Low(n) :
              h[x] = IF x \in B THEN base[x] ELSE step[<<x, h[next[x]]>>]
           Bad == {n \in Nat : ~\E h \in [Low(n) -> V] : Solves(h, n)}
<1>1. ASSUME Bad # {} PROVE FALSE
  <2>1. PICK n \in Bad : \A k \in Bad : n <= k
    BY <1>1, LeastNatural
  <2>2. n \in Nat
    OBVIOUS
  <2>3. ASSUME NEW x \in Low(n) \ B
        PROVE  next[x] \in D /\ rank[next[x]] < n /\ n # 0
    <3>1. /\ x \in D \ B /\ rank[x] <= n /\ rank[x] \in Nat
          /\ next[x] \in D /\ rank[next[x]] < rank[x]
      OBVIOUS
    <3>2. rank[next[x]] \in Nat
      BY <3>1
    <3> QED BY <2>2, <3>1, <3>2
  <2>4. PICK g : \A x \in Low(n) \ B : g[next[x]] \in V
                    /\ g[next[x]] = IF next[x] \in B THEN base[next[x]]
                                    ELSE step[<<next[x], g[next[next[x]]]>>]
    <3>1. CASE n = 0
      BY <2>3, <3>1
    <3>2. CASE n # 0
      <4>1. n - 1 \in Nat /\ n - 1 < n
        BY <2>2, <3>2
      <4>2. n - 1 \notin Bad
        <5> SUFFICES ASSUME n - 1 \in Bad PROVE FALSE
          OBVIOUS
        <5>1. n <= n - 1
          BY <2>1
        <5> QED BY <4>1, <5>1, <2>2
      <4>3. PICK g \in [Low(n - 1) -> V] : Solves(g, n - 1)
        BY <4>1, <4>2
      <4>4. \A x \in Low(n) \ B : next[x] \in Low(n - 1)
        <5>1. SUFFICES ASSUME NEW x \in Low(n) \ B PROVE next[x] \in Low(n - 1)
          OBVIOUS
        <5>2. next[x] \in D /\ rank[next[x]] < n /\ rank[next[x]] \in Nat
          BY <2>3
        <5> QED BY <2>2, <5>2
      <4> QED BY <4>3, <4>4
    <3> QED BY <3>1, <3>2
  <2> DEFINE h == [x \in Low(n) |-> IF x \in B THEN base[x] ELSE step[<<x, g[next[x]]>>]]
  <2>5. h \in [Low(n) -> V]
    <3>1. \A x \in Low(n) \ B : step[<<x, g[next[x]]>>] \in V
      BY <2>4
    <3> QED BY <3>1
  <2>6. ASSUME NEW x \in Low(n) \ B PROVE h[next[x]] = g[next[x]]
    <3>1. next[x] \in Low(n)
      <4>1. next[x] \in D /\ rank[next[x]] < n /\ rank[next[x]] \in Nat
        BY <2>3
      <4> QED BY <2>2, <4>1
    <3> QED BY <2>4, <3>1
  <2>7. Solves(h, n)
    BY <2>6
  <2> QED BY <2>1, <2>5, <2>7
<1>2. PICK h \in [Low(bound) -> V] : Solves(h, bound)
  BY <1>1
<1>3. Low(bound) = D
  OBVIOUS
<1> QED BY <1>2, <1>3

\* There is only one: functions that agree at x if they do at next[x] agree.
LEMMA RecursionIsUnique ==
    ASSUME NEW D, NEW rank, NEW bound, NEW B, NEW next,
           WellRanked(D, B, next, rank, bound),
           NEW g, NEW h, \A x \in B : g[x] = h[x],
           \A x \in D \ B : g[next[x]] = h[next[x]] => g[x] = h[x]
    PROVE  \A x \in D : g[x] = h[x]
<1> USE DEF WellRanked
<1> DEFINE Ranks == {rank[x] : x \in {y \in D : g[y] # h[y]}}
<1> SUFFICES ASSUME Ranks # {} PROVE FALSE
  OBVIOUS
<1>1. PICK m \in Ranks : \A k \in Ranks : m <= k
  <2>1. Ranks \in SUBSET Nat
    OBVIOUS
  <2> QED BY <2>1, LeastNatural
<1>2. PICK x \in D : g[x] # h[x] /\ m = rank[x]
  OBVIOUS
<1>3. x \notin B
  BY <1>2
<1>4. next[x] \in D /\ rank[next[x]] < m /\ rank[next[x]] \in Nat /\ m \in Nat
  BY <1>2, <1>3
<1>5. g[next[x]] # h[next[x]]
  BY <1>2, <1>3
<1>6. rank[next[x]] \in Ranks
  BY <1>4, <1>5
<1>7. m <= rank[next[x]]
  BY <1>1, <1>6
<1> QED BY <1>4, <1>7

=============================================================================
