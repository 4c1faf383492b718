--------------------------- MODULE Routing_proofs ----------------------------
(***************************************************************************)
(* Proofs about the rings (FairRotation) for every set of channels and     *)
(* routes and every sequence of offers, about the requests that use them   *)
(* (RescueRouting) for any number of requests, channels, routes and        *)
(* switches, and about the verdicts they read (RouteTests) for every set   *)
(* of routes and manual tests and every number of tests.                   *)
(***************************************************************************)
EXTENDS RescueRouting, FairRotation, RouteTests, DataFacts, FiniteSetTheorems, TLAPS

------------------------------------------------------------------------------
(* The rings.                                                              *)

(* Where the channels served since c's turn can lie when the cursor is at  *)
(* cur: the cursor runs up from c, wraps around, and runs up to c again.   *)
Passed(c, cur, d) ==
    IF cur < c THEN d <= cur \/ d > c ELSE c < d /\ d <= cur

(* Nobody had two turns, and those who had one are behind the cursor, so   *)
(* that it cannot reach them before it reaches c.                          *)
TurnsBehind ==
    \A k \in Kinds, m \in Model : \A c, d \in Channel :
        /\ turns[k][m][c][d] \in {0, 1}
        /\ turns[k][m][c][d] = 1 => Passed(c, last[k][m], d)

(* The place of x in the rank order of routes, counted from 0.             *)
Index(routes, x) == Cardinality({y \in routes : Rank(y) < Rank(x)})

(* Place i lies in the stretch that starts at s and ends before b, around  *)
(* the end of the list where b is not behind s.                            *)
InRun(s, b, i) == IF s <= b THEN s <= i /\ i < b ELSE s <= i \/ i < b

(* The routes taken are those of one stretch that ends at the counter:     *)
(* whatever comes next is not in it until the round is over.               *)
TakenInOrder(routes, b, t) ==
    \E s \in 0 .. Cardinality(routes) - 1 : \A x \in Route :
        t[x] = IF x \in routes /\ InRun(s, b, Index(routes, x)) THEN 1 ELSE 0

RunsOfRoutes ==
    \A m \in Model, c \in Channel :
        /\ offered[m][c] \subseteq {x \in Route : ChannelOf(x) = c}
        /\ offered[m][c] = {} => taken[m][c] = NoneTaken
        /\ offered[m][c] # {} =>
              TakenInOrder(offered[m][c], routeNext[m][c] % Cardinality(offered[m][c]),
                           taken[m][c])

(* The inductive invariant.                                                *)
RotationInv == RotationTypeOK /\ TurnsBehind /\ RunsOfRoutes

LEMMA RotationInitInvariant == RotationInit => RotationInv
<1> SUFFICES ASSUME RotationInit PROVE RotationInv
  OBVIOUS
<1>1. RotationTypeOK
  BY RingAssumption
  DEF RotationInit, RingsInit, NoTurns, NoneTaken, RotationTypeOK, RingsTypeOK, Kinds
<1>2. TurnsBehind
  <2>1. \A k \in Kinds, m \in Model : \A c, d \in Channel : turns[k][m][c][d] = 0
    BY DEF RotationInit, NoTurns
  <2> QED BY <2>1 DEF TurnsBehind
<1>3. RunsOfRoutes
  BY DEF RotationInit, RunsOfRoutes
<1> QED BY <1>1, <1>2, <1>3 DEF RotationInv

(* The ring never serves a channel that c, still on offer, has already     *)
(* seen served: what it serves is either c itself or not yet passed.       *)
LEMMA NextIsNotPassed ==
    ASSUME NEW ids \in SUBSET Channel, NEW cur \in Channel \cup {0},
           NEW c \in ids, NEW d \in ids, IsNext(cur, ids, d), d # c
    PROVE  /\ ~ Passed(c, cur, d)
           /\ Passed(c, d, d)
           /\ \A e \in Channel : Passed(c, cur, e) => Passed(c, d, e)
<1>1. ids \subseteq Nat /\ cur \in Nat /\ c \in Nat /\ d \in Nat /\ Channel \subseteq Nat
  BY RingAssumption
<1>2. CASE cur < c
  <2>1. d > cur /\ d < c
    BY <1>1, <1>2 DEF IsNext
  <2> QED BY <1>1, <1>2, <2>1 DEF Passed
<1>3. CASE ~ (cur < c)
  <2>1. CASE \E i \in ids : i > cur
    <3>1. d > cur
      BY <1>1, <2>1 DEF IsNext
    <3> QED BY <1>1, <1>3, <3>1 DEF Passed
  <2>2. CASE ~ \E i \in ids : i > cur
    <3>1. d < c
      BY <1>1, <1>3, <2>2 DEF IsNext
    <3> QED BY <1>1, <1>3, <3>1 DEF Passed
  <2> QED BY <2>1, <2>2
<1> QED BY <1>2, <1>3

(* One pick of either ring preserves the invariant.                        *)
LEMMA PickInvariant ==
    ASSUME RotationInv, NEW k \in Kinds, NEW m \in Model, NEW ids \in SUBSET Channel,
           NEW s \in ids, IsNext(last[k][m], ids, s),
           last' = [last EXCEPT ![k][m] = s],
           UNCHANGED <<routeNext, offered, taken>>,
           CountTurn(k, m, ids, s)
    PROVE  RotationInv'
<1>1. RotationTypeOK /\ s \in Channel
  BY DEF RotationInv
<1> DEFINE row(c) == IF c \in ids \ {s}
                     THEN [turns[k][m][c] EXCEPT ![s] = @ + 1]
                     ELSE [e \in Channel |-> 0]
<1>2. /\ turns[k][m] \in [Channel -> [Channel -> Nat]]
      /\ turns' = [turns EXCEPT ![k][m] = [c \in Channel |-> row(c)]]
  BY <1>1 DEF RotationTypeOK, CountTurn
<1>3. \A c \in Channel : row(c) \in [Channel -> Nat]
  BY <1>1, <1>2
<1>4. RotationTypeOK'
  <2>1. last' \in [Kinds -> [Model -> Channel \cup {0}]]
    BY <1>1 DEF RotationTypeOK, RingsTypeOK
  <2>2. turns' \in [Kinds -> [Model -> [Channel -> [Channel -> Nat]]]]
    <3> HIDE DEF row
    <3> QED BY <1>1, <1>2, <1>3 DEF RotationTypeOK
  <2> QED BY <1>1, <2>1, <2>2 DEF RotationTypeOK, RingsTypeOK
<1>5. ASSUME NEW k2 \in Kinds, NEW m2 \in Model, NEW c \in Channel, NEW d \in Channel
      PROVE  /\ turns'[k2][m2][c][d] \in {0, 1}
             /\ turns'[k2][m2][c][d] = 1 => Passed(c, last'[k2][m2], d)
  <2>0. /\ turns[k2][m2][c][d] \in {0, 1}
        /\ turns[k2][m2][c][d] = 1 => Passed(c, last[k2][m2], d)
    BY DEF RotationInv, TurnsBehind
  <2>1. CASE k2 # k \/ m2 # m
    <3>1. turns'[k2][m2] = turns[k2][m2] /\ last'[k2][m2] = last[k2][m2]
      BY <1>1, <1>2, <2>1 DEF RotationTypeOK, RingsTypeOK
    <3> QED BY <2>0, <3>1
  <2>2. CASE k2 = k /\ m2 = m
    <3>1. turns'[k2][m2][c] = row(c) /\ last'[k2][m2] = s
      <4> HIDE DEF row
      <4> QED BY <1>1, <1>2, <2>2 DEF RotationTypeOK, RingsTypeOK
    <3>2. CASE c \in ids \ {s}
      <4>1. /\ ~ Passed(c, last[k][m], s)
            /\ Passed(c, s, s)
            /\ Passed(c, last[k][m], d) => Passed(c, s, d)
        <5> DEFINE cur == last[k][m]
        <5>1. cur \in Channel \cup {0}
          BY <1>1 DEF RotationTypeOK, RingsTypeOK
        <5>2. ids \in SUBSET Channel /\ s \in ids /\ c \in ids /\ s # c
              /\ IsNext(cur, ids, s)
          BY <3>2
        <5> HIDE DEF cur
        <5>3. /\ ~ Passed(c, cur, s)
              /\ Passed(c, s, s)
              /\ \A e \in Channel : Passed(c, cur, e) => Passed(c, s, e)
          BY ONLY <5>1, <5>2, NextIsNotPassed
        <5> QED BY <5>3 DEF cur
      <4>2. CASE d = s
        <5>1. turns[k][m][c][s] = 0
          BY <2>0, <2>2, <4>1, <4>2
        <5>2. row(c)[d] = 1
          BY <1>2, <3>2, <4>2, <5>1
        <5> QED BY <3>1, <4>1, <4>2, <5>2
      <4>3. CASE d # s
        <5>1. row(c)[d] = turns[k][m][c][d]
          BY <1>2, <3>2, <4>3
        <5> QED BY <2>0, <2>2, <3>1, <4>1, <5>1
      <4> QED BY <4>2, <4>3
    <3>3. CASE c \notin ids \ {s}
      <4>1. row(c)[d] = 0
        BY <3>3
      <4> QED BY <3>1, <4>1
    <3> QED BY <3>2, <3>3
  <2> QED BY <2>1, <2>2
<1>6. TurnsBehind'
  BY <1>5 DEF TurnsBehind
<1>7. RunsOfRoutes'
  BY DEF RotationInv, RunsOfRoutes
<1> QED BY <1>4, <1>6, <1>7 DEF RotationInv

(* The bound of the counter does not show: the list's size divides it.     *)
LEMMA CounterStep ==
    ASSUME NEW n \in Nat \ {0}, NEW p \in 0 .. RouteCycle - 1, RouteCycle % n = 0
    PROVE  ((p + 1) % RouteCycle) % n = IF (p % n) + 1 = n THEN 0 ELSE (p % n) + 1
<1>1. RouteCycle \in Nat \ {0} /\ p \in Nat
  BY RingAssumption
<1>2. CASE p + 1 = RouteCycle
  <2>1. (p + 1) % RouteCycle = 0 /\ 0 % n = 0
    BY <1>1, <1>2
  <2>2. (p + 1) % n = 0
    BY <1>2
  <2> QED BY <1>1, <2>1, <2>2, ModStep, DivMod
<1>3. CASE p + 1 # RouteCycle
  <2>1. (p + 1) % RouteCycle = p + 1
    BY <1>1, <1>3
  <2>2. (p + 1) % n = IF (p % n) + 1 = n THEN 0 ELSE (p % n) + 1
    BY <1>1, ModStep
  <2> QED BY <2>1, <2>2
<1> QED BY <1>2, <1>3

(* The place after the stretch is not in it; with it the stretch is longer *)
(* by one, or goes all the way round.                                      *)
LEMMA RunGrows ==
    ASSUME NEW n \in Nat \ {0}, NEW s \in 0 .. n - 1, NEW b \in 0 .. n - 1,
           NEW next, next = IF b + 1 = n THEN 0 ELSE b + 1
    PROVE  /\ ~ InRun(s, b, b)
           /\ next = s => \A i \in 0 .. n - 1 : InRun(s, b, i) \/ i = b
           /\ next # s => \A i \in 0 .. n - 1 : InRun(s, next, i) <=> InRun(s, b, i) \/ i = b
BY DEF InRun

(* The routes of one channel differ in rank, so that each has its place.   *)
LEMMA Places ==
    ASSUME NEW c \in Channel, NEW routes \in SUBSET {x \in Route : ChannelOf(x) = c}
    PROVE  /\ IsFiniteSet(routes) /\ Cardinality(routes) \in Nat
           /\ \A x \in routes : Index(routes, x) \in 0 .. Cardinality(routes) - 1
           /\ \A x, y \in routes : Index(routes, x) = Index(routes, y) => x = y
<1>1. IsFiniteSet(routes) /\ Cardinality(routes) \in Nat
  <2>1. routes \in SUBSET Route
    OBVIOUS
  <2> QED BY <2>1, RingAssumption, FS_Subset, FS_CardinalityType
<1> DEFINE Lower(x) == {y \in routes : Rank(y) < Rank(x)}
<1>2. \A x \in routes : Rank(x) \in Nat /\ x = <<c, Rank(x)>>
  BY RingAssumption DEF Rank, ChannelOf
<1>3. \A x \in routes : IsFiniteSet(Lower(x)) /\ Cardinality(Lower(x)) \in Nat
  <2>1. \A x \in routes : Lower(x) \in SUBSET routes
    OBVIOUS
  <2> HIDE DEF Lower
  <2> QED BY <1>1, <2>1, FS_Subset, FS_CardinalityType
<1>4. ASSUME NEW x \in routes
      PROVE  Index(routes, x) \in 0 .. Cardinality(routes) - 1
  <2>1. Lower(x) \in SUBSET routes /\ x \notin Lower(x)
    BY <1>2
  <2>2. Cardinality(Lower(x)) <= Cardinality(routes) /\ Cardinality(Lower(x)) # Cardinality(routes)
    <3> HIDE DEF Lower
    <3> QED BY <1>1, <2>1, FS_Subset
  <2> QED BY <1>1, <1>3, <2>2 DEF Index
<1>5. ASSUME NEW x \in routes, NEW y \in routes, Rank(x) < Rank(y)
      PROVE  Index(routes, x) # Index(routes, y)
  <2>1. Lower(x) \in SUBSET Lower(y) /\ x \in Lower(y) /\ x \notin Lower(x)
    BY <1>2, <1>5
  <2>2. Cardinality(Lower(x)) # Cardinality(Lower(y))
    <3> HIDE DEF Lower
    <3> QED BY <1>3, <2>1, FS_Subset
  <2> QED BY <2>2 DEF Index
<1>6. ASSUME NEW x \in routes, NEW y \in routes, Index(routes, x) = Index(routes, y)
      PROVE  x = y
  <2>1. Rank(x) = Rank(y)
    BY <1>2, <1>5, <1>6
  <2> QED BY <1>2, <2>1
<1> QED BY <1>1, <1>4, <1>6

(* One pick lengthens the stretch, or ends the round.                      *)
LEMMA PickKeepsRuns ==
    ASSUME RotationInv, NEW m \in Model, NEW c \in Channel,
           NEW routes \in (SUBSET {x \in Route : ChannelOf(x) = c}) \ {{}},
           PickRoute(m, c, routes)
    PROVE  RunsOfRoutes'
<1>1. RotationTypeOK /\ RunsOfRoutes
  BY DEF RotationInv
<1> DEFINE n == Cardinality(routes)
           p == routeNext[m][c]
           b == p % n
           before == IF offered[m][c] = routes THEN taken[m][c] ELSE NoneTaken
<1>2. PICK x \in routes :
          /\ IsNth(routes, b, x)
          /\ LET after == [before EXCEPT ![x] = @ + 1]
             IN taken' = [taken EXCEPT ![m][c] =
                            IF \A y \in routes : after[y] = 1 THEN NoneTaken ELSE after]
          /\ routeNext' = [routeNext EXCEPT ![m][c] = (p + 1) % RouteCycle]
          /\ offered' = [offered EXCEPT ![m][c] = routes]
  BY <1>1 DEF PickRoute, NextRescueRoute, RotationTypeOK, RingsTypeOK
<1> DEFINE after == [before EXCEPT ![x] = @ + 1]
           new == IF \A y \in routes : after[y] = 1 THEN NoneTaken ELSE after
<1>3. /\ taken'[m][c] = new /\ offered'[m][c] = routes
      /\ routeNext'[m][c] = (p + 1) % RouteCycle
      /\ \A m2 \in Model, c2 \in Channel : m2 # m \/ c2 # c =>
            /\ taken'[m2][c2] = taken[m2][c2]
            /\ offered'[m2][c2] = offered[m2][c2]
            /\ routeNext'[m2][c2] = routeNext[m2][c2]
  <2> HIDE DEF before
  <2> QED BY <1>1, <1>2 DEF RotationTypeOK, RingsTypeOK
<1>4. n \in Nat \ {0} /\ RouteCycle % n = 0
  <2> DEFINE all == {y \in Route : ChannelOf(y) = c}
  <2>1. IsFiniteSet(all) /\ Cardinality(all) \in Nat
    BY Places
  <2>2. n \in Nat /\ n <= Cardinality(all)
    BY <2>1, Places, FS_Subset
  <2>3. n # 0
    BY Places, FS_EmptySet
  <2>4. all = {y \in Route : y[1] = c}
    BY DEF ChannelOf
  <2> HIDE DEF n, all
  <2> QED BY <2>1, <2>2, <2>3, <2>4, RingAssumption
<1>5. p \in 0 .. RouteCycle - 1 /\ b \in 0 .. n - 1
  <2>1. p \in 0 .. RouteCycle - 1 /\ RouteCycle \in Nat
    BY <1>1, RingAssumption DEF RotationTypeOK, RingsTypeOK
  <2> HIDE DEF n, p
  <2> QED BY <1>4, <2>1, DivMod
<1>6. routeNext'[m][c] % n = IF b + 1 = n THEN 0 ELSE b + 1
  <2> HIDE DEF n, p
  <2> QED BY <1>3, <1>4, <1>5, CounterStep
<1>7. /\ before \in [Route -> Nat]
      /\ TakenInOrder(routes, b, before)
  <2>1. before \in [Route -> Nat]
    BY <1>1 DEF RotationTypeOK, NoneTaken
  <2>2. CASE offered[m][c] = routes
    BY <1>1, <2>1, <2>2 DEF RunsOfRoutes
  <2>3. CASE offered[m][c] # routes
    <3>1. \A y \in Route : before[y] = 0
      BY <2>3 DEF NoneTaken
    <3>2. \A y \in routes : ~ InRun(b, b, Index(routes, y))
      <4>1. \A y \in routes : Index(routes, y) \in Nat
        BY <1>4, Places
      <4> HIDE DEF b
      <4> QED BY <1>4, <1>5, <4>1 DEF InRun
    <3> HIDE DEF b, before, n
    <3>3. TakenInOrder(routes, b, before)
      BY <1>5, <3>1, <3>2 DEF TakenInOrder, n
    <3> QED BY <2>1, <3>3
  <2> QED BY <2>1, <2>2, <2>3
<1>8. TakenInOrder(routes, routeNext'[m][c] % n, new)
  <2> DEFINE next == IF b + 1 = n THEN 0 ELSE b + 1
  <2>1. PICK s \in 0 .. n - 1 : \A y \in Route :
            before[y] = IF y \in routes /\ InRun(s, b, Index(routes, y)) THEN 1 ELSE 0
    BY <1>7 DEF TakenInOrder
  <2>2. /\ ~ InRun(s, b, b)
        /\ next = s => \A i \in 0 .. n - 1 : InRun(s, b, i) \/ i = b
        /\ next # s => \A i \in 0 .. n - 1 : InRun(s, next, i) <=> InRun(s, b, i) \/ i = b
        /\ next \in 0 .. n - 1
    <3> HIDE DEF n, b
    <3>1. next \in 0 .. n - 1
      BY <1>4, <1>5
    <3>2. s \in 0 .. n - 1 /\ n \in Nat \ {0} /\ b \in 0 .. n - 1
          /\ next = IF b + 1 = n THEN 0 ELSE b + 1
      BY <1>4, <1>5
    <3> HIDE DEF next
    <3>3. /\ ~ InRun(s, b, b)
          /\ next = s => \A i \in 0 .. n - 1 : InRun(s, b, i) \/ i = b
          /\ next # s => \A i \in 0 .. n - 1 : InRun(s, next, i) <=> InRun(s, b, i) \/ i = b
      BY <3>2, RunGrows
    <3> QED BY <3>1, <3>3
  <2>3. /\ x \in Route /\ Index(routes, x) = b
        /\ \A y \in routes : Index(routes, y) \in 0 .. n - 1
        /\ \A y \in routes : Index(routes, y) = b <=> y = x
    <3>1. x \in Route /\ Index(routes, x) = b
      BY <1>2 DEF IsNth, Index
    <3> HIDE DEF b
    <3>2. /\ \A y \in routes : Index(routes, y) \in 0 .. n - 1
          /\ \A y, z \in routes : Index(routes, y) = Index(routes, z) => y = z
      BY Places
    <3> QED BY <3>1, <3>2
  <2> HIDE DEF n, b, before, next
  <2>4. \A y \in Route :
            after[y] = IF y \in routes /\ (InRun(s, b, Index(routes, y)) \/ Index(routes, y) = b)
                       THEN 1 ELSE 0
    BY <1>7, <2>1, <2>2, <2>3
  <2> HIDE DEF after
  <2>5. routeNext'[m][c] % n = next
    BY <1>6 DEF next
  <2>6. CASE \A y \in routes : after[y] = 1
    <3>1. \A y \in Route : new[y] = 0
      BY <2>6 DEF NoneTaken
    <3>2. \A y \in routes : ~ InRun(next, next, Index(routes, y))
      <4>1. \A y \in routes : Index(routes, y) \in Nat /\ next \in Nat
        BY <1>4, <2>2, <2>3
      <4> QED BY <4>1 DEF InRun
    <3> HIDE DEF new
    <3> QED BY <2>2, <2>5, <3>1, <3>2 DEF TakenInOrder, n
  <2>7. CASE ~ \A y \in routes : after[y] = 1
    <3>1. next # s
      BY <2>2, <2>3, <2>4, <2>7
    <3>2. \A y \in Route :
              after[y] = IF y \in routes /\ InRun(s, next, Index(routes, y)) THEN 1 ELSE 0
      BY <2>2, <2>3, <2>4, <3>1
    <3>3. new = after
      BY <2>7
    <3> HIDE DEF new
    <3> QED BY <2>1, <2>5, <3>2, <3>3 DEF TakenInOrder, n
  <2> QED BY <2>6, <2>7
<1>9. ASSUME NEW m2 \in Model, NEW c2 \in Channel
      PROVE  /\ offered'[m2][c2] \subseteq {y \in Route : ChannelOf(y) = c2}
             /\ offered'[m2][c2] = {} => taken'[m2][c2] = NoneTaken
             /\ offered'[m2][c2] # {} =>
                   TakenInOrder(offered'[m2][c2],
                                routeNext'[m2][c2] % Cardinality(offered'[m2][c2]),
                                taken'[m2][c2])
  <2>1. CASE m2 = m /\ c2 = c
    <3> HIDE DEF new
    <3> QED BY <1>3, <1>8, <2>1
  <2>2. CASE m2 # m \/ c2 # c
    BY <1>1, <1>3, <2>2 DEF RunsOfRoutes
  <2> QED BY <2>1, <2>2
<1> QED BY <1>9 DEF RunsOfRoutes, TakenInOrder

LEMMA RotationStepInvariant == RotationInv /\ [RotationNext]_rotationVars => RotationInv'
<1> SUFFICES ASSUME RotationInv, [RotationNext]_rotationVars
             PROVE  RotationInv'
  OBVIOUS
<1>1. CASE UNCHANGED rotationVars
  <2>1. RotationTypeOK'
    BY <1>1 DEF RotationInv, rotationVars, rings, turnHistory, RotationTypeOK, RingsTypeOK
  <2>2. TurnsBehind' /\ RunsOfRoutes'
    BY <1>1 DEF RotationInv, TurnsBehind, RunsOfRoutes, rotationVars, rings, turnHistory
  <2> QED BY <2>1, <2>2 DEF RotationInv
<1>2. ASSUME NEW m \in Model, NEW ids \in (SUBSET Channel) \ {{}},
             PickPrimary(m, ids)
      PROVE  RotationInv'
  <2>1. PICK c \in ids : /\ NextPrimary(m, ids, c)
                         /\ CountTurn("primary", m, ids, c)
                         /\ UNCHANGED <<offered, taken>>
    BY <1>2 DEF PickPrimary
  <2> QED BY <2>1, PickInvariant DEF NextPrimary, Kinds
<1>3. ASSUME NEW m \in Model, NEW ids \in (SUBSET Channel) \ {{}},
             PickRescue(m, ids)
      PROVE  RotationInv'
  <2>1. PICK c \in ids : /\ NextRescue(m, ids, c)
                         /\ CountTurn("rescue", m, ids, c)
                         /\ UNCHANGED <<offered, taken>>
    BY <1>3 DEF PickRescue
  <2> QED BY <2>1, PickInvariant DEF NextRescue, Kinds
<1>4. ASSUME NEW m \in Model, NEW c \in Channel,
             NEW routes \in (SUBSET {x \in Route : ChannelOf(x) = c}) \ {{}},
             PickRoute(m, c, routes)
      PROVE  RotationInv'
  <2>1. RotationTypeOK
    BY DEF RotationInv
  <2>2. last' = last /\ turns' = turns
    BY <1>4 DEF PickRoute, NextRescueRoute
  <2>3. routeNext' \in [Model -> [Channel -> 0 .. RouteCycle - 1]]
    <3>1. routeNext[m][c] \in Nat /\ RouteCycle \in Nat \ {0}
      BY <2>1, RingAssumption DEF RotationTypeOK, RingsTypeOK
    <3>2. (routeNext[m][c] + 1) % RouteCycle \in 0 .. RouteCycle - 1
      BY <3>1
    <3>3. routeNext' = [routeNext EXCEPT ![m][c] = (routeNext[m][c] + 1) % RouteCycle]
      BY <1>4, <2>1 DEF PickRoute, NextRescueRoute, RotationTypeOK, RingsTypeOK
    <3> QED BY <2>1, <3>2, <3>3 DEF RotationTypeOK, RingsTypeOK
  <2>4. offered' \in [Model -> [Channel -> SUBSET Route]]
    BY <1>4, <2>1 DEF PickRoute, RotationTypeOK
  <2>5. taken' \in [Model -> [Channel -> [Route -> Nat]]]
    <3>1. PICK x \in routes :
            LET before == IF offered[m][c] = routes THEN taken[m][c] ELSE NoneTaken
                after == [before EXCEPT ![x] = @ + 1]
            IN taken' = [taken EXCEPT ![m][c] =
                           IF \A y \in routes : after[y] = 1 THEN NoneTaken ELSE after]
      BY <1>4 DEF PickRoute
    <3> DEFINE before == IF offered[m][c] = routes THEN taken[m][c] ELSE NoneTaken
               after == [before EXCEPT ![x] = @ + 1]
               new == IF \A y \in routes : after[y] = 1 THEN NoneTaken ELSE after
    <3>2. before \in [Route -> Nat] /\ NoneTaken \in [Route -> Nat]
      BY <2>1 DEF RotationTypeOK, NoneTaken
    <3>3. new \in [Route -> Nat]
      <4>1. after \in [Route -> Nat]
        <5> HIDE DEF before
        <5> QED BY <3>2
      <4> HIDE DEF after
      <4> QED BY <3>2, <4>1
    <3>4. taken' = [taken EXCEPT ![m][c] = new]
      BY <2>1, <3>1 DEF RotationTypeOK
    <3> HIDE DEF new
    <3> QED BY <2>1, <3>3, <3>4 DEF RotationTypeOK
  <2>6. RotationTypeOK'
    BY <2>1, <2>2, <2>3, <2>4, <2>5 DEF RotationTypeOK, RingsTypeOK
  <2>7. TurnsBehind'
    BY <2>2 DEF RotationInv, TurnsBehind
  <2>8. RunsOfRoutes'
    BY <1>4, PickKeepsRuns
  <2> QED BY <2>6, <2>7, <2>8 DEF RotationInv
<1> QED BY <1>1, <1>2, <1>3, <1>4 DEF RotationNext

(* The cursors, the counters and the turnHistory keep their types.             *)
THEOREM RotationTypeCorrect == RotationSpec => []RotationTypeOK
<1>1. RotationInv => RotationTypeOK
  BY DEF RotationInv
<1> QED BY <1>1, RotationInitInvariant, RotationStepInvariant, PTL DEF RotationSpec

(* In each channel every route on offer is used once before one is used    *)
(* again, for as long as the offer stays the same.                         *)
THEOREM RoutesAreUsedUp == RotationSpec => []RoutesUsedUp
<1>1. RotationInv => RoutesUsedUp
  <2> SUFFICES ASSUME RotationInv, NEW m \in Model, NEW c \in Channel, NEW x \in Route
               PROVE  taken[m][c][x] <= 1
    BY DEF RoutesUsedUp
  <2>1. CASE offered[m][c] = {}
    BY <2>1 DEF RotationInv, RunsOfRoutes, NoneTaken
  <2>2. CASE offered[m][c] # {}
    <3>1. taken[m][c][x] \in {0, 1}
      BY <2>2 DEF RotationInv, RunsOfRoutes, TakenInOrder
    <3> QED BY <3>1
  <2> QED BY <2>1, <2>2
<1> QED BY <1>1, RotationInitInvariant, RotationStepInvariant, PTL DEF RotationSpec

(* Fair turns for any number of channels and any sequence of candidate     *)
(* sets: a channel that stays a candidate is served before any other is    *)
(* served twice, in the primary and in the rescue ring.                    *)
THEOREM RotationIsFair == RotationSpec => []FairTurns
<1>1. RotationInv => FairTurns
  BY DEF RotationInv, TurnsBehind, FairTurns
<1> QED BY <1>1, RotationInitInvariant, RotationStepInvariant, PTL DEF RotationSpec

------------------------------------------------------------------------------
(* The rescue.  Its promises are kept because each of the four calls of    *)
(* routeOptions hands on what it has established: QInv says what the       *)
(* options are worth while they are collected.                             *)

\* The candidate routes that passed since q began to choose.
Safe(q) == steady[q] \cap RoutesOf(q)

\* The three promises, of any route x that q may be given.
Worth(q, x) ==
    /\ Safe(q) # {} => x \in ever[q]
    /\ Safe(q) \ tried[q] # {} => x \notin tried[q]
    /\ x \in tried[q] => x \in ever[q] \/ RoutesOf(q) \subseteq tried[q]

\* What the scan has seen: a passing route is among the options or still unread.
Scanned(q) ==
    /\ tier[q] = 1 =>
          /\ options[q] \subseteq ever[q] \ tried[q]
          /\ Safe(q) \subseteq options[q] \cup unread[q] \cup tried[q]
    /\ tier[q] = 2 =>
          /\ options[q] \subseteq ever[q]
          /\ Safe(q) \subseteq tried[q]
          /\ Safe(q) \subseteq options[q] \cup unread[q]
    /\ tier[q] = 3 => Safe(q) = {} /\ options[q] = {}

QInv(q) ==
    /\ pc[q] = "new" => switches[q] = 0 /\ unread[q] = {} /\ options[q] = {}
    /\ pc[q] \in Running => route[q] \in RoutesOf(q)
    /\ unread[q] \cup options[q] \subseteq RoutesOf(q)
    /\ Choosing(q) =>
          /\ switches[q] < MaxSwitches
          /\ steady[q] \subseteq passing
          /\ passing \subseteq ever[q]
    /\ pc[q] = "scan" => Scanned(q)
    /\ pc[q] \in {"channel", "route"} => \A x \in options[q] : Worth(q, x)
    /\ JustRescued(q) => Worth(q, route[q])

IInv == TypeOK /\ \A q \in Request : QInv(q)

------------------------------------------------------------------------------
(* A ring is left well-typed by each of its operations.                    *)
LEMMA RingsKeepType ==
    ASSUME RingsTypeOK, NEW m \in Model,
           \/ \E ids \in SUBSET Channel, c \in Channel :
                 NextPrimary(m, ids, c) \/ NextRescue(m, ids, c)
           \/ \E c \in Channel, routes \in SUBSET Route, x \in Route :
                 NextRescueRoute(m, c, routes, x)
           \/ UNCHANGED rings
    PROVE  RingsTypeOK'
<1>1. CASE UNCHANGED rings
  BY <1>1 DEF rings, RingsTypeOK
<1>2. ASSUME NEW ids \in SUBSET Channel, NEW c \in Channel,
             NextPrimary(m, ids, c) \/ NextRescue(m, ids, c)
      PROVE RingsTypeOK'
  <2>1. PICK k \in Kinds : last' = [last EXCEPT ![k][m] = c] /\ routeNext' = routeNext
    BY <1>2 DEF NextPrimary, NextRescue, Kinds
  <2>2. [last[k] EXCEPT ![m] = c] \in [Model -> Channel \cup {0}]
    BY DEF RingsTypeOK
  <2> QED BY <2>1, <2>2 DEF RingsTypeOK
<1>3. ASSUME NEW c \in Channel, NEW routes \in SUBSET Route, NEW x \in Route,
             NextRescueRoute(m, c, routes, x)
      PROVE RingsTypeOK'
  <2>0. routeNext[m][c] \in Nat /\ RouteCycle \in Nat \ {0}
    BY RingAssumption DEF RingsTypeOK
  <2>1. (routeNext[m][c] + 1) % RouteCycle \in 0 .. RouteCycle - 1
    BY <2>0
  <2>2. routeNext' = [routeNext EXCEPT ![m][c] = (routeNext[m][c] + 1) % RouteCycle]
        /\ last' = last
    BY <1>3 DEF NextRescueRoute
  <2> QED BY <2>1, <2>2 DEF RingsTypeOK
<1> QED BY <1>1, <1>2, <1>3

LEMMA TypeStep ==
    ASSUME TypeOK, NEW q \in Request, RequestStep(q),
           Choosing(q) => switches[q] < MaxSwitches,
           pc[q] \in Running => route[q] \in RoutesOf(q)
    PROVE  TypeOK'
<1> USE DEF TypeOK, Running, Ended, Goes, request, history
<1>1. CASE SelectCandidates(q)
  <2>1. PICK cs \in (SUBSET Channel) \ {{}}, affinity \in Channel \cup {0},
             c \in Channel, x \in Route :
          /\ candidates' = [candidates EXCEPT ![q] = cs]
          /\ Primary(q, cs, affinity, c)
          /\ route' = [route EXCEPT ![q] = x]
    BY <1>1 DEF SelectCandidates
  <2>2. RingsTypeOK'
    <3>1. UNCHANGED rings \/ NextPrimary(ModelOf[q], cs, c)
      BY <2>1 DEF Primary
    <3>2. ModelOf[q] \in Model
      BY RescueAssumption
    <3> QED BY <3>1, <3>2, RingsKeepType
  <2> QED BY <1>1, <2>1, <2>2 DEF SelectCandidates
<1>2. CASE NoCandidates(q) \/ AttemptEnds(q) \/ StopRetrying(q) \/ Collected(q)
  BY <1>2 DEF NoCandidates, AttemptEnds, StopRetrying, Collected, rings, RingsTypeOK
<1>3. CASE TransformRequest(q) \/ ForcedKeyGone(q)
  <2>1. route[q] \in Route
    BY <1>3 DEF TransformRequest, captureCurrentRoute, ForcedKeyGone, RoutesOf
  <2>2. rings' = rings /\ RingsTypeOK'
    BY <1>3 DEF TransformRequest, captureCurrentRoute, ForcedKeyGone, rings, RingsTypeOK
  <2>3. tried[q] \cup {route[q]} \in SUBSET Route
    BY <2>1
  <2>4. tried' \in [Request -> SUBSET Route]
    BY <1>3, <2>3 DEF TransformRequest, captureCurrentRoute, ForcedKeyGone
  <2>6. steady' \in [Request -> SUBSET Route] /\ ever' \in [Request -> SUBSET Route]
    BY <1>3 DEF TransformRequest, captureCurrentRoute, ForcedKeyGone, Begin
  <2> QED BY <1>3, <2>2, <2>4, <2>6 DEF TransformRequest, captureCurrentRoute, ForcedKeyGone
<1>4. CASE NextChannel(q)
  <2>1. RoutesOf(q) \subseteq Route
    BY DEF RoutesOf
  <2> QED BY <1>4, <2>1 DEF NextChannel, rings, RingsTypeOK
<1>5. CASE ReadAvailability(q)
  BY <1>5 DEF ReadAvailability, rings, RingsTypeOK
<1>6. CASE NextTier(q)
  <2>1. RoutesOf(q) \subseteq Route
    BY DEF RoutesOf
  <2>2. tier[q] \in 1 .. 3 /\ (tier[q] <= 2 => tier[q] + 1 \in 1 .. 3)
    <3>1. tier[q] \in 1 .. 3
      OBVIOUS
    <3> QED BY ONLY <3>1
  <2> QED BY <1>6, <2>1, <2>2 DEF NextTier, rings, RingsTypeOK
<1>7. CASE BestEffort(q)
  <2>1. RoutesOf(q) \subseteq Route
    BY DEF RoutesOf
  <2> QED BY <1>7, <2>1 DEF BestEffort, rings, RingsTypeOK
<1>8. CASE RescueChannel(q)
  <2>1. PICK c \in Channel :
          /\ NextRescue(ModelOf[q], {ChannelOf(x) : x \in options[q]}, c)
          /\ options' = [options EXCEPT ![q] = {x \in options[q] : ChannelOf(x) = c}]
    BY <1>8 DEF RescueChannel
  <2>2. {ChannelOf(x) : x \in options[q]} \in SUBSET Channel
    BY RingAssumption DEF ChannelOf
  <2>3. RingsTypeOK'
    BY <2>1, <2>2, RescueAssumption, RingsKeepType
  <2> QED BY <1>8, <2>1, <2>3 DEF RescueChannel
<1>9. CASE RescueRoute(q)
  <2>1. PICK x \in options[q] :
          /\ NextRescueRoute(ModelOf[q], ChannelOf(x), options[q], x)
          /\ route' = [route EXCEPT ![q] = x]
    BY <1>9 DEF RescueRoute
  <2>2. x \in Route /\ options[q] \in SUBSET Route /\ ChannelOf(x) \in Channel
    BY RingAssumption DEF ChannelOf
  <2>3. RingsTypeOK'
    BY <2>1, <2>2, RescueAssumption, RingsKeepType
  <2>4. switches[q] + 1 \in 0 .. MaxSwitches
    BY <1>9, RescueAssumption DEF RescueRoute, Choosing
  <2> QED BY <1>9, <2>1, <2>2, <2>3, <2>4 DEF RescueRoute
<1> QED BY <1>1, <1>2, <1>3, <1>4, <1>5, <1>6, <1>7, <1>8, <1>9 DEF RequestStep

------------------------------------------------------------------------------
\* What QInv(q) reads, but for the availability.
Same(q) ==
    /\ pc'[q] = pc[q] /\ candidates'[q] = candidates[q] /\ route'[q] = route[q]
    /\ tried'[q] = tried[q] /\ switches'[q] = switches[q] /\ tier'[q] = tier[q]
    /\ unread'[q] = unread[q] /\ options'[q] = options[q]
    /\ steady'[q] = steady[q] /\ ever'[q] = ever[q]

(* A step of one request leaves every other request alone.                 *)
LEMMA OthersAlone ==
    ASSUME TypeOK, NEW q \in Request, RequestStep(q), NEW p \in Request, p # q
    PROVE  Same(p) /\ passing' = passing
<1> USE DEF TypeOK, Goes, request, history, Same
<1>1. CASE SelectCandidates(q) \/ NoCandidates(q) \/ AttemptEnds(q) \/ StopRetrying(q)
  BY <1>1 DEF SelectCandidates, NoCandidates, AttemptEnds, StopRetrying
<1>2. CASE TransformRequest(q) \/ ForcedKeyGone(q)
  BY <1>2 DEF TransformRequest, captureCurrentRoute, ForcedKeyGone, Begin
<1>3. CASE NextChannel(q) \/ ReadAvailability(q) \/ NextTier(q) \/ BestEffort(q)
           \/ Collected(q)
  BY <1>3 DEF NextChannel, ReadAvailability, NextTier, BestEffort, Collected
<1>4. CASE RescueChannel(q) \/ RescueRoute(q)
  BY <1>4 DEF RescueChannel, RescueRoute
<1> QED BY <1>1, <1>2, <1>3, <1>4 DEF RequestStep

LEMMA SameKeepsQInv ==
    ASSUME NEW q \in Request, QInv(q), Same(q), passing' = passing
    PROVE  QInv(q)'
BY DEF QInv, Same, RoutesOf, Choosing, Scanned, Safe, JustRescued, Worth

(* A verdict that arrives while q chooses only weakens what Worth asks.    *)
LEMMA VerdictKeepsQInv ==
    ASSUME TypeOK, NEW q \in Request, QInv(q), NEW x \in Route,
           TestPasses(x) \/ TestFails(x)
    PROVE  QInv(q)'
<1>1. /\ pc'[q] = pc[q] /\ candidates'[q] = candidates[q] /\ route'[q] = route[q]
      /\ tried'[q] = tried[q] /\ switches'[q] = switches[q] /\ tier'[q] = tier[q]
      /\ unread'[q] = unread[q] /\ options'[q] = options[q]
  BY DEF TestPasses, TestFails, request
<1>2. steady'[q] \subseteq steady[q] /\ ever[q] \subseteq ever'[q]
  BY DEF TestPasses, TestFails, TypeOK
<1>3. Choosing(q) /\ steady[q] \subseteq passing /\ passing \subseteq ever[q]
        => steady'[q] \subseteq passing' /\ passing' \subseteq ever'[q]
  BY DEF TestPasses, TestFails, TypeOK
<1>4. ~Choosing(q) => Same(q)
  BY <1>1 DEF TestPasses, TestFails, TypeOK, Same
<1>5. CASE Choosing(q)
  <2>1. RoutesOf(q)' = RoutesOf(q) /\ Safe(q)' \subseteq Safe(q)
    BY <1>1, <1>2 DEF RoutesOf, Safe
  <2>2. \A y \in Route : Worth(q, y) => Worth(q, y)'
    BY <1>1, <1>2, <2>1 DEF Worth
  <2>3. Scanned(q) => Scanned(q)'
    BY <1>1, <1>2, <2>1 DEF Scanned
  <2> QED BY <1>1, <1>3, <1>5, <2>1, <2>2, <2>3 DEF QInv, Choosing, JustRescued, Running, TypeOK
<1>6. CASE ~Choosing(q)
  BY <1>1, <1>4, <1>6 DEF QInv, Same, RoutesOf, Choosing, Scanned, Safe, JustRescued, Worth
<1> QED BY <1>5, <1>6

LEMMA OwnStepKeepsQInv ==
    ASSUME TypeOK, NEW q \in Request, QInv(q), RequestStep(q)
    PROVE  QInv(q)'
<1> USE DEF TypeOK, Goes, request, history
<1>1. CASE SelectCandidates(q)
  <2>1. PICK cs \in (SUBSET Channel) \ {{}}, c \in Channel, x \in Route :
          /\ candidates' = [candidates EXCEPT ![q] = cs]
          /\ c \in cs
          /\ ChannelOf(x) = c
          /\ route' = [route EXCEPT ![q] = x]
    BY <1>1 DEF SelectCandidates
  <2>2. route'[q] \in RoutesOf(q)'
    BY <2>1 DEF RoutesOf
  <2>3. pc'[q] = "built" /\ switches'[q] = 0 /\ unread'[q] = {} /\ options'[q] = {}
    BY <1>1 DEF SelectCandidates, QInv
  <2> QED BY <2>2, <2>3 DEF QInv, Choosing, JustRescued
<1>2. CASE NoCandidates(q)
  BY <1>2 DEF NoCandidates, QInv, Choosing, JustRescued, Running, RoutesOf
<1>3. CASE AttemptEnds(q) \/ StopRetrying(q) \/ TransformRequest(q) \/ ForcedKeyGone(q)
  BY <1>3 DEF AttemptEnds, StopRetrying, TransformRequest,
         captureCurrentRoute, ForcedKeyGone, QInv, Choosing,
              JustRescued, Running, RoutesOf
<1>4. CASE NextChannel(q)
  <2>1. /\ pc[q] = "failed" /\ pc'[q] = "scan" /\ tier'[q] = 1 /\ options'[q] = {}
        /\ unread'[q] = RoutesOf(q) /\ steady'[q] = passing /\ ever'[q] = passing
        /\ passing' = passing /\ switches'[q] < MaxSwitches /\ route'[q] = route[q]
        /\ RoutesOf(q)' = RoutesOf(q)
    BY <1>4 DEF NextChannel, RoutesOf
  <2>2. Scanned(q)'
    BY <2>1 DEF Scanned, Safe
  <2> QED BY <2>1, <2>2 DEF QInv, Choosing, JustRescued, Running
<1>5. CASE ReadAvailability(q)
  <2>1. PICK x \in unread[q] :
          /\ unread'[q] = unread[q] \ {x}
          /\ options'[q] = IF x \in passing /\ (tier[q] = 2 \/ x \notin tried[q])
                           THEN options[q] \cup {x} ELSE options[q]
    BY <1>5 DEF ReadAvailability
  <2>2. /\ pc[q] = "scan" /\ tier[q] # 3 /\ pc' = pc /\ tier' = tier /\ tried' = tried
        /\ steady' = steady /\ ever' = ever /\ passing' = passing /\ switches' = switches
        /\ route' = route /\ RoutesOf(q)' = RoutesOf(q) /\ Safe(q)' = Safe(q)
    BY <1>5 DEF ReadAvailability, RoutesOf, Safe
  <2>3. Safe(q) \subseteq passing /\ passing \subseteq ever[q] /\ Scanned(q)
    BY <2>2 DEF QInv, Choosing, Safe
  <2>4. Scanned(q)'
    BY <2>1, <2>2, <2>3 DEF Scanned
  <2>5. unread'[q] \cup options'[q] \subseteq RoutesOf(q)
    BY <2>1 DEF QInv
  <2> QED BY <2>2, <2>4, <2>5 DEF QInv, Choosing, JustRescued, Running
<1>6. CASE NextTier(q)
  <2>1. /\ pc[q] = "scan" /\ pc' = pc /\ tried' = tried /\ options' = options
        /\ options[q] = {} /\ unread[q] = {}
        /\ steady' = steady /\ ever' = ever /\ passing' = passing /\ switches' = switches
        /\ route' = route /\ RoutesOf(q)' = RoutesOf(q) /\ Safe(q)' = Safe(q)
    BY <1>6 DEF NextTier, RoutesOf, Safe
  <2>2. /\ tier[q] \in 1 .. 2 /\ tier'[q] = tier[q] + 1
        /\ unread'[q] = IF tier[q] = 1 THEN RoutesOf(q) ELSE {}
    BY <1>6 DEF NextTier
  <2>3. Scanned(q)
    BY <2>1 DEF QInv
  <2>4. Scanned(q)'
    <3>1. CASE tier[q] = 1 /\ tier'[q] = 2
      BY <2>1, <2>2, <2>3, <3>1 DEF Scanned, Safe
    <3>2. CASE tier[q] = 2 /\ tier'[q] = 3
      BY <2>1, <2>2, <2>3, <3>2 DEF Scanned
    <3> QED BY <2>2, <3>1, <3>2
  <2> QED BY <2>1, <2>2, <2>4 DEF QInv, Choosing, JustRescued, Running
<1>7. CASE BestEffort(q)
  <2>1. /\ pc[q] = "scan" /\ tier[q] = 3 /\ pc'[q] = "channel" /\ tried' = tried
        /\ steady' = steady /\ ever' = ever /\ passing' = passing /\ switches' = switches
        /\ route' = route /\ unread' = unread
        /\ RoutesOf(q)' = RoutesOf(q) /\ Safe(q)' = Safe(q)
        /\ options'[q] = IF RoutesOf(q) \ tried[q] # {} THEN RoutesOf(q) \ tried[q]
                                                       ELSE RoutesOf(q)
    BY <1>7 DEF BestEffort, RoutesOf, Safe
  <2>2. Safe(q) = {}
    BY <2>1 DEF QInv, Scanned
  <2>3. \A x \in options'[q] : Worth(q, x)'
    BY <2>1, <2>2 DEF Worth
  <2> QED BY <2>1, <2>3 DEF QInv, Choosing, JustRescued, Running
<1>8. CASE Collected(q)
  <2>1. /\ pc[q] = "scan" /\ unread[q] = {} /\ options[q] # {} /\ pc'[q] = "channel"
        /\ tried' = tried /\ steady' = steady /\ ever' = ever /\ passing' = passing
        /\ switches' = switches /\ route' = route /\ unread' = unread /\ options' = options
        /\ RoutesOf(q)' = RoutesOf(q) /\ Safe(q)' = Safe(q)
    BY <1>8 DEF Collected, RoutesOf, Safe
  <2>2. Scanned(q) /\ tier[q] \in 1 .. 3
    BY <2>1 DEF QInv
  <2>3. \A x \in options[q] : Worth(q, x)'
    BY <2>1, <2>2 DEF Scanned, Worth
  <2> QED BY <2>1, <2>3 DEF QInv, Choosing, JustRescued, Running
<1>9. CASE RescueChannel(q)
  <2>1. /\ pc[q] = "channel" /\ pc'[q] = "route" /\ options'[q] \subseteq options[q]
        /\ tried' = tried /\ steady' = steady /\ ever' = ever /\ passing' = passing
        /\ switches' = switches /\ route' = route /\ unread' = unread
        /\ RoutesOf(q)' = RoutesOf(q) /\ Safe(q)' = Safe(q)
    BY <1>9 DEF RescueChannel, RoutesOf, Safe
  <2>2. \A x \in options'[q] : Worth(q, x)'
    BY <2>1 DEF QInv, Worth
  <2> QED BY <2>1, <2>2 DEF QInv, Choosing, JustRescued, Running
<1>10. CASE RescueRoute(q)
  <2>1. PICK x \in options[q] : route'[q] = x
    BY <1>10 DEF RescueRoute
  <2>2. /\ pc[q] = "route" /\ pc'[q] = "built" /\ options'[q] = {}
        /\ tried' = tried /\ steady' = steady /\ ever' = ever /\ unread' = unread
        /\ RoutesOf(q)' = RoutesOf(q) /\ Safe(q)' = Safe(q)
    BY <1>10 DEF RescueRoute, RoutesOf, Safe
  <2>3. x \in RoutesOf(q) /\ Worth(q, x)
    BY <2>2 DEF QInv
  <2>4. Worth(q, route[q])'
    BY <2>1, <2>2, <2>3 DEF Worth
  <2> QED BY <2>1, <2>2, <2>3, <2>4 DEF QInv, Choosing
<1> QED BY <1>1, <1>2, <1>3, <1>4, <1>5, <1>6, <1>7, <1>8, <1>9, <1>10 DEF RequestStep

------------------------------------------------------------------------------
THEOREM IInvHolds == Spec => []IInv
<1>1. Init => IInv
  BY RingAssumption, RescueAssumption
     DEF Init, RingsInit, IInv, TypeOK, RingsTypeOK, Running, Ended, QInv, Choosing,
         JustRescued
<1>2. IInv /\ [Next]_vars => IInv'
  <2> SUFFICES ASSUME IInv, [Next]_vars PROVE IInv'
    OBVIOUS
  <2>1. TypeOK /\ \A q \in Request : QInv(q)
    BY DEF IInv
  <2>2. ASSUME NEW x \in Route, TestPasses(x) \/ TestFails(x) PROVE IInv'
    <3> USE DEF TestPasses, TestFails
    <3>0. RingsTypeOK'
      BY <2>1, <2>2 DEF TypeOK, RingsTypeOK, rings
    <3>1. passing' \subseteq Route
      BY <2>1, <2>2 DEF TypeOK
    <3>2. ever \in [Request -> SUBSET Route] /\ steady \in [Request -> SUBSET Route]
      BY <2>1 DEF TypeOK
    <3>3. ever' \in [Request -> SUBSET Route] /\ steady' \in [Request -> SUBSET Route]
      <4>1. CASE TestPasses(x)
        BY <3>2, <4>1
      <4>2. CASE TestFails(x)
        BY <3>2, <4>2
      <4> QED BY <2>2, <4>1, <4>2
    <3>4. UNCHANGED request
      BY <2>2
    <3> HIDE DEF TestPasses, TestFails
    <3>5. TypeOK'
      BY <2>1, <3>0, <3>1, <3>3, <3>4 DEF TypeOK, request
    <3> QED BY <2>1, <2>2, <3>5, VerdictKeepsQInv DEF IInv
  <2>3. ASSUME NEW q \in Request, RequestStep(q) PROVE IInv'
    <3>1. QInv(q)
      BY <2>1
    <3>2. TypeOK'
      BY <2>1, <2>3, <3>1, TypeStep DEF QInv
    <3>3. QInv(q)'
      BY <2>1, <2>3, <3>1, OwnStepKeepsQInv
    <3>4. ASSUME NEW p \in Request, p # q PROVE QInv(p)'
      BY <2>1, <2>3, <3>4, OthersAlone, SameKeepsQInv
    <3> QED BY <3>2, <3>3, <3>4 DEF IInv
  <2>4. CASE UNCHANGED vars
    <3>1. TypeOK'
      BY <2>1, <2>4 DEF vars, rings, request, history, TypeOK, RingsTypeOK
    <3>2. ASSUME NEW q \in Request PROVE QInv(q)'
      BY <2>1, <2>4, SameKeepsQInv DEF vars, request, history, Same
    <3> QED BY <3>1, <3>2 DEF IInv
  <2> QED BY <2>2, <2>3, <2>4 DEF Next
<1> QED BY <1>1, <1>2, PTL DEF Spec

(* The state keeps its type; in particular no request switches more often  *)
(* than the configured budget.                                             *)
THEOREM TypeCorrect == Spec => []TypeOK
<1>1. IInv => TypeOK
  BY DEF IInv
<1> QED BY <1>1, IInvHolds, PTL

(* While a candidate passes, NextChannel never falls back to a route that  *)
(* did not pass, however the verdicts move under its four scans.           *)
THEOREM RescueIsVerified == Spec => []RescueHonoursPass
<1>1. IInv => RescueHonoursPass
  BY DEF IInv, QInv, RescueHonoursPass, Worth, Safe
<1> QED BY <1>1, IInvHolds, PTL

(* No repetition while an untried route passes all along.                  *)
THEOREM FreshPassFirst == Spec => []NoRepeatBesideFreshPass
<1>1. IInv => NoRepeatBesideFreshPass
  BY DEF IInv, QInv, NoRepeatBesideFreshPass, Worth, Safe
<1> QED BY <1>1, IInvHolds, PTL

(* A repeated route passed, or everything was tried.                       *)
THEOREM RepeatsAreJustified == Spec => []RepeatHasReason
<1>1. IInv => RepeatHasReason
  BY DEF IInv, QInv, RepeatHasReason, Worth
<1> QED BY <1>1, IInvHolds, PTL

(* A request's route is always one of its own candidates' routes.          *)
THEOREM NeverLeavesCandidates == Spec => []StaysWithCandidates
<1>1. IInv => StaysWithCandidates
  BY DEF IInv, QInv, StaysWithCandidates
<1> QED BY <1>1, IInvHolds, PTL

------------------------------------------------------------------------------
(* The tests of routes.  NewestTestWins is not inductive: it needs that the *)
(* recorded generation is the largest completed one and that a running test *)
(* owns its generation alone (TestsInv).                                    *)

Numbered == {"numbered", "running", "judged"}

\* A test under way has a generation nobody else has, and none completed with it.
OwnGeneration ==
    \A t \in Test : stage[t] \in Numbered =>
        /\ \A u \in Test : u # t /\ stage[u] \in Numbered => gen[u] # gen[t]
        /\ \A r \in Tested : \A c \in completed[r] : c[1] # gen[t]

\* One verdict per generation.
OneVerdict ==
    \A r \in Tested : \A c, d \in completed[r] : c[1] = d[1] => c = d

\* The recorded verdict is a completed one, and none is newer.
RecordedIsLargest ==
    \A r \in Tested :
        /\ completed[r] = {} => availability[r] = "unknown" /\ generations[r] = 0
        /\ completed[r] # {} => <<generations[r], availability[r]>> \in completed[r]
        /\ \A c \in completed[r] : c[1] <= generations[r]

TestsInv == TestsTypeOK /\ OwnGeneration /\ OneVerdict /\ RecordedIsLargest

LEMMA TestsTypePreserved == TestsTypeOK /\ [TestsNext]_testVars => TestsTypeOK'
<1> SUFFICES ASSUME TestsTypeOK, [TestsNext]_testVars PROVE TestsTypeOK'
  OBVIOUS
<1> USE DEF TestsTypeOK, Verdict, Stages, Test
<1>1. ASSUME NEW r \in Tested, TriggerTest(r) \/ CountRun(r) \/ RunFails(r)
                              \/ UncountRun(r) \/ ForgetCall(r)
      PROVE TestsTypeOK'
  BY <1>1 DEF TriggerTest, CountRun, RunFails, UncountRun, ForgetCall, TestGoes
<1>2. ASSUME NEW r \in Tested, NEW v \in Verdict, RunCompletes(r, v) PROVE TestsTypeOK'
  BY <1>2 DEF RunCompletes, TestGoes
<1>3. ASSUME NEW r \in Tested, NextTestGeneration(r) PROVE TestsTypeOK'
  <2>1. 0 .. nextTestGen \subseteq 0 .. nextTestGen'
        /\ nextTestGen + 1 \in 0 .. nextTestGen'
    BY <1>3 DEF NextTestGeneration, TakeGeneration
  <2> QED BY <1>3, <2>1 DEF NextTestGeneration, TakeGeneration, TestGoes
<1>4. ASSUME NEW t \in Manual, ManualStarts(t) PROVE TestsTypeOK'
  <2>1. 0 .. nextTestGen \subseteq 0 .. nextTestGen'
        /\ nextTestGen + 1 \in 0 .. nextTestGen'
    BY <1>4 DEF ManualStarts, TakeGeneration
  <2> QED BY <1>4, <2>1 DEF ManualStarts, TakeGeneration, TestGoes
<1>5. ASSUME NEW t \in Test, NEW r \in Tested, NEW v \in Verdict,
             Record(r, gen[t], v), Remember(r, gen[t], v), UNCHANGED nextTestGen
      PROVE /\ availability' \in [Tested -> Verdict \cup {"unknown"}]
            /\ generations' \in [Tested -> 0 .. nextTestGen']
            /\ completed' \in [Tested -> SUBSET ((0 .. nextTestGen') \X Verdict)]
  <2>1. gen[t] \in 0 .. nextTestGen /\ nextTestGen' = nextTestGen
    BY <1>5
  <2>2. completed[r] \cup {<<gen[t], v>>} \in SUBSET ((0 .. nextTestGen) \X Verdict)
    BY <2>1
  <2>3. completed' \in [Tested -> SUBSET ((0 .. nextTestGen') \X Verdict)]
    BY <1>5, <2>1, <2>2 DEF Remember
  <2> QED BY <1>5, <2>1, <2>3 DEF Record
<1>6. ASSUME NEW r \in Tested, RecordVerdict(r) PROVE TestsTypeOK'
  BY <1>6, <1>5 DEF RecordVerdict, TestGoes
<1>7. ASSUME NEW t \in Manual, NEW r \in Tested, NEW v \in Verdict, ManualRecords(t, r, v)
      PROVE TestsTypeOK'
  BY <1>7, <1>5 DEF ManualRecords, TestGoes
<1>8. ASSUME NEW t \in Manual, ManualAborts(t) PROVE TestsTypeOK'
  BY <1>8 DEF ManualAborts, TestGoes
<1>9. CASE UNCHANGED testVars
  BY <1>9 DEF testVars
<1> QED
  BY <1>1, <1>2, <1>3, <1>4, <1>6, <1>7, <1>8, <1>9 DEF TestsNext, RunStep

(* The state keeps its type: in particular no test holds, and no route has *)
(* recorded, a generation that NextTestGeneration never handed out.        *)
THEOREM TestsTypeCorrect == TestsSpec => []TestsTypeOK
<1>1. TestsInit => TestsTypeOK
  BY DEF TestsInit, TestsTypeOK, Verdict, Stages
<1> QED BY <1>1, TestsTypePreserved, PTL DEF TestsSpec

------------------------------------------------------------------------------
\* t takes the next generation and becomes a numbered test.
Takes(t) ==
    /\ TakeGeneration(t)
    /\ \E s \in Numbered : stage' = [stage EXCEPT ![t] = s]
    /\ UNCHANGED <<availability, generations, completed>>

\* t records what it found of r and is numbered no more.
Records(t, r, v) ==
    /\ stage[t] \in Numbered
    /\ \E s \in Stages \ Numbered : stage' = [stage EXCEPT ![t] = s]
    /\ Record(r, gen[t], v)
    /\ Remember(r, gen[t], v)
    /\ UNCHANGED <<nextTestGen, gen>>

\* No test becomes numbered and nothing is recorded.
Keeps ==
    /\ \A t \in Test : stage'[t] \in Numbered => stage[t] \in Numbered
    /\ UNCHANGED <<availability, generations, completed, gen>>

(* For OwnGeneration and its companions there are three kinds of step.     *)
LEMMA ThreeKinds ==
    ASSUME TestsTypeOK, [TestsNext]_testVars
    PROVE  \/ \E t \in Test : Takes(t)
           \/ \E t \in Test, r \in Tested, v \in Verdict : Records(t, r, v)
           \/ Keeps
<1> USE DEF TestsTypeOK, Test, Numbered, Stages
<1>1. ASSUME NEW r \in Tested, TriggerTest(r) \/ CountRun(r) \/ RunFails(r)
                              \/ UncountRun(r) \/ ForgetCall(r)
      PROVE Keeps
  BY <1>1 DEF TriggerTest, CountRun, RunFails, UncountRun, ForgetCall, TestGoes, Keeps
<1>2. ASSUME NEW r \in Tested, NEW v \in Verdict, RunCompletes(r, v) PROVE Keeps
  BY <1>2 DEF RunCompletes, TestGoes, Keeps
<1>3. ASSUME NEW r \in Tested, NextTestGeneration(r) PROVE Takes(r)
  BY <1>3 DEF NextTestGeneration, TestGoes, Takes
<1>4. ASSUME NEW t \in Manual, ManualStarts(t) PROVE Takes(t)
  BY <1>4 DEF ManualStarts, TestGoes, Takes
<1>5. ASSUME NEW r \in Tested, RecordVerdict(r) PROVE Records(r, r, verdict[r])
  BY <1>5 DEF RecordVerdict, TestGoes, Records
<1>6. ASSUME NEW t \in Manual, NEW r \in Tested, NEW v \in Verdict, ManualRecords(t, r, v)
      PROVE Records(t, r, v)
  BY <1>6 DEF ManualRecords, TestGoes, Records
<1>7. ASSUME NEW t \in Manual, ManualAborts(t) PROVE Keeps
  BY <1>7 DEF ManualAborts, TestGoes, Keeps
<1>8. CASE UNCHANGED testVars
  BY <1>8 DEF testVars, Keeps
<1>9. \A r \in Tested : r \in Test /\ verdict[r] \in Verdict
  OBVIOUS
<1> QED
  BY <1>1, <1>2, <1>3, <1>4, <1>5, <1>6, <1>7, <1>8, <1>9 DEF TestsNext, RunStep

LEMMA TakesKeepsTestsInv ==
    ASSUME TestsInv, TestsTypeOK', NEW t \in Test, Takes(t)
    PROVE  OwnGeneration' /\ OneVerdict' /\ RecordedIsLargest'
<1> USE DEF TestsInv, TestsTypeOK, Takes, TakeGeneration
<1>1. gen'[t] = nextTestGen + 1 /\ \A u \in Test \ {t} : gen'[u] = gen[u]
  OBVIOUS
<1>2. \A u \in Test \ {t} : stage'[u] = stage[u]
  OBVIOUS
<1>3. \A u \in Test : gen[u] < nextTestGen + 1
  OBVIOUS
<1>4. \A r \in Tested : \A c \in completed[r] : c[1] < nextTestGen + 1
  <2> TAKE r \in Tested
  <2>1. completed[r] \in SUBSET ((0 .. nextTestGen) \X Verdict)
    OBVIOUS
  <2> QED BY <2>1
<1>5. OwnGeneration'
  <2>1. \A u, w \in Test :
           stage'[u] \in Numbered /\ u # w /\ stage'[w] \in Numbered => gen'[w] # gen'[u]
    BY <1>1, <1>2, <1>3 DEF OwnGeneration
  <2>2. \A u \in Test : stage'[u] \in Numbered =>
           \A r \in Tested : \A c \in completed[r] : c[1] # gen'[u]
    BY <1>1, <1>2, <1>4 DEF OwnGeneration
  <2> QED BY <2>1, <2>2 DEF OwnGeneration
<1> QED BY <1>5 DEF OneVerdict, RecordedIsLargest

LEMMA RecordsKeepsTestsInv ==
    ASSUME TestsInv, TestsTypeOK', NEW t \in Test, NEW r \in Tested, NEW v \in Verdict,
           Records(t, r, v)
    PROVE  OwnGeneration' /\ OneVerdict' /\ RecordedIsLargest'
<1> USE DEF TestsInv, TestsTypeOK, Records
<1>1. /\ completed'[r] = completed[r] \cup {<<gen[t], v>>}
      /\ \A q \in Tested \ {r} : completed'[q] = completed[q]
  BY DEF Remember
<1>2. /\ stage'[t] \notin Numbered
      /\ \A u \in Test \ {t} : stage'[u] = stage[u]
      /\ gen' = gen
  OBVIOUS
<1>3. \A q \in Tested : \A c \in completed[q] : c[1] # gen[t]
  BY DEF OwnGeneration
<1>4. OwnGeneration'
  BY <1>1, <1>2, <1>3 DEF OwnGeneration
<1>5. OneVerdict'
  BY <1>1, <1>3 DEF OneVerdict
<1>6. RecordedIsLargest'
  <2>1. \A q \in Tested \ {r} : generations'[q] = generations[q]
                               /\ availability'[q] = availability[q]
    BY DEF Record
  <2>2. \A c \in completed[r] : c[1] \in Nat /\ c[1] <= generations[r]
    <3>1. completed[r] \in SUBSET ((0 .. nextTestGen) \X Verdict)
      OBVIOUS
    <3>2. \A c \in completed[r] : c[1] <= generations[r]
      BY DEF RecordedIsLargest
    <3>3. \A c \in completed[r] : c[1] \in 0 .. nextTestGen
      BY <3>1
    <3> QED BY <3>2, <3>3
  <2>3. gen[t] \in Nat /\ generations[r] \in Nat
    OBVIOUS
  <2>4. CASE gen[t] < generations[r]
    <3>1. generations' = generations /\ availability' = availability
      BY <2>4 DEF Record
    <3>2. generations[r] # 0
      BY <2>3, <2>4
    <3>3. completed[r] # {}
      BY <3>2 DEF RecordedIsLargest
    <3>4. /\ <<generations[r], availability[r]>> \in completed[r]
          /\ \A c \in completed'[r] : c[1] <= generations[r]
      BY <1>1, <2>2, <2>4, <3>3 DEF RecordedIsLargest
    <3>5. RecordedIsLargest /\ \A q \in Tested \ {r} : completed'[q] = completed[q]
      BY <1>1
    <3>6. completed'[r] # {}
      BY <1>1
    <3> HIDE DEF TestsInv, TestsTypeOK, Records
    <3> QED BY <1>1, <3>1, <3>4, <3>5, <3>6 DEF RecordedIsLargest
  <2>5. CASE ~(gen[t] < generations[r])
    <3>1. generations'[r] = gen[t] /\ availability'[r] = v
      BY <2>5 DEF Record
    <3>2. \A c \in completed'[r] : c[1] <= generations'[r]
      BY <1>1, <2>2, <2>3, <2>5, <3>1
    <3>3. <<generations'[r], availability'[r]>> \in completed'[r]
      BY <1>1, <3>1
    <3>4. RecordedIsLargest /\ \A q \in Tested \ {r} : completed'[q] = completed[q]
      BY <1>1
    <3> HIDE DEF TestsInv, TestsTypeOK, Records
    <3> QED BY <2>1, <3>2, <3>3, <3>4 DEF RecordedIsLargest
  <2> QED BY <2>4, <2>5
<1> QED BY <1>4, <1>5, <1>6

THEOREM TestsInvHolds == TestsSpec => []TestsInv
<1>1. TestsInit => TestsInv
  BY DEF TestsInit, TestsInv, TestsTypeOK, Verdict, Stages, OwnGeneration, Numbered, OneVerdict,
         RecordedIsLargest
<1>2. TestsInv /\ [TestsNext]_testVars => TestsInv'
  <2> SUFFICES ASSUME TestsInv, [TestsNext]_testVars PROVE TestsInv'
    OBVIOUS
  <2>1. TestsTypeOK'
    BY TestsTypePreserved DEF TestsInv
  <2>2. ASSUME Keeps PROVE OwnGeneration' /\ OneVerdict' /\ RecordedIsLargest'
    BY <2>2 DEF Keeps, TestsInv, OwnGeneration, OneVerdict, RecordedIsLargest
  <2> QED BY <2>1, <2>2, ThreeKinds, TakesKeepsTestsInv, RecordsKeepsTestsInv DEF TestsInv
<1> QED BY <1>1, <1>2, PTL DEF TestsSpec

(* A slow, older test never overwrites the verdict of one that started     *)
(* later: RecordTestVerdictGeneration compares the captured generations.   *)
THEOREM SlowTestsLose == TestsSpec => []NewestTestWins
<1>1. TestsInv => NewestTestWins
  <2> SUFFICES ASSUME TestsInv, NEW r \in Tested
               PROVE  /\ availability[r] = "unknown" <=> completed[r] = {}
                      /\ \A c \in completed[r] :
                            (\A d \in completed[r] : d[1] <= c[1]) => availability[r] = c[2]
    BY DEF NewestTestWins
  <2>1. completed[r] \in SUBSET ((0 .. nextTestGen) \X Verdict)
    BY DEF TestsInv, TestsTypeOK
  <2>2. ASSUME completed[r] # {}
        PROVE <<generations[r], availability[r]>> \in completed[r]
    BY <2>2 DEF TestsInv, RecordedIsLargest
  <2>3. availability[r] = "unknown" <=> completed[r] = {}
    BY <2>1, <2>2 DEF TestsInv, RecordedIsLargest, Verdict
  <2>4. ASSUME NEW c \in completed[r], \A d \in completed[r] : d[1] <= c[1]
        PROVE availability[r] = c[2]
    <3>1. <<generations[r], availability[r]>> \in completed[r]
      BY <2>2
    <3>2. c[1] \in Nat /\ generations[r] \in Nat
          /\ generations[r] <= c[1] /\ c[1] <= generations[r]
      BY <2>1, <2>4, <3>1 DEF TestsInv, RecordedIsLargest
    <3>3. c = <<generations[r], availability[r]>>
      BY <3>1, <3>2 DEF TestsInv, OneVerdict
    <3> QED BY <3>3
  <2> QED BY <2>3, <2>4
<1> QED BY <1>1, TestsInvHolds, PTL

(* Whatever way a run ends, the deferred decrement has run by then.        *)
THEOREM InflightCounted == TestsSpec => []InflightIsExact
<1>1. TestsInit => InflightIsExact
  BY DEF TestsInit, InflightIsExact, Test
<1>2. TestsTypeOK /\ InflightIsExact /\ [TestsNext]_testVars => InflightIsExact'
  <2> SUFFICES ASSUME TestsTypeOK, InflightIsExact, [TestsNext]_testVars PROVE InflightIsExact'
    OBVIOUS
  <2> USE DEF TestsTypeOK, Test, InflightIsExact
  <2>1. ASSUME NEW r \in Tested, NextTestGeneration(r) \/ TriggerTest(r) \/ CountRun(r)
                 \/ RunFails(r) \/ RecordVerdict(r) \/ UncountRun(r) \/ ForgetCall(r)
        PROVE InflightIsExact'
    BY <2>1 DEF TriggerTest, NextTestGeneration, CountRun, RunFails, RecordVerdict,
                UncountRun, ForgetCall, TestGoes
  <2>2. ASSUME NEW r \in Tested, NEW v \in Verdict, RunCompletes(r, v)
        PROVE InflightIsExact'
    BY <2>2 DEF RunCompletes, TestGoes
  <2>3. ASSUME NEW t \in Manual,
               ManualStarts(t) \/ ManualAborts(t)
                 \/ \E r \in Tested, v \in Verdict : ManualRecords(t, r, v)
        PROVE InflightIsExact'
    BY <2>3, TestsAssumption DEF ManualStarts, ManualAborts, ManualRecords, TestGoes
  <2>4. CASE UNCHANGED testVars
    BY <2>4 DEF testVars
  <2> QED BY <2>1, <2>2, <2>3, <2>4 DEF TestsNext, RunStep
<1> QED BY <1>1, <1>2, TestsTypeCorrect, PTL DEF TestsSpec
==============================================================================
