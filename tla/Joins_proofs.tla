---------------------------- MODULE Joins_proofs ----------------------------
(***************************************************************************)
(* What Joins promises, for any tree of bodies and any processes: its      *)
(* types; that a segment goes on past a frame once; and that it does so    *)
(* with every arm's export in, and nothing in the frame goes on after.     *)
(* The first is for every instance; the second where no race is in an arm  *)
(* of a race; the third where besides no lease lapses under a process that *)
(* goes on.                                                                *)
(***************************************************************************)
EXTENDS Joins, FiniteSetTheorems, WellFoundedInduction, SequenceTheorems, TLAPS

-----------------------------------------------------------------------------
(* The tree. *)

\* A set of naturals that is not empty has a least element.
LEMMA LeastNat ==
    ASSUME NEW S \in SUBSET Nat, S # {}
    PROVE  \E m \in S : \A k \in S : m <= k
<1> DEFINE R == StrictSubsetOrdering(Nat)
           F == FiniteSubsetsOf(Nat)
           T == {0 .. n : n \in S}
<1>1. IsWellFoundedOn(R, F)
  BY FS_StrictSubsetOrderingWellFounded, Zenon
<1>2. T \subseteq F /\ T # {}
  <2>1. \A n \in S : 0 .. n \in SUBSET Nat /\ IsFiniteSet(0 .. n)
    BY FS_Interval
  <2> QED BY <2>1 DEF FiniteSubsetsOf
<1>3. \E x \in T : \A y \in T : ~(<<y, x>> \in R)
  <2> HIDE DEF R, T, F
  <2> QED BY <1>1, <1>2, WFMin
<1>4. PICK m \in S : \A k \in S : ~(<<0 .. k, 0 .. m>> \in R)
  BY <1>3
<1>5. ASSUME NEW k \in S, k < m PROVE FALSE
  <2>1. m \in 0 .. m /\ m \notin 0 .. k
    BY <1>5
  <2>2. 0 .. k \in SUBSET Nat /\ 0 .. m \in SUBSET Nat /\ 0 .. k \subseteq 0 .. m /\ 0 .. k # 0 .. m
    BY <1>5, <2>1
  <2>3. <<0 .. k, 0 .. m>> \in R
    BY <2>2 DEF StrictSubsetOrdering
  <2> QED BY <2>3, <1>4
<1> QED BY <1>4, <1>5

\* A leaf or a frame has one body, and one place in it.
LEMMA Places ==
    ASSUME NEW x \in Points
    PROVE  /\ HomeOf(x) \in Bodies
           /\ PlaceOf(x) \in DOMAIN Statements[HomeOf(x)]
           /\ Statements[HomeOf(x)][PlaceOf(x)] = x
<1>1. PICK b \in Bodies : \A c \in Bodies : (\E i \in DOMAIN Statements[c] : Statements[c][i] = x) <=> c = b
  BY TextAssumption
<1>2. HomeOf(x) \in Bodies /\ \E i \in DOMAIN Statements[HomeOf(x)] : Statements[HomeOf(x)][i] = x
  BY <1>1 DEF HomeOf
<1> QED BY <1>2 DEF PlaceOf

\* A statement's place is a place of its body.
LEMMA PlacesIn ==
    ASSUME NEW x \in Points
    PROVE  PlaceOf(x) \in 1 .. Len(Statements[HomeOf(x)]) /\ PlaceOf(x) \in Nat \ {0}
<1>1. Statements[HomeOf(x)] \in Seq(Points)
  BY Places, TreeAssumption
<1> QED BY <1>1, Places

\* The statement at a place of a body is of that body, at that place.
LEMMA Stated ==
    ASSUME NEW b \in Bodies, NEW i \in DOMAIN Statements[b]
    PROVE  /\ Statements[b][i] \in Points /\ HomeOf(Statements[b][i]) = b /\ PlaceOf(Statements[b][i]) = i
<1> DEFINE x == Statements[b][i]
<1>1. Statements[b] \in Seq(Points)
  BY TreeAssumption
<1>2. x \in Points /\ DOMAIN Statements[b] \in SUBSET Nat
  BY <1>1
<1>3. HomeOf(x) = b
  <2>1. PICK d \in Bodies : \A c \in Bodies : (\E j \in DOMAIN Statements[c] : Statements[c][j] = x) <=> c = d
    BY <1>2, TextAssumption
  <2> QED BY <2>1, <1>2, Places
<1>4. PlaceOf(x) \in DOMAIN Statements[b] /\ Statements[b][PlaceOf(x)] = x
  BY <1>2, <1>3, Places
<1>5. Line[x] \in Nat
  BY <1>2, TreeAssumption, FS_CardinalityType
<1>6. ASSUME NEW j \in DOMAIN Statements[b], NEW k \in DOMAIN Statements[b], j < k, Statements[b][j] = x, Statements[b][k] = x
      PROVE FALSE
  <2>1. Line[Statements[b][j]] < Line[Statements[b][k]]
    BY <1>6, TextAssumption
  <2> QED BY <2>1, <1>6, <1>5
<1>7. PlaceOf(x) = i
  BY <1>4, <1>6, <1>2
<1> QED BY <1>2, <1>3, <1>7

\* An arm is a body of its own, of that frame alone.
LEMMA ArmsIn ==
    ASSUME NEW f \in Frames, NEW a \in Arms[f]
    PROVE  a \in Bodies /\ a # Top /\ FrameOf(a) = f /\ f \in Points
<1>1. a \in Bodies /\ a # Top
  BY TreeAssumption
<1>2. PICK g \in Frames : \A h \in Frames : a \in Arms[h] <=> h = g
  BY <1>1, TextAssumption
<1> QED BY <1>1, <1>2 DEF FrameOf, Points

\* Every body but the movement's is an arm of its frame.
LEMMA FrameOfArm ==
    ASSUME NEW a \in Bodies, a # Top
    PROVE  FrameOf(a) \in Frames /\ FrameOf(a) \in Points /\ a \in Arms[FrameOf(a)]
<1>1. PICK g \in Frames : \A h \in Frames : a \in Arms[h] <=> h = g
  BY TextAssumption
<1> QED BY <1>1 DEF FrameOf, Points

\* The body an arm's frame is in.
Around(b) == HomeOf(FrameOf(b))

\* The body around an arm is a body.
LEMMA AroundIn == ASSUME NEW b \in Bodies, b # Top PROVE Around(b) \in Bodies
BY FrameOfArm, Places DEF Around

\* A set of bodies has an outermost one.
LEMMA Outermost ==
    ASSUME NEW S \in SUBSET Bodies, S # {}
    PROVE  \E b \in S : b = Top \/ Around(b) \notin S
<1> SUFFICES ASSUME Top \notin S PROVE \E b \in S : Around(b) \notin S
  OBVIOUS
<1> DEFINE T == {Line[FrameOf(b)] : b \in S}
<1>0. \A x \in Points : Line[x] \in Nat
  BY TreeAssumption, FS_CardinalityType
<1>1. \A b \in S : FrameOf(b) \in Frames /\ FrameOf(b) \in Points /\ b \in Arms[FrameOf(b)]
  BY FrameOfArm
<1>2. T \in SUBSET Nat /\ T # {}
  BY <1>0, <1>1
<1>3. PICK m \in T : \A k \in T : m <= k
  <2> HIDE DEF T
  <2> QED BY <1>2, LeastNat
<1>4. PICK b \in S : \A c \in S : Line[FrameOf(b)] <= Line[FrameOf(c)]
  BY <1>3
<1>5. ASSUME Around(b) \in S PROVE FALSE
  <2>1. Line[FrameOf(Around(b))] < Line[Statements[Around(b)][PlaceOf(FrameOf(b))]]
    BY <1>1, <1>5, Places, TextAssumption DEF Around
  <2>2. Statements[Around(b)][PlaceOf(FrameOf(b))] = FrameOf(b)
    BY <1>1, Places DEF Around
  <2>3. Line[FrameOf(b)] \in Nat /\ Line[FrameOf(Around(b))] \in Nat
    BY <1>0, <1>1, <1>5
  <2> QED BY <2>1, <2>2, <2>3, <1>4, <1>5
<1> QED BY <1>5

\* Above, a recursive function, is defined.
LEMMA AboveIs == \A b \in Bodies : Above[b] = IF b = Top THEN {Top} ELSE {b} \cup Above[Around(b)]
<1> DEFINE Closed(S) == \A d \in S : d # Top => Around(d) \in S
           A == [b \in Bodies |-> {c \in Bodies : \A S \in SUBSET Bodies : b \in S /\ Closed(S) => c \in S}]
<1>1. ASSUME NEW b \in Bodies PROVE A[b] = IF b = Top THEN {Top} ELSE {b} \cup A[Around(b)]
  <2>1. b \in A[b]
    OBVIOUS
  <2>2. CASE b = Top
    <3>1. {Top} \in SUBSET Bodies /\ Closed({Top})
      BY TreeAssumption
    <3> QED BY <3>1, <2>1, <2>2
  <2>3. CASE b # Top
    <3>0. Around(b) \in Bodies
      BY <2>3, AroundIn
    <3>1. ASSUME NEW c \in A[Around(b)] PROVE c \in A[b]
      <4>1. ASSUME NEW S \in SUBSET Bodies, b \in S, Closed(S) PROVE c \in S
        <5>1. Around(b) \in S
          BY <2>3, <4>1
        <5> QED BY <5>1, <4>1, <3>0, <3>1
      <4> QED BY <4>1, <3>0, <3>1
    <3>2. ASSUME NEW c \in A[b], c # b, c \notin A[Around(b)] PROVE FALSE
      <4>1. PICK S \in SUBSET Bodies : Around(b) \in S /\ Closed(S) /\ c \notin S
        BY <3>2, <3>0
      <4>2. S \cup {b} \in SUBSET Bodies /\ Closed(S \cup {b}) /\ b \in S \cup {b}
        BY <4>1
      <4>3. c \in S \cup {b}
        <5> HIDE DEF Closed
        <5> QED BY <4>2, <3>2
      <4> QED BY <4>3, <4>1, <3>2
    <3>3. A[b] = {b} \cup A[Around(b)]
      <4> HIDE DEF A
      <4> QED BY <3>1, <3>2, <2>1
    <3> QED BY <3>3, <2>3
  <2> QED BY <2>2, <2>3
<1>2. A = [b \in Bodies |-> IF b = Top THEN {Top} ELSE {b} \cup A[HomeOf(FrameOf(b))]]
  <2>1. A = [b \in Bodies |-> A[b]]
    OBVIOUS
  <2> HIDE DEF A
  <2> QED BY <2>1, <1>1 DEF Around
<1>3. \E h : h = [b \in Bodies |-> IF b = Top THEN {Top} ELSE {b} \cup h[HomeOf(FrameOf(b))]]
  <2> HIDE DEF A
  <2> QED BY <1>2
<1>4. Above = [b \in Bodies |-> IF b = Top THEN {Top} ELSE {b} \cup Above[HomeOf(FrameOf(b))]]
  BY <1>3 DEF Above
<1> QED BY <1>4 DEF Around

\* The movement's body is in itself alone.
LEMMA AboveTop == Above[Top] = {Top}
BY AboveIs, TreeAssumption

\* An arm is in itself and in what the body around it is in.
LEMMA AboveArm == ASSUME NEW b \in Bodies, b # Top PROVE Above[b] = {b} \cup Above[Around(b)]
BY AboveIs

\* A body is in itself, and in the movement's own.
LEMMA AboveIn ==
    ASSUME NEW b \in Bodies
    PROVE  Above[b] \subseteq Bodies /\ b \in Above[b] /\ Top \in Above[b]
<1> DEFINE S == {d \in Bodies : ~(Above[d] \subseteq Bodies /\ Top \in Above[d])}
<1>1. S = {}
  <2> SUFFICES ASSUME S # {} PROVE FALSE
    OBVIOUS
  <2>1. PICK d \in S : d = Top \/ Around(d) \notin S
    <3> HIDE DEF S
    <3>1. S \in SUBSET Bodies
      BY DEF S
    <3> QED BY <3>1, Outermost
  <2>2. d # Top
    BY AboveTop, TreeAssumption
  <2> QED BY <2>1, <2>2, AboveArm, AroundIn
<1>2. Above[b] \subseteq Bodies /\ Top \in Above[b]
  BY <1>1
<1> QED BY <1>2, AboveTop, AboveArm

\* What is in a body is in all that body is in.
LEMMA AboveTrans ==
    ASSUME NEW b \in Bodies, NEW c \in Above[b]
    PROVE  Above[c] \subseteq Above[b]
<1> DEFINE S == {d \in Bodies : \E e \in Above[d] : ~(Above[e] \subseteq Above[d])}
<1>1. S = {}
  <2> SUFFICES ASSUME S # {} PROVE FALSE
    OBVIOUS
  <2>1. PICK d \in S : d = Top \/ Around(d) \notin S
    <3> HIDE DEF S
    <3>1. S \in SUBSET Bodies
      BY DEF S
    <3> QED BY <3>1, Outermost
  <2>2. d # Top
    BY AboveTop
  <2> QED BY <2>1, <2>2, AboveArm, AroundIn
<1> QED BY <1>1

\* Of two bodies that one is in, one is in the other.
LEMMA AboveLinear ==
    ASSUME NEW b \in Bodies, NEW c \in Above[b], NEW d \in Above[b]
    PROVE  c \in Above[d] \/ d \in Above[c]
<1> DEFINE S == {e \in Bodies : \E g, h \in Above[e] : ~(g \in Above[h] \/ h \in Above[g])}
<1>1. S = {}
  <2> SUFFICES ASSUME S # {} PROVE FALSE
    OBVIOUS
  <2>1. PICK e \in S : e = Top \/ Around(e) \notin S
    <3> HIDE DEF S
    <3>1. S \in SUBSET Bodies
      BY DEF S
    <3> QED BY <3>1, Outermost
  <2>2. e # Top
    BY AboveTop, AboveIn
  <2>3. Around(e) \in Bodies /\ Above[e] = {e} \cup Above[Around(e)]
    BY <2>2, AboveArm, AroundIn
  <2>4. \A g, h \in Above[Around(e)] : g \in Above[h] \/ h \in Above[g]
    BY <2>1, <2>2, <2>3
  <2> QED BY <2>3, <2>4
<1> QED BY <1>1

\* An arm is not in itself by way of another body.
LEMMA AboveRank ==
    ASSUME NEW b \in Bodies, NEW c \in Above[b], c # b, c # Top
    PROVE  b # Top /\ Line[FrameOf(c)] < Line[FrameOf(b)]
<1> DEFINE S == {d \in Bodies \ {Top} : \E e \in Above[d] : e # d /\ e # Top /\ ~(Line[FrameOf(e)] < Line[FrameOf(d)])}
<1>0. \A x \in Points : Line[x] \in Nat
  BY TreeAssumption, FS_CardinalityType
<1>1. S = {}
  <2> SUFFICES ASSUME S # {} PROVE FALSE
    OBVIOUS
  <2>1. PICK d \in S : d = Top \/ Around(d) \notin S
    <3> HIDE DEF S
    <3>1. S \in SUBSET Bodies
      BY DEF S
    <3> QED BY <3>1, Outermost
  <2>2. PICK e \in Above[d] : e # d /\ e # Top /\ ~(Line[FrameOf(e)] < Line[FrameOf(d)])
    OBVIOUS
  <2>3. Around(d) \in Bodies /\ e \in Above[Around(d)]
    BY <2>2, AboveArm, AroundIn
  <2>4. Around(d) # Top
    BY <2>2, <2>3, AboveTop
  <2>5. e \in Bodies /\ FrameOf(d) \in Points /\ FrameOf(Around(d)) \in Points /\ FrameOf(e) \in Points
    BY <2>2, <2>3, <2>4, FrameOfArm, AboveIn
  <2>6. Line[FrameOf(Around(d))] < Line[FrameOf(d)]
    <3>1. Around(d) \in Arms[FrameOf(Around(d))] /\ FrameOf(Around(d)) \in Frames
      BY <2>3, <2>4, FrameOfArm
    <3>2. PlaceOf(FrameOf(d)) \in DOMAIN Statements[Around(d)] /\ Statements[Around(d)][PlaceOf(FrameOf(d))] = FrameOf(d)
      BY <2>5, Places DEF Around
    <3> QED BY <3>1, <3>2, TextAssumption
  <2>7. CASE e = Around(d)
    BY <2>6, <2>7, <2>2
  <2>8. CASE e # Around(d)
    <3>1. Line[FrameOf(e)] < Line[FrameOf(Around(d))]
      BY <2>1, <2>2, <2>3, <2>4, <2>8
    <3> QED BY <3>1, <2>2, <2>5, <2>6, <1>0
  <2> QED BY <2>7, <2>8
<1>2. b # Top
  BY AboveTop
<1> QED BY <1>1, <1>2

\* Of two bodies, not both are in the other.
LEMMA AboveAntisym ==
    ASSUME NEW b \in Bodies, NEW c \in Above[b], b \in Above[c]
    PROVE  b = c
<1>0. \A x \in Points : Line[x] \in Nat
  BY TreeAssumption, FS_CardinalityType
<1>1. c \in Bodies
  BY AboveIn
<1>2. CASE b = Top
  BY <1>2, AboveTop
<1>3. CASE c = Top
  BY <1>3, AboveTop
<1>4. CASE b # Top /\ c # Top /\ b # c
  <2>1. Line[FrameOf(c)] < Line[FrameOf(b)] /\ Line[FrameOf(b)] < Line[FrameOf(c)]
    BY <1>1, <1>4, AboveRank
  <2> QED BY <2>1, <1>0, <1>1, <1>4, FrameOfArm
<1> QED BY <1>2, <1>3, <1>4

-----------------------------------------------------------------------------
(* What is under a frame, and what follows it. *)

\* x is s, or in s.
Under(x, s) == x = s \/ (s \in Frames /\ In(x, Arms[s]))

\* y is, or is under, a statement of b after its i.
Follows(b, i, y) == \E s \in Points : HomeOf(s) = b /\ PlaceOf(s) > i /\ Under(y, s)

\* y follows p in p's body.
After(p, y) == Follows(HomeOf(p), PlaceOf(p), y)

\* To be in some of B is to be in one of B.
LEMMA InOne ==
    ASSUME NEW x, NEW B
    PROVE  In(x, B) <=> \E b \in B : In(x, {b})
BY DEF In

\* Everything is in the movement's body.
LEMMA InTop == ASSUME NEW x \in Points PROVE In(x, {Top})
BY AboveIn, Places DEF In

\* The points are the leaves and the frames, which are the `all`s and the
\* races.
LEMMA PointsAre == Points = Leaves \cup Alls \cup Races /\ Frames = Alls \cup Races /\ Frames \subseteq Points /\ Races \subseteq Frames /\ Alls \subseteq Frames
BY DEF Points, Frames

\* A point is in its own body, and in the frame that body is an arm of.
LEMMA HomeIn ==
    ASSUME NEW x \in Points
    PROVE  /\ HomeOf(x) \in Bodies /\ In(x, {HomeOf(x)})
           /\ HomeOf(x) # Top => /\ FrameOf(HomeOf(x)) \in Frames /\ HomeOf(x) \in Arms[FrameOf(HomeOf(x))]
                                 /\ In(x, Arms[FrameOf(HomeOf(x))]) /\ Under(x, FrameOf(HomeOf(x)))
BY AboveIn, Places, FrameOfArm DEF In, Under

\* What is in an arm of f is in all that f is in.
LEMMA InTrans ==
    ASSUME NEW x \in Points, NEW f \in Frames, NEW B, In(x, Arms[f]), In(f, B)
    PROVE  In(x, B)
<1>1. PICK a \in Arms[f] : a \in Above[HomeOf(x)]
  BY DEF In
<1>2. a \in Bodies /\ a # Top /\ HomeOf(x) \in Bodies /\ Around(a) = HomeOf(f)
  BY <1>1, ArmsIn, Places DEF Around
<1>3. Above[HomeOf(f)] \subseteq Above[a] /\ Above[a] \subseteq Above[HomeOf(x)]
  BY <1>1, <1>2, AboveArm, AboveTrans
<1> QED BY <1>3 DEF In

\* An arm is not in the body around it.
LEMMA AroundLess ==
    ASSUME NEW b \in Bodies, b # Top
    PROVE  Around(b) # b /\ b \notin Above[Around(b)]
<1>0. FrameOf(b) \in Frames /\ FrameOf(b) \in Points /\ b \in Arms[FrameOf(b)] /\ Line[FrameOf(b)] \in Nat
  BY FrameOfArm, TreeAssumption, FS_CardinalityType
<1>1. ASSUME Around(b) = b PROVE FALSE
  <2>1. PlaceOf(FrameOf(b)) \in DOMAIN Statements[b] /\ Statements[b][PlaceOf(FrameOf(b))] = FrameOf(b)
    BY <1>0, <1>1, Places DEF Around
  <2>2. Line[FrameOf(b)] < Line[FrameOf(b)]
    BY <2>1, <1>0, TextAssumption
  <2> QED BY <2>2, <1>0
<1>2. ASSUME b \in Above[Around(b)] PROVE FALSE
  <2>1. Around(b) \in Bodies /\ Around(b) \in Above[b]
    BY AroundIn, AboveArm, AboveIn
  <2> QED BY <2>1, <1>2, <1>1, AboveAntisym
<1> QED BY <1>1, <1>2

\* A frame is in none of its arms.
LEMMA NotInSelf == ASSUME NEW f \in Frames PROVE ~In(f, Arms[f])
<1> SUFFICES ASSUME NEW a \in Arms[f], a \in Above[HomeOf(f)] PROVE FALSE
  BY DEF In
<1>1. a \in Bodies /\ a # Top /\ Around(a) = HomeOf(f)
  BY ArmsIn DEF Around
<1> QED BY <1>1, AroundLess

\* One arm of a frame holds what is in the frame.
LEMMA OneArm ==
    ASSUME NEW x \in Points, NEW f \in Frames, NEW a \in Arms[f], NEW b \in Arms[f], In(x, {a}), In(x, {b})
    PROVE  a = b
<1>1. a \in Above[HomeOf(x)] /\ b \in Above[HomeOf(x)] /\ HomeOf(x) \in Bodies
  BY Places DEF In
<1>2. a \in Above[b] \/ b \in Above[a]
  BY <1>1, AboveLinear
<1>3. a \in Bodies /\ b \in Bodies /\ a # Top /\ b # Top /\ FrameOf(a) = f /\ FrameOf(b) = f /\ Line[f] \in Nat
  BY ArmsIn, TreeAssumption, FS_CardinalityType
<1> QED BY <1>2, <1>3, AboveRank

\* Everything is under itself.
LEMMA UnderSelf == ASSUME NEW x PROVE Under(x, x)
BY DEF Under

\* What is under f is under all that f is under.
LEMMA UnderTrans ==
    ASSUME NEW x \in Points, NEW f \in Points, NEW g \in Points, Under(x, f), Under(f, g)
    PROVE  Under(x, g)
BY InTrans DEF Under

\* Of two points, not both are under the other.
LEMMA UnderAntisym ==
    ASSUME NEW f \in Points, NEW g \in Points, Under(f, g), Under(g, f)
    PROVE  f = g
BY InTrans, NotInSelf DEF Under

\* What is under f is in all that f is in.
LEMMA UnderIn ==
    ASSUME NEW x \in Points, NEW f \in Points, NEW B, Under(x, f), In(f, B)
    PROVE  In(x, B)
BY InTrans DEF Under

\* Of two that hold x, one holds the other.
LEMMA UnderLinear ==
    ASSUME NEW x \in Points, NEW f \in Points, NEW g \in Points, Under(x, f), Under(x, g)
    PROVE  Under(f, g) \/ Under(g, f)
<1>1. CASE x = f \/ x = g
  BY <1>1
<1>2. CASE x # f /\ x # g
  <2>1. f \in Frames /\ g \in Frames /\ In(x, Arms[f]) /\ In(x, Arms[g])
    BY <1>2 DEF Under
  <2>2. PICK a \in Arms[f], b \in Arms[g] : a \in Above[HomeOf(x)] /\ b \in Above[HomeOf(x)]
    BY <2>1 DEF In
  <2>3. HomeOf(x) \in Bodies /\ a \in Bodies /\ b \in Bodies /\ a # Top /\ b # Top /\ Around(a) = HomeOf(f) /\ Around(b) = HomeOf(g)
        /\ FrameOf(a) = f /\ FrameOf(b) = g
    BY <2>1, Places, ArmsIn DEF Around
  <2>4. CASE a = b
    BY <2>4, <2>3, UnderSelf
  <2>5. CASE a # b /\ a \in Above[b]
    <3>1. a \in Above[HomeOf(g)]
      BY <2>5, <2>3, AboveArm
    <3> QED BY <3>1, <2>1 DEF Under, In
  <2>6. CASE a # b /\ b \in Above[a]
    <3>1. b \in Above[HomeOf(f)]
      BY <2>6, <2>3, AboveArm
    <3> QED BY <3>1, <2>1 DEF Under, In
  <2> QED BY <2>2, <2>3, <2>4, <2>5, <2>6, AboveLinear
<1> QED BY <1>1, <1>2

\* Out of x: its own body's frame, and what that is in.
LEMMA InParent ==
    ASSUME NEW x \in Points, NEW B, In(x, B), HomeOf(x) \notin B
    PROVE  HomeOf(x) # Top /\ In(FrameOf(HomeOf(x)), B)
<1>1. PICK a \in B : a \in Above[HomeOf(x)]
  BY DEF In
<1>2. HomeOf(x) # Top
  BY <1>1, AboveTop
<1>3. a \in Above[Around(HomeOf(x))]
  BY <1>1, <1>2, Places, AboveArm
<1> QED BY <1>1, <1>2, <1>3 DEF Around, In

\* What is in f is in an arm of a frame under f.
LEMMA UnderParent ==
    ASSUME NEW x \in Points, NEW f \in Frames, In(x, Arms[f])
    PROVE  HomeOf(x) # Top /\ FrameOf(HomeOf(x)) \in Frames /\ Under(FrameOf(HomeOf(x)), f)
<1>1. CASE HomeOf(x) \in Arms[f]
  BY <1>1, ArmsIn, UnderSelf
<1>2. CASE HomeOf(x) \notin Arms[f]
  BY <1>2, InParent, HomeIn DEF Under
<1> QED BY <1>1, <1>2

\* What is in a body's statement's home is told by the home.
LEMMA SameHome == ASSUME NEW x, NEW y, NEW B, HomeOf(x) = HomeOf(y), In(x, B) PROVE In(y, B)
BY DEF In

\* What is under a statement that follows, follows.
LEMMA FollowsUnder ==
    ASSUME NEW b, NEW i, NEW y \in Points, NEW z \in Points, Follows(b, i, y), Under(z, y)
    PROVE  Follows(b, i, z)
BY UnderTrans DEF Follows

\* What is under a point that comes after p comes after p.
LEMMA AfterUnder ==
    ASSUME NEW p, NEW y \in Points, NEW z \in Points, After(p, y), Under(z, y)
    PROVE  After(p, z)
BY FollowsUnder DEF After

\* What comes after p is in all that p is in.
LEMMA AfterIn ==
    ASSUME NEW p, NEW y \in Points, NEW B, After(p, y), In(p, B)
    PROVE  In(y, B)
BY SameHome, UnderIn DEF After, Follows

\* What comes after p is not under it, nor p under that.
LEMMA AfterApart ==
    ASSUME NEW p \in Points, NEW y \in Points, After(p, y)
    PROVE  ~Under(p, y) /\ ~Under(y, p) /\ p # y
<1>1. PICK s \in Points : HomeOf(s) = HomeOf(p) /\ PlaceOf(s) > PlaceOf(p) /\ Under(y, s)
  BY DEF After, Follows
<1>2. PlaceOf(s) \in Nat /\ PlaceOf(p) \in Nat
  BY PlacesIn
<1>3. s # p
  BY <1>1, <1>2
<1>4. ~Under(p, s) /\ ~Under(s, p)
  BY <1>1, <1>3, SameHome, NotInSelf DEF Under
<1>5. ~Under(p, y)
  BY <1>1, <1>4, UnderTrans
<1>6. ~Under(y, p)
  BY <1>1, <1>4, UnderLinear
<1> QED BY <1>5, <1>6, UnderSelf

\* What comes after what comes after p comes after p.
LEMMA AfterTrans ==
    ASSUME NEW p \in Points, NEW q \in Points, NEW r \in Points, After(p, q), After(q, r)
    PROVE  After(p, r)
<1>1. PICK s \in Points : HomeOf(s) = HomeOf(p) /\ PlaceOf(s) > PlaceOf(p) /\ Under(q, s)
  BY DEF After, Follows
<1>2. PICK t \in Points : HomeOf(t) = HomeOf(q) /\ PlaceOf(t) > PlaceOf(q) /\ Under(r, t)
  BY DEF After, Follows
<1>3. PlaceOf(s) \in Nat /\ PlaceOf(p) \in Nat /\ PlaceOf(t) \in Nat /\ PlaceOf(q) \in Nat
  BY PlacesIn
<1>4. CASE q = s
  BY <1>1, <1>2, <1>3, <1>4 DEF After, Follows
<1>5. CASE q # s
  <2>1. In(t, Arms[s]) /\ s \in Frames
    BY <1>1, <1>2, <1>5, SameHome DEF Under
  <2>2. Under(r, s)
    BY <2>1, <1>2, UnderTrans DEF Under
  <2> QED BY <2>2, <1>1 DEF After, Follows
<1> QED BY <1>4, <1>5

\* What follows two statements follows one of them after the other.
LEMMA AfterLinear ==
    ASSUME NEW p \in Points, NEW q \in Points, NEW l \in Points, After(p, l), After(q, l)
    PROVE  p = q \/ After(p, q) \/ After(q, p)
<1>1. PICK s \in Points : HomeOf(s) = HomeOf(p) /\ PlaceOf(s) > PlaceOf(p) /\ Under(l, s)
  BY DEF After, Follows
<1>2. PICK t \in Points : HomeOf(t) = HomeOf(q) /\ PlaceOf(t) > PlaceOf(q) /\ Under(l, t)
  BY DEF After, Follows
<1>3. PlaceOf(p) \in Nat /\ PlaceOf(q) \in Nat
  BY PlacesIn
<1>4. CASE s = t
  <2>1. HomeOf(p) = HomeOf(q)
    BY <1>4, <1>1, <1>2
  <2>2. CASE PlaceOf(p) = PlaceOf(q)
    BY <2>1, <2>2, Places
  <2>3. CASE PlaceOf(p) < PlaceOf(q)
    BY <2>1, <2>3, UnderSelf DEF After, Follows
  <2>4. CASE PlaceOf(q) < PlaceOf(p)
    BY <2>1, <2>4, UnderSelf DEF After, Follows
  <2> QED BY <1>3, <2>2, <2>3, <2>4
<1>5. CASE s # t /\ Under(s, t)
  <2>1. Under(p, t)
    BY <1>5, <1>1, SameHome DEF Under
  <2> QED BY <2>1, <1>2 DEF After, Follows
<1>6. CASE s # t /\ Under(t, s)
  <2>1. Under(q, s)
    BY <1>6, <1>2, SameHome DEF Under
  <2> QED BY <2>1, <1>1 DEF After, Follows
<1> QED BY <1>1, <1>2, <1>4, <1>5, <1>6, UnderLinear

\* What encloses what follows p encloses p, or follows it.
LEMMA AfterOut ==
    ASSUME NEW p \in Points, NEW l \in Points, NEW g \in Points, After(p, l), Under(l, g)
    PROVE  (g \in Frames /\ In(p, Arms[g])) \/ After(p, g)
<1>1. PICK s \in Points : HomeOf(s) = HomeOf(p) /\ PlaceOf(s) > PlaceOf(p) /\ Under(l, s)
  BY DEF After, Follows
<1>2. CASE Under(g, s)
  BY <1>1, <1>2 DEF After, Follows
<1>3. CASE s # g /\ Under(s, g)
  BY <1>1, <1>3, SameHome DEF Under
<1> QED BY <1>1, <1>2, <1>3, UnderLinear, UnderSelf

-----------------------------------------------------------------------------
(* The ways. *)

\* The ways of each body, as h has those its own are made from.
WaysBy(h, b, i) ==
    IF i >= Len(Statements[b]) THEN {Reached}
    ELSE LET x == Statements[b][i + 1] IN WaysAt(x, h[b][i + 1], [a \in Arms[x] |-> h[a][0]])

\* How far from the end of the text a body goes on.
Rank(b, i) == IF i >= Len(Statements[b]) THEN 0 ELSE Cardinality(Points) + 1 - Line[Statements[b][i + 1]]

\* A body's statements are counted.
LEMMA LenNat == ASSUME NEW b \in Bodies PROVE Len(Statements[b]) \in Nat /\ DOMAIN Statements[b] = 1 .. Len(Statements[b])
BY TreeAssumption

\* The places of a body are positions.
LEMMA PositionsAre == ASSUME NEW b \in Bodies, NEW i \in 0 .. Len(Statements[b]) PROVE i \in Positions /\ i \in Nat
BY LenNat DEF Positions

\* Positions are naturals.
LEMMA PositionsNat == Positions \subseteq Nat
BY LenNat DEF Positions

\* The rank of a place is a natural, and not zero while a statement is left.
LEMMA RankIs ==
    ASSUME NEW b \in Bodies, NEW i \in Positions
    PROVE  /\ Rank(b, i) \in 0 .. Cardinality(Points)
           /\ i < Len(Statements[b]) => Rank(b, i) > 0 /\ Statements[b][i + 1] \in Points /\ i + 1 \in Positions
<1>1. i \in Nat /\ Len(Statements[b]) \in Nat /\ Cardinality(Points) \in Nat
  BY PositionsNat, LenNat, TreeAssumption, FS_CardinalityType
<1>2. CASE i < Len(Statements[b])
  <2>1. i + 1 \in DOMAIN Statements[b] /\ i + 1 \in 0 .. Len(Statements[b])
    BY <1>1, <1>2, LenNat
  <2>2. Statements[b][i + 1] \in Points /\ Line[Statements[b][i + 1]] \in 1 .. Cardinality(Points)
    BY <2>1, Stated, TreeAssumption
  <2> QED BY <1>1, <1>2, <2>1, <2>2, PositionsAre DEF Rank
<1> QED BY <1>1, <1>2 DEF Rank

\* What a body's ways are made from ranks less.
LEMMA RankLess ==
    ASSUME NEW b \in Bodies, NEW i \in Positions, i < Len(Statements[b])
    PROVE  /\ Rank(b, i + 1) < Rank(b, i)
           /\ Statements[b][i + 1] \in Frames =>
                \A a \in Arms[Statements[b][i + 1]] : a \in Bodies /\ 0 \in Positions /\ Rank(a, 0) < Rank(b, i)
<1> DEFINE x == Statements[b][i + 1]
<1>0. i \in Nat /\ Len(Statements[b]) \in Nat /\ Cardinality(Points) \in Nat
  BY PositionsNat, LenNat, TreeAssumption, FS_CardinalityType
<1>1. i + 1 \in DOMAIN Statements[b] /\ x \in Points /\ Rank(b, i) > 0 /\ Rank(b, i) \in Nat
  BY <1>0, RankIs, LenNat
<1>2. Line[x] \in Nat /\ Rank(b, i) = Cardinality(Points) + 1 - Line[x]
  BY <1>0, <1>1, TreeAssumption DEF Rank
<1>3. Rank(b, i + 1) < Rank(b, i)
  <2>1. CASE i + 1 >= Len(Statements[b])
    BY <2>1, <1>1 DEF Rank
  <2>2. CASE i + 1 < Len(Statements[b])
    <3>1. i + 2 \in DOMAIN Statements[b] /\ (i + 1) + 1 = i + 2 /\ i + 1 < i + 2
      BY <1>0, <2>2, LenNat
    <3>2. Line[x] < Line[Statements[b][i + 2]]
      BY <1>1, <3>1, TextAssumption
    <3>3. Line[Statements[b][i + 2]] \in Nat
      BY <3>1, Stated, TreeAssumption
    <3>4. Rank(b, i + 1) = Cardinality(Points) + 1 - Line[Statements[b][i + 2]]
      BY <1>0, <2>2, <3>1 DEF Rank
    <3> QED BY <1>0, <1>2, <3>2, <3>3, <3>4
  <2> QED BY <1>0, <2>1, <2>2
<1>4. ASSUME x \in Frames, NEW a \in Arms[x]
      PROVE  a \in Bodies /\ 0 \in Positions /\ Rank(a, 0) < Rank(b, i)
  <2>1. a \in Bodies /\ 0 \in Positions /\ Len(Statements[a]) \in Nat
    BY <1>4, ArmsIn, LenNat, PositionsAre
  <2>2. CASE Len(Statements[a]) = 0
    BY <2>1, <2>2, <1>1 DEF Rank
  <2>3. CASE Len(Statements[a]) > 0
    <3>1. 1 \in DOMAIN Statements[a] /\ 0 + 1 = 1
      BY <2>1, <2>3, LenNat
    <3>2. Line[x] < Line[Statements[a][1]] /\ Line[Statements[a][1]] \in Nat
      BY <1>4, <2>1, <3>1, TextAssumption, Stated, TreeAssumption
    <3>3. Rank(a, 0) = Cardinality(Points) + 1 - Line[Statements[a][1]]
      BY <2>1, <2>3, <3>1 DEF Rank
    <3>4. Rank(a, 0) < Rank(b, i)
      <4> DEFINE k == Line[x]
                 l == Line[Statements[a][1]]
      <4>1. k \in Nat /\ l \in Nat /\ k < l /\ Rank(a, 0) = Cardinality(Points) + 1 - l /\ Rank(b, i) = Cardinality(Points) + 1 - k
        BY <1>2, <3>2, <3>3
      <4> HIDE DEF k, l
      <4> QED BY <4>1, <1>0
    <3> QED BY <3>4, <2>1
  <2> QED BY <2>1, <2>2, <2>3
<1> QED BY <1>3, <1>4

\* At a leaf, a way goes on past it or parks there.
LEMMA WaysAtLeaf == ASSUME NEW x \in Leaves, NEW on, NEW of PROVE WaysAt(x, on, of) = on \cup {ParksAt(x)}
BY SMT DEF WaysAt

\* Only those that rank less count.
LEMMA WaysByAgree ==
    ASSUME NEW g, NEW h, NEW b \in Bodies, NEW i \in Positions,
           \A c \in Bodies, j \in Positions : Rank(c, j) < Rank(b, i) => g[c][j] = h[c][j]
    PROVE  WaysBy(g, b, i) = WaysBy(h, b, i)
<1> DEFINE x == Statements[b][i + 1]
<1>0. i \in Nat /\ Len(Statements[b]) \in Nat
  BY PositionsNat, LenNat
<1>1. CASE i >= Len(Statements[b])
  BY <1>1 DEF WaysBy
<1>2. CASE i < Len(Statements[b])
  <2>1. g[b][i + 1] = h[b][i + 1] /\ x \in Points
    BY <1>2, RankIs, RankLess
  <2>2. CASE x \in Leaves
    <3>1. WaysAt(x, g[b][i + 1], [a \in Arms[x] |-> g[a][0]]) = WaysAt(x, h[b][i + 1], [a \in Arms[x] |-> h[a][0]])
      <4>1. WaysAt(x, g[b][i + 1], [a \in Arms[x] |-> g[a][0]]) = g[b][i + 1] \cup {ParksAt(x)}
        BY <2>2, WaysAtLeaf
      <4>2. WaysAt(x, h[b][i + 1], [a \in Arms[x] |-> h[a][0]]) = h[b][i + 1] \cup {ParksAt(x)}
        BY <2>2, WaysAtLeaf
      <4> QED BY <4>1, <4>2, <2>1
    <3> QED BY <3>1, <1>0, <1>2 DEF WaysBy
  <2>3. CASE x \in Frames
    <3>1. \A a \in Arms[x] : g[a][0] = h[a][0]
      BY <1>2, <2>3, RankLess
    <3>2. [a \in Arms[x] |-> g[a][0]] = [a \in Arms[x] |-> h[a][0]]
      BY <3>1
    <3> QED BY <3>2, <2>1, <1>0, <1>2 DEF WaysBy
  <2> QED BY <2>1, <2>2, <2>3 DEF Points
<1> QED BY <1>0, <1>1, <1>2

\* Ways, a recursive function, is defined.
LEMMA WaysExist ==
    \E h : h = [b \in Bodies |-> [i \in Positions |-> WaysBy(h, b, i)]]
<1> DEFINE C == Cardinality(Points)
           Is(h, n) == \A b \in Bodies, i \in Positions : Rank(b, i) <= n => h[b][i] = WaysBy(h, b, i)
           Bad == {n \in 0 .. C : ~ \E h : Is(h, n)}
<1>0. C \in Nat
  BY TreeAssumption, FS_CardinalityType
<1>1. Bad = {}
  <2> SUFFICES ASSUME Bad # {} PROVE FALSE
    OBVIOUS
  <2>1. PICK m \in Bad : \A k \in Bad : m <= k
    <3>1. Bad \in SUBSET Nat
      BY <1>0
    <3> HIDE DEF Bad
    <3> QED BY <3>1, LeastNat
  <2>2. \A b \in Bodies, i \in Positions : Rank(b, i) \in Nat
    BY RankIs, <1>0
  <2>3. PICK h : \A b \in Bodies, i \in Positions : Rank(b, i) < m => h[b][i] = WaysBy(h, b, i)
    <3>1. CASE m = 0
      BY <3>1, <2>2
    <3>2. CASE m # 0
      <4>1. m - 1 \in 0 .. C /\ m \in Nat
        BY <3>2, <1>0
      <4>2. m - 1 \notin Bad
        <5> HIDE DEF Bad
        <5> QED BY <2>1, <4>1
      <4>3. PICK h : Is(h, m - 1)
        BY <4>1, <4>2
      <4>4. \A b \in Bodies, i \in Positions : Rank(b, i) < m => Rank(b, i) <= m - 1
        BY <2>2, <4>1
      <4> QED BY <4>3, <4>4
    <3> QED BY <3>1, <3>2
  <2> DEFINE g == [b \in Bodies |-> [i \in Positions |-> IF Rank(b, i) < m THEN h[b][i] ELSE WaysBy(h, b, i)]]
  <2>4. \A b \in Bodies, i \in Positions : g[b][i] = IF Rank(b, i) < m THEN h[b][i] ELSE WaysBy(h, b, i)
    OBVIOUS
  <2> HIDE DEF g
  <2>5. ASSUME NEW b \in Bodies, NEW i \in Positions, Rank(b, i) <= m PROVE g[b][i] = WaysBy(g, b, i)
    <3>1. \A c \in Bodies, j \in Positions : Rank(c, j) < Rank(b, i) => g[c][j] = h[c][j]
      BY <2>2, <2>4, <2>5
    <3>2. WaysBy(g, b, i) = WaysBy(h, b, i)
      BY <3>1, WaysByAgree
    <3> QED BY <3>2, <2>3, <2>4
  <2> QED BY <2>1, <2>5
<1>2. PICK h : Is(h, C)
  BY <1>0, <1>1
<1>3. \A b \in Bodies, i \in Positions : h[b][i] = WaysBy(h, b, i)
  BY <1>2, RankIs
<1> DEFINE g == [b \in Bodies |-> [i \in Positions |-> h[b][i]]]
<1>4. \A b \in Bodies, i \in Positions : g[b][i] = h[b][i]
  OBVIOUS
<1> HIDE DEF g
<1>5. \A b \in Bodies, i \in Positions : WaysBy(g, b, i) = WaysBy(h, b, i)
  BY <1>4, WaysByAgree
<1>6. g = [b \in Bodies |-> [i \in Positions |-> WaysBy(g, b, i)]]
  BY <1>3, <1>5 DEF g
<1> QED BY <1>6

\* Ways is the function its definition says it is.
LEMMA WaysAre == ASSUME NEW b \in Bodies, NEW i \in Positions PROVE Ways[b][i] = WaysBy(Ways, b, i)
<1>1. Ways = [c \in Bodies |-> [j \in Positions |-> WaysBy(Ways, c, j)]]
  BY WaysExist, Zenon DEF Ways, WaysBy
<1>2. Ways[b] = [j \in Positions |-> WaysBy(Ways, b, j)]
  BY <1>1, Zenon
<1> QED BY <1>2, Zenon

-----------------------------------------------------------------------------
(* What a way does. *)

\* The arms of f a way leaves parked.
ArmsLeft(v, f) == {a \in Arms[f] : \E l \in v.parks : In(l, {a})}

\* A join is held while an arm is parked, and an `all` waits for each of them.
Counts(v, j) == ArmsLeft(v, j[1]) # {} /\ j[2] = IF j[1] \in Races THEN 1 ELSE Cardinality(ArmsLeft(v, j[1]))

\* A way of what follows statement i of b: its leaves are there, none of them
\* after another, and what encloses them there is joined.
Goes(b, i, v) ==
    /\ \A l \in v.parks : Follows(b, i, l)
    /\ \A j \in v.joins : Follows(b, i, j[1]) /\ Counts(v, j)
    /\ \A a \in v.keeps \cup v.drops : a # Top /\ Follows(b, i, FrameOf(a))
    /\ \A a \in v.drops : FrameOf(a) \in Races
    /\ \A l, m \in v.parks : \A q \in Points : Under(l, q) => ~After(q, m)
    /\ v.parks = {} => v.joins = {}
    /\ \A l \in v.parks : \A f \in Frames : Under(l, f) /\ Follows(b, i, f) => \E j \in v.joins : j[1] = f

\* The arms of an `all` joined that are not parked have their exports kept.
KeepsRest(v) == \A j \in v.joins : j[1] \in Alls => Arms[j[1]] \subseteq ArmsLeft(v, j[1]) \cup v.keeps

\* v is a way of b after its statement i.
WayOf(b, i, v) == v \in Way /\ Goes(b, i, v) /\ KeepsRest(v)

\* The arms that finished are those whose ways park nothing.
LEMMA FinishedIs == ASSUME NEW f \in Frames, NEW r \in [Arms[f] -> Way] PROVE Finished(r) = {a \in Arms[f] : r[a].parks = {}}
BY DEF Finished

\* What a way's parts are.
LEMMA WayFields ==
    ASSUME NEW v \in Way
    PROVE  v.parks \subseteq Leaves /\ v.joins \subseteq Frames \X Nat /\ v.keeps \subseteq Bodies /\ v.drops \subseteq Bodies
BY DEF Way

\* What follows an arm's start is in that arm.
LEMMA FollowsArm ==
    ASSUME NEW f \in Frames, NEW a \in Arms[f], NEW y \in Points, Follows(a, 0, y)
    PROVE  In(y, {a}) /\ In(y, Arms[f]) /\ Under(y, f)
<1>1. PICK s \in Points : HomeOf(s) = a /\ Under(y, s)
  BY DEF Follows
<1>2. In(s, {a})
  BY <1>1, HomeIn
<1>3. In(y, {a})
  BY <1>1, <1>2, UnderIn
<1> QED BY <1>3, InOne DEF Under

\* All of what is in an arm follows its start.
LEMMA ArmFollows ==
    ASSUME NEW a \in Bodies, NEW y \in Points, In(y, {a})
    PROVE  Follows(a, 0, y)
<1> DEFINE S == {b \in Bodies : a \in Above[b] /\ \E z \in Points : HomeOf(z) = b /\ ~Follows(a, 0, z)}
<1>1. S = {}
  <2> SUFFICES ASSUME S # {} PROVE FALSE
    OBVIOUS
  <2>1. PICK b \in S : b = Top \/ Around(b) \notin S
    <3> HIDE DEF S
    <3>1. S \in SUBSET Bodies
      BY DEF S
    <3> QED BY <3>1, Outermost
  <2>2. PICK z \in Points : HomeOf(z) = b /\ ~Follows(a, 0, z)
    OBVIOUS
  <2>3. b # a
    BY <2>2, PlacesIn, UnderSelf DEF Follows
  <2>4. b # Top
    BY <2>3, AboveTop
  <2>5. FrameOf(b) \in Points /\ FrameOf(b) \in Frames /\ b \in Arms[FrameOf(b)] /\ Around(b) \in Bodies /\ HomeOf(FrameOf(b)) = Around(b)
    BY <2>4, FrameOfArm, AroundIn DEF Around
  <2>6. a \in Above[Around(b)]
    BY <2>3, <2>4, AboveArm
  <2>7. Follows(a, 0, FrameOf(b))
    BY <2>1, <2>4, <2>5, <2>6
  <2>8. Under(z, FrameOf(b))
    BY <2>2, <2>4, HomeIn
  <2> QED BY <2>2, <2>5, <2>7, <2>8, FollowsUnder
<1>2. a \in Above[HomeOf(y)] /\ HomeOf(y) \in Bodies
  BY Places DEF In
<1> QED BY <1>1, <1>2

\* To reach the end is a way of every body.
LEMMA ReachedGoes == ASSUME NEW b, NEW i PROVE WayOf(b, i, Reached)
BY DEF WayOf, Way, Goes, KeepsRest, Reached

\* The way that parks one leaf.
LEMMA ParksAtIs == ASSUME NEW l \in Leaves PROVE ParksAt(l) \in Way /\ ParksAt(l) = [parks |-> {l}, joins |-> {}, keeps |-> {}, drops |-> {}]
BY DEF ParksAt, Reached, Way

\* Where the next statement of b is.
LEMMA NextStated ==
    ASSUME NEW b \in Bodies, NEW i \in Positions, i < Len(Statements[b])
    PROVE  LET x == Statements[b][i + 1]
           IN  x \in Points /\ HomeOf(x) = b /\ PlaceOf(x) = i + 1 /\ Follows(b, i, x) /\ i \in Nat /\ i + 1 \in Positions
<1>1. i \in Nat /\ Len(Statements[b]) \in Nat
  BY PositionsNat, LenNat
<1>2. i + 1 \in DOMAIN Statements[b] /\ i + 1 > i
  BY <1>1, LenNat
<1> QED BY <1>1, <1>2, Stated, RankIs, UnderSelf DEF Follows

\* To park at the next statement, a leaf, is a way.
LEMMA ParksGoes ==
    ASSUME NEW b \in Bodies, NEW i \in Positions, i < Len(Statements[b]), Statements[b][i + 1] \in Leaves
    PROVE  WayOf(b, i, ParksAt(Statements[b][i + 1]))
<1> DEFINE x == Statements[b][i + 1]
<1>1. x \in Points /\ HomeOf(x) = b /\ Follows(b, i, x)
  BY NextStated
<1> HIDE DEF x
<1>2. ASSUME NEW q \in Points, Under(x, q) PROVE ~After(q, x)
  BY <1>1, <1>2, AfterApart
<1>3. ASSUME NEW f \in Frames, Under(x, f), Follows(b, i, f) PROVE FALSE
  <2>1. x # f /\ In(x, Arms[f]) /\ f \in Points
    BY <1>3, TreeAssumption, PointsAre DEF Under, x
  <2>2. PICK s \in Points : HomeOf(s) = b /\ Under(f, s)
    BY <1>3 DEF Follows
  <2>3. In(s, Arms[f])
    BY <1>1, <2>1, <2>2, SameHome
  <2>4. s = f
    BY <2>1, <2>2, <2>3, UnderAntisym DEF Under
  <2> QED BY <2>3, <2>4, NotInSelf
<1>4. x \in Leaves
  BY DEF x
<1>5. Goes(b, i, ParksAt(x))
  BY <1>1, <1>2, <1>3, <1>4, ParksAtIs DEF Goes
<1>6. KeepsRest(ParksAt(x))
  BY <1>4, ParksAtIs DEF KeepsRest
<1>7. WayOf(b, i, ParksAt(x))
  BY <1>4, <1>5, <1>6, ParksAtIs DEF WayOf
<1> QED BY <1>7 DEF x

\* What follows a later place follows an earlier one.
LEMMA FollowsEarlier ==
    ASSUME NEW b, NEW i \in Nat, NEW y, Follows(b, i + 1, y)
    PROVE  Follows(b, i, y)
<1>1. PICK s \in Points : HomeOf(s) = b /\ PlaceOf(s) > i + 1 /\ Under(y, s)
  BY DEF Follows
<1>2. PlaceOf(s) \in Nat
  BY PlacesIn
<1> QED BY <1>1, <1>2 DEF Follows

\* A frame around what follows statement i + 1, that follows i, follows i + 1.
LEMMA FollowsLater ==
    ASSUME NEW b, NEW i \in Nat, NEW l \in Points, NEW f \in Frames, Under(l, f), Follows(b, i + 1, l), Follows(b, i, f)
    PROVE  Follows(b, i + 1, f)
<1>1. PICK s \in Points : HomeOf(s) = b /\ PlaceOf(s) > i + 1 /\ Under(l, s)
  BY DEF Follows
<1>2. PICK t \in Points : HomeOf(t) = b /\ PlaceOf(t) > i /\ Under(f, t)
  BY DEF Follows
<1>3. f \in Points /\ Under(l, t)
  BY <1>2, PointsAre, UnderTrans
<1>4. Under(s, t) \/ Under(t, s)
  BY <1>1, <1>2, <1>3, UnderLinear
<1>5. s = t
  BY <1>1, <1>2, <1>4, SameHome, NotInSelf DEF Under
<1> QED BY <1>1, <1>2, <1>5 DEF Follows

\* A way of the later statements is a way of all of them.
LEMMA LaterGoes ==
    ASSUME NEW b, NEW i \in Nat, NEW v, WayOf(b, i + 1, v)
    PROVE  WayOf(b, i, v)
<1>1. v \in Way /\ Goes(b, i + 1, v) /\ KeepsRest(v)
  BY DEF WayOf
<1>2. v.parks \subseteq Points
  BY <1>1, WayFields, PointsAre
<1>3. \A l \in v.parks : \A f \in Frames : Under(l, f) /\ Follows(b, i, f) => Follows(b, i + 1, f)
  BY <1>1, <1>2, FollowsLater DEF Goes
<1>4. Goes(b, i, v)
  BY <1>1, <1>3, FollowsEarlier DEF Goes
<1> QED BY <1>1, <1>4 DEF WayOf

\* What the arms of f did, together.
LEMMA AllIs ==
    ASSUME NEW f \in Frames, NEW r \in [Arms[f] -> Way], NEW u, u = All(Range(r))
    PROVE  /\ u \in Way
           /\ \A l : l \in u.parks <=> \E a \in Arms[f] : l \in r[a].parks
           /\ \A j : j \in u.joins <=> \E a \in Arms[f] : j \in r[a].joins
           /\ \A c : c \in u.keeps <=> \E a \in Arms[f] : c \in r[a].keeps
           /\ \A c : c \in u.drops <=> \E a \in Arms[f] : c \in r[a].drops
<1>1. Range(r) = {r[a] : a \in Arms[f]}
  BY DEF Range
<1>2. u = [parks |-> UNION {v.parks : v \in Range(r)}, joins |-> UNION {v.joins : v \in Range(r)},
           keeps |-> UNION {v.keeps : v \in Range(r)}, drops |-> UNION {v.drops : v \in Range(r)}]
  BY DEF All
<1>3. \A l : l \in u.parks <=> \E a \in Arms[f] : l \in r[a].parks
  BY <1>1, <1>2
<1>4. \A j : j \in u.joins <=> \E a \in Arms[f] : j \in r[a].joins
  BY <1>1, <1>2
<1>5. \A c : c \in u.keeps <=> \E a \in Arms[f] : c \in r[a].keeps
  BY <1>1, <1>2
<1>6. \A c : c \in u.drops <=> \E a \in Arms[f] : c \in r[a].drops
  BY <1>1, <1>2
<1>7. \A a \in Arms[f] : r[a] \in Way
  OBVIOUS
<1>8. u.parks \subseteq Leaves /\ u.joins \subseteq Frames \X Nat /\ u.keeps \subseteq Bodies /\ u.drops \subseteq Bodies
  BY <1>3, <1>4, <1>5, <1>6, <1>7, WayFields
<1>9. u \in Way
  BY <1>2, <1>8 DEF Way
<1> QED BY <1>3, <1>4, <1>5, <1>6, <1>9

\* The ways of a frame's arms, together, go on as one that reached the frame.
ArmsWays(b, i, x, r) ==
    /\ b \in Bodies /\ i \in Positions /\ i < Len(Statements[b])
    /\ x \in Frames /\ x = Statements[b][i + 1]
    /\ r \in [Arms[x] -> Way] /\ \A a \in Arms[x] : WayOf(a, 0, r[a])

\* Where a frame is the next statement: what is under it follows, and its arms
\* go on inside it.
LEMMA ArmsAt ==
    ASSUME NEW b, NEW i, NEW x, NEW r, ArmsWays(b, i, x, r)
    PROVE  /\ x \in Points /\ HomeOf(x) = b /\ Follows(b, i, x) /\ i \in Nat
           /\ \A y \in Points : Under(y, x) => Follows(b, i, y)
           /\ \A a \in Arms[x] : a \in Bodies /\ a # Top /\ FrameOf(a) = x /\ Goes(a, 0, r[a]) /\ KeepsRest(r[a]) /\ r[a] \in Way
<1>1. x \in Points /\ HomeOf(x) = b /\ Follows(b, i, x) /\ i \in Nat
  BY NextStated DEF ArmsWays
<1>2. \A y \in Points : Under(y, x) => Follows(b, i, y)
  BY <1>1, FollowsUnder
<1>3. \A a \in Arms[x] : a \in Bodies /\ a # Top /\ FrameOf(a) = x /\ Goes(a, 0, r[a]) /\ KeepsRest(r[a]) /\ r[a] \in Way
  BY ArmsIn DEF ArmsWays, WayOf
<1> QED BY <1>1, <1>2, <1>3

\* A leaf an arm's way parks is in that arm.
LEMMA ArmsPark ==
    ASSUME NEW b, NEW i, NEW x, NEW r, ArmsWays(b, i, x, r), NEW a \in Arms[x], NEW l \in r[a].parks
    PROVE  l \in Points /\ l \in Leaves /\ In(l, {a}) /\ In(l, Arms[x]) /\ Under(l, x) /\ Follows(b, i, l)
<1>1. l \in Points /\ l \in Leaves /\ Follows(a, 0, l) /\ x \in Frames
  BY ArmsAt, WayFields, PointsAre DEF Goes, ArmsWays
<1>2. In(l, {a}) /\ In(l, Arms[x]) /\ Under(l, x)
  BY <1>1, FollowsArm
<1> QED BY <1>1, <1>2, ArmsAt

\* v parks what the arms do.
ParksAsArms(v, x, r) == \A l : l \in v.parks <=> \E c \in Arms[x] : l \in r[c].parks

\* A join an arm's way keeps is in that arm, and counts the same in the way of
\* the frame.
LEMMA ArmsJoin ==
    ASSUME NEW b, NEW i, NEW x, NEW r, ArmsWays(b, i, x, r), NEW a \in Arms[x], NEW j \in r[a].joins,
           NEW v, ParksAsArms(v, x, r)
    PROVE  /\ j[1] \in Frames /\ j[1] # x /\ In(j[1], {a}) /\ Follows(b, i, j[1])
           /\ ArmsLeft(v, j[1]) = ArmsLeft(r[a], j[1]) /\ Counts(v, j)
<1>0. x \in Frames
  BY DEF ArmsWays
<1>1. j[1] \in Frames /\ j[1] \in Points /\ Follows(a, 0, j[1]) /\ Counts(r[a], j)
  BY ArmsAt, WayFields, PointsAre DEF Goes
<1>2. In(j[1], {a}) /\ In(j[1], Arms[x]) /\ Under(j[1], x) /\ j[1] # x
  BY <1>0, <1>1, FollowsArm, NotInSelf
<1>3. Follows(b, i, j[1])
  BY <1>1, <1>2, ArmsAt
<1>4. ASSUME NEW c \in Arms[j[1]], NEW l \in v.parks, In(l, {c}) PROVE l \in r[a].parks
  <2>1. PICK d \in Arms[x] : l \in r[d].parks
    BY DEF ParksAsArms
  <2>2. In(l, {d}) /\ l \in Points
    BY <2>1, ArmsPark
  <2>3. In(l, Arms[j[1]])
    BY <1>4, InOne
  <2>4. In(l, {a})
    BY <1>1, <1>2, <2>2, <2>3, InTrans
  <2>5. a = d
    BY <1>0, <2>2, <2>4, OneArm
  <2> QED BY <2>1, <2>5
<1>5. r[a].parks \subseteq v.parks
  BY DEF ParksAsArms
<1>6. ArmsLeft(v, j[1]) = ArmsLeft(r[a], j[1])
  BY <1>4, <1>5 DEF ArmsLeft
<1> QED BY <1>1, <1>2, <1>3, <1>6 DEF Counts

\* No leaf parked in an arm comes after one parked in it or in another.
LEMMA ArmsOrder ==
    ASSUME NEW b, NEW i, NEW x, NEW r, ArmsWays(b, i, x, r), NEW a \in Arms[x], NEW c \in Arms[x],
           NEW l \in r[a].parks, NEW m \in r[c].parks, NEW q \in Points, Under(l, q), After(q, m)
    PROVE  FALSE
<1>0. x \in Frames /\ x \in Points
  BY PointsAre DEF ArmsWays
<1>1. l \in Points /\ In(l, {a}) /\ Under(l, x) /\ m \in Points /\ In(m, {c}) /\ Under(m, x)
  BY ArmsPark
<1>2. CASE a = c
  BY <1>2, ArmsAt DEF Goes
<1>3. CASE x = q \/ Under(x, q)
  <2>1. Under(m, q)
    BY <1>0, <1>1, <1>3, UnderTrans
  <2> QED BY <2>1, <1>1, AfterApart
<1>4. CASE a # c /\ x # q /\ Under(q, x)
  <2>1. PICK d \in Arms[x] : In(q, {d})
    BY <1>4, InOne DEF Under
  <2>2. In(l, {d}) /\ In(m, {d})
    BY <2>1, <1>1, UnderIn, AfterIn
  <2> QED BY <1>0, <1>1, <1>4, <2>2, OneArm
<1> QED BY <1>0, <1>1, <1>2, <1>3, <1>4, UnderLinear

\* Every frame between an arm and a leaf its way parks is joined.
LEMMA ArmsEnclose ==
    ASSUME NEW b, NEW i, NEW x, NEW r, ArmsWays(b, i, x, r), NEW a \in Arms[x],
           NEW l \in r[a].parks, NEW f \in Frames, Under(l, f), Follows(b, i, f), f # x
    PROVE  \E j \in r[a].joins : j[1] = f
<1>0. x \in Frames /\ x \in Points /\ HomeOf(x) = b /\ f \in Points
  BY ArmsAt, PointsAre DEF ArmsWays
<1>1. l \in Points /\ In(l, {a}) /\ Under(l, x)
  BY ArmsPark
<1>2. PICK s \in Points : HomeOf(s) = b /\ Under(f, s)
  BY DEF Follows
<1>3. ASSUME Under(x, f) PROVE FALSE
  <2>1. In(x, Arms[f])
    BY <1>0, <1>3 DEF Under
  <2>2. In(s, Arms[f])
    BY <1>0, <1>2, <2>1, SameHome
  <2>3. s = f
    BY <1>0, <1>2, <2>2, UnderAntisym DEF Under
  <2> QED BY <2>2, <2>3, NotInSelf
<1>4. In(f, Arms[x])
  BY <1>0, <1>1, <1>3, UnderLinear DEF Under
<1>5. PICK d \in Arms[x] : In(f, {d})
  BY <1>4, InOne
<1>6. d = a
  BY <1>0, <1>1, <1>5, UnderIn, OneArm
<1>7. Follows(a, 0, f)
  BY <1>0, <1>5, <1>6, ArmsAt, ArmFollows
<1> QED BY <1>7, ArmsAt DEF Goes

\* A frame joined with arms parked: what its arms did and its own join.
LEMMA JoinedGoes ==
    ASSUME NEW b, NEW i, NEW x, NEW r, ArmsWays(b, i, x, r), Finished(r) # Arms[x], NEW n, NEW v,
           x \in Races => Finished(r) = {} /\ n = 1,
           x \in Alls => n = Cardinality(DOMAIN r \ Finished(r)),
           v.parks = All(Range(r)).parks, v.joins = All(Range(r)).joins \cup {<<x, n>>},
           v.keeps = All(Range(r)).keeps \cup (IF x \in Alls THEN Finished(r) ELSE {}), v.drops = All(Range(r)).drops,
           v = [parks |-> v.parks, joins |-> v.joins, keeps |-> v.keeps, drops |-> v.drops]
    PROVE  WayOf(b, i, v)
<1> DEFINE u == All(Range(r))
<1>0. x \in Frames /\ x \in Points /\ r \in [Arms[x] -> Way] /\ x \in Alls \cup Races /\ Alls \cap Races = {} /\ Arms[x] \in SUBSET Bodies
  BY ArmsAt, PointsAre, TreeAssumption DEF ArmsWays
<1>1. /\ u \in Way
      /\ \A l : l \in u.parks <=> \E a \in Arms[x] : l \in r[a].parks
      /\ \A j : j \in u.joins <=> \E a \in Arms[x] : j \in r[a].joins
      /\ \A c : c \in u.keeps <=> \E a \in Arms[x] : c \in r[a].keeps
      /\ \A c : c \in u.drops <=> \E a \in Arms[x] : c \in r[a].drops
  BY <1>0, AllIs
<1> HIDE DEF u
<1>2. v.parks = u.parks /\ v.joins = u.joins \cup {<<x, n>>} /\ v.keeps = u.keeps \cup (IF x \in Alls THEN Finished(r) ELSE {}) /\ v.drops = u.drops
  BY DEF u
<1>9. ParksAsArms(v, x, r)
  BY <1>1, <1>2 DEF ParksAsArms
<1>3. Finished(r) = {a \in Arms[x] : r[a].parks = {}}
  BY <1>0, FinishedIs
<1>4. ArmsLeft(v, x) = Arms[x] \ Finished(r)
  <2>1. ASSUME NEW a \in Arms[x], NEW l \in v.parks, In(l, {a}) PROVE a \notin Finished(r)
    <3>1. PICK c \in Arms[x] : l \in r[c].parks
      BY <1>1, <1>2
    <3>2. a = c
      BY <1>0, <2>1, <3>1, ArmsPark, OneArm
    <3> QED BY <1>3, <3>1, <3>2
  <2>2. ASSUME NEW a \in Arms[x], a \notin Finished(r) PROVE \E l \in v.parks : In(l, {a})
    <3>1. PICK l \in r[a].parks : TRUE
      BY <1>3, <2>2
    <3>2. In(l, {a}) /\ l \in v.parks
      BY <1>1, <1>2, <3>1, ArmsPark
    <3> QED BY <3>2
  <2> QED BY <2>1, <2>2 DEF ArmsLeft
<1>5. n \in Nat /\ Counts(v, <<x, n>>)
  <2>1. Finished(r) \subseteq Arms[x]
    BY <1>3
  <2>2. ArmsLeft(v, x) # {}
    BY <1>4, <2>1
  <2>3. DOMAIN r = Arms[x]
    BY <1>0
  <2>4. IsFiniteSet(Arms[x] \ Finished(r))
    BY <1>0, TreeAssumption, FS_Subset
  <2>5. n = IF x \in Races THEN 1 ELSE Cardinality(ArmsLeft(v, x))
    BY <1>0, <1>4, <2>3
  <2>6. n \in Nat
    BY <1>4, <2>4, <2>5, FS_CardinalityType
  <2> QED BY <2>2, <2>5, <2>6 DEF Counts
<1>6. v \in Way
  <2>1. u.parks \subseteq Leaves /\ u.joins \subseteq Frames \X Nat /\ u.keeps \subseteq Bodies /\ u.drops \subseteq Bodies
    BY <1>1, WayFields
  <2>2. v.joins \subseteq Frames \X Nat /\ v.keeps \subseteq Bodies
    BY <1>0, <1>2, <1>3, <1>5, <2>1
  <2> QED BY <1>2, <2>1, <2>2 DEF Way
<1>7. Goes(b, i, v)
  <2>1. \A l \in v.parks : Follows(b, i, l)
    BY <1>1, <1>2, ArmsPark
  <2>2. ASSUME NEW j \in v.joins PROVE Follows(b, i, j[1]) /\ Counts(v, j)
    <3>1. CASE j = <<x, n>>
      BY <3>1, <1>5, ArmsAt
    <3>2. CASE j \in u.joins
      BY <3>2, <1>1, <1>9, ArmsJoin
    <3> QED BY <3>1, <3>2, <1>2
  <2>3. ASSUME NEW a \in v.keeps \cup v.drops PROVE a # Top /\ Follows(b, i, FrameOf(a))
    <3>1. CASE a \in Finished(r)
      BY <3>1, <1>3, ArmsAt
    <3>2. CASE a \in u.keeps \cup u.drops
      <4>1. PICK c \in Arms[x] : a \in r[c].keeps \cup r[c].drops
        BY <3>2, <1>1
      <4>2. a # Top /\ Follows(c, 0, FrameOf(a)) /\ a \in Bodies
        BY <4>1, ArmsAt, WayFields DEF Goes
      <4>3. FrameOf(a) \in Points /\ Under(FrameOf(a), x)
        BY <1>0, <4>2, FrameOfArm, FollowsArm
      <4> QED BY <4>2, <4>3, ArmsAt
    <3> QED BY <3>1, <3>2, <1>2
  <2>4. \A a \in v.drops : FrameOf(a) \in Races
    BY <1>1, <1>2, ArmsAt DEF Goes
  <2>5. \A l, m \in v.parks : \A q \in Points : Under(l, q) => ~After(q, m)
    BY <1>1, <1>2, ArmsOrder
  <2>6. v.parks # {}
    <3>1. PICK a \in ArmsLeft(v, x) : TRUE
      BY <1>5 DEF Counts
    <3> QED BY <3>1 DEF ArmsLeft
  <2>7. ASSUME NEW l \in v.parks, NEW f \in Frames, Under(l, f), Follows(b, i, f) PROVE \E j \in v.joins : j[1] = f
    <3>1. PICK a \in Arms[x] : l \in r[a].parks
      BY <1>1, <1>2
    <3>2. CASE f = x
      <4>1. <<x, n>> \in v.joins /\ <<x, n>>[1] = f
        BY <3>2, <1>2
      <4> QED BY <4>1, Zenon
    <3>3. CASE f # x
      <4>1. \E j \in r[a].joins : j[1] = f
        BY <2>7, <3>1, <3>3, ArmsEnclose
      <4> QED BY <4>1, <1>1, <1>2
    <3> QED BY <3>2, <3>3
  <2> QED BY <2>1, <2>2, <2>3, <2>4, <2>5, <2>6, <2>7 DEF Goes
<1>8. KeepsRest(v)
  <2> SUFFICES ASSUME NEW j \in v.joins, j[1] \in Alls PROVE Arms[j[1]] \subseteq ArmsLeft(v, j[1]) \cup v.keeps
    BY DEF KeepsRest
  <2>1. CASE j = <<x, n>>
    BY <2>1, <1>2, <1>4
  <2>2. CASE j \in u.joins
    <3>1. PICK a \in Arms[x] : j \in r[a].joins
      BY <2>2, <1>1
    <3>2. ArmsLeft(v, j[1]) = ArmsLeft(r[a], j[1])
      <4>1. /\ j[1] \in Frames /\ j[1] # x /\ In(j[1], {a}) /\ Follows(b, i, j[1])
            /\ ArmsLeft(v, j[1]) = ArmsLeft(r[a], j[1]) /\ Counts(v, j)
        BY <3>1, <1>9, ArmsJoin, Zenon
      <4> QED BY <4>1
    <3>3. Arms[j[1]] \subseteq ArmsLeft(r[a], j[1]) \cup r[a].keeps
      BY <3>1, ArmsAt DEF KeepsRest
    <3>4. r[a].keeps \subseteq v.keeps
      BY <1>1, <1>2
    <3> QED BY <3>2, <3>3, <3>4
  <2> QED BY <2>1, <2>2, <1>2
<1> QED BY <1>6, <1>7, <1>8 DEF WayOf

\* A race an arm settled: the body goes on, with what the other arms did withdrawn.
LEMMA SettledGoes ==
    ASSUME NEW b, NEW i, NEW x, NEW r, ArmsWays(b, i, x, r), x \in Races, NEW next, WayOf(b, i, next)
    PROVE  WayOf(b, i, RaceSettles(r, next))
<1> DEFINE u == All(Range(r))
           v == RaceSettles(r, next)
<1>0. x \in Frames /\ x \in Points /\ r \in [Arms[x] -> Way] /\ Arms[x] \in SUBSET Bodies /\ DOMAIN r = Arms[x]
  BY ArmsAt, PointsAre, TreeAssumption DEF ArmsWays
<1>1. /\ u \in Way
      /\ \A c : c \in u.keeps <=> \E a \in Arms[x] : c \in r[a].keeps
      /\ \A c : c \in u.drops <=> \E a \in Arms[x] : c \in r[a].drops
  BY <1>0, AllIs
<1>2. next \in Way /\ Goes(b, i, next) /\ KeepsRest(next)
  BY DEF WayOf
<1>3. /\ v.parks = next.parks /\ v.joins = next.joins
      /\ v.keeps = next.keeps \cup u.keeps /\ v.drops = next.drops \cup u.drops \cup (Arms[x] \ Finished(r))
      /\ v = [parks |-> v.parks, joins |-> v.joins, keeps |-> v.keeps, drops |-> v.drops]
  <2>1. v = [next EXCEPT !.keeps = @ \cup u.keeps, !.drops = @ \cup u.drops \cup (Arms[x] \ Finished(r))]
    BY <1>0 DEF RaceSettles
  <2>2. next = [parks |-> next.parks, joins |-> next.joins, keeps |-> next.keeps, drops |-> next.drops]
    BY <1>2 DEF Way
  <2> HIDE DEF u, v
  <2> QED BY <2>1, <2>2
<1> HIDE DEF u, v
<1>4. v \in Way
  BY <1>0, <1>1, <1>2, <1>3, WayFields DEF Way
<1>5. \A a \in Arms[x] : a # Top /\ Follows(b, i, FrameOf(a)) /\ FrameOf(a) \in Races
  BY ArmsAt
<1>6. ASSUME NEW a \in u.keeps \cup u.drops PROVE a # Top /\ Follows(b, i, FrameOf(a))
  <2>1. PICK c \in Arms[x] : a \in r[c].keeps \cup r[c].drops
    BY <1>1
  <2>2. a # Top /\ Follows(c, 0, FrameOf(a)) /\ a \in Bodies
    BY <2>1, ArmsAt, WayFields DEF Goes
  <2>3. FrameOf(a) \in Points /\ Under(FrameOf(a), x)
    BY <1>0, <2>2, FrameOfArm, FollowsArm
  <2> QED BY <2>2, <2>3, ArmsAt
<1>7. \A a \in u.drops : FrameOf(a) \in Races
  BY <1>1, ArmsAt DEF Goes
<1>8. \A f : ArmsLeft(v, f) = ArmsLeft(next, f)
  BY <1>3 DEF ArmsLeft
<1>9. \A j : Counts(v, j) <=> Counts(next, j)
  BY <1>8 DEF Counts
<1>10. Goes(b, i, v)
  <2>1. \A a \in v.keeps \cup v.drops : a # Top /\ Follows(b, i, FrameOf(a))
    BY <1>2, <1>3, <1>5, <1>6 DEF Goes
  <2>2. \A a \in v.drops : FrameOf(a) \in Races
    BY <1>2, <1>3, <1>5, <1>7 DEF Goes
  <2> QED BY <1>2, <1>3, <1>9, <2>1, <2>2 DEF Goes
<1>11. KeepsRest(v)
  BY <1>2, <1>3, <1>8 DEF KeepsRest
<1>12. WayOf(b, i, v)
  BY <1>4, <1>10, <1>11 DEF WayOf
<1> QED BY <1>12 DEF v

\* The parts of the way of an `all` that parks.
LEMMA AllParksAre ==
    ASSUME NEW f, NEW r, NEW v, v = AllParks(f, r), NEW n, n = Cardinality(DOMAIN r \ Finished(r))
    PROVE  /\ v.parks = All(Range(r)).parks /\ v.joins = All(Range(r)).joins \cup {<<f, n>>}
           /\ v.keeps = All(Range(r)).keeps \cup Finished(r) /\ v.drops = All(Range(r)).drops
           /\ v = [parks |-> v.parks, joins |-> v.joins, keeps |-> v.keeps, drops |-> v.drops]
<1> DEFINE u == All(Range(r))
           fin == Finished(r)
<1>1. u = [parks |-> u.parks, joins |-> u.joins, keeps |-> u.keeps, drops |-> u.drops]
  BY DEF All
<1>2. v = [u EXCEPT !.joins = @ \cup {<<f, n>>}, !.keeps = @ \cup fin]
  BY DEF AllParks
<1> HIDE DEF u, fin
<1>3. /\ v.parks = u.parks /\ v.joins = u.joins \cup {<<f, n>>} /\ v.keeps = u.keeps \cup fin /\ v.drops = u.drops
      /\ v = [parks |-> v.parks, joins |-> v.joins, keeps |-> v.keeps, drops |-> v.drops]
  BY <1>1, <1>2
<1> QED BY <1>3 DEF u, fin

\* The parts of the way of a race that parks.
LEMMA RaceParksAre ==
    ASSUME NEW f, NEW r, NEW v, v = RaceParks(f, r)
    PROVE  /\ v.parks = All(Range(r)).parks /\ v.joins = All(Range(r)).joins \cup {<<f, 1>>}
           /\ v.keeps = All(Range(r)).keeps /\ v.drops = All(Range(r)).drops
           /\ v = [parks |-> v.parks, joins |-> v.joins, keeps |-> v.keeps, drops |-> v.drops]
<1> DEFINE u == All(Range(r))
<1>1. u = [parks |-> u.parks, joins |-> u.joins, keeps |-> u.keeps, drops |-> u.drops]
  BY DEF All
<1>2. v = [u EXCEPT !.joins = @ \cup {<<f, 1>>}]
  BY DEF RaceParks
<1> HIDE DEF u
<1>3. /\ v.parks = u.parks /\ v.joins = u.joins \cup {<<f, 1>>} /\ v.keeps = u.keeps /\ v.drops = u.drops
      /\ v = [parks |-> v.parks, joins |-> v.joins, keeps |-> v.keeps, drops |-> v.drops]
  BY <1>1, <1>2
<1> QED BY <1>3 DEF u

\* What is chosen at the next statement is a way of the body, where what is
\* chosen in its arms is.
LEMMA WaysAtGo ==
    ASSUME NEW b \in Bodies, NEW i \in Positions, i < Len(Statements[b]), NEW on, NEW of,
           \A v \in on : WayOf(b, i, v),
           Statements[b][i + 1] \in Frames =>
             DOMAIN of = Arms[Statements[b][i + 1]] /\ \A a \in Arms[Statements[b][i + 1]] : \A v \in of[a] : WayOf(a, 0, v)
    PROVE  \A v \in WaysAt(Statements[b][i + 1], on, of) : WayOf(b, i, v)
<1> DEFINE x == Statements[b][i + 1]
           runs == {r \in [Arms[x] -> UNION Range(of)] : (\A a \in Arms[x] : r[a] \in of[a]) /\ Finished(r) # Arms[x]}
<1>1. x \in Points
  BY NextStated
<1>2. CASE x \in Leaves
  <2>1. WaysAt(x, on, of) = on \cup {ParksAt(x)}
    BY <1>2, WaysAtLeaf
  <2> QED BY <1>2, <2>1, ParksGoes
<1>3. CASE x \in Frames
  <2>1. \A r \in runs : ArmsWays(b, i, x, r) /\ Finished(r) # Arms[x] /\ r \in [Arms[x] -> Way] /\ DOMAIN r = Arms[x]
    <3> SUFFICES ASSUME NEW r \in runs PROVE ArmsWays(b, i, x, r) /\ Finished(r) # Arms[x] /\ r \in [Arms[x] -> Way] /\ DOMAIN r = Arms[x]
      OBVIOUS
    <3>1. \A a \in Arms[x] : WayOf(a, 0, r[a])
      BY <1>3
    <3>2. r \in [Arms[x] -> Way]
      BY <3>1 DEF WayOf
    <3> QED BY <1>3, <3>1, <3>2 DEF ArmsWays
  <2>2. x \notin Leaves /\ x \in Alls \cup Races /\ Alls \cap Races = {}
    BY <1>3, TreeAssumption, PointsAre
  <2>4. CASE x \in Alls
    <3>1. \A r \in runs : WayOf(b, i, AllParks(x, r))
      <4> SUFFICES ASSUME NEW r \in runs PROVE WayOf(b, i, AllParks(x, r))
        OBVIOUS
      <4> DEFINE v == AllParks(x, r)
                 n == Cardinality(DOMAIN r \ Finished(r))
      <4>0. v = AllParks(x, r) /\ n = Cardinality(DOMAIN r \ Finished(r))
        OBVIOUS
      <4> HIDE DEF v, n, runs
      <4>1. /\ v.parks = All(Range(r)).parks /\ v.joins = All(Range(r)).joins \cup {<<x, n>>}
            /\ v.keeps = All(Range(r)).keeps \cup Finished(r) /\ v.drops = All(Range(r)).drops
            /\ v = [parks |-> v.parks, joins |-> v.joins, keeps |-> v.keeps, drops |-> v.drops]
        BY <4>0, AllParksAre
      <4>2. ArmsWays(b, i, x, r) /\ Finished(r) # Arms[x]
        BY <2>1
      <4> HIDE DEF v, n, x, runs
      <4>3. v.keeps = All(Range(r)).keeps \cup (IF x \in Alls THEN Finished(r) ELSE {})
        BY <4>1, <2>4
      <4>4. (x \in Races => Finished(r) = {} /\ n = 1) /\ (x \in Alls => n = Cardinality(DOMAIN r \ Finished(r)))
        BY <2>2, <2>4 DEF n
      <4>5. WayOf(b, i, v)
        BY <4>1, <4>2, <4>3, <4>4, JoinedGoes, Zenon
      <4> QED BY <4>5, <4>0 DEF v
    <3>2. WaysAt(x, on, of) = on \cup {AllParks(x, r) : r \in runs}
      BY <2>2, <2>4 DEF WaysAt
    <3> HIDE DEF runs, x
    <3>3. \A v \in WaysAt(x, on, of) : WayOf(b, i, v)
      BY <3>1, <3>2
    <3> QED BY <3>3 DEF x
  <2>5. CASE x \in Races
    <3>1. \A r \in runs : Finished(r) = {} => WayOf(b, i, RaceParks(x, r))
      <4> SUFFICES ASSUME NEW r \in runs, Finished(r) = {} PROVE WayOf(b, i, RaceParks(x, r))
        OBVIOUS
      <4> DEFINE v == RaceParks(x, r)
                 n == 1
      <4>0. v = RaceParks(x, r)
        OBVIOUS
      <4> HIDE DEF v
      <4>1. /\ v.parks = All(Range(r)).parks /\ v.joins = All(Range(r)).joins \cup {<<x, n>>}
            /\ v.keeps = All(Range(r)).keeps /\ v.drops = All(Range(r)).drops
            /\ v = [parks |-> v.parks, joins |-> v.joins, keeps |-> v.keeps, drops |-> v.drops]
        BY <4>0, RaceParksAre
      <4>2. ArmsWays(b, i, x, r) /\ Finished(r) # Arms[x]
        BY <2>1
      <4>4. (x \in Races => Finished(r) = {} /\ n = 1) /\ (x \in Alls => n = Cardinality(DOMAIN r \ Finished(r)))
        BY <2>2, <2>5
      <4> HIDE DEF v, n, x, runs
      <4>3. v.keeps = All(Range(r)).keeps \cup (IF x \in Alls THEN Finished(r) ELSE {})
        BY <4>1, <2>2, <2>5
      <4>5. WayOf(b, i, v)
        BY <4>1, <4>2, <4>3, <4>4, JoinedGoes, Zenon
      <4> QED BY <4>5, <4>0 DEF v
    <3>2. \A r \in runs, next \in on : WayOf(b, i, RaceSettles(r, next))
      <4> HIDE DEF runs, x
      <4> QED BY <2>1, <2>5, SettledGoes
    <3>3. WaysAt(x, on, of) = on \cup ({RaceParks(x, r) : r \in {s \in runs : Finished(s) = {}}}
                                       \cup {RaceSettles(r, next) : r \in {s \in runs : Finished(s) # {}}, next \in on})
      BY <2>2, <2>5 DEF WaysAt
    <3> HIDE DEF runs, x
    <3>4. ASSUME NEW v \in WaysAt(x, on, of) PROVE WayOf(b, i, v)
      <4>1. CASE v \in on
        BY <4>1
      <4>2. CASE v \in {RaceParks(x, r) : r \in {s \in runs : Finished(s) = {}}}
        BY <4>2, <3>1
      <4>3. CASE v \in {RaceSettles(r, next) : r \in {s \in runs : Finished(s) # {}}, next \in on}
        <5>1. PICK r \in runs, next \in on : v = RaceSettles(r, next)
          BY <4>3
        <5> QED BY <5>1, <3>2
      <4> QED BY <4>1, <4>2, <4>3, <3>3
    <3> QED BY <3>4 DEF x
  <2> QED BY <2>2, <2>4, <2>5
<1> QED BY <1>1, <1>2, <1>3, PointsAre

\* Every way goes where its body does.
LEMMA WaysGo ==
    ASSUME NEW b \in Bodies, NEW i \in Positions, NEW v \in Ways[b][i]
    PROVE  WayOf(b, i, v)
<1> DEFINE Bad == {n \in 0 .. Cardinality(Points) : \E c \in Bodies, j \in Positions : Rank(c, j) = n /\ ~ \A u \in Ways[c][j] : WayOf(c, j, u)}
<1>0. Cardinality(Points) \in Nat
  BY TreeAssumption, FS_CardinalityType
<1>1. Bad = {}
  <2> SUFFICES ASSUME Bad # {} PROVE FALSE
    OBVIOUS
  <2>1. PICK m \in Bad : \A k \in Bad : m <= k
    <3>1. Bad \in SUBSET Nat
      BY <1>0
    <3> HIDE DEF Bad
    <3> QED BY <3>1, LeastNat
  <2>2. PICK c \in Bodies, j \in Positions : Rank(c, j) = m /\ ~ \A u \in Ways[c][j] : WayOf(c, j, u)
    BY <2>1
  <2>3. \A d \in Bodies, k \in Positions : Rank(d, k) < m => \A u \in Ways[d][k] : WayOf(d, k, u)
    <3> SUFFICES ASSUME NEW d \in Bodies, NEW k \in Positions, Rank(d, k) < m, ~ \A u \in Ways[d][k] : WayOf(d, k, u) PROVE FALSE
      OBVIOUS
    <3>1. Rank(d, k) \in 0 .. Cardinality(Points)
      BY RankIs
    <3>2. Rank(d, k) \in Bad
      BY <3>1
    <3> HIDE DEF Bad
    <3>3. m <= Rank(d, k)
      BY <2>1, <3>2
    <3>4. m \in Nat
      BY <2>2, RankIs, <1>0
    <3> QED BY <3>1, <3>3, <3>4, <1>0
  <2> HIDE DEF Bad
  <2>4. Ways[c][j] = WaysBy(Ways, c, j)
    BY WaysAre
  <2>5. j \in Nat /\ Len(Statements[c]) \in Nat
    BY PositionsNat, LenNat
  <2>6. CASE j >= Len(Statements[c])
    BY <2>2, <2>4, <2>6, ReachedGoes DEF WaysBy
  <2>7. CASE j < Len(Statements[c])
    <3> DEFINE x == Statements[c][j + 1]
               of == [a \in Arms[x] |-> Ways[a][0]]
    <3>1. Ways[c][j] = WaysAt(x, Ways[c][j + 1], of)
      BY <2>4, <2>5, <2>7 DEF WaysBy
    <3>2. j + 1 \in Positions /\ Rank(c, j + 1) < m
      BY <2>2, <2>7, NextStated, RankLess
    <3>3. \A u \in Ways[c][j + 1] : WayOf(c, j, u)
      BY <2>3, <2>5, <3>2, LaterGoes
    <3>4. x \in Frames => DOMAIN of = Arms[x] /\ \A a \in Arms[x] : \A u \in of[a] : WayOf(a, 0, u)
      <4> SUFFICES ASSUME x \in Frames, NEW a \in Arms[x], NEW u \in of[a] PROVE WayOf(a, 0, u)
        OBVIOUS
      <4>1. a \in Bodies /\ 0 \in Positions /\ Rank(a, 0) < m
        BY <2>2, <2>7, RankLess
      <4>2. u \in Ways[a][0]
        OBVIOUS
      <4> QED BY <4>1, <4>2, <2>3
    <3> HIDE DEF of
    <3>5. \A u \in WaysAt(x, Ways[c][j + 1], of) : WayOf(c, j, u)
      BY <2>7, <3>3, <3>4, WaysAtGo
    <3> QED BY <2>2, <3>1, <3>5
  <2> QED BY <2>5, <2>6, <2>7
<1>2. Rank(b, i) \in 0 .. Cardinality(Points)
  BY RankIs
<1> QED BY <1>1, <1>2

-----------------------------------------------------------------------------
(* What each step does. *)

\* Only w's job changes.
Only(w) == job' \in [Workers -> Job] /\ \A u \in Workers \ {w} : job'[u] = job[u]

\* The leaf parks again where it resumed.
Again(p, v) == p \in Leaves /\ v.parks = {p} /\ v.joins = {} /\ v.keeps = {} /\ v.drops = {}

\* v is a way of going on past p, or p, a leaf, parked again.
GoesOn(p, v) == Goes(HomeOf(p), PlaceOf(p), v) \/ Again(p, v)

\* Each way planned is one of going on from there.
PlansGo == \A x \in Points : \A v \in plan[x] : GoesOn(x, v) /\ KeepsRest(v)

\* The parts of Reached.
LEMMA ReachedIs == Reached = [parks |-> {}, joins |-> {}, keeps |-> {}, drops |-> {}] /\ Reached \in Way
BY DEF Reached, Way

\* The parts of Idle.
LEMMA IdleIs ==
    /\ Idle \in Job /\ Idle.step = "idle" /\ Idle.todo = {} /\ Idle.settled = {} /\ Idle.of = Nobody /\ Idle.at = Nobody
    /\ Idle.way = Reached /\ Idle.losers = {} /\ Idle.passed = {} /\ Idle.owes = {} /\ Idle.settle = "parked"
BY ReachedIs DEF Idle, Job

\* The parts of a job.
LEMMA JobFields ==
    ASSUME NEW j \in Job
    PROVE  /\ j.step \in {"idle", "next", "frames", "run", "decrement", "judge", "commit", "fail"}
           /\ j.todo \subseteq Leaves /\ j.settled \subseteq Races /\ j.of \in Leaves \cup Races \cup {Nobody}
           /\ j.at \in Points \cup {Nobody} /\ j.way \in Way /\ j.losers \subseteq Bodies
           /\ j.passed \subseteq Frames /\ j.owes \subseteq Races /\ j.settle \in {"parked", "completed"}
           /\ j = [step |-> j.step, todo |-> j.todo, settled |-> j.settled, of |-> j.of, at |-> j.at, way |-> j.way,
                   losers |-> j.losers, passed |-> j.passed, owes |-> j.owes, settle |-> j.settle]
BY DEF Job

\* The ways a continuation may take are ways of going on from there.
LEMMA WaysOnGo ==
    ASSUME TypeOK, PlansGo, NEW x \in Points, NEW v \in WaysOn(x)
    PROVE  v \in Way /\ GoesOn(x, v) /\ KeepsRest(v) /\ (plan[x] # {} => v \in plan[x])
<1>1. CASE plan[x] # {}
  BY <1>1 DEF WaysOn, TypeOK, PlansGo
<1>2. CASE plan[x] = {}
  <2>1. HomeOf(x) \in Bodies /\ PlaceOf(x) \in Positions
    <3>1. PlaceOf(x) \in 0 .. Len(Statements[HomeOf(x)])
      BY PlacesIn
    <3> QED BY <3>1, Places, PositionsAre
  <2>2. WayOf(HomeOf(x), PlaceOf(x), v)
    BY <1>2, <2>1, WaysGo DEF WaysOn
  <2> QED BY <1>2, <2>2 DEF WayOf, GoesOn
<1> QED BY <1>1, <1>2

\* What a resumed leaf goes on by goes on from it.
LEMMA WaysFromLeafGo ==
    ASSUME TypeOK, PlansGo, NEW x \in Leaves, NEW v \in WaysFromLeaf(x)
    PROVE  v \in Way /\ GoesOn(x, v) /\ KeepsRest(v) /\ (plan[x] # {} => v \in plan[x])
<1>0. x \in Points
  BY PointsAre
<1>1. CASE v \in WaysOn(x)
  BY <1>0, <1>1, WaysOnGo
<1>2. CASE v = ParksAt(x) /\ plan[x] = {}
  BY <1>2, ParksAtIs DEF GoesOn, Again, KeepsRest
<1> QED BY <1>1, <1>2 DEF WaysFromLeaf

\* A way planned goes on from its statement, as every other plan does.
LEMMA PlannedIs ==
    ASSUME TypeOK, PlansGo, NEW x \in Points, NEW v \in Way, GoesOn(x, v), KeepsRest(v), Planned(x, v)
    PROVE  /\ plan' \in [Points -> SUBSET Way] /\ \A y \in Points : Cardinality(plan'[y]) <= 1
           /\ plan'[x] = {v} /\ \A y \in Points \ {x} : plan'[y] = plan[y]
           /\ PlansGo'
<1>1. plan' = [plan EXCEPT ![x] = {v}] /\ plan \in [Points -> SUBSET Way] /\ \A y \in Points : Cardinality(plan[y]) <= 1
  BY DEF Planned, TypeOK
<1>2. plan'[x] = {v} /\ \A y \in Points \ {x} : plan'[y] = plan[y]
  BY <1>1
<1>3. plan' \in [Points -> SUBSET Way]
  BY <1>1
<1>4. Cardinality({v}) = 1
  BY FS_Singleton
<1>5. \A y \in Points : Cardinality(plan'[y]) <= 1
  BY <1>1, <1>2, <1>4
<1>6. PlansGo'
  BY <1>2 DEF PlansGo
<1> QED BY <1>2, <1>3, <1>5, <1>6

\* A job stepped on.
LEMMA GotoIs ==
    ASSUME TypeOK, NEW w \in Workers, NEW s \in {"idle", "next", "frames", "run", "decrement", "judge", "commit", "fail"}, Goto(w, s)
    PROVE  /\ Only(w) /\ job'[w].step = s /\ job'[w].todo = job[w].todo /\ job'[w].settled = job[w].settled /\ job'[w].of = job[w].of
           /\ job'[w].at = job[w].at /\ job'[w].way = job[w].way /\ job'[w].losers = job[w].losers /\ job'[w].passed = job[w].passed
           /\ job'[w].owes = job[w].owes /\ job'[w].settle = job[w].settle
<1>1. job \in [Workers -> Job] /\ job' = [job EXCEPT ![w].step = s]
  BY DEF TypeOK, Goto
<1>2. job[w] \in Job
  BY <1>1
<1>3. job'[w] = [job[w] EXCEPT !.step = s] /\ \A u \in Workers \ {w} : job'[u] = job[u]
  BY <1>1
<1>4. job'[w] \in Job
  BY <1>2, <1>3 DEF Job
<1>5. Only(w)
  BY <1>1, <1>3, <1>4 DEF Only
<1> QED BY <1>2, <1>3, <1>5, JobFields DEF Job

\* A process that goes idle changes its own job alone.
LEMMA GoIdleIs ==
    ASSUME TypeOK, NEW w \in Workers, GoIdle(w)
    PROVE  Only(w) /\ job'[w] = Idle
BY IdleIs DEF TypeOK, GoIdle, Only

\* What Drain does.
LEMMA DrainDoes ==
    ASSUME TypeOK, NEW w \in Workers, NEW todo \in SUBSET Leaves, Drain(w, todo)
    PROVE  /\ Only(w) /\ At(w, "idle") /\ lease = Nobody /\ status = "parked" /\ lease' = w
           /\ leaf' \in [Leaves -> {"none", "parked", "resuming"}]
           /\ \A l \in Leaves : leaf'[l] = IF leaf[l] = "resuming" THEN "parked" ELSE leaf[l]
           /\ job'[w].step = "next" /\ job'[w].of = Nobody
           /\ UNCHANGED <<status, join, export, owed, plan, past, open, left>>
<1>1. job' = [job EXCEPT ![w] = [Idle EXCEPT !.step = "next", !.todo = todo]] /\ job \in [Workers -> Job]
  BY DEF Drain, TypeOK
<1>2. [Idle EXCEPT !.step = "next", !.todo = todo] \in Job
  BY IdleIs DEF Job
<1>3. job'[w] = [Idle EXCEPT !.step = "next", !.todo = todo] /\ Only(w)
  BY <1>1, <1>2 DEF Only
<1>4. job'[w].step = "next" /\ job'[w].of = Nobody
  BY <1>3, IdleIs DEF Job
<1>5. leaf' = Returned /\ leaf \in [Leaves -> {"none", "parked", "resuming"}]
  BY DEF Drain, TypeOK
<1>6. \A l \in Leaves : leaf'[l] = IF leaf[l] = "resuming" THEN "parked" ELSE leaf[l]
  BY <1>5 DEF Returned
<1>7. leaf' \in [Leaves -> {"none", "parked", "resuming"}]
  BY <1>5 DEF Returned
<1> QED BY <1>3, <1>4, <1>6, <1>7 DEF Drain

\* A leaf claimed, and the way its segment takes.
LEMMA ClaimDoes ==
    ASSUME TypeOK, PlansGo, NEW w \in Workers, ClaimLeaf(w)
    PROVE  /\ Only(w) /\ At(w, "next") /\ Holds(w) /\ UNCHANGED <<status, join, export, owed, lease, past, open>>
           /\ \/ \E l \in Leaves : \E way \in Way :
                   /\ leaf[l] = "parked" /\ leaf' \in [Leaves -> {"none", "parked", "resuming"}]
                   /\ leaf'[l] = "resuming" /\ \A m \in Leaves \ {l} : leaf'[m] = leaf[m]
                   /\ GoesOn(l, way) /\ KeepsRest(way) /\ Planned(l, way) /\ (plan[l] # {} => way \in plan[l])
                   /\ left' \in [{"reparks", "faults"} -> Nat]
                   /\ job'[w].step = "run" /\ job'[w].of = l /\ job'[w].at = l /\ job'[w].way = way
                   /\ job'[w].losers = {} /\ job'[w].passed = {} /\ job'[w].owes = {} /\ job'[w].settle = "parked"
              \/ UNCHANGED <<leaf, plan, left>> /\ job'[w].step = job[w].step /\ job'[w].of = job[w].of
<1>0. job \in [Workers -> Job] /\ job[w] \in Job /\ job[w].todo \subseteq Leaves
  BY JobFields DEF TypeOK
<1>1. PICK l \in job[w].todo :
         IF l \in Parked
         THEN \E way \in WaysFromLeaf(l) :
                /\ leaf' = [leaf EXCEPT ![l] = "resuming"]
                /\ Planned(l, way)
                /\ IF l \in way.parks /\ plan[l] = {} THEN Spend("reparks") ELSE UNCHANGED left
                /\ job' = [job EXCEPT ![w] = [Idle EXCEPT !.step = "run", !.todo = job[w].todo \ {l}, !.of = l, !.at = l, !.way = way]]
         ELSE /\ job' = [job EXCEPT ![w].todo = @ \ {l}]
              /\ UNCHANGED <<leaf, plan, left>>
  BY DEF ClaimLeaf
<1>2. l \in Leaves /\ l \in Points
  BY <1>0, <1>1, PointsAre
<1>3. CASE l \in Parked
  <2>1. PICK way \in WaysFromLeaf(l) :
                /\ leaf' = [leaf EXCEPT ![l] = "resuming"]
                /\ Planned(l, way)
                /\ IF l \in way.parks /\ plan[l] = {} THEN Spend("reparks") ELSE UNCHANGED left
                /\ job' = [job EXCEPT ![w] = [Idle EXCEPT !.step = "run", !.todo = job[w].todo \ {l}, !.of = l, !.at = l, !.way = way]]
    BY <1>1, <1>3
  <2>2. way \in Way /\ GoesOn(l, way) /\ KeepsRest(way) /\ (plan[l] # {} => way \in plan[l])
    BY <1>2, <2>1, WaysFromLeafGo
  <2>3. left \in [{"reparks", "faults"} -> Nat] /\ leaf \in [Leaves -> {"none", "parked", "resuming"}]
    BY DEF TypeOK
  <2>4. left' \in [{"reparks", "faults"} -> Nat]
    BY <2>1, <2>3 DEF Spend
  <2>5. leaf[l] = "parked" /\ leaf' \in [Leaves -> {"none", "parked", "resuming"}]
                   /\ leaf'[l] = "resuming" /\ \A m \in Leaves \ {l} : leaf'[m] = leaf[m]
    BY <1>2, <1>3, <2>1, <2>3 DEF Parked
  <2> DEFINE j == [Idle EXCEPT !.step = "run", !.todo = job[w].todo \ {l}, !.of = l, !.at = l, !.way = way]
  <2>6. job'[w] = j /\ \A u \in Workers \ {w} : job'[u] = job[u]
    BY <1>0, <2>1
  <2>7. /\ j.step = "run" /\ j.of = l /\ j.at = l /\ j.way = way /\ j.losers = {} /\ j.passed = {} /\ j.owes = {} /\ j.settle = "parked"
        /\ j \in Job
    BY <1>0, <1>2, <2>2, IdleIs DEF Job
  <2>8. Only(w)
    BY <1>0, <2>1, <2>6, <2>7 DEF Only
  <2>9. Only(w) /\ At(w, "next") /\ Holds(w) /\ UNCHANGED <<status, join, export, owed, lease, past, open>>
    BY <2>8 DEF ClaimLeaf
  <2> HIDE DEF j
  <2> QED BY <1>2, <2>1, <2>2, <2>4, <2>5, <2>6, <2>7, <2>9
<1>4. CASE l \notin Parked
  <2>1. job' = [job EXCEPT ![w].todo = @ \ {l}] /\ UNCHANGED <<leaf, plan, left>>
    BY <1>1, <1>4
  <2>2. job'[w] = [job[w] EXCEPT !.todo = @ \ {l}] /\ \A u \in Workers \ {w} : job'[u] = job[u]
    BY <1>0, <2>1
  <2>3. job'[w] \in Job /\ job'[w].step = job[w].step /\ job'[w].of = job[w].of
    BY <1>0, <2>2 DEF Job
  <2>4. Only(w)
    BY <1>0, <2>1, <2>2, <2>3 DEF Only
  <2> QED BY <2>1, <2>3, <2>4 DEF ClaimLeaf
<1> QED BY <1>3, <1>4

\* What SettleRace does.
LEMMA SettleDoes ==
    ASSUME TypeOK, PlansGo, NEW w \in Workers, SettleRace(w)
    PROVE  /\ Only(w) /\ At(w, "next") /\ Holds(w) /\ UNCHANGED <<status, leaf, join, export, owed, lease, past, open, left>>
           /\ \E f \in owed : \E way \in Way :
                   /\ f \in Races /\ GoesOn(f, way) /\ KeepsRest(way) /\ Planned(f, way) /\ (plan[f] # {} => way \in plan[f])
                   /\ job'[w].step = "run" /\ job'[w].of = f /\ job'[w].at = f /\ job'[w].way = way
                   /\ job'[w].losers = Arms[f] /\ job'[w].passed = {f} /\ job'[w].owes = {} /\ job'[w].settle = "parked"
<1>0. job \in [Workers -> Job] /\ job[w] \in Job /\ job[w].settled \subseteq Races /\ owed \subseteq Races
  BY JobFields DEF TypeOK
<1>1. PICK f \in owed \ job[w].settled : \E way \in WaysOn(f) :
         /\ Planned(f, way)
         /\ job' = [job EXCEPT ![w] = [Idle EXCEPT !.step = "run", !.settled = job[w].settled \cup {f}, !.of = f, !.at = f,
                                                   !.way = way, !.losers = Arms[f], !.passed = {f}]]
  BY DEF SettleRace
<1>2. PICK way \in WaysOn(f) :
         /\ Planned(f, way)
         /\ job' = [job EXCEPT ![w] = [Idle EXCEPT !.step = "run", !.settled = job[w].settled \cup {f}, !.of = f, !.at = f,
                                                   !.way = way, !.losers = Arms[f], !.passed = {f}]]
  BY <1>1
<1>3. f \in Races /\ f \in Points /\ f \in Frames /\ Arms[f] \subseteq Bodies
  BY <1>0, <1>1, PointsAre, TreeAssumption
<1>4. way \in Way /\ GoesOn(f, way) /\ KeepsRest(way) /\ (plan[f] # {} => way \in plan[f])
  BY <1>2, <1>3, WaysOnGo
<1> DEFINE j == [Idle EXCEPT !.step = "run", !.settled = job[w].settled \cup {f}, !.of = f, !.at = f,
                                                   !.way = way, !.losers = Arms[f], !.passed = {f}]
<1>5. job'[w] = j /\ \A u \in Workers \ {w} : job'[u] = job[u]
  BY <1>0, <1>2
<1>6. /\ j.step = "run" /\ j.of = f /\ j.at = f /\ j.way = way /\ j.losers = Arms[f] /\ j.passed = {f} /\ j.owes = {} /\ j.settle = "parked"
      /\ j \in Job
  BY <1>0, <1>3, <1>4, IdleIs DEF Job
<1>7. Only(w)
  BY <1>0, <1>2, <1>5, <1>6 DEF Only
<1> HIDE DEF j
<1> QED BY <1>1, <1>2, <1>3, <1>4, <1>5, <1>6, <1>7 DEF SettleRace

\* The state's types, one by one.
LEMMA StateIs ==
    ASSUME TypeOK
    PROVE  /\ leaf \in [Leaves -> {"none", "parked", "resuming"}]
           /\ join \in [Frames -> [pending : Nat \cup {-1}, closedBy : Leaves \cup Races \cup {Nobody}]]
           /\ export \in [Bodies -> {NoExport, "kept", "decremented"}]
           /\ job \in [Workers -> Job] /\ plan \in [Points -> SUBSET Way] /\ past \in [Frames -> Nat]
           /\ left \in [{"reparks", "faults"} -> Nat] /\ owed \subseteq Races /\ owed \subseteq Frames /\ open \subseteq Frames
BY PointsAre DEF TypeOK

\* A way of going on with less to keep and to withdraw.
LEMMA GoesOnLess ==
    ASSUME NEW p, NEW v \in Way, NEW u \in Way, GoesOn(p, v),
           u.parks = v.parks, u.joins = v.joins, u.keeps \subseteq v.keeps, u.drops \subseteq v.drops
    PROVE  GoesOn(p, u)
<1>1. \A f : ArmsLeft(u, f) = ArmsLeft(v, f)
  BY DEF ArmsLeft
<1>2. CASE Goes(HomeOf(p), PlaceOf(p), v)
  <2>1. \A j \in u.joins : Counts(u, j)
    BY <1>1, <1>2 DEF Goes, Counts
  <2> QED BY <1>2, <2>1 DEF Goes, GoesOn
<1>3. CASE Again(p, v)
  BY <1>3 DEF Again, GoesOn
<1> QED BY <1>2, <1>3 DEF GoesOn

\* What WithdrawLeaves does.
LEMMA WithdrawLeavesDoes ==
    ASSUME TypeOK, NEW w \in Workers, WithdrawLeaves(w)
    PROVE  /\ Only(w) /\ At(w, "run") /\ Losers(w) # {} /\ UNCHANGED <<status, join, export, owed, lease, plan, past, open, left>>
           /\ leaf' \in [Leaves -> {"none", "parked", "resuming"}]
           /\ \A l \in Leaves : leaf'[l] = IF leaf[l] = "parked" /\ In(l, Losers(w)) THEN "none" ELSE leaf[l]
           /\ job'[w].step = "frames" /\ job'[w].todo = job[w].todo /\ job'[w].settled = job[w].settled /\ job'[w].of = job[w].of
           /\ job'[w].at = job[w].at /\ job'[w].way = job[w].way /\ job'[w].losers = job[w].losers /\ job'[w].passed = job[w].passed
           /\ job'[w].owes = job[w].owes /\ job'[w].settle = job[w].settle
<1>1. Goto(w, "frames") /\ At(w, "run") /\ Losers(w) # {} /\ UNCHANGED <<status, join, export, owed, lease, plan, past, open, left>>
  BY DEF WithdrawLeaves
<1>2. leaf' = [l \in Leaves |-> IF Withdraws(Losers(w), l) THEN "none" ELSE leaf[l]]
  BY DEF WithdrawLeaves
<1>3. \A l \in Leaves : leaf'[l] = IF leaf[l] = "parked" /\ In(l, Losers(w)) THEN "none" ELSE leaf[l]
  BY <1>2 DEF Withdraws, Parked
<1>4. leaf' \in [Leaves -> {"none", "parked", "resuming"}]
  BY <1>2, StateIs
<1> QED BY <1>1, <1>3, <1>4, GotoIs

\* What WithdrawFrames does.
LEMMA WithdrawFramesDoes ==
    ASSUME TypeOK, NEW w \in Workers, WithdrawFrames(w)
    PROVE  /\ Only(w) /\ At(w, "frames") /\ UNCHANGED <<status, leaf, lease, plan, past, left>>
           /\ join' \in [Frames -> [pending : Nat \cup {-1}, closedBy : Leaves \cup Races \cup {Nobody}]]
           /\ export' \in [Bodies -> {NoExport, "kept", "decremented"}]
           /\ \A f \in Frames : join'[f] = IF f \in Dead(w) THEN NoJoin ELSE join[f]
           /\ \A f \in Frames : \A b \in Arms[f] : export'[b] = IF f \in Dead(w) THEN NoExport ELSE export[b]
           /\ owed' = owed \ Dead(w) /\ open' = open \ Dead(w)
           /\ job'[w].step = "run" /\ job'[w].losers = {} /\ job'[w].of = job[w].of
           /\ job'[w].at = job[w].at /\ job'[w].passed = job[w].passed /\ job'[w].owes = job[w].owes /\ job'[w].settle = job[w].settle
           /\ job'[w].way \in Way /\ job'[w].way.parks = job[w].way.parks /\ job'[w].way.joins = job[w].way.joins
           /\ job'[w].way.keeps = job[w].way.keeps /\ job'[w].way.drops = job[w].way.drops \ Losers(w)
<1>0. job \in [Workers -> Job] /\ job[w] \in Job /\ job[w].way \in Way
  BY StateIs, JobFields
<1>1. job' = [job EXCEPT ![w].step = "run", ![w].losers = {}, ![w].way.drops = @ \ Losers(w)]
  BY DEF WithdrawFrames
<1> DEFINE v == [job[w].way EXCEPT !.drops = @ \ Losers(w)]
<1>2. v \in Way /\ v.parks = job[w].way.parks /\ v.joins = job[w].way.joins /\ v.keeps = job[w].way.keeps /\ v.drops = job[w].way.drops \ Losers(w)
  BY <1>0 DEF Way
<1>3. job'[w] = [job[w] EXCEPT !.step = "run", !.losers = {}, !.way = v] /\ \A u \in Workers \ {w} : job'[u] = job[u]
  BY <1>0, <1>1
<1> HIDE DEF v
<1>4. job'[w] \in Job /\ job'[w].step = "run" /\ job'[w].losers = {} /\ job'[w].of = job[w].of
           /\ job'[w].at = job[w].at /\ job'[w].passed = job[w].passed /\ job'[w].owes = job[w].owes /\ job'[w].settle = job[w].settle
           /\ job'[w].way = v
  BY <1>0, <1>2, <1>3 DEF Job
<1>5. Only(w)
  BY <1>0, <1>1, <1>3, <1>4 DEF Only
<1>6. /\ join' = [f \in Frames |-> IF f \in Dead(w) THEN NoJoin ELSE join[f]]
      /\ export' = [b \in Bodies |-> IF b \in UNION {Arms[f] : f \in Dead(w)} THEN NoExport ELSE export[b]]
      /\ owed' = owed \ Dead(w) /\ open' = open \ Dead(w)
  BY DEF WithdrawFrames
<1>7. NoJoin \in [pending : Nat \cup {-1}, closedBy : Leaves \cup Races \cup {Nobody}]
  BY DEF NoJoin
<1>8. join' \in [Frames -> [pending : Nat \cup {-1}, closedBy : Leaves \cup Races \cup {Nobody}]]
           /\ export' \in [Bodies -> {NoExport, "kept", "decremented"}]
  BY <1>6, <1>7, StateIs
<1>9. \A f \in Frames : \A b \in Arms[f] : export'[b] = IF f \in Dead(w) THEN NoExport ELSE export[b]
  <2> SUFFICES ASSUME NEW f \in Frames, NEW b \in Arms[f]
               PROVE  export'[b] = IF f \in Dead(w) THEN NoExport ELSE export[b]
    OBVIOUS
  <2>1. b \in Bodies
    BY ArmsIn
  <2>2. b \in UNION {Arms[g] : g \in Dead(w)} <=> f \in Dead(w)
    <3>1. \A g \in Dead(w) : b \in Arms[g] => g = f
      BY ArmsIn DEF Dead, Recorded
    <3> QED BY <3>1
  <2> QED BY <1>6, <2>1, <2>2
<1> QED BY <1>2, <1>4, <1>5, <1>6, <1>8, <1>9 DEF WithdrawFrames

\* An export kept is in, and none is lost or decremented.
LEMMA KeptIs ==
    ASSUME TypeOK, NEW b \in Bodies, export' = Kept(b)
    PROVE  /\ export' \in [Bodies -> {NoExport, "kept", "decremented"}]
           /\ export'[b] = IF export[b] = NoExport THEN "kept" ELSE export[b]
           /\ \A c \in Bodies \ {b} : export'[c] = export[c]
           /\ \A c \in Bodies : export'[c] = "decremented" <=> export[c] = "decremented"
           /\ \A c \in Bodies : export[c] # NoExport => export'[c] # NoExport
BY StateIs DEF Kept, NoExport

\* What Keep does.
LEMMA KeepDoes ==
    ASSUME TypeOK, NEW w \in Workers, Keep(w)
    PROVE  /\ Only(w) /\ At(w, "run") /\ job[w].losers = {} /\ UNCHANGED <<status, leaf, join, owed, lease, plan, past, open, left>>
           /\ \E b \in job[w].way.keeps :
                b \in Bodies /\ export' = Kept(b) /\ job'[w].way.keeps = job[w].way.keeps \ {b}
           /\ job'[w].step = "run" /\ job'[w].losers = {} /\ job'[w].of = job[w].of
           /\ job'[w].at = job[w].at /\ job'[w].passed = job[w].passed /\ job'[w].owes = job[w].owes /\ job'[w].settle = job[w].settle
           /\ job'[w].way \in Way /\ job'[w].way.parks = job[w].way.parks /\ job'[w].way.joins = job[w].way.joins
           /\ job'[w].way.drops = job[w].way.drops
<1>0. job \in [Workers -> Job] /\ job[w] \in Job /\ job[w].way \in Way /\ job[w].way.keeps \subseteq Bodies
  BY StateIs, JobFields, WayFields
<1>1. PICK b \in job[w].way.keeps : export' = Kept(b) /\ job' = [job EXCEPT ![w].way.keeps = @ \ {b}]
  BY DEF Keep
<1> DEFINE v == [job[w].way EXCEPT !.keeps = @ \ {b}]
<1>2. v \in Way /\ v.parks = job[w].way.parks /\ v.joins = job[w].way.joins /\ v.keeps = job[w].way.keeps \ {b} /\ v.drops = job[w].way.drops
  BY <1>0 DEF Way
<1>3. job'[w] = [job[w] EXCEPT !.way = v] /\ \A u \in Workers \ {w} : job'[u] = job[u]
  BY <1>0, <1>1
<1> HIDE DEF v
<1>4. job'[w] \in Job /\ job'[w].step = job[w].step /\ job'[w].losers = job[w].losers /\ job'[w].of = job[w].of
           /\ job'[w].at = job[w].at /\ job'[w].passed = job[w].passed /\ job'[w].owes = job[w].owes /\ job'[w].settle = job[w].settle
           /\ job'[w].way = v
  BY <1>0, <1>2, <1>3 DEF Job
<1>5. Only(w)
  BY <1>0, <1>1, <1>3, <1>4 DEF Only
<1> QED BY <1>0, <1>1, <1>2, <1>4, <1>5 DEF Keep, At

\* What Export does.
LEMMA ExportDoes ==
    ASSUME TypeOK, NEW w \in Workers, Export(w)
    PROVE  /\ Only(w) /\ Ran(w) /\ ~Parks(w) /\ UNCHANGED <<status, leaf, join, owed, lease, plan, past, open, left>>
           /\ export' = Kept(Body(w))
           /\ job'[w].step = "decrement" /\ job'[w].todo = job[w].todo /\ job'[w].settled = job[w].settled /\ job'[w].of = job[w].of
           /\ job'[w].at = job[w].at /\ job'[w].way = job[w].way /\ job'[w].losers = job[w].losers /\ job'[w].passed = job[w].passed
           /\ job'[w].owes = job[w].owes /\ job'[w].settle = job[w].settle
<1>1. Goto(w, "decrement")
  BY DEF Export
<1> QED BY <1>1, GotoIs DEF Export

\* What Judge does.
LEMMA JudgeDoes ==
    ASSUME TypeOK, NEW w \in Workers, Judge(w)
    PROVE  /\ Only(w) /\ (At(w, "judge") \/ (Ran(w) /\ Parks(w)))
           /\ UNCHANGED <<status, leaf, join, export, owed, lease, plan, past, open, left>>
           /\ job'[w].step = IF Diverged(w) THEN "fail" ELSE "commit"
           /\ job'[w].settle = IF ~HoldsProgress(w) /\ job[w].owes = {} /\ NothingLeft(job[w].of) THEN "completed" ELSE "parked"
           /\ job'[w].of = job[w].of /\ job'[w].at = job[w].at /\ job'[w].way = job[w].way
           /\ job'[w].losers = job[w].losers /\ job'[w].passed = job[w].passed /\ job'[w].owes = job[w].owes
<1>0. job \in [Workers -> Job] /\ job[w] \in Job
  BY StateIs
<1> DEFINE s == IF Diverged(w) THEN "fail" ELSE "commit"
           e == IF ~HoldsProgress(w) /\ job[w].owes = {} /\ NothingLeft(job[w].of) THEN "completed" ELSE "parked"
<1>1. job' = [job EXCEPT ![w].step = s, ![w].settle = e]
  BY DEF Judge
<1>2. s \in {"fail", "commit"} /\ e \in {"completed", "parked"}
  OBVIOUS
<1> HIDE DEF s, e
<1>3. job'[w] = [job[w] EXCEPT !.step = s, !.settle = e] /\ \A u \in Workers \ {w} : job'[u] = job[u]
  BY <1>0, <1>1
<1>4. job'[w] \in Job /\ job'[w].step = s /\ job'[w].settle = e /\ job'[w].of = job[w].of /\ job'[w].at = job[w].at /\ job'[w].way = job[w].way
           /\ job'[w].losers = job[w].losers /\ job'[w].passed = job[w].passed /\ job'[w].owes = job[w].owes
  BY <1>0, <1>2, <1>3 DEF Job
<1>5. Only(w)
  BY <1>0, <1>1, <1>3, <1>4 DEF Only
<1> QED BY <1>4, <1>5 DEF Judge, s, e

\* w runs a segment.
InSegment(w) == job[w].step \notin {"idle", "next"}

\* What a process in a segment is at.
JobIs(w) ==
    InSegment(w) =>
        /\ job[w].of \in Leaves \cup Races /\ job[w].at \in Points /\ GoesOn(job[w].at, job[w].way)
        /\ job[w].step = "decrement" => job[w].way.parks = {} /\ HomeOf(job[w].at) # Top

\* The types, inductive: every plan goes on from its statement, and every
\* segment too.
TypeInv == TypeOK /\ PlansGo /\ \A w \in Workers : JobIs(w)

\* The arm a segment ended in, and its frame.
LEMMA ArmIs ==
    ASSUME TypeInv, NEW w \in Workers, At(w, "decrement")
    PROVE  /\ Body(w) \in Bodies /\ Body(w) # Top /\ FrameOf(Body(w)) \in Frames /\ Body(w) \in Arms[FrameOf(Body(w))]
           /\ FrameOf(Body(w)) \in Points /\ job[w].at \in Points /\ job[w].of \in Leaves \cup Races /\ job[w].way.parks = {}
           /\ HomeOf(job[w].at) = Body(w)
<1>1. job[w].at \in Points /\ HomeOf(job[w].at) # Top /\ job[w].of \in Leaves \cup Races /\ job[w].way.parks = {}
  BY DEF TypeInv, JobIs, InSegment, At
<1>2. HomeOf(job[w].at) \in Bodies
  BY <1>1, HomeIn
<1> QED BY <1>1, <1>2, FrameOfArm DEF Body

\* What Decrement makes of the frame's row and of the arm's export.
LEMMA DecrementCounts ==
    ASSUME TypeInv, NEW w \in Workers, Decrement(w), NEW b, b = Body(w), NEW f, f = FrameOf(b)
    PROVE  /\ join' \in [Frames -> [pending : Nat \cup {-1}, closedBy : Leaves \cup Races \cup {Nobody}]]
           /\ export' \in [Bodies -> {NoExport, "kept", "decremented"}]
           /\ export'[b] = (IF export[b] = "kept" THEN "decremented" ELSE export[b])
           /\ \A c \in Bodies \ {b} : export'[c] = export[c]
           /\ \A g \in Frames \ {f} : join'[g] = join[g]
           /\ ~Claims(b) => join'[f] = join[f]
           /\ Claims(b) => join'[f] = [pending |-> join[f].pending - 1, closedBy |-> IF join[f].pending = 1 THEN job[w].of ELSE join[f].closedBy]
<1>0. b \in Bodies /\ f \in Frames /\ job[w].of \in Leaves \cup Races
  BY ArmIs DEF Decrement
<1>1. /\ join \in [Frames -> [pending : Nat \cup {-1}, closedBy : Leaves \cup Races \cup {Nobody}]]
      /\ export \in [Bodies -> {NoExport, "kept", "decremented"}]
  BY StateIs DEF TypeInv
<1>2. export' = [export EXCEPT ![b] = IF @ = "kept" THEN "decremented" ELSE @]
  BY DEF Decrement
<1>3. join' = IF Claims(b)
                      THEN [join EXCEPT ![f].pending = @ - 1, ![f].closedBy = IF join[f].pending = 1 THEN job[w].of ELSE @]
                      ELSE join
  BY DEF Decrement
<1>4. /\ export' \in [Bodies -> {NoExport, "kept", "decremented"}]
      /\ export'[b] = (IF export[b] = "kept" THEN "decremented" ELSE export[b])
      /\ \A c \in Bodies \ {b} : export'[c] = export[c]
  BY <1>0, <1>1, <1>2
<1>5. CASE ~Claims(b)
  BY <1>1, <1>3, <1>4, <1>5
<1>6. CASE Claims(b)
  <2>1. join[f].pending > 0 /\ join[f] \in [pending : Nat \cup {-1}, closedBy : Leaves \cup Races \cup {Nobody}]
    BY <1>0, <1>1, <1>6 DEF Claims
  <2> DEFINE j == [pending |-> join[f].pending - 1, closedBy |-> IF join[f].pending = 1 THEN job[w].of ELSE join[f].closedBy]
         e == IF join[f].pending = 1 THEN job[w].of ELSE join[f].closedBy
  <2>2. join' = [join EXCEPT ![f].pending = @ - 1, ![f].closedBy = e]
    BY <1>3, <1>6
  <2> HIDE DEF e
  <2>3. join'[f] = [join[f] EXCEPT !.pending = @ - 1, !.closedBy = e] /\ \A g \in Frames \ {f} : join'[g] = join[g]
    BY <1>0, <1>1, <2>2
  <2>4. join'[f] = [pending |-> join[f].pending - 1, closedBy |-> e]
    BY <2>1, <2>3
  <2>5. e \in Leaves \cup Races \cup {Nobody} /\ join[f].pending - 1 \in Nat
    BY <1>0, <2>1 DEF e
  <2>6. join'[f] \in [pending : Nat \cup {-1}, closedBy : Leaves \cup Races \cup {Nobody}]
    BY <2>4, <2>5
  <2>7. DOMAIN join' = Frames /\ join' = [g \in Frames |-> join'[g]]
    BY <1>1, <2>2
  <2>8. join' \in [Frames -> [pending : Nat \cup {-1}, closedBy : Leaves \cup Races \cup {Nobody}]]
    BY <1>1, <2>3, <2>6, <2>7
  <2>9. join'[f] = j
    BY <2>4 DEF e
  <2> HIDE DEF j
  <2>10. Claims(b) => join'[f] = j
    BY <2>9
  <2> QED BY <1>4, <1>6, <2>3, <2>8, <2>10 DEF j
<1> QED BY <1>5, <1>6

\* A segment that closed the frame of its arm goes on past it.
WentOn(w, f) ==
    \E way \in Way :
        /\ GoesOn(f, way) /\ KeepsRest(way) /\ Planned(f, way) /\ (plan[f] # {} => way \in plan[f])
        /\ job'[w].step = "run" /\ job'[w].of = job[w].of /\ job'[w].at = f /\ job'[w].way = way
        /\ job'[w].passed = job[w].passed \cup {f} /\ job'[w].owes = job[w].owes /\ job'[w].settle = job[w].settle
        /\ job'[w].losers = IF f \in Races THEN Arms[f] ELSE {}

\* One that did not, or leaves it to the run, ends.
Ended(w, f) ==
    /\ job'[w].step = "judge" /\ job'[w].of = job[w].of /\ job'[w].at = job[w].at /\ job'[w].way = job[w].way
    /\ job'[w].passed = job[w].passed /\ job'[w].settle = job[w].settle /\ job'[w].losers = job[w].losers
    /\ job'[w].owes = IF LeavesToRun(w, f) THEN {f} ELSE {}

\* What Decrement does: the segment goes on past the frame it closed, or ends.
LEMMA DecrementDoes ==
    ASSUME TypeInv, NEW w \in Workers, Decrement(w), NEW b, b = Body(w), NEW f, f = FrameOf(b)
    PROVE  /\ Only(w) /\ At(w, "decrement") /\ UNCHANGED <<status, leaf, owed, lease, past, open, left>>
           /\ \/ Closes(b, job[w].of) /\ ~LeavesToRun(w, f) /\ WentOn(w, f)
              \/ ~(Closes(b, job[w].of) /\ ~LeavesToRun(w, f)) /\ Ended(w, f) /\ UNCHANGED plan
<1>0. job \in [Workers -> Job] /\ job[w] \in Job /\ f \in Frames /\ f \in Points /\ Arms[f] \subseteq Bodies /\ At(w, "decrement") /\ TypeOK /\ PlansGo
  BY StateIs, ArmIs, TreeAssumption DEF TypeInv, Decrement
<1>1. CASE Closes(b, job[w].of) /\ ~LeavesToRun(w, f)
  <2>1. GoOnPast(w, f)
    BY <1>1 DEF Decrement
  <2>2. PICK way \in WaysOn(f) :
          /\ Planned(f, way)
          /\ job' = [job EXCEPT ![w].step = "run", ![w].at = f, ![w].way = way, ![w].passed = @ \cup {f},
                              ![w].losers = IF f \in Races THEN Arms[f] ELSE {}]
    BY <2>1 DEF GoOnPast
  <2>3. way \in Way /\ GoesOn(f, way) /\ KeepsRest(way) /\ (plan[f] # {} => way \in plan[f])
    BY <1>0, <2>2, WaysOnGo
  <2> DEFINE s == IF f \in Races THEN Arms[f] ELSE {}
         p == job[w].passed \cup {f}
  <2>4. s \subseteq Bodies /\ p \subseteq Frames
    BY <1>0, JobFields
  <2>5. job'[w] = [job[w] EXCEPT !.step = "run", !.at = f, !.way = way, !.passed = p, !.losers = s] /\ \A u \in Workers \ {w} : job'[u] = job[u]
    BY <1>0, <2>2
  <2> HIDE DEF s, p
  <2>6. job'[w] \in Job /\ job'[w].step = "run" /\ job'[w].of = job[w].of /\ job'[w].at = f /\ job'[w].way = way
        /\ job'[w].passed = p /\ job'[w].owes = job[w].owes /\ job'[w].settle = job[w].settle /\ job'[w].losers = s
    <3>1. job[w] \in Job /\ f \in Points /\ way \in Way /\ p \in SUBSET Frames /\ s \in SUBSET Bodies
      BY <1>0, <2>3, <2>4
    <3> DEFINE k == job'[w]
    <3>2. k = [job[w] EXCEPT !.step = "run", !.at = f, !.way = way, !.passed = p, !.losers = s]
      BY <2>5
    <3> DEFINE j == job[w]
    <3>3. j \in Job /\ k = [j EXCEPT !.step = "run", !.at = f, !.way = way, !.passed = p, !.losers = s]
      BY <3>1, <3>2
    <3> HIDE DEF k, j
    <3>4. k = [step |-> "run", todo |-> j.todo, settled |-> j.settled, of |-> j.of, at |-> f, way |-> way,
           losers |-> s, passed |-> p, owes |-> j.owes, settle |-> j.settle]
      BY <3>3 DEF Job
    <3>5. /\ k \in Job /\ k.step = "run" /\ k.of = j.of /\ k.at = f /\ k.way = way /\ k.passed = p /\ k.owes = j.owes
          /\ k.settle = j.settle /\ k.losers = s
      <4>1. /\ k.step = "run" /\ k.of = j.of /\ k.at = f /\ k.way = way /\ k.passed = p /\ k.owes = j.owes
            /\ k.settle = j.settle /\ k.losers = s /\ k.todo = j.todo /\ k.settled = j.settled
        BY <3>4
      <4>2. k \in Job
        BY <3>1, <3>3, <3>4 DEF Job
      <4> QED BY <4>1, <4>2
    <3> QED BY <3>5 DEF k, j
  <2>7. Only(w)
    BY <1>0, <2>2, <2>5, <2>6 DEF Only
  <2>8. WentOn(w, f)
    BY <2>2, <2>3, <2>6 DEF WentOn, s, p
  <2> QED BY <1>0, <1>1, <2>7, <2>8 DEF Decrement
<1>2. CASE ~(Closes(b, job[w].of) /\ ~LeavesToRun(w, f))
  <2> DEFINE s == IF LeavesToRun(w, f) THEN {f} ELSE {}
  <2>1. job' = [job EXCEPT ![w].step = "judge", ![w].owes = s] /\ UNCHANGED plan
    BY <1>2 DEF Decrement
  <2>2. s \subseteq Races
    BY DEF LeavesToRun
  <2> HIDE DEF s
  <2>3. job'[w] = [job[w] EXCEPT !.step = "judge", !.owes = s] /\ \A u \in Workers \ {w} : job'[u] = job[u]
    BY <1>0, <2>1
  <2>4. job'[w] \in Job /\ job'[w].step = "judge" /\ job'[w].of = job[w].of /\ job'[w].at = job[w].at /\ job'[w].way = job[w].way
    /\ job'[w].passed = job[w].passed /\ job'[w].settle = job[w].settle /\ job'[w].losers = job[w].losers /\ job'[w].owes = s
    <3> DEFINE j == job[w]
               k == job'[w]
    <3>1. j \in Job /\ k = [j EXCEPT !.step = "judge", !.owes = s]
      BY <1>0, <2>3
    <3> HIDE DEF k, j
    <3>2. k = [step |-> "judge", todo |-> j.todo, settled |-> j.settled, of |-> j.of, at |-> j.at, way |-> j.way,
           losers |-> j.losers, passed |-> j.passed, owes |-> s, settle |-> j.settle]
      BY <3>1 DEF Job
    <3>3. k \in Job
      BY <2>2, <3>1, <3>2 DEF Job
    <3>4. /\ k.step = "judge" /\ k.of = j.of /\ k.at = j.at /\ k.way = j.way
          /\ k.passed = j.passed /\ k.settle = j.settle /\ k.losers = j.losers /\ k.owes = s
      BY <3>2
    <3> QED BY <3>3, <3>4 DEF k, j
  <2>5. Only(w)
    BY <1>0, <2>1, <2>3, <2>4 DEF Only
  <2> QED BY <1>0, <1>2, <2>1, <2>4, <2>5 DEF Decrement, Ended, s
<1> QED BY <1>1, <1>2

\* The joins a kept segment counts.
LEMMA JoinedIs ==
    ASSUME TypeOK, NEW w \in Workers, NEW v, v = job[w].way, \A j \in v.joins : Counts(v, j), NEW f \in Frames
    PROVE  /\ (~\E j \in v.joins : j[1] = f) => Joined(w)[f] = join[f]
           /\ (\E j \in v.joins : j[1] = f) =>
                /\ ArmsLeft(v, f) # {}
                /\ Joined(w)[f].closedBy = join[f].closedBy
                /\ Joined(w)[f].pending = IF f \in Races THEN 1 ELSE Cardinality(ArmsLeft(v, f))
           /\ Joined(w)[f] \in [pending : Nat \cup {-1}, closedBy : Leaves \cup Races \cup {Nobody}]
<1>0. join[f] \in [pending : Nat \cup {-1}, closedBy : Leaves \cup Races \cup {Nobody}]
  BY StateIs
<1>1. CASE ~\E j \in v.joins : j[1] = f
  BY <1>0, <1>1 DEF Joined
<1>2. CASE \E j \in v.joins : j[1] = f
  <2> DEFINE j == CHOOSE j \in v.joins : j[1] = f
  <2>1. j \in v.joins /\ j[1] = f
    BY <1>2
  <2> HIDE DEF j
  <2>2. ArmsLeft(v, f) # {} /\ j[2] = IF f \in Races THEN 1 ELSE Cardinality(ArmsLeft(v, f))
    BY <2>1 DEF Counts
  <2>3. Joined(w)[f] = [join[f] EXCEPT !.pending = j[2]]
    BY <1>2 DEF Joined, j
  <2>4. j[2] \in Nat
    <3>1. IsFiniteSet(ArmsLeft(v, f))
      <4>1. ArmsLeft(v, f) \subseteq Bodies
        BY TreeAssumption DEF ArmsLeft
      <4> QED BY <4>1, TreeAssumption, FS_Subset
    <3>2. Cardinality(ArmsLeft(v, f)) \in Nat
      BY <3>1, FS_CardinalityType
    <3> QED BY <2>2, <3>2
  <2> QED BY <1>0, <1>2, <2>2, <2>3, <2>4
<1> QED BY <1>1, <1>2

\* What Commit does.
LEMMA CommitDoes ==
    ASSUME TypeInv, NEW w \in Workers, Commit(w)
    PROVE  /\ Only(w) /\ At(w, "commit") /\ Holds(w) /\ UNCHANGED <<export, lease, left>>
           /\ leaf' \in [Leaves -> {"none", "parked", "resuming"}]
           /\ \A l \in Leaves : leaf'[l] = IF l \in job[w].way.parks THEN "parked"
                                           ELSE IF l = job[w].of /\ leaf[l] = "resuming" THEN "none" ELSE leaf[l]
           /\ plan' \in [Points -> SUBSET Way] /\ \A x \in Points : plan'[x] \in {{}, plan[x]}
           /\ \A x \in Points \ (job[w].passed \cup {job[w].of}) : plan'[x] = plan[x]
           /\ (\A u \in Others(w) : At(u, "idle")) => \A x \in job[w].passed \cup {job[w].of} : x \in Points => plan'[x] = {}
           /\ join' = Joined(w) /\ join' \in [Frames -> [pending : Nat \cup {-1}, closedBy : Leaves \cup Races \cup {Nobody}]]
           /\ owed' = (owed \ {job[w].of}) \cup job[w].owes /\ owed' \subseteq Races
           /\ status' = job[w].settle /\ status' \in {"parked", "completed"}
           /\ past' \in [Frames -> Nat] /\ \A f \in Frames : past'[f] = past[f] + IF f \in job[w].passed THEN 1 ELSE 0
           /\ open' = (open \ job[w].passed) \cup {j[1] : j \in job[w].way.joins} /\ open' \subseteq Frames
           /\ job'[w].step = "next" /\ job'[w].of = Nobody
<1>0. /\ job \in [Workers -> Job] /\ job[w] \in Job /\ leaf \in [Leaves -> {"none", "parked", "resuming"}] /\ plan \in [Points -> SUBSET Way]
      /\ past \in [Frames -> Nat] /\ owed \subseteq Races /\ open \subseteq Frames /\ TypeOK
  BY StateIs DEF TypeInv
<1>1. /\ job[w].todo \subseteq Leaves /\ job[w].settled \subseteq Races /\ job[w].way \in Way /\ job[w].passed \subseteq Frames
      /\ job[w].owes \subseteq Races /\ job[w].settle \in {"parked", "completed"}
  BY <1>0, JobFields
<1>2. At(w, "commit") /\ Holds(w)
  BY DEF Commit, Fenced
<1>3. GoesOn(job[w].at, job[w].way) /\ InSegment(w)
  BY <1>2 DEF TypeInv, JobIs, InSegment, At
<1>4. \A j \in job[w].way.joins : Counts(job[w].way, j)
  BY <1>3 DEF GoesOn, Goes, Again
<1>5. join' = Joined(w) /\ join' \in [Frames -> [pending : Nat \cup {-1}, closedBy : Leaves \cup Races \cup {Nobody}]]
  <2>1. join' = Joined(w)
    BY DEF Commit
  <2>2. \A f \in Frames : Joined(w)[f] \in [pending : Nat \cup {-1}, closedBy : Leaves \cup Races \cup {Nobody}]
    BY <1>0, <1>4, JoinedIs
  <2>3. Joined(w) = [f \in Frames |-> Joined(w)[f]]
    BY DEF Joined
  <2>4. Joined(w) \in [Frames -> [pending : Nat \cup {-1}, closedBy : Leaves \cup Races \cup {Nobody}]]
    BY <2>2, <2>3, Zenon
  <2> QED BY <2>1, <2>4
<1> DEFINE j == [Idle EXCEPT !.step = "next", !.todo = job[w].todo, !.settled = job[w].settled]
<1>6. job' = [job EXCEPT ![w] = j]
  BY DEF Commit
<1>7. j \in Job /\ j.step = "next" /\ j.of = Nobody
  BY <1>1, IdleIs DEF Job
<1> HIDE DEF j
<1>8. Only(w) /\ job'[w].step = "next" /\ job'[w].of = Nobody
  BY <1>0, <1>6, <1>7 DEF Only
<1>9. /\ leaf' \in [Leaves -> {"none", "parked", "resuming"}]
      /\ \A l \in Leaves : leaf'[l] = IF l \in job[w].way.parks THEN "parked"
                                           ELSE IF l = job[w].of /\ leaf[l] = "resuming" THEN "none" ELSE leaf[l]
  <2>1. leaf' = [l \in Leaves |-> IF l \in job[w].way.parks THEN "parked" ELSE IF l = job[w].of /\ leaf[l] = "resuming" THEN "none" ELSE leaf[l]]
    BY DEF Commit
  <2> QED BY <1>0, <2>1
<1>10. plan' = Taken(w)
  BY DEF Commit
<1>11. /\ plan' \in [Points -> SUBSET Way] /\ \A x \in Points : plan'[x] \in {{}, plan[x]}
       /\ \A x \in Points \ (job[w].passed \cup {job[w].of}) : plan'[x] = plan[x]
  BY <1>0, <1>10 DEF Taken
<1>12. (\A u \in Others(w) : At(u, "idle")) => \A x \in job[w].passed \cup {job[w].of} : x \in Points => plan'[x] = {}
  BY <1>10 DEF Taken
<1>13. past' = [f \in Frames |-> past[f] + IF f \in job[w].passed THEN 1 ELSE 0]
  BY DEF Commit
<1>14. past' \in [Frames -> Nat] /\ \A f \in Frames : past'[f] = past[f] + IF f \in job[w].passed THEN 1 ELSE 0
  BY <1>0, <1>13
<1>15. open' = (open \ job[w].passed) \cup {k[1] : k \in job[w].way.joins}
  BY DEF Commit
<1>16. open' \subseteq Frames
  <2>1. \A k \in job[w].way.joins : k[1] \in Frames
    BY <1>1, WayFields
  <2> QED BY <1>0, <1>15, <2>1
<1>17. owed' = (owed \ {job[w].of}) \cup job[w].owes /\ owed' \subseteq Races
  BY <1>0, <1>1 DEF Commit, Owed
<1>18. status' = job[w].settle /\ status' \in {"parked", "completed"} /\ UNCHANGED <<export, lease, left>>
  BY <1>1 DEF Commit
<1> QED BY <1>2, <1>5, <1>8, <1>9, <1>11, <1>12, <1>14, <1>15, <1>16, <1>17, <1>18

\* What the run keeps is dropped.
Gone ==
    /\ \A l \in Leaves : leaf'[l] = "none"
    /\ \A f \in Frames : join'[f] = NoJoin
    /\ \A b \in Bodies : export'[b] = NoExport
    /\ owed' = {}

\* What dropping the run's state leaves.
LEMMA DroppedIs ==
    ASSUME Dropped
    PROVE  /\ leaf' \in [Leaves -> {"none", "parked", "resuming"}] /\ export' \in [Bodies -> {NoExport, "kept", "decremented"}]
           /\ join' \in [Frames -> [pending : Nat \cup {-1}, closedBy : Leaves \cup Races \cup {Nobody}]] /\ owed' \subseteq Races
           /\ Gone
<1>1. NoJoin \in [pending : Nat \cup {-1}, closedBy : Leaves \cup Races \cup {Nobody}]
  BY DEF NoJoin
<1> QED BY <1>1 DEF Dropped, Gone

\* What FailRun does.
LEMMA FailDoes ==
    ASSUME TypeOK, NEW w \in Workers, FailRun(w)
    PROVE  /\ Only(w) /\ job'[w] = Idle /\ UNCHANGED <<plan, past, open, left>>
           /\ At(w, "run") \/ At(w, "fail")
           /\ status' = IF status = "parked" THEN "failed" ELSE status
           /\ lease' = IF Holds(w) THEN Nobody ELSE lease
           /\ leaf' \in [Leaves -> {"none", "parked", "resuming"}] /\ export' \in [Bodies -> {NoExport, "kept", "decremented"}]
           /\ join' \in [Frames -> [pending : Nat \cup {-1}, closedBy : Leaves \cup Races \cup {Nobody}]] /\ owed' \subseteq Races
           /\ (Holds(w) /\ Gone) \/ (~Holds(w) /\ UNCHANGED <<leaf, join, export, owed>>)
<1>0. /\ UNCHANGED <<plan, past, open, left>> /\ (At(w, "run") \/ At(w, "fail"))
      /\ status' = (IF status = "parked" THEN "failed" ELSE status) /\ lease' = (IF Holds(w) THEN Nobody ELSE lease)
  BY DEF FailRun
<1>1. GoIdle(w)
  BY DEF FailRun
<1>2. Only(w) /\ job'[w] = Idle
  BY <1>1, GoIdleIs
<1>3. CASE Holds(w)
  <2>1. Dropped
    BY <1>3 DEF FailRun
  <2>2. /\ leaf' \in [Leaves -> {"none", "parked", "resuming"}] /\ export' \in [Bodies -> {NoExport, "kept", "decremented"}]
        /\ join' \in [Frames -> [pending : Nat \cup {-1}, closedBy : Leaves \cup Races \cup {Nobody}]] /\ owed' \subseteq Races
        /\ Gone
    BY <2>1, DroppedIs
  <2> QED BY <1>0, <1>2, <1>3, <2>2, Zenon
<1>4. CASE ~Holds(w)
  <2>1. UNCHANGED <<leaf, join, export, owed>>
    BY <1>4 DEF FailRun
  <2> QED BY <1>0, <1>2, <1>4, <2>1, StateIs
<1> QED BY <1>3, <1>4

\* What EndDrain does.
LEMMA EndDrainDoes ==
    ASSUME TypeOK, NEW w \in Workers, EndDrain(w)
    PROVE  /\ Only(w) /\ job'[w] = Idle /\ UNCHANGED <<status, plan, past, open, left>>
           /\ At(w, "next") /\ Holds(w) /\ lease' = Nobody
           /\ leaf' \in [Leaves -> {"none", "parked", "resuming"}] /\ export' \in [Bodies -> {NoExport, "kept", "decremented"}]
           /\ join' \in [Frames -> [pending : Nat \cup {-1}, closedBy : Leaves \cup Races \cup {Nobody}]] /\ owed' \subseteq Races
           /\ (Pending = {} /\ Parked = {} /\ owed = {} /\ Gone) \/ UNCHANGED <<leaf, join, export, owed>>
<1>1. GoIdle(w)
  BY DEF EndDrain
<1>2. Only(w) /\ job'[w] = Idle
  BY <1>1, GoIdleIs
<1>3. CASE Pending = {} /\ Parked = {} /\ owed = {}
  <2>1. Dropped
    BY <1>3 DEF EndDrain
  <2> QED BY <1>2, <1>3, <2>1, DroppedIs DEF EndDrain
<1>4. CASE ~(Pending = {} /\ Parked = {} /\ owed = {})
  <2>1. UNCHANGED <<leaf, join, export, owed>>
    BY <1>4 DEF EndDrain
  <2> QED BY <1>2, <2>1, StateIs DEF EndDrain
<1> QED BY <1>3, <1>4

\* What CommitRefused and LoseRun do.
LEMMA LeaveDoes ==
    ASSUME TypeOK, NEW w \in Workers, CommitRefused(w) \/ LoseRun(w)
    PROVE  /\ Only(w) /\ job'[w] = Idle /\ ~Holds(w)
           /\ UNCHANGED <<status, leaf, join, export, owed, lease, plan, past, open, left>>
<1>1. GoIdle(w) /\ ~Holds(w) /\ UNCHANGED <<status, leaf, join, export, owed, lease, plan, past, open, left>>
  BY DEF CommitRefused, LoseRun, Fenced
<1> QED BY <1>1, GoIdleIs

\* What Crash does.
LEMMA CrashDoes ==
    ASSUME TypeOK, NEW w \in Workers, Crash(w)
    PROVE  /\ Only(w) /\ job'[w] = Idle /\ UNCHANGED <<status, leaf, join, export, owed, past, open>>
           /\ ~At(w, "idle") /\ lease' = (IF Holds(w) THEN Nobody ELSE lease) /\ left' \in [{"reparks", "faults"} -> Nat]
           /\ plan' \in [Points -> SUBSET Way] /\ \A x \in Points : plan'[x] \in {{}, plan[x]}
           /\ ~Reconsiders(w) => plan' = plan
           /\ \A x \in Points \ (job[w].passed \cup {job[w].of}) : plan'[x] = plan[x]
<1>1. GoIdle(w)
  BY DEF Crash
<1>2. Only(w) /\ job'[w] = Idle
  BY <1>1, GoIdleIs
<1>3. left' \in [{"reparks", "faults"} -> Nat]
  BY StateIs DEF Crash, Spend
<1>4. /\ plan' \in [Points -> SUBSET Way] /\ \A x \in Points : plan'[x] \in {{}, plan[x]} /\ ~Reconsiders(w) => plan' = plan
      /\ \A x \in Points \ (job[w].passed \cup {job[w].of}) : plan'[x] = plan[x]
  <2>1. plan' = IF Reconsiders(w)
               THEN [x \in Points |-> IF x \in job[w].passed \cup {job[w].of} THEN {} ELSE plan[x]]
               ELSE plan
    BY DEF Crash
  <2> QED BY <2>1, StateIs
<1> QED BY <1>2, <1>3, <1>4 DEF Crash

\* What Stall does.
LEMMA StallDoes ==
    ASSUME TypeOK, NEW w \in Workers, Stall(w)
    PROVE  /\ "stall" \in Faults /\ Holds(w) /\ ~At(w, "idle") /\ lease' = Nobody /\ left' \in [{"reparks", "faults"} -> Nat]
           /\ UNCHANGED <<status, leaf, join, export, owed, job, plan, past, open>>
<1>1. left' \in [{"reparks", "faults"} -> Nat]
  BY StateIs DEF Stall, Spend
<1> QED BY <1>1 DEF Stall

\* A way planned is one of going on, also once some are to be asked again.
LEMMA PlansLess ==
    ASSUME TypeOK, PlansGo, plan' \in [Points -> SUBSET Way], \A x \in Points : plan'[x] \in {{}, plan[x]}
    PROVE  PlansGo' /\ \A x \in Points : Cardinality(plan'[x]) <= 1
<1>1. PlansGo'
  BY DEF PlansGo
<1>2. Cardinality({}) = 0
  BY FS_EmptySet
<1>3. ASSUME NEW x \in Points PROVE Cardinality(plan'[x]) <= 1
  <2>1. plan'[x] = {} \/ plan'[x] = plan[x]
    OBVIOUS
  <2>2. Cardinality(plan[x]) <= 1
    BY DEF TypeOK
  <2> QED BY <1>2, <2>1, <2>2
<1> QED BY <1>1, <1>3

\* A step of w, or of nobody.
LEMMA StepsAre ==
    ASSUME [Next]_vars
    PROVE  \/ \E w \in Workers :
                \/ \E todo \in SUBSET Leaves : Drain(w, todo)
                \/ ClaimLeaf(w) \/ SettleRace(w) \/ WithdrawLeaves(w) \/ WithdrawFrames(w) \/ Keep(w) \/ Export(w) \/ Decrement(w)
                \/ Judge(w) \/ Commit(w) \/ (CommitRefused(w) \/ LoseRun(w)) \/ FailRun(w) \/ EndDrain(w) \/ Crash(w) \/ Stall(w)
           \/ UNCHANGED vars
<1>1. \A todo \in {{l} : l \in Drainable} \cup {{}, Drainable} : todo \in SUBSET Leaves
  BY DEF Drainable
<1> QED BY <1>1 DEF Next, Works

-----------------------------------------------------------------------------
(* Types. *)

\* What the first segment left parked.
LEMMA InitIs ==
    ASSUME Init
    PROVE  \E way \in Ways[Top][0] :
             /\ WayOf(Top, 0, way) /\ way.parks # {} /\ open = {j[1] : j \in way.joins}
             /\ leaf \in [Leaves -> {"none", "parked", "resuming"}] /\ \A l \in Leaves : leaf[l] = IF l \in way.parks THEN "parked" ELSE "none"
             /\ join \in [Frames -> [pending : Nat \cup {-1}, closedBy : Leaves \cup Races \cup {Nobody}]]
             /\ \A f \in Frames :
                  /\ (~\E j \in way.joins : j[1] = f) => join[f] = NoJoin
                  /\ (\E j \in way.joins : j[1] = f) =>
                       /\ ArmsLeft(way, f) # {} /\ join[f].closedBy = Nobody
                       /\ join[f].pending = IF f \in Races THEN 1 ELSE Cardinality(ArmsLeft(way, f))
             /\ export = [b \in Bodies |-> IF b \in way.keeps THEN "kept" ELSE NoExport]
<1>1. PICK way \in Ways[Top][0] :
         /\ way.parks # {}
         /\ leaf = [l \in Leaves |-> IF l \in way.parks THEN "parked" ELSE "none"]
         /\ join = [f \in Frames |->
                IF \E j \in way.joins : j[1] = f
                THEN [NoJoin EXCEPT !.pending = (CHOOSE j \in way.joins : j[1] = f)[2]] ELSE NoJoin]
         /\ export = [b \in Bodies |-> IF b \in way.keeps THEN "kept" ELSE NoExport]
         /\ open = {j[1] : j \in way.joins}
  BY DEF Init
<1>2. WayOf(Top, 0, way)
  BY WaysGo, PositionsAre, LenNat, TreeAssumption
<1>3. ASSUME NEW f \in Frames
      PROVE  /\ (~\E j \in way.joins : j[1] = f) => join[f] = NoJoin
             /\ (\E j \in way.joins : j[1] = f) =>
                  /\ ArmsLeft(way, f) # {} /\ join[f].closedBy = Nobody
                  /\ join[f].pending = IF f \in Races THEN 1 ELSE Cardinality(ArmsLeft(way, f))
             /\ join[f] \in [pending : Nat \cup {-1}, closedBy : Leaves \cup Races \cup {Nobody}]
  <2>1. CASE ~\E j \in way.joins : j[1] = f
    BY <1>1, <2>1 DEF NoJoin
  <2>2. CASE \E j \in way.joins : j[1] = f
    <3> DEFINE j == CHOOSE j \in way.joins : j[1] = f
    <3>1. j \in way.joins /\ j[1] = f
      BY <2>2
    <3> HIDE DEF j
    <3>2. ArmsLeft(way, f) # {} /\ j[2] = IF f \in Races THEN 1 ELSE Cardinality(ArmsLeft(way, f))
      BY <1>2, <3>1 DEF Counts, WayOf, Goes
    <3>3. join[f] = [NoJoin EXCEPT !.pending = j[2]]
      BY <1>1, <2>2 DEF j
    <3>4. j[2] \in Nat
      BY <1>2, <3>1, WayFields DEF WayOf
    <3> QED BY <2>2, <3>2, <3>3, <3>4 DEF NoJoin
  <2> QED BY <2>1, <2>2
<1>4. DOMAIN join = Frames /\ join = [f \in Frames |-> join[f]]
  BY <1>1
<1>5. join \in [Frames -> [pending : Nat \cup {-1}, closedBy : Leaves \cup Races \cup {Nobody}]]
  BY <1>3, <1>4, Zenon
<1>6. leaf \in [Leaves -> {"none", "parked", "resuming"}] /\ \A l \in Leaves : leaf[l] = IF l \in way.parks THEN "parked" ELSE "none"
  BY <1>1
<1>7. /\ \A f \in Frames :
           /\ (~\E j \in way.joins : j[1] = f) => join[f] = NoJoin
           /\ (\E j \in way.joins : j[1] = f) =>
                /\ ArmsLeft(way, f) # {} /\ join[f].closedBy = Nobody
                /\ join[f].pending = IF f \in Races THEN 1 ELSE Cardinality(ArmsLeft(way, f))
      /\ way.parks # {} /\ export = [b \in Bodies |-> IF b \in way.keeps THEN "kept" ELSE NoExport]
      /\ open = {j[1] : j \in way.joins}
  BY <1>1, <1>3
<1> QED BY <1>2, <1>5, <1>6, <1>7, Zenon

\* The types hold at first.
LEMMA InitTypes == ASSUME Init PROVE TypeInv
<1>1. PICK way \in Ways[Top][0] : WayOf(Top, 0, way) /\ open = {j[1] : j \in way.joins}
             /\ leaf \in [Leaves -> {"none", "parked", "resuming"}]
             /\ join \in [Frames -> [pending : Nat \cup {-1}, closedBy : Leaves \cup Races \cup {Nobody}]]
             /\ export = [b \in Bodies |-> IF b \in way.keeps THEN "kept" ELSE NoExport]
  BY InitIs
<1>2. open \subseteq Frames
  BY <1>1, WayFields DEF WayOf
<1>3. plan = [x \in Points |-> {}] /\ job = [w \in Workers |-> Idle] /\ past = [f \in Frames |-> 0] /\ owed = {} /\ lease = Nobody
      /\ status = "parked" /\ left = [reparks |-> MaxReparks, faults |-> MaxFaults]
  BY DEF Init
<1>4. Cardinality({}) = 0
  BY FS_EmptySet
<1>5. /\ plan \in [Points -> SUBSET Way] /\ \A x \in Points : Cardinality(plan[x]) <= 1
      /\ PlansGo
  BY <1>3, <1>4 DEF PlansGo
<1>6. job \in [Workers -> Job] /\ \A w \in Workers : JobIs(w)
  BY <1>3, IdleIs DEF JobIs, InSegment
<1>7. left \in [{"reparks", "faults"} -> Nat]
  BY <1>3, JoinBoundsAssumption
<1>8. export \in [Bodies -> {NoExport, "kept", "decremented"}]
  BY <1>1
<1> QED BY <1>1, <1>2, <1>3, <1>5, <1>6, <1>7, <1>8 DEF TypeInv, TypeOK

\* What the others are at stays.
LEMMA OthersAre ==
    ASSUME NEW w \in Workers, Only(w), \A u \in Workers : JobIs(u), JobIs(w)'
    PROVE  \A u \in Workers : JobIs(u)'
BY DEF Only, JobIs, InSegment

\* Every step keeps them.
LEMMA TypeStep ==
    ASSUME TypeInv, [Next]_vars
    PROVE  TypeInv'
<1> USE DEF TypeInv
<1>0. TypeOK /\ PlansGo /\ \A u \in Workers : JobIs(u)
  OBVIOUS
<1>1. ASSUME NEW w \in Workers, NEW todo \in SUBSET Leaves, Drain(w, todo) PROVE TypeInv'
  <2>1. /\ Only(w) /\ lease' = w /\ leaf' \in [Leaves -> {"none", "parked", "resuming"}] /\ job'[w].step = "next"
        /\ UNCHANGED <<status, join, export, owed, plan, past, open, left>>
    BY <1>1, DrainDoes, Zenon
  <2>2. JobIs(w)'
    BY <2>1 DEF JobIs, InSegment
  <2> QED BY <2>1, <2>2, OthersAre DEF TypeOK, PlansGo, Only
<1>2. ASSUME NEW w \in Workers, ClaimLeaf(w) PROVE TypeInv'
  <2>1. Only(w) /\ At(w, "next") /\ UNCHANGED <<status, join, export, owed, lease, past, open>>
    BY <1>2, ClaimDoes
  <2>2. CASE \E l \in Leaves : \E way \in Way :
                   /\ leaf' \in [Leaves -> {"none", "parked", "resuming"}]
                   /\ GoesOn(l, way) /\ KeepsRest(way) /\ Planned(l, way)
                   /\ left' \in [{"reparks", "faults"} -> Nat]
                   /\ job'[w].step = "run" /\ job'[w].of = l /\ job'[w].at = l /\ job'[w].way = way
    <3>1. PICK l \in Leaves, way \in Way :
                   /\ leaf' \in [Leaves -> {"none", "parked", "resuming"}]
                   /\ GoesOn(l, way) /\ KeepsRest(way) /\ Planned(l, way)
                   /\ left' \in [{"reparks", "faults"} -> Nat]
                   /\ job'[w].step = "run" /\ job'[w].of = l /\ job'[w].at = l /\ job'[w].way = way
      BY <2>2
    <3>2. l \in Points
      BY PointsAre
    <3>3. plan' \in [Points -> SUBSET Way] /\ (\A y \in Points : Cardinality(plan'[y]) <= 1) /\ PlansGo'
      BY <3>1, <3>2, PlannedIs
    <3>4. JobIs(w)'
      BY <3>1, <3>2 DEF JobIs, InSegment
    <3> QED BY <2>1, <3>1, <3>3, <3>4, OthersAre DEF TypeOK, Only
  <2>3. CASE UNCHANGED <<leaf, plan, left>> /\ job'[w].step = job[w].step
    <3>1. JobIs(w)'
      BY <2>1, <2>3 DEF JobIs, InSegment, At
    <3> QED BY <2>1, <2>3, <3>1, OthersAre DEF TypeOK, Only, PlansGo
  <2> QED BY <1>2, <2>2, <2>3, ClaimDoes
<1>3. ASSUME NEW w \in Workers, SettleRace(w) PROVE TypeInv'
  <2>1. Only(w) /\ At(w, "next") /\ Holds(w) /\ UNCHANGED <<status, leaf, join, export, owed, lease, past, open, left>>
    BY <1>3, SettleDoes
  <2>2. PICK f \in owed, way \in Way :
                   /\ f \in Races /\ GoesOn(f, way) /\ KeepsRest(way) /\ Planned(f, way)
                   /\ job'[w].step = "run" /\ job'[w].of = f /\ job'[w].at = f /\ job'[w].way = way
    BY <1>3, SettleDoes
  <2>3. f \in Points
    BY <2>2, PointsAre
  <2>4. plan' \in [Points -> SUBSET Way] /\ (\A y \in Points : Cardinality(plan'[y]) <= 1) /\ PlansGo'
    BY <2>2, <2>3, PlannedIs
  <2>5. JobIs(w)'
    BY <2>2, <2>3 DEF JobIs, InSegment
  <2> QED BY <2>1, <2>4, <2>5, OthersAre DEF TypeOK, Only
<1>4. ASSUME NEW w \in Workers, WithdrawLeaves(w) PROVE TypeInv'
  <2>1. /\ Only(w) /\ At(w, "run") /\ UNCHANGED <<status, join, export, owed, lease, plan, past, open, left>>
        /\ leaf' \in [Leaves -> {"none", "parked", "resuming"}]
        /\ job'[w].step = "frames" /\ job'[w].of = job[w].of /\ job'[w].at = job[w].at /\ job'[w].way = job[w].way
    BY <1>4, WithdrawLeavesDoes
  <2>2. JobIs(w)'
    BY <2>1 DEF JobIs, InSegment, At
  <2> QED BY <2>1, <2>2, OthersAre DEF TypeOK, PlansGo, Only
<1>5. ASSUME NEW w \in Workers, WithdrawFrames(w) PROVE TypeInv'
  <2>1. /\ Only(w) /\ At(w, "frames") /\ UNCHANGED <<status, leaf, lease, plan, past, left>>
        /\ join' \in [Frames -> [pending : Nat \cup {-1}, closedBy : Leaves \cup Races \cup {Nobody}]]
        /\ export' \in [Bodies -> {NoExport, "kept", "decremented"}]
        /\ owed' = owed \ Dead(w) /\ open' = open \ Dead(w)
        /\ job'[w].step = "run" /\ job'[w].of = job[w].of /\ job'[w].at = job[w].at
        /\ job'[w].way \in Way /\ job'[w].way.parks = job[w].way.parks /\ job'[w].way.joins = job[w].way.joins
        /\ job'[w].way.keeps = job[w].way.keeps /\ job'[w].way.drops = job[w].way.drops \ Losers(w)
    BY <1>5, WithdrawFramesDoes
  <2>2. job[w].way \in Way
    BY StateIs, JobFields
  <2>3. JobIs(w)
    OBVIOUS
  <2>4. GoesOn(job[w].at, job'[w].way)
    <3>1. GoesOn(job[w].at, job[w].way)
      BY <2>1, <2>3 DEF JobIs, InSegment, At
    <3>2. job'[w].way.keeps \subseteq job[w].way.keeps /\ job'[w].way.drops \subseteq job[w].way.drops
      BY <2>1
    <3> QED BY <2>1, <2>2, <3>1, <3>2, GoesOnLess
  <2>5. JobIs(w)'
    BY <2>1, <2>3, <2>4 DEF JobIs, InSegment, At
  <2> QED BY <2>1, <2>5, OthersAre DEF TypeOK, PlansGo, Only
<1>6. ASSUME NEW w \in Workers, Keep(w) PROVE TypeInv'
  <2>1. /\ Only(w) /\ At(w, "run") /\ UNCHANGED <<status, leaf, join, owed, lease, plan, past, open, left>>
        /\ \E b \in job[w].way.keeps :
             b \in Bodies /\ export' = Kept(b) /\ job'[w].way.keeps = job[w].way.keeps \ {b}
        /\ job'[w].step = "run" /\ job'[w].of = job[w].of /\ job'[w].at = job[w].at
        /\ job'[w].way \in Way /\ job'[w].way.parks = job[w].way.parks /\ job'[w].way.joins = job[w].way.joins
        /\ job'[w].way.drops = job[w].way.drops
    BY <1>6, KeepDoes, Zenon
  <2>2. job[w].way \in Way
    BY StateIs, JobFields
  <2>3. export' \in [Bodies -> {NoExport, "kept", "decremented"}]
    BY <2>1, KeptIs
  <2>4. GoesOn(job[w].at, job'[w].way)
    <3>1. GoesOn(job[w].at, job[w].way)
      BY <2>1 DEF JobIs, InSegment, At
    <3>2. job'[w].way.keeps \subseteq job[w].way.keeps /\ job'[w].way.drops \subseteq job[w].way.drops
      BY <2>1
    <3> QED BY <2>1, <2>2, <3>1, <3>2, GoesOnLess
  <2>5. JobIs(w)'
    BY <2>1, <2>4 DEF JobIs, InSegment, At
  <2> QED BY <2>1, <2>3, <2>5, OthersAre DEF TypeOK, PlansGo, Only
<1>7. ASSUME NEW w \in Workers, Export(w) PROVE TypeInv'
  <2>1. /\ Only(w) /\ Ran(w) /\ ~Parks(w) /\ UNCHANGED <<status, leaf, join, owed, lease, plan, past, open, left>>
        /\ export' = Kept(Body(w))
        /\ job'[w].step = "decrement" /\ job'[w].of = job[w].of /\ job'[w].at = job[w].at /\ job'[w].way = job[w].way
    BY <1>7, ExportDoes
  <2>2. InSegment(w) /\ job[w].way.parks = {} /\ HomeOf(job[w].at) # Top
    BY <2>1 DEF Ran, Parks, Body, At, InSegment
  <2>3. Body(w) \in Bodies
    BY <2>2, HomeIn DEF Body, JobIs
  <2>4. export' \in [Bodies -> {NoExport, "kept", "decremented"}]
    BY <2>1, <2>3, KeptIs
  <2>5. JobIs(w)'
    BY <2>1, <2>2 DEF JobIs, InSegment
  <2> QED BY <2>1, <2>4, <2>5, OthersAre DEF TypeOK, PlansGo, Only
<1>8. ASSUME NEW w \in Workers, Decrement(w) PROVE TypeInv'
  <2>1. PICK b, f : b = Body(w) /\ f = FrameOf(Body(w))
    OBVIOUS
  <2>2. /\ join' \in [Frames -> [pending : Nat \cup {-1}, closedBy : Leaves \cup Races \cup {Nobody}]]
        /\ export' \in [Bodies -> {NoExport, "kept", "decremented"}]
    BY <1>8, DecrementCounts
  <2>3. /\ Only(w) /\ At(w, "decrement") /\ UNCHANGED <<status, leaf, owed, lease, past, open, left>>
        /\ WentOn(w, f) \/ (Ended(w, f) /\ UNCHANGED plan)
    BY <1>8, <2>1, DecrementDoes
  <2>4. f \in Points
    BY <2>1, <2>3, ArmIs
  <2>5. CASE WentOn(w, f)
    <3>1. PICK way \in Way :
             /\ GoesOn(f, way) /\ KeepsRest(way) /\ Planned(f, way)
             /\ job'[w].step = "run" /\ job'[w].of = job[w].of /\ job'[w].at = f /\ job'[w].way = way
      BY <2>5 DEF WentOn
    <3>2. plan' \in [Points -> SUBSET Way] /\ (\A y \in Points : Cardinality(plan'[y]) <= 1) /\ PlansGo'
      BY <2>4, <3>1, PlannedIs
    <3>3. JobIs(w)'
      BY <2>3, <2>4, <3>1 DEF JobIs, InSegment, At
    <3> QED BY <2>2, <2>3, <3>2, <3>3, OthersAre DEF TypeOK, Only
  <2>6. CASE Ended(w, f) /\ UNCHANGED plan
    <3>1. JobIs(w)'
      BY <2>3, <2>6 DEF JobIs, InSegment, At, Ended
    <3> QED BY <2>2, <2>3, <2>6, <3>1, OthersAre DEF TypeOK, Only, PlansGo
  <2> QED BY <2>3, <2>5, <2>6
<1>9. ASSUME NEW w \in Workers, Judge(w) PROVE TypeInv'
  <2>1. /\ Only(w) /\ (At(w, "judge") \/ (Ran(w) /\ Parks(w)))
        /\ UNCHANGED <<status, leaf, join, export, owed, lease, plan, past, open, left>>
        /\ job'[w].step = IF Diverged(w) THEN "fail" ELSE "commit"
        /\ job'[w].of = job[w].of /\ job'[w].at = job[w].at /\ job'[w].way = job[w].way
    BY <1>9, JudgeDoes
  <2>2. JobIs(w)'
    BY <2>1 DEF JobIs, InSegment, At, Ran
  <2> QED BY <2>1, <2>2, OthersAre DEF TypeOK, PlansGo, Only
<1>10. ASSUME NEW w \in Workers, Commit(w) PROVE TypeInv'
  <2>1. /\ Only(w) /\ UNCHANGED <<export, lease, left>>
        /\ leaf' \in [Leaves -> {"none", "parked", "resuming"}]
        /\ plan' \in [Points -> SUBSET Way] /\ \A x \in Points : plan'[x] \in {{}, plan[x]}
    BY <1>10, CommitDoes
  <2>2. /\ join' \in [Frames -> [pending : Nat \cup {-1}, closedBy : Leaves \cup Races \cup {Nobody}]]
        /\ owed' \subseteq Races /\ status' \in {"parked", "completed"}
        /\ past' \in [Frames -> Nat] /\ open' \subseteq Frames
        /\ job'[w].step = "next"
    BY <1>10, CommitDoes
  <2>3. PlansGo' /\ \A x \in Points : Cardinality(plan'[x]) <= 1
    BY <2>1, PlansLess
  <2>4. JobIs(w)'
    BY <2>2 DEF JobIs, InSegment
  <2> QED BY <2>1, <2>2, <2>3, <2>4, OthersAre DEF TypeOK, Only
<1>11. ASSUME NEW w \in Workers, CommitRefused(w) \/ LoseRun(w) PROVE TypeInv'
  <2>1. Only(w) /\ job'[w] = Idle /\ UNCHANGED <<status, leaf, join, export, owed, lease, plan, past, open, left>>
    BY <1>11, LeaveDoes
  <2>2. JobIs(w)'
    BY <2>1, IdleIs DEF JobIs, InSegment
  <2> QED BY <2>1, <2>2, OthersAre DEF TypeOK, Only, PlansGo
<1>12. ASSUME NEW w \in Workers, FailRun(w) PROVE TypeInv'
  <2>1. /\ Only(w) /\ job'[w] = Idle /\ UNCHANGED <<plan, past, open, left>>
        /\ status' = IF status = "parked" THEN "failed" ELSE status
        /\ lease' = IF Holds(w) THEN Nobody ELSE lease
        /\ leaf' \in [Leaves -> {"none", "parked", "resuming"}] /\ export' \in [Bodies -> {NoExport, "kept", "decremented"}]
        /\ join' \in [Frames -> [pending : Nat \cup {-1}, closedBy : Leaves \cup Races \cup {Nobody}]] /\ owed' \subseteq Races
    BY <1>12, FailDoes
  <2>2. JobIs(w)'
    BY <2>1, IdleIs DEF JobIs, InSegment
  <2>3. status' \in {"parked", "completed", "failed"} /\ lease' \in Workers \cup {Nobody}
    BY <2>1 DEF TypeOK
  <2> QED BY <2>1, <2>2, <2>3, OthersAre DEF TypeOK, Only, PlansGo
<1>13. ASSUME NEW w \in Workers, EndDrain(w) PROVE TypeInv'
  <2>1. /\ Only(w) /\ job'[w] = Idle /\ UNCHANGED <<status, plan, past, open, left>>
        /\ lease' = Nobody
        /\ leaf' \in [Leaves -> {"none", "parked", "resuming"}] /\ export' \in [Bodies -> {NoExport, "kept", "decremented"}]
        /\ join' \in [Frames -> [pending : Nat \cup {-1}, closedBy : Leaves \cup Races \cup {Nobody}]] /\ owed' \subseteq Races
    BY <1>13, EndDrainDoes
  <2>2. JobIs(w)'
    BY <2>1, IdleIs DEF JobIs, InSegment
  <2> QED BY <2>1, <2>2, OthersAre DEF TypeOK, Only, PlansGo
<1>14. ASSUME NEW w \in Workers, Crash(w) PROVE TypeInv'
  <2>1. /\ Only(w) /\ job'[w] = Idle /\ UNCHANGED <<status, leaf, join, export, owed, past, open>>
        /\ lease' = (IF Holds(w) THEN Nobody ELSE lease) /\ left' \in [{"reparks", "faults"} -> Nat]
        /\ plan' \in [Points -> SUBSET Way] /\ \A x \in Points : plan'[x] \in {{}, plan[x]}
    BY <1>14, CrashDoes
  <2>2. JobIs(w)'
    BY <2>1, IdleIs DEF JobIs, InSegment
  <2>3. PlansGo' /\ \A x \in Points : Cardinality(plan'[x]) <= 1
    BY <2>1, PlansLess
  <2>4. lease' \in Workers \cup {Nobody}
    BY <2>1 DEF TypeOK
  <2> QED BY <2>1, <2>2, <2>3, <2>4, OthersAre DEF TypeOK, Only
<1>15. ASSUME NEW w \in Workers, Stall(w) PROVE TypeInv'
  <2>1. lease' = Nobody /\ left' \in [{"reparks", "faults"} -> Nat]
        /\ UNCHANGED <<status, leaf, join, export, owed, job, plan, past, open>>
    BY <1>15, StallDoes
  <2> QED BY <2>1 DEF TypeOK, PlansGo, JobIs, InSegment
<1>16. CASE UNCHANGED vars
  BY <1>16 DEF vars, TypeOK, PlansGo, JobIs, InSegment
<1> QED BY <1>1, <1>2, <1>3, <1>4, <1>5, <1>6, <1>7, <1>8, <1>9, <1>10, <1>11, <1>12, <1>13, <1>14, <1>15, <1>16, StepsAre, Zenon

\* In every state of the model each row is of its type, and each plan and
\* segment goes on from where it stands (combinator.rs, resume.rs).
THEOREM TypeInvHolds == Spec => []TypeInv
BY InitTypes, TypeStep, PTL DEF Spec

\* The type invariant, whatever the tree and the faults.
THEOREM Types == Spec => []TypeOK
BY TypeInvHolds, PTL DEF TypeInv

-----------------------------------------------------------------------------
(* What goes on past a frame is kept once. *)

\* No race is in an arm of a race.
NoRaceInRace == \A f, g \in Races : ~In(g, Arms[f])

\* The run goes on from x: a leaf that is parked or resuming, or a race it
\* owes.
Live(x) == x \in Drainable \/ x \in owed

\* Anything the run keeps says y was reached.
Touched(y) ==
    \/ Live(y)
    \/ y \in Frames /\ (past[y] > 0 \/ join[y] # NoJoin \/ \E a \in Arms[y] : export[a] = "decremented")
    \/ \E f \in Frames : join[f].closedBy = y
    \/ \E w \in Workers : job[w].of = y

\* x may yet go on past q, which it is in or is.
Ahead(x, q) == Under(x, q) /\ (q \in Frames => past[q] = 0)

\* What comes after a point the run has yet to go on past was not reached.
Fresh == \A x, q, y \in Points : Live(x) /\ Ahead(x, q) /\ After(q, y) => ~Touched(y)

\* What a segment is: it went on outwards from what it resumed, past the frames
\* it passed, its losers those of the race it settles.
JobOf(w) ==
    IF ~InSegment(w) THEN job[w].of = Nobody
    ELSE LET j == job[w] IN
         /\ Under(j.of, j.at)
         /\ j.passed \cap Races = {j.of} \ Leaves
         /\ \A f \in j.passed : Under(j.of, f) /\ Under(f, j.at)
         /\ j.at # j.of => j.at \in j.passed
         /\ j.losers # {} => j.of \in Races /\ j.losers = Arms[j.of] /\ j.at = j.of /\ j.step \in {"run", "frames"}
         /\ j.at \in j.way.parks => j.passed = {}
         /\ \A f \in j.owes : j.of \in Leaves /\ Under(j.of, f)
         /\ j.owes # {} => j.step \in {"judge", "commit", "fail"} /\ j.way.parks = {}

\* What holds of a segment while its process holds the run.
Holding(w) ==
    Holds(w) =>
      /\ \A l \in Leaves : leaf[l] = "resuming" => job[w].of = l
      /\ InSegment(w) =>
           /\ Live(job[w].of) /\ (job[w].of \in Leaves => leaf[job[w].of] = "resuming")
           /\ \A f \in job[w].passed : past[f] = 0
           /\ \A f \in job[w].passed \cap Alls : join[f] = NoJoin \/ (join[f].pending = 0 /\ join[f].closedBy = job[w].of)
           /\ job[w].of \in Races /\ (job[w].losers = {} \/ job[w].step = "frames") =>
                \A l \in Leaves : In(l, Arms[job[w].of]) => leaf[l] = "none"

\* Nothing in a race gone past goes on, nor is it owed.
RacesPast == \A f \in Races : past[f] > 0 => \A x \in Points : Under(x, f) => ~Live(x)

\* An `all` gone past waits for nothing, and what closed it is done.
AllsPast ==
    \A f \in Alls : past[f] > 0 =>
        /\ join[f].pending <= 0 /\ ~Live(join[f].closedBy)
        /\ join[f].closedBy \in Races => past[join[f].closedBy] > 0

\* A frame that was closed waits for nothing, and one that has no row was not.
Closed == \A f \in Frames : (join[f].closedBy # Nobody => join[f].pending = 0) /\ (join[f].pending = -1 => join[f] = NoJoin)

\* The inductive invariant under PassedOnce.
PassInv ==
    TypeInv /\ (\A w \in Workers : JobOf(w) /\ Holding(w)) /\ Fresh /\ RacesPast /\ AllsPast /\ Closed /\ PassedOnce

\* Nobody is no point and no process; a leaf is no race, and an `all` is none.
LEMMA NobodyIs ==
    Nobody \notin Points /\ Nobody \notin Leaves /\ Nobody \notin Races /\ Nobody \notin Workers /\ Nobody \notin Frames /\ Leaves \cap Races = {}
    /\ Leaves \cap Frames = {} /\ Alls \cap Races = {}
BY TreeAssumption DEF Points, Frames

\* What is live is a leaf or a race.
LEMMA LiveIn == ASSUME TypeOK, NEW x, Live(x) PROVE x \in Points /\ x \in Leaves \cup Races
BY PointsAre DEF Live, Drainable, TypeOK

\* The same, after a step.
LEMMA LiveInNext == ASSUME TypeOK', NEW x, Live(x)' PROVE x \in Points /\ x \in Leaves \cup Races
BY PointsAre DEF Live, Drainable, TypeOK

\* What is owed is in no arm of a race.
LEMMA NotInRace ==
    ASSUME NoRaceInRace, NEW g \in Races, NEW B, \A a \in B : a \in Bodies /\ a # Top /\ FrameOf(a) \in Races
    PROVE  ~In(g, B)
<1> SUFFICES ASSUME In(g, B) PROVE FALSE
  OBVIOUS
<1>1. PICK a \in B : In(g, {a})
  BY InOne
<1>2. a \in Arms[FrameOf(a)] /\ FrameOf(a) \in Races
  BY FrameOfArm
<1>3. In(g, Arms[FrameOf(a)])
  BY <1>1, <1>2, InOne
<1> QED BY <1>2, <1>3 DEF NoRaceInRace

\* What a segment withdraws is arms of races: those of the race it settles,
\* while it has any.
LEMMA LosersAre ==
    ASSUME TypeInv, NEW w \in Workers, JobOf(w), InSegment(w)
    PROVE  /\ \A a \in Losers(w) : a \in Bodies /\ a # Top /\ FrameOf(a) \in Races
           /\ job[w].losers # {} => Losers(w) = Arms[job[w].of]
<1>1. GoesOn(job[w].at, job[w].way) /\ job[w].way \in Way
  BY StateIs, JobFields DEF TypeInv, JobIs
<1>2. \A a \in job[w].way.drops : a \in Bodies /\ a # Top /\ FrameOf(a) \in Races
  BY <1>1, WayFields DEF GoesOn, Goes, Again
<1>3. job[w].losers # {} => job[w].of \in Races /\ job[w].losers = Arms[job[w].of]
  BY DEF JobOf
<1>4. job[w].losers # {} => \A a \in job[w].losers : a \in Bodies /\ a # Top /\ FrameOf(a) \in Races
  BY <1>3, ArmsIn, PointsAre
<1> QED BY <1>2, <1>3, <1>4 DEF Losers

\* Where no race is in an arm of a race, no race owed is withdrawn.
LEMMA DeadOwed ==
    ASSUME NoRaceInRace, TypeInv, NEW w \in Workers, JobOf(w), InSegment(w)
    PROVE  owed \ Dead(w) = owed
<1>1. \A g \in owed : g \in Races
  BY DEF TypeInv, TypeOK
<1>2. \A g \in owed : ~In(g, Losers(w))
  BY <1>1, LosersAre, NotInRace
<1> QED BY <1>2 DEF Dead

\* One arm counted at f.
Counted(w, f) ==
    /\ join[f].pending > 0 /\ join'[f].pending = join[f].pending - 1
    /\ join'[f].closedBy = IF join'[f].pending = 0 THEN job[w].of ELSE join[f].closedBy

\* A step that keeps no segment: nothing is reached but by the segment it is of.
Lessens(w) ==
    /\ past' = past
    /\ \A x \in Points : Live(x)' => Live(x)
    /\ \A u \in Workers : job'[u].of = job[u].of \/ job'[u].of = Nobody \/ Live(job'[u].of)
    /\ \A f \in Frames : join'[f] = join[f] \/ join'[f] = NoJoin \/ Counted(w, f)
    /\ \A f \in Frames : \A a \in Arms[f] :
         export'[a] = "decremented" => export[a] = "decremented" \/ (job[w].of \in Points /\ Under(job[w].of, f))

\* What is touched after such a step was, or is around what the process
\* resumed.
LEMMA LessTouched ==
    ASSUME TypeOK, NEW w \in Workers, Lessens(w), NEW y \in Points, Touched(y)'
    PROVE  Touched(y) \/ (job[w].of \in Points /\ Touched(job[w].of) /\ Under(job[w].of, y))
<1>1. CASE Live(y)'
  BY <1>1 DEF Lessens, Touched
<1>2. CASE y \in Frames /\ past'[y] > 0
  BY <1>2 DEF Lessens, Touched
<1>3. CASE y \in Frames /\ join'[y] # NoJoin
  <2>1. NoJoin.pending = -1
    BY DEF NoJoin
  <2>2. join[y] # NoJoin
    BY <1>3, <2>1 DEF Lessens, Counted
  <2> QED BY <1>3, <2>2 DEF Touched
<1>4. CASE y \in Frames /\ \E a \in Arms[y] : export'[a] = "decremented"
  <2>1. (\E a \in Arms[y] : export[a] = "decremented") \/ (job[w].of \in Points /\ Under(job[w].of, y))
    BY <1>4 DEF Lessens
  <2> QED BY <1>4, <2>1 DEF Touched
<1>5. CASE \E f \in Frames : join'[f].closedBy = y
  <2>1. PICK f \in Frames : join'[f].closedBy = y
    BY <1>5
  <2>2. NoJoin.closedBy = Nobody
    BY DEF NoJoin
  <2>3. y # Nobody
    BY NobodyIs
  <2>4. join[f].closedBy = y \/ job[w].of = y
    BY <2>1, <2>2, <2>3 DEF Lessens, Counted
  <2> QED BY <2>1, <2>4 DEF Touched
<1>6. CASE \E u \in Workers : job'[u].of = y
  BY <1>6, NobodyIs DEF Lessens, Touched
<1> QED BY <1>1, <1>2, <1>3, <1>4, <1>5, <1>6 DEF Touched

\* Such a step keeps the parts of the invariant about the run's rows.
LEMMA LessPasses ==
    ASSUME TypeOK, TypeOK', NEW w \in Workers, Lessens(w), Fresh, RacesPast, AllsPast, Closed, PassedOnce
    PROVE  Fresh' /\ RacesPast' /\ AllsPast' /\ Closed' /\ PassedOnce'
<1>1. Fresh'
  <2> SUFFICES ASSUME NEW x \in Points, NEW q \in Points, NEW y \in Points, Live(x)', Ahead(x, q)', After(q, y), Touched(y)'
               PROVE  FALSE
    BY DEF Fresh
  <2>1. Live(x) /\ Ahead(x, q)
    BY DEF Lessens, Ahead
  <2>2. CASE Touched(y)
    BY <2>1, <2>2 DEF Fresh
  <2>3. CASE job[w].of \in Points /\ Touched(job[w].of) /\ Under(job[w].of, y)
    <3>1. After(q, job[w].of)
      BY <2>3, AfterUnder
    <3> QED BY <2>1, <2>3, <3>1 DEF Fresh
  <2> QED BY <2>2, <2>3, LessTouched
<1>2. RacesPast'
  BY DEF Lessens, RacesPast
<1>3. ASSUME NEW f \in Alls, past'[f] > 0
      PROVE  /\ join'[f].pending <= 0 /\ ~Live(join[f].closedBy)'
             /\ join'[f].closedBy \in Races => past'[join'[f].closedBy] > 0
  <2>0. past' = past
    BY DEF Lessens
  <2>1. f \in Frames
    BY PointsAre
  <2>2. join[f].pending <= 0 /\ ~Live(join[f].closedBy) /\ (join[f].closedBy \in Races => past[join[f].closedBy] > 0)
    BY <1>3, <2>0 DEF AllsPast
  <2>3. ~Counted(w, f)
    BY <2>2, <2>1, StateIs DEF Counted
  <2>4. \A x : Live(x)' => x \in Points /\ Live(x)
    BY LiveInNext DEF Lessens
  <2>5. CASE join'[f] = join[f]
    BY <2>0, <2>2, <2>4, <2>5
  <2>6. CASE join'[f] = NoJoin
    <3>1. NoJoin.closedBy = Nobody /\ NoJoin.pending = -1
      BY DEF NoJoin
    <3>2. join'[f].closedBy = Nobody /\ join'[f].pending = -1
      BY <2>6, <3>1
    <3>3. ~Live(Nobody)'
      BY <2>4, NobodyIs
    <3> QED BY <3>2, <3>3, NobodyIs
  <2> QED BY <2>1, <2>3, <2>5, <2>6 DEF Lessens
<1>4. AllsPast'
  BY <1>3 DEF AllsPast
<1>5. ASSUME NEW f \in Frames
      PROVE  (join'[f].closedBy # Nobody => join'[f].pending = 0) /\ (join'[f].pending = -1 => join'[f] = NoJoin)
  <2>1. (join[f].closedBy # Nobody => join[f].pending = 0) /\ (join[f].pending = -1 => join[f] = NoJoin)
    BY DEF Closed
  <2>2. CASE join'[f] = join[f]
    BY <2>1, <2>2
  <2>3. CASE join'[f] = NoJoin
    BY <2>3 DEF NoJoin
  <2>4. CASE Counted(w, f)
    <3>1. join[f].pending \in Nat \cup {-1} /\ join[f].pending > 0
      BY <2>4, StateIs DEF Counted
    <3> QED BY <2>1, <2>4, <3>1 DEF Counted
  <2> QED BY <2>2, <2>3, <2>4 DEF Lessens
<1>6. Closed'
  BY <1>5 DEF Closed
<1>7. PassedOnce'
  BY DEF PassedOnce, Lessens
<1> QED BY <1>1, <1>2, <1>4, <1>6, <1>7

\* What another may do to a process that holds the run.
Spares(w) ==
    /\ \A l \in Leaves : leaf'[l] = leaf[l] \/ (leaf[l] = "parked" /\ leaf'[l] = "none")
    /\ owed' = owed /\ past' = past
    /\ \A f \in Frames : join'[f] = join[f] \/ join'[f] = NoJoin \/ Counted(w, f)

\* What another process does leaves what a holder holds.
LEMMA HoldingOther ==
    ASSUME TypeOK, NEW w \in Workers, NEW u \in Workers \ {w}, Only(w), Holding(u),
           lease' = lease \/ lease' = Nobody \/ lease' = w, Holds(w) \/ lease = Nobody \/ Spares(w)
    PROVE  Holding(u)'
<1> SUFFICES ASSUME lease' = u PROVE Holding(u)'
  BY DEF Holding, Holds
<1>1. lease = u /\ Holds(u) /\ job'[u] = job[u]
  BY NobodyIs DEF Only, Holds
<1>2. Spares(w)
  BY <1>1, NobodyIs DEF Holds
<1>3. \A l \in Leaves : leaf'[l] = "resuming" <=> leaf[l] = "resuming"
  BY <1>2 DEF Spares
<1>4. \A l \in Leaves : leaf[l] = "none" => leaf'[l] = "none"
  BY <1>2 DEF Spares
<1>5. \A l \in Leaves : leaf'[l] = "resuming" => job'[u].of = l
  BY <1>1, <1>3 DEF Holding
<1>6. ASSUME InSegment(u)'
      PROVE  /\ Live(job[u].of)' /\ (job[u].of \in Leaves => leaf'[job[u].of] = "resuming")
             /\ \A f \in job[u].passed : past'[f] = 0
             /\ \A f \in job[u].passed \cap Alls : join'[f] = NoJoin \/ (join'[f].pending = 0 /\ join'[f].closedBy = job[u].of)
             /\ job[u].of \in Races /\ (job[u].losers = {} \/ job[u].step = "frames") =>
                \A l \in Leaves : In(l, Arms[job[u].of]) => leaf'[l] = "none"
  <2>1. InSegment(u)
    BY <1>1, <1>6 DEF InSegment
  <2>2. Live(job[u].of) /\ (job[u].of \in Leaves => leaf[job[u].of] = "resuming")
    BY <1>1, <2>1 DEF Holding
  <2>3. \A f \in job[u].passed : past[f] = 0
    BY <1>1, <2>1 DEF Holding
  <2>4. \A f \in job[u].passed \cap Alls : join[f] = NoJoin \/ (join[f].pending = 0 /\ join[f].closedBy = job[u].of)
    BY <1>1, <2>1 DEF Holding
  <2>5. job[u].of \in Races /\ (job[u].losers = {} \/ job[u].step = "frames") =>
                \A l \in Leaves : In(l, Arms[job[u].of]) => leaf[l] = "none"
    BY <1>1, <2>1 DEF Holding
  <2>6. \A f \in job[u].passed : past'[f] = 0
    BY <1>2, <2>3 DEF Spares
  <2>7. ASSUME NEW f \in job[u].passed \cap Alls PROVE join'[f] = NoJoin \/ (join'[f].pending = 0 /\ join'[f].closedBy = job[u].of)
    <3>1. f \in Frames
      BY PointsAre
    <3>2. ~Counted(w, f)
      BY <2>4, <2>7 DEF Counted, NoJoin
    <3> QED BY <1>2, <2>4, <2>7, <3>1, <3>2 DEF Spares
  <2>8. Live(job[u].of)' /\ (job[u].of \in Leaves => leaf'[job[u].of] = "resuming")
    BY <1>2, <1>3, <1>1, <2>2 DEF Live, Drainable, Spares
  <2> QED BY <1>4, <2>5, <2>6, <2>7, <2>8
<1>7. lease' = u => (\A l \in Leaves : leaf'[l] = "resuming" => job'[u].of = l)
  BY <1>5
<1> QED BY <1>1, <1>5, <1>6 DEF Holding

\* Where no leaf and no race comes to life, nothing does.
LEMMA LeavesLess ==
    ASSUME TypeOK, leaf' \in [Leaves -> {"none", "parked", "resuming"}],
           \A l \in Leaves : leaf[l] = "none" => leaf'[l] = "none", owed' \subseteq owed
    PROVE  \A x \in Points : Live(x)' => Live(x)
BY DEF Live, Drainable

\* Where one process's attempt is its own, none's, or of what is live, so is
\* everyone's.
LEMMA OfLess ==
    ASSUME NEW w \in Workers, Only(w), job'[w].of = job[w].of \/ job'[w].of = Nobody \/ Live(job'[w].of)
    PROVE  \A u \in Workers : job'[u].of = job[u].of \/ job'[u].of = Nobody \/ Live(job'[u].of)
BY DEF Only

\* Drain keeps the job well made, and lessens what is live.
LEMMA DrainPass ==
    ASSUME PassInv, NEW w \in Workers, NEW todo \in SUBSET Leaves, Drain(w, todo)
    PROVE  JobOf(w)' /\ Holding(w)' /\ Lessens(w)
<1>1. /\ Only(w) /\ At(w, "idle") /\ lease = Nobody /\ status = "parked" /\ lease' = w
      /\ leaf' \in [Leaves -> {"none", "parked", "resuming"}]
      /\ \A l \in Leaves : leaf'[l] = IF leaf[l] = "resuming" THEN "parked" ELSE leaf[l]
      /\ job'[w].step = "next" /\ job'[w].of = Nobody
      /\ UNCHANGED <<status, join, export, owed, plan, past, open, left>>
  BY DrainDoes, Zenon DEF PassInv, TypeInv
<1>2. JobOf(w)'
  BY <1>1 DEF JobOf, InSegment
<1>3. Holding(w)'
  BY <1>1 DEF Holding, InSegment
<1>4. TypeOK
  BY DEF PassInv, TypeInv
<1>5. \A x \in Points : Live(x)' => Live(x)
  BY <1>1, <1>4, LeavesLess
<1>6. \A u \in Workers : job'[u].of = job[u].of \/ job'[u].of = Nobody \/ Live(job'[u].of)
  BY <1>1, OfLess
<1> QED BY <1>1, <1>2, <1>3, <1>5, <1>6 DEF Lessens

\* So does ClaimLeaf.
LEMMA ClaimPass ==
    ASSUME PassInv, NEW w \in Workers, ClaimLeaf(w)
    PROVE  JobOf(w)' /\ Holding(w)' /\ Lessens(w)
<1>0. TypeOK /\ PlansGo /\ JobOf(w) /\ Holding(w)
  BY DEF PassInv, TypeInv
<1>1. Only(w) /\ At(w, "next") /\ Holds(w) /\ UNCHANGED <<status, join, export, owed, lease, past, open>>
  BY <1>0, ClaimDoes
<1>2. job[w].of = Nobody /\ ~InSegment(w)
  BY <1>0, <1>1 DEF JobOf, InSegment, At
<1>3. CASE \E l \in Leaves :
                   /\ leaf[l] = "parked" /\ leaf' \in [Leaves -> {"none", "parked", "resuming"}]
                   /\ leaf'[l] = "resuming" /\ \A m \in Leaves \ {l} : leaf'[m] = leaf[m]
                   /\ job'[w].step = "run" /\ job'[w].of = l /\ job'[w].at = l
                   /\ job'[w].losers = {} /\ job'[w].passed = {} /\ job'[w].owes = {}
  <2>1. PICK l \in Leaves :
                   /\ leaf[l] = "parked" /\ leaf' \in [Leaves -> {"none", "parked", "resuming"}]
                   /\ leaf'[l] = "resuming" /\ \A m \in Leaves \ {l} : leaf'[m] = leaf[m]
                   /\ job'[w].step = "run" /\ job'[w].of = l /\ job'[w].at = l
                   /\ job'[w].losers = {} /\ job'[w].passed = {} /\ job'[w].owes = {}
    BY <1>3
  <2>2. JobOf(w)'
    BY <2>1, UnderSelf DEF JobOf, InSegment
  <2>3. \A m \in Leaves : leaf'[m] = "resuming" => m = l
    BY <1>0, <1>1, <1>2, <2>1, NobodyIs DEF Holding
  <2>4. Live(l)' /\ l \notin Races
    BY <2>1, NobodyIs DEF Live, Drainable
  <2>5. Holding(w)'
    BY <2>1, <2>3, <2>4 DEF Holding
  <2>6. \A x \in Points : Live(x)' => Live(x)
    BY <1>0, <1>1, <2>1, LeavesLess
  <2>7. Live(l)
    BY <2>1 DEF Live, Drainable
  <2>8. \A u \in Workers : job'[u].of = job[u].of \/ job'[u].of = Nobody \/ Live(job'[u].of)
    BY <1>1, <2>1, <2>7, OfLess
  <2> QED BY <1>1, <2>2, <2>5, <2>6, <2>8 DEF Lessens
<1>4. CASE UNCHANGED <<leaf, plan, left>> /\ job'[w].step = job[w].step /\ job'[w].of = job[w].of
  <2>1. job'[w].step = "next" /\ job'[w].of = Nobody
    BY <1>1, <1>2, <1>4 DEF At
  <2>2. JobOf(w)' /\ ~InSegment(w)'
    BY <2>1 DEF JobOf, InSegment
  <2>3. Holding(w)'
    BY <1>0, <1>1, <1>2, <1>4, <2>1, <2>2 DEF Holding, Holds
  <2>4. \A u \in Workers : job'[u].of = job[u].of \/ job'[u].of = Nobody \/ Live(job'[u].of)
    BY <1>1, <2>1, OfLess
  <2> QED BY <1>1, <1>4, <2>2, <2>3, <2>4 DEF Lessens, Live, Drainable
<1> QED BY <1>0, <1>3, <1>4, ClaimDoes

\* So does SettleRace.
LEMMA SettlePass ==
    ASSUME PassInv, NEW w \in Workers, SettleRace(w)
    PROVE  JobOf(w)' /\ Holding(w)' /\ Lessens(w)
<1>0. TypeOK /\ PlansGo /\ JobOf(w) /\ Holding(w)
  BY DEF PassInv, TypeInv
<1>1. Only(w) /\ At(w, "next") /\ Holds(w) /\ UNCHANGED <<status, leaf, join, export, owed, lease, past, open, left>>
  BY <1>0, SettleDoes
<1>2. job[w].of = Nobody /\ ~InSegment(w)
  BY <1>0, <1>1 DEF JobOf, InSegment, At
<1>3. PICK f \in owed, way \in Way :
                   /\ f \in Races /\ job'[w].step = "run" /\ job'[w].of = f /\ job'[w].at = f /\ job'[w].way = way
                   /\ job'[w].losers = Arms[f] /\ job'[w].passed = {f} /\ job'[w].owes = {}
  BY <1>0, SettleDoes
<1>4. f \in Points /\ f \in Frames /\ f \notin Leaves /\ f \notin Alls /\ way.parks \subseteq Leaves /\ Live(f)
  BY <1>3, PointsAre, NobodyIs, WayFields DEF Live
<1>5. JobOf(w)'
  BY <1>3, <1>4, UnderSelf DEF JobOf, InSegment
<1>6. past[f] = 0
  <2>1. ~(past[f] > 0)
    BY <1>3, <1>4, UnderSelf DEF PassInv, RacesPast
  <2> QED BY <1>0, <1>4, <2>1, StateIs
<1>7. \A l \in Leaves : leaf'[l] # "resuming"
  BY <1>0, <1>1, <1>2, NobodyIs DEF Holding
<1>8. Arms[f] = {} => \A l \in Leaves : ~In(l, Arms[f])
  BY DEF In
<1>9. Live(f)'
  BY <1>1, <1>4 DEF Live, Drainable
<1>10. Holding(w)'
  BY <1>1, <1>3, <1>4, <1>6, <1>7, <1>8, <1>9 DEF Holding
<1>11. \A u \in Workers : job'[u].of = job[u].of \/ job'[u].of = Nobody \/ Live(job'[u].of)
  BY <1>1, <1>3, <1>4, OfLess
<1> QED BY <1>1, <1>5, <1>10, <1>11 DEF Lessens, Live, Drainable

\* So does WithdrawLeaves, which spares who holds the run.
LEMMA WithdrawLeavesPass ==
    ASSUME PassInv, NEW w \in Workers, WithdrawLeaves(w)
    PROVE  JobOf(w)' /\ Holding(w)' /\ Lessens(w) /\ Spares(w)
<1>0. TypeOK /\ JobOf(w) /\ Holding(w) /\ TypeInv
  BY DEF PassInv, TypeInv
<1>1. /\ Only(w) /\ At(w, "run") /\ UNCHANGED <<status, join, export, owed, lease, plan, past, open, left>>
      /\ leaf' \in [Leaves -> {"none", "parked", "resuming"}]
      /\ \A l \in Leaves : leaf'[l] = IF leaf[l] = "parked" /\ In(l, Losers(w)) THEN "none" ELSE leaf[l]
      /\ job'[w].step = "frames" /\ job'[w].of = job[w].of
      /\ job'[w].at = job[w].at /\ job'[w].way = job[w].way /\ job'[w].losers = job[w].losers /\ job'[w].passed = job[w].passed
      /\ job'[w].owes = job[w].owes
  BY <1>0, WithdrawLeavesDoes
<1>2. InSegment(w)
  BY <1>1 DEF InSegment, At
<1>3. JobOf(w)'
  <2>1. job[w].owes = {}
    BY <1>0, <1>1, <1>2 DEF JobOf, At
  <2> QED BY <1>0, <1>1, <1>2, <2>1 DEF JobOf, InSegment
<1>4. Spares(w)
  BY <1>1 DEF Spares
<1>5. \A x \in Points : Live(x)' => Live(x)
  BY <1>0, <1>1, LeavesLess
<1>6. Lessens(w)
  <2>1. \A u \in Workers : job'[u].of = job[u].of \/ job'[u].of = Nobody \/ Live(job'[u].of)
    BY <1>1, OfLess
  <2> QED BY <1>1, <1>5, <2>1 DEF Lessens
<1>7. ASSUME Holds(w)
      PROVE  /\ \A l \in Leaves : leaf'[l] = "resuming" => job[w].of = l
             /\ Live(job[w].of)' /\ (job[w].of \in Leaves => leaf'[job[w].of] = "resuming")
             /\ \A f \in job[w].passed : past[f] = 0
             /\ \A f \in job[w].passed \cap Alls : join[f] = NoJoin \/ (join[f].pending = 0 /\ join[f].closedBy = job[w].of)
  BY <1>0, <1>1, <1>2, <1>7 DEF Holding, Live, Drainable
<1>8. ASSUME Holds(w), job[w].of \in Races, NEW l \in Leaves, In(l, Arms[job[w].of])
      PROVE  leaf'[l] = "none"
  <2>1. CASE job[w].losers = {}
    BY <1>0, <1>1, <1>2, <1>8, <2>1 DEF Holding
  <2>2. CASE job[w].losers # {}
    <3>1. In(l, Losers(w))
      BY <1>0, <1>2, <1>8, <2>2, LosersAre
    <3>2. leaf[l] # "resuming"
      BY <1>0, <1>8, NobodyIs DEF Holding
    <3>3. leaf[l] \in {"none", "parked", "resuming"}
      BY <1>0, StateIs
    <3> QED BY <1>1, <3>1, <3>2, <3>3
  <2> QED BY <2>1, <2>2
<1>9. Holding(w)'
  BY <1>1, <1>7, <1>8 DEF Holding, Holds
<1> QED BY <1>3, <1>4, <1>6, <1>9

\* A step within a segment that leaves what it is of, at and has passed.
Within(w) ==
    /\ job'[w].of = job[w].of /\ job'[w].at = job[w].at /\ job'[w].passed = job[w].passed /\ InSegment(w) /\ InSegment(w)'
    /\ job'[w].way.parks = job[w].way.parks

\* A step within a segment keeps what its process holds.
LEMMA HoldingWithin ==
    ASSUME TypeOK, NEW w \in Workers, Within(w), Holding(w), lease' = lease, leaf' = leaf, owed' = owed, past' = past,
           \A f \in Frames : join'[f] = join[f] \/ join'[f] = NoJoin \/ Counted(w, f),
           (job'[w].losers = {} \/ job'[w].step = "frames") => (job[w].losers = {} \/ job[w].step = "frames")
    PROVE  Holding(w)'
<1> SUFFICES ASSUME Holds(w) PROVE Holding(w)'
  BY DEF Holding, Holds
<1>1. \A f \in job[w].passed \cap Alls : join[f] = NoJoin \/ (join[f].pending = 0 /\ join[f].closedBy = job[w].of)
  BY DEF Holding, Within
<1>2. ASSUME NEW f \in job[w].passed \cap Alls PROVE join'[f] = NoJoin \/ (join'[f].pending = 0 /\ join'[f].closedBy = job[w].of)
  <2>1. f \in Frames
    BY PointsAre
  <2>2. ~Counted(w, f)
    BY <1>1 DEF Counted, NoJoin
  <2> QED BY <1>1, <2>1, <2>2
<1>3. /\ \A l \in Leaves : leaf[l] = "resuming" => job[w].of = l
      /\ Live(job[w].of) /\ (job[w].of \in Leaves => leaf[job[w].of] = "resuming")
      /\ \A f \in job[w].passed : past[f] = 0
      /\ job[w].of \in Races /\ (job[w].losers = {} \/ job[w].step = "frames") =>
                \A l \in Leaves : In(l, Arms[job[w].of]) => leaf[l] = "none"
  BY DEF Holding, Within
<1>4. Live(job[w].of)'
  BY <1>3 DEF Live, Drainable, Within
<1> QED BY <1>2, <1>3, <1>4 DEF Holding, Within

\* WithdrawFrames keeps the job well made, and spares who holds the run.
LEMMA WithdrawFramesPass ==
    ASSUME NoRaceInRace, PassInv, NEW w \in Workers, WithdrawFrames(w)
    PROVE  JobOf(w)' /\ Holding(w)' /\ Lessens(w) /\ Spares(w)
<1>0. TypeOK /\ JobOf(w) /\ Holding(w) /\ TypeInv
  BY DEF PassInv, TypeInv
<1>1. /\ Only(w) /\ At(w, "frames") /\ UNCHANGED <<status, leaf, lease, plan, past, left>>
      /\ \A f \in Frames : join'[f] = IF f \in Dead(w) THEN NoJoin ELSE join[f]
      /\ \A f \in Frames : \A b \in Arms[f] : export'[b] = IF f \in Dead(w) THEN NoExport ELSE export[b]
      /\ owed' = owed \ Dead(w)
      /\ job'[w].step = "run" /\ job'[w].losers = {} /\ job'[w].of = job[w].of
      /\ job'[w].at = job[w].at /\ job'[w].passed = job[w].passed /\ job'[w].owes = job[w].owes
      /\ job'[w].way.parks = job[w].way.parks
  BY <1>0, WithdrawFramesDoes
<1>2. InSegment(w) /\ Within(w)
  BY <1>1 DEF InSegment, At, Within
<1>3. owed' = owed
  BY <1>0, <1>1, <1>2, DeadOwed
<1>4. JobOf(w)'
  <2>1. job[w].owes = {}
    BY <1>0, <1>1, <1>2 DEF JobOf, At
  <2> QED BY <1>0, <1>1, <1>2, <2>1 DEF JobOf, InSegment
<1>5. \A f \in Frames : join'[f] = join[f] \/ join'[f] = NoJoin
  BY <1>1
<1>6. Holding(w)'
  BY <1>0, <1>1, <1>2, <1>3, <1>5, HoldingWithin DEF At
<1>7. Spares(w)
  BY <1>1, <1>3, <1>5 DEF Spares
<1>8. Lessens(w)
  <2>1. \A u \in Workers : job'[u].of = job[u].of \/ job'[u].of = Nobody \/ Live(job'[u].of)
    BY <1>1, OfLess
  <2>2. \A f \in Frames : \A a \in Arms[f] : export'[a] = "decremented" => export[a] = "decremented"
    BY <1>1 DEF NoExport
  <2> QED BY <1>1, <1>3, <1>5, <2>1, <2>2 DEF Lessens, Live, Drainable
<1> QED BY <1>4, <1>6, <1>7, <1>8

\* So does Keep.
LEMMA KeepPass ==
    ASSUME PassInv, NEW w \in Workers, Keep(w)
    PROVE  JobOf(w)' /\ Holding(w)' /\ Lessens(w) /\ Spares(w)
<1>0. TypeOK /\ JobOf(w) /\ Holding(w) /\ TypeInv
  BY DEF PassInv, TypeInv
<1>1. /\ Only(w) /\ At(w, "run") /\ job[w].losers = {} /\ UNCHANGED <<status, leaf, join, owed, lease, plan, past, open, left>>
      /\ \E b \in Bodies : export' = Kept(b)
      /\ job'[w].step = "run" /\ job'[w].losers = {} /\ job'[w].of = job[w].of
      /\ job'[w].at = job[w].at /\ job'[w].passed = job[w].passed /\ job'[w].owes = job[w].owes
      /\ job'[w].way.parks = job[w].way.parks
  BY <1>0, KeepDoes
<1>2. InSegment(w) /\ Within(w)
  BY <1>1 DEF InSegment, At, Within
<1>4. JobOf(w)'
  <2>1. job[w].owes = {}
    BY <1>0, <1>1, <1>2 DEF JobOf, At
  <2> QED BY <1>0, <1>1, <1>2, <2>1 DEF JobOf, InSegment
<1>6. Holding(w)'
  BY <1>0, <1>1, <1>2, HoldingWithin
<1>7. Spares(w)
  BY <1>1 DEF Spares
<1>8. Lessens(w)
  <2>1. \A u \in Workers : job'[u].of = job[u].of \/ job'[u].of = Nobody \/ Live(job'[u].of)
    BY <1>1, OfLess
  <2>2. \A f \in Frames : \A a \in Arms[f] : export'[a] = "decremented" => export[a] = "decremented"
    BY <1>0, <1>1, KeptIs, ArmsIn
  <2> QED BY <1>1, <2>1, <2>2 DEF Lessens, Live, Drainable
<1> QED BY <1>4, <1>6, <1>7, <1>8

\* So does Export.
LEMMA ExportPass ==
    ASSUME PassInv, NEW w \in Workers, Export(w)
    PROVE  JobOf(w)' /\ Holding(w)' /\ Lessens(w) /\ Spares(w)
<1>0. TypeOK /\ JobOf(w) /\ Holding(w) /\ TypeInv
  BY DEF PassInv, TypeInv
<1>1. /\ Only(w) /\ Ran(w) /\ ~Parks(w) /\ UNCHANGED <<status, leaf, join, owed, lease, plan, past, open, left>>
      /\ export' = Kept(Body(w))
      /\ job'[w].step = "decrement" /\ job'[w].of = job[w].of
      /\ job'[w].at = job[w].at /\ job'[w].way = job[w].way /\ job'[w].losers = job[w].losers /\ job'[w].passed = job[w].passed
      /\ job'[w].owes = job[w].owes
  BY <1>0, ExportDoes
<1>2. At(w, "run") /\ InSegment(w) /\ Within(w) /\ job[w].losers = {}
  BY <1>1 DEF InSegment, At, Within, Ran, Losers
<1>3. Body(w) \in Bodies
  BY <1>0, <1>2, HomeIn DEF Body, TypeInv, JobIs
<1>4. JobOf(w)'
  <2>1. job[w].owes = {}
    BY <1>0, <1>1, <1>2 DEF JobOf, At
  <2> QED BY <1>0, <1>1, <1>2, <2>1 DEF JobOf, InSegment
<1>6. Holding(w)'
  BY <1>0, <1>1, <1>2, HoldingWithin
<1>7. Spares(w)
  BY <1>1 DEF Spares
<1>8. Lessens(w)
  <2>1. \A u \in Workers : job'[u].of = job[u].of \/ job'[u].of = Nobody \/ Live(job'[u].of)
    BY <1>1, OfLess
  <2>2. \A f \in Frames : \A a \in Arms[f] : export'[a] = "decremented" => export[a] = "decremented"
    BY <1>0, <1>1, <1>3, KeptIs, ArmsIn
  <2> QED BY <1>1, <2>1, <2>2 DEF Lessens, Live, Drainable
<1> QED BY <1>4, <1>6, <1>7, <1>8

\* So does Judge.
LEMMA JudgePass ==
    ASSUME PassInv, NEW w \in Workers, Judge(w)
    PROVE  JobOf(w)' /\ Holding(w)' /\ Lessens(w) /\ Spares(w)
<1>0. TypeOK /\ JobOf(w) /\ Holding(w) /\ TypeInv
  BY DEF PassInv, TypeInv
<1>1. /\ Only(w) /\ (At(w, "judge") \/ (Ran(w) /\ Parks(w)))
      /\ UNCHANGED <<status, leaf, join, export, owed, lease, plan, past, open, left>>
      /\ job'[w].step \in {"fail", "commit"}
      /\ job'[w].of = job[w].of /\ job'[w].at = job[w].at /\ job'[w].way = job[w].way
      /\ job'[w].losers = job[w].losers /\ job'[w].passed = job[w].passed /\ job'[w].owes = job[w].owes
  BY <1>0, JudgeDoes
<1>2. InSegment(w) /\ Within(w)
  BY <1>1 DEF InSegment, At, Within, Ran
<1>3. job[w].losers = {}
  BY <1>0, <1>1, <1>2 DEF Ran, Losers, At, JobOf
<1>4. JobOf(w)'
  <2>1. job[w].owes # {} => job[w].way.parks = {}
    BY <1>0, <1>1, <1>2 DEF JobOf, At
  <2> QED BY <1>0, <1>1, <1>2, <1>3, <2>1 DEF JobOf, InSegment
<1>6. Holding(w)'
  BY <1>0, <1>1, <1>2, <1>3, HoldingWithin
<1>7. Spares(w)
  BY <1>1 DEF Spares
<1>8. Lessens(w)
  <2>1. \A u \in Workers : job'[u].of = job[u].of \/ job'[u].of = Nobody \/ Live(job'[u].of)
    BY <1>1, OfLess
  <2> QED BY <1>1, <2>1 DEF Lessens, Live, Drainable
<1> QED BY <1>4, <1>6, <1>7, <1>8

\* The segment is of a point in the arm it ends in.
LEMMA OfInArm ==
    ASSUME TypeInv, NEW w \in Workers, JobOf(w), At(w, "decrement"), NEW b, b = Body(w), NEW f, f = FrameOf(b)
    PROVE  /\ f \in Frames /\ f \in Points /\ b \in Arms[f] /\ b \in Bodies /\ job[w].of \in Points /\ job[w].at \in Points
           /\ Under(job[w].at, f) /\ Under(job[w].of, f) /\ In(job[w].of, {b}) /\ In(job[w].at, {b}) /\ job[w].of # f /\ job[w].at # f
<1>1. /\ b \in Bodies /\ f \in Frames /\ b \in Arms[f] /\ f \in Points /\ job[w].at \in Points /\ job[w].of \in Points /\ HomeOf(job[w].at) = b
      /\ b # Top
  BY ArmIs, PointsAre
<1>2. Under(job[w].of, job[w].at)
  BY DEF JobOf, InSegment, At
<1>3. In(job[w].at, {b}) /\ In(job[w].at, Arms[f]) /\ Under(job[w].at, f)
  BY <1>1, HomeIn
<1>4. In(job[w].of, {b}) /\ In(job[w].of, Arms[f]) /\ Under(job[w].of, f)
  BY <1>1, <1>2, <1>3, UnderIn, UnderTrans
<1> QED BY <1>1, <1>3, <1>4, NotInSelf

\* So does Decrement.
LEMMA DecrementPass ==
    ASSUME NoRaceInRace, PassInv, NEW w \in Workers, Decrement(w)
    PROVE  JobOf(w)' /\ Holding(w)' /\ Lessens(w) /\ Spares(w)
<1>0. TypeOK /\ JobOf(w) /\ Holding(w) /\ TypeInv /\ At(w, "decrement") /\ InSegment(w)
  BY DEF PassInv, TypeInv, Decrement, At, InSegment
<1>1. PICK b, f : b = Body(w) /\ f = FrameOf(b)
  OBVIOUS
<1>2. /\ f \in Frames /\ f \in Points /\ b \in Arms[f] /\ b \in Bodies /\ job[w].of \in Points /\ job[w].at \in Points
      /\ Under(job[w].at, f) /\ Under(job[w].of, f) /\ In(job[w].of, {b}) /\ job[w].of # f /\ job[w].at # f
  BY <1>0, <1>1, OfInArm
<1>3. /\ join' \in [Frames -> [pending : Nat \cup {-1}, closedBy : Leaves \cup Races \cup {Nobody}]]
      /\ export'[b] = (IF export[b] = "kept" THEN "decremented" ELSE export[b])
      /\ \A c \in Bodies \ {b} : export'[c] = export[c]
      /\ \A g \in Frames \ {f} : join'[g] = join[g]
      /\ ~Claims(b) => join'[f] = join[f]
      /\ Claims(b) => join'[f] = [pending |-> join[f].pending - 1, closedBy |-> IF join[f].pending = 1 THEN job[w].of ELSE join[f].closedBy]
  BY <1>0, <1>1, DecrementCounts
<1>4. /\ Only(w) /\ UNCHANGED <<status, leaf, owed, lease, past, open, left>>
      /\ \/ Closes(b, job[w].of) /\ ~LeavesToRun(w, f) /\ WentOn(w, f)
         \/ ~(Closes(b, job[w].of) /\ ~LeavesToRun(w, f)) /\ Ended(w, f) /\ UNCHANGED plan
  BY <1>0, <1>1, DecrementDoes
<1>5. Claims(b) => Counted(w, f)
  <2> SUFFICES ASSUME Claims(b) PROVE Counted(w, f)
    OBVIOUS
  <2>1. join[f].pending \in Nat /\ join[f].pending > 0
    BY <1>0, <1>1, <1>2, StateIs DEF Claims
  <2> QED BY <1>3, <2>1 DEF Counted
<1>6. \A g \in Frames : join'[g] = join[g] \/ join'[g] = NoJoin \/ Counted(w, g)
  BY <1>3, <1>5
<1>7. Spares(w)
  BY <1>4, <1>6 DEF Spares
<1>8. job'[w].of = job[w].of
  BY <1>4 DEF WentOn, Ended
<1>9. Lessens(w)
  <2>1. \A u \in Workers : job'[u].of = job[u].of \/ job'[u].of = Nobody \/ Live(job'[u].of)
    BY <1>4, <1>8, OfLess
  <2>2. \A g \in Frames : \A a \in Arms[g] : export'[a] = "decremented" => export[a] = "decremented" \/ (job[w].of \in Points /\ Under(job[w].of, g))
    <3> SUFFICES ASSUME NEW g \in Frames, NEW a \in Arms[g], export'[a] = "decremented", export[a] # "decremented"
                 PROVE  Under(job[w].of, g)
      BY <1>2
    <3>1. a = b
      BY <1>3, ArmsIn
    <3>2. g = f
      BY <1>1, <3>1, ArmsIn
    <3> QED BY <1>2, <3>2
  <2> QED BY <1>4, <1>6, <2>1, <2>2 DEF Lessens, Live, Drainable
<1>10. job[w].owes = {} /\ job[w].losers = {} /\ job[w].way.parks = {}
  BY <1>0, <1>1, ArmIs DEF JobOf, At
<1>11. CASE Ended(w, f)
  <2>1. Within(w)
    BY <1>0, <1>11 DEF Within, Ended, InSegment
  <2>2. JobOf(w)'
    BY <1>0, <1>2, <1>10, <1>11 DEF JobOf, InSegment, Ended, LeavesToRun
  <2>3. Holding(w)'
    BY <1>0, <1>4, <1>6, <1>10, <1>11, <2>1, HoldingWithin
  <2> QED BY <1>7, <1>9, <2>2, <2>3
<1>12. CASE Closes(b, job[w].of) /\ ~LeavesToRun(w, f) /\ WentOn(w, f)
  <2>1. f \in Alls
    <3> SUFFICES ASSUME f \in Races PROVE FALSE
      BY <1>2, PointsAre
    <3>1. job[w].of \in Races
      BY <1>0, <1>12 DEF LeavesToRun, TypeInv, JobIs
    <3>2. In(job[w].of, Arms[f])
      BY <1>2 DEF Under
    <3> QED BY <3>1, <3>2 DEF NoRaceInRace
  <2>2. PICK way \in Way :
        /\ job'[w].step = "run" /\ job'[w].of = job[w].of /\ job'[w].at = f /\ job'[w].way = way
        /\ job'[w].passed = job[w].passed \cup {f} /\ job'[w].owes = job[w].owes
        /\ job'[w].losers = IF f \in Races THEN Arms[f] ELSE {}
    BY <1>12 DEF WentOn
  <2>3. f \notin Races /\ f \notin Leaves /\ way.parks \subseteq Leaves
    BY <1>2, <2>1, <2>2, NobodyIs, WayFields
  <2>4. JobOf(w)'
    <3>1. \A g \in job[w].passed : Under(g, f) /\ Under(job[w].of, g)
      <4> SUFFICES ASSUME NEW g \in job[w].passed PROVE Under(g, f) /\ Under(job[w].of, g)
        OBVIOUS
      <4>1. g \in Points /\ Under(g, job[w].at) /\ Under(job[w].of, g)
        BY <1>0, StateIs, JobFields, PointsAre DEF JobOf
      <4> QED BY <1>2, <4>1, UnderTrans
    <3>2. job[w].passed \cap Races = {job[w].of} \ Leaves
      BY <1>0 DEF JobOf
    <3>3. Under(f, f)
      BY UnderSelf
    <3> QED BY <1>2, <1>10, <2>2, <2>3, <3>1, <3>2, <3>3 DEF JobOf, InSegment
  <2>5. ASSUME Holds(w) PROVE Holding(w)'
    <3>1. /\ \A l \in Leaves : leaf[l] = "resuming" => job[w].of = l
          /\ Live(job[w].of) /\ (job[w].of \in Leaves => leaf[job[w].of] = "resuming")
          /\ \A g \in job[w].passed : past[g] = 0
          /\ \A g \in job[w].passed \cap Alls : join[g] = NoJoin \/ (join[g].pending = 0 /\ join[g].closedBy = job[w].of)
          /\ job[w].of \in Races => \A l \in Leaves : In(l, Arms[job[w].of]) => leaf[l] = "none"
      BY <1>0, <1>10, <2>5 DEF Holding
    <3>2. join'[f].pending = 0 /\ join'[f].closedBy = job[w].of /\ ~(past[f] > 0)
      <4>1. CASE Claims(b)
        <5>1. join[f].pending = 1 /\ join'[f].pending = 0 /\ join'[f].closedBy = job[w].of
          BY <1>1, <1>3, <1>12, <4>1 DEF Closes
        <5>2. ~(past[f] > 0)
          BY <2>1, <5>1 DEF PassInv, AllsPast
        <5> QED BY <5>1, <5>2
      <4>2. CASE ~Claims(b)
        <5>1. join'[f] = join[f] /\ join[f].closedBy = job[w].of
          BY <1>1, <1>3, <1>12, <4>2 DEF Closes
        <5>2. join[f].pending = 0
          BY <1>2, <5>1, NobodyIs DEF PassInv, Closed
        <5>3. ~(past[f] > 0)
          BY <2>1, <3>1, <5>1 DEF PassInv, AllsPast
        <5> QED BY <5>1, <5>2, <5>3
      <4> QED BY <4>1, <4>2
    <3>3. past[f] = 0
      BY <1>0, <1>2, <3>2, StateIs
    <3>4. \A g \in job[w].passed \cap Alls : join'[g] = NoJoin \/ (join'[g].pending = 0 /\ join'[g].closedBy = job[w].of)
      <4> SUFFICES ASSUME NEW g \in job[w].passed \cap Alls, g # f PROVE join'[g] = NoJoin \/ (join'[g].pending = 0 /\ join'[g].closedBy = job[w].of)
        BY <3>2
      <4> QED BY <1>3, <3>1, PointsAre
    <3>5. Live(job[w].of)'
      <4>1. leaf' = leaf /\ owed' = owed /\ job'[w].of = job[w].of
        BY <1>4, <1>8
      <4> QED BY <3>1, <4>1 DEF Live, Drainable
    <3> QED BY <1>4, <2>2, <3>1, <3>2, <3>3, <3>4, <3>5 DEF Holding
  <2>6. Holding(w)'
    BY <1>4, <2>5 DEF Holding, Holds
  <2> QED BY <1>7, <1>9, <2>4, <2>6
<1> QED BY <1>4, <1>11, <1>12

\* A drain that ends, one way or another.
LEMMA IdlePass ==
    ASSUME PassInv, TypeOK', NEW w \in Workers, Only(w), job'[w] = Idle, lease' # w, past' = past,
           Gone \/ UNCHANGED <<leaf, join, export, owed>>
    PROVE  JobOf(w)' /\ Holding(w)' /\ Lessens(w)
<1>1. JobOf(w)'
  BY IdleIs DEF JobOf, InSegment
<1>2. Holding(w)'
  BY DEF Holding, Holds
<1>3. \A u \in Workers : job'[u].of = job[u].of \/ job'[u].of = Nobody \/ Live(job'[u].of)
  BY IdleIs, OfLess
<1>4. CASE Gone
  <2>1. \A x : ~Live(x)'
    BY <1>4 DEF Gone, Live, Drainable
  <2>2. \A f \in Frames : join'[f] = NoJoin
    BY <1>4 DEF Gone
  <2>3. \A f \in Frames : \A a \in Arms[f] : export'[a] # "decremented"
    BY <1>4, ArmsIn DEF Gone, NoExport
  <2> QED BY <1>1, <1>2, <1>3, <2>1, <2>2, <2>3 DEF Lessens
<1>5. CASE UNCHANGED <<leaf, join, export, owed>>
  BY <1>1, <1>2, <1>3, <1>5 DEF Lessens, Live, Drainable
<1> QED BY <1>4, <1>5

\* What a segment brings, once it is kept, to what may go on: the leaves it
\* parks, the race it owes.
LEMMA CommitLive ==
    ASSUME PassInv, NEW w \in Workers, Commit(w), NEW x \in Points, Live(x)'
    PROVE  /\ x # job[w].of \/ Again(job[w].at, job[w].way)
           /\ Live(x) \/ (x \in job[w].way.parks /\ x \in Leaves) \/ x \in job[w].owes
<1>0. TypeInv /\ TypeOK /\ JobOf(w) /\ Holding(w) /\ JobIs(w)
  BY DEF PassInv, TypeInv
<1>1. /\ At(w, "commit") /\ Holds(w)
      /\ \A l \in Leaves : leaf'[l] = IF l \in job[w].way.parks THEN "parked"
                                           ELSE IF l = job[w].of /\ leaf[l] = "resuming" THEN "none" ELSE leaf[l]
      /\ owed' = (owed \ {job[w].of}) \cup job[w].owes
  BY <1>0, CommitDoes
<1>2. InSegment(w)
  BY <1>1 DEF At, InSegment
<1>3. job[w].of \in Leaves => leaf[job[w].of] = "resuming"
  BY <1>0, <1>1, <1>2 DEF Holding
<1>4. Under(job[w].of, job[w].at) /\ job[w].at \in Points /\ job[w].of \in Points /\ GoesOn(job[w].at, job[w].way)
      /\ \A f \in job[w].owes : job[w].of \in Leaves /\ f \in Races
  BY <1>0, <1>2, PointsAre, StateIs, JobFields DEF JobOf, JobIs
<1>5. ~Again(job[w].at, job[w].way) => job[w].of \notin job[w].way.parks
  <2> SUFFICES ASSUME Goes(HomeOf(job[w].at), PlaceOf(job[w].at), job[w].way), job[w].of \in job[w].way.parks PROVE FALSE
    BY <1>4 DEF GoesOn
  <2>1. After(job[w].at, job[w].of)
    BY DEF Goes, After
  <2> QED BY <1>4, <2>1, AfterApart
<1>6. CASE x \in Leaves
  <2>1. leaf'[x] # "none"
    BY <1>1, <1>4, <1>6, NobodyIs, StateIs, <1>0 DEF Live, Drainable
  <2> QED BY <1>1, <1>3, <1>5, <1>6, <2>1 DEF Live, Drainable
<1>7. CASE x \notin Leaves
  <2>1. x \in owed'
    BY <1>7 DEF Live, Drainable
  <2>2. x # job[w].of
    BY <1>1, <1>4, <1>7, <2>1
  <2> QED BY <1>1, <2>1, <2>2 DEF Live
<1> QED BY <1>6, <1>7

\* The facts of a segment to be kept.
LEMMA CommitFacts ==
    ASSUME PassInv, NEW w \in Workers, Commit(w)
    PROVE  LET j == job[w] IN
           /\ TypeInv /\ TypeOK /\ j.way \in Way /\ j.way.parks \subseteq Leaves
           /\ j.of \in Points /\ j.at \in Points /\ Live(j.of) /\ Under(j.of, j.at) /\ Ahead(j.of, j.at)
           /\ j.of \in Leaves \cup Races /\ (j.of \in Races => j.of \in j.passed)
           /\ j.passed \subseteq Frames /\ j.passed \cap Races = {j.of} \ Leaves
           /\ \A f \in j.passed : f \in Points /\ Under(j.of, f) /\ Under(f, j.at) /\ past[f] = 0
           /\ j.at # j.of => j.at \in j.passed
           /\ Again(j.at, j.way) => j.at = j.of /\ j.passed = {} /\ j.of \in Leaves
           /\ ~Again(j.at, j.way) =>
                /\ Goes(HomeOf(j.at), PlaceOf(j.at), j.way)
                /\ \A l \in j.way.parks : l \in Points /\ After(j.at, l)
                /\ \A k \in j.way.joins : k[1] \in Points /\ k[1] \in Frames /\ After(j.at, k[1])
           /\ \A f \in j.owes : f \in Races /\ f \in Points /\ j.of \in Leaves /\ Under(j.of, f) /\ j.way.parks = {}
           /\ \A f \in j.passed \cap Alls : join[f] = NoJoin \/ (join[f].pending = 0 /\ join[f].closedBy = j.of)
           /\ j.of \in Races => \A l \in Leaves : In(l, Arms[j.of]) => leaf[l] = "none"
<1>0. TypeInv /\ TypeOK /\ JobOf(w) /\ Holding(w) /\ JobIs(w)
  BY DEF PassInv, TypeInv
<1>1. At(w, "commit") /\ Holds(w)
  BY <1>0, CommitDoes
<1>2. InSegment(w) /\ job[w].losers = {}
  BY <1>0, <1>1 DEF At, InSegment, JobOf
<1>3. /\ job[w].way \in Way /\ job[w].passed \subseteq Frames /\ job[w].owes \subseteq Races /\ job[w].way.parks \subseteq Leaves
      /\ job[w].way.joins \subseteq Frames \X Nat
  BY <1>0, StateIs, JobFields, WayFields
<1>4. job[w].of \in Points /\ job[w].at \in Points /\ job[w].of \in Leaves \cup Races /\ GoesOn(job[w].at, job[w].way)
  BY <1>0, <1>2, PointsAre DEF JobIs
<1>5. /\ Under(job[w].of, job[w].at) /\ job[w].passed \cap Races = {job[w].of} \ Leaves
      /\ (\A f \in job[w].passed : Under(job[w].of, f) /\ Under(f, job[w].at))
      /\ (job[w].at # job[w].of => job[w].at \in job[w].passed)
      /\ (job[w].at \in job[w].way.parks => job[w].passed = {})
      /\ (\A f \in job[w].owes : job[w].of \in Leaves /\ Under(job[w].of, f))
      /\ (job[w].owes # {} => job[w].way.parks = {})
  BY <1>0, <1>2 DEF JobOf
<1>6. /\ Live(job[w].of) /\ \A f \in job[w].passed : past[f] = 0
      /\ \A f \in job[w].passed \cap Alls : join[f] = NoJoin \/ (join[f].pending = 0 /\ join[f].closedBy = job[w].of)
      /\ job[w].of \in Races => \A l \in Leaves : In(l, Arms[job[w].of]) => leaf[l] = "none"
  BY <1>0, <1>1, <1>2 DEF Holding
<1>7. job[w].of \in Races => job[w].of \in job[w].passed
  BY <1>5, NobodyIs
<1>8. Ahead(job[w].of, job[w].at)
  BY <1>4, <1>5, <1>6, <1>7, NobodyIs, PointsAre DEF Ahead
<1>9. Again(job[w].at, job[w].way) => job[w].at = job[w].of /\ job[w].passed = {} /\ job[w].of \in Leaves
  BY <1>3, <1>5, NobodyIs DEF Again
<1>10. ~Again(job[w].at, job[w].way) =>
                /\ Goes(HomeOf(job[w].at), PlaceOf(job[w].at), job[w].way)
                /\ \A l \in job[w].way.parks : l \in Points /\ After(job[w].at, l)
                /\ \A k \in job[w].way.joins : k[1] \in Points /\ k[1] \in Frames /\ After(job[w].at, k[1])
  <2> SUFFICES ASSUME ~Again(job[w].at, job[w].way) PROVE 
                /\ Goes(HomeOf(job[w].at), PlaceOf(job[w].at), job[w].way)
                /\ \A l \in job[w].way.parks : l \in Points /\ After(job[w].at, l)
                /\ \A k \in job[w].way.joins : k[1] \in Points /\ k[1] \in Frames /\ After(job[w].at, k[1])
    OBVIOUS
  <2>1. Goes(HomeOf(job[w].at), PlaceOf(job[w].at), job[w].way)
    BY <1>4 DEF GoesOn
  <2> QED BY <1>3, <2>1, PointsAre DEF Goes, After
<1>11. \A f \in job[w].passed : f \in Points
  BY <1>3, PointsAre
<1>12. \A f \in job[w].owes : f \in Races /\ f \in Points /\ job[w].way.parks = {}
  BY <1>3, <1>5, PointsAre
<1> QED BY <1>0, <1>3, <1>4, <1>5, <1>6, <1>7, <1>8, <1>9, <1>10, <1>11, <1>12

\* What a kept segment touches: what was, the leaves it parks and the frames
\* it parks in, what it passed, what it owes.
LEMMA CommitTouched ==
    ASSUME PassInv, NEW w \in Workers, Commit(w), NEW y \in Points, Touched(y)'
    PROVE  \/ Touched(y) \/ y \in job[w].way.parks \/ y \in job[w].owes \/ y \in job[w].passed
           \/ (y \in Frames /\ \E k \in job[w].way.joins : k[1] = y)
<1>0. TypeInv /\ TypeOK /\ JobIs(w) /\ JobOf(w)
  BY DEF PassInv, TypeInv
<1>1. /\ Only(w) /\ UNCHANGED <<export, lease, left>> /\ join' = Joined(w) /\ job'[w].of = Nobody /\ At(w, "commit")
      /\ past' \in [Frames -> Nat] /\ \A f \in Frames : past'[f] = past[f] + IF f \in job[w].passed THEN 1 ELSE 0
  BY <1>0, CommitDoes
<1>2. \A f \in Frames : past[f] \in Nat
  BY <1>0, StateIs
<1>3. \A k \in job[w].way.joins : Counts(job[w].way, k)
  BY <1>0, <1>1 DEF JobIs, InSegment, At, GoesOn, Goes, Again
<1>4. ASSUME NEW f \in Frames
      PROVE  /\ (~\E k \in job[w].way.joins : k[1] = f) => join'[f] = join[f]
             /\ join'[f].closedBy = join[f].closedBy
  BY <1>0, <1>1, <1>3, JoinedIs
<1>5. CASE Live(y)'
  BY <1>5, CommitLive DEF Touched
<1>6. CASE y \in Frames /\ past'[y] > 0
  <2>1. past[y] > 0 \/ y \in job[w].passed
    BY <1>1, <1>2, <1>6
  <2> QED BY <1>6, <2>1 DEF Touched
<1>7. CASE y \in Frames /\ join'[y] # NoJoin
  <2>1. join[y] # NoJoin \/ \E k \in job[w].way.joins : k[1] = y
    BY <1>4, <1>7
  <2> QED BY <1>7, <2>1 DEF Touched
<1>8. CASE y \in Frames /\ \E a \in Arms[y] : export'[a] = "decremented"
  BY <1>1, <1>8 DEF Touched
<1>9. CASE \E f \in Frames : join'[f].closedBy = y
  BY <1>4, <1>9 DEF Touched
<1>10. CASE \E u \in Workers : job'[u].of = y
  <2>1. PICK u \in Workers : job'[u].of = y
    BY <1>10
  <2>2. job[u].of = y
    BY <1>1, <2>1, NobodyIs DEF Only
  <2> QED BY <2>2 DEF Touched
<1> QED BY <1>5, <1>6, <1>7, <1>8, <1>9, <1>10 DEF Touched

\* A segment that goes on past q, or x in it: nothing that comes after q is new.
LEMMA CommitFresh ==
    ASSUME PassInv, NEW w \in Workers, Commit(w),
           NEW x \in Points, NEW q \in Points, NEW y \in Points, Live(x)', Ahead(x, q)', After(q, y), Touched(y)'
    PROVE  FALSE
<1> DEFINE of == job[w].of
           at == job[w].at
           v == job[w].way
           passed == job[w].passed
           owes == job[w].owes
<1>1. /\ TypeInv /\ TypeOK /\ v \in Way /\ v.parks \subseteq Leaves
      /\ of \in Points /\ at \in Points /\ Live(of) /\ Under(of, at) /\ Ahead(of, at) /\ (of \in Races => of \in passed)
      /\ of \in Leaves \cup Races /\ passed \subseteq Frames
      /\ \A f \in passed : f \in Points /\ Under(of, f) /\ Under(f, at) /\ past[f] = 0
      /\ at # of => at \in passed
      /\ Again(at, v) => at = of /\ passed = {} /\ of \in Leaves
      /\ \A f \in owes : f \in Races /\ f \in Points /\ of \in Leaves /\ Under(of, f) /\ v.parks = {}
  BY CommitFacts
<1>2. ~Again(at, v) =>
         /\ Goes(HomeOf(at), PlaceOf(at), v)
         /\ \A l \in v.parks : l \in Points /\ After(at, l)
         /\ \A k \in v.joins : k[1] \in Points /\ k[1] \in Frames /\ After(at, k[1])
  BY CommitFacts
<1>3. \A f \in Frames : past'[f] = past[f] + IF f \in passed THEN 1 ELSE 0
  BY <1>1, CommitDoes
<1>4. \A f \in Frames : past[f] \in Nat
  BY <1>1, StateIs
<1>5. /\ x # of \/ Again(at, v)
      /\ Live(x) \/ (x \in v.parks /\ x \in Leaves) \/ x \in owes
  BY CommitLive
<1>6. \/ Touched(y) \/ y \in v.parks \/ y \in owes \/ y \in passed
      \/ (y \in Frames /\ \E k \in v.joins : k[1] = y)
  BY CommitTouched
<1>7. Again(at, v) => v.parks = {of} /\ v.joins = {}
  BY <1>1 DEF Again
<1> HIDE DEF of, at, v, passed, owes
<1>8. Under(x, q) /\ (q \in Frames => past[q] = 0 /\ q \notin passed)
  BY <1>3, <1>4 DEF Ahead
<1>9. Touched(of)
  BY <1>1 DEF Touched
<1>10. \A z \in Points : After(at, z) => ~Touched(z)
  BY <1>1 DEF PassInv, Fresh
\* y is touched already, or comes after at, or encloses of.
<1>11. \/ Touched(y) \/ (~Again(at, v) /\ After(at, y) /\ y \in v.parks)
       \/ (~Again(at, v) /\ After(at, y) /\ y \in Frames /\ \E k \in v.joins : k[1] = y)
       \/ Under(of, y)
  <2>1. CASE Again(at, v)
    BY <1>1, <1>6, <1>7, <1>9, <2>1
  <2>2. CASE ~Again(at, v)
    BY <1>1, <1>2, <1>6, <2>2
  <2> QED BY <2>1, <2>2
\* The point q is in, or is before, what the segment is of.
<1>12. ASSUME NEW z \in Points, Live(z), Under(z, q), z # of \/ Again(at, v) \/ q # of \/ of \in Races, q = at => q \in Leaves /\ z = at
       PROVE  FALSE
  <2>1. Ahead(z, q) /\ Touched(z)
    BY <1>8, <1>12 DEF Ahead, Touched
  <2>2. ~Touched(y) /\ ~After(q, of)
    BY <1>1, <1>9, <1>12, <2>1 DEF PassInv, Fresh
  <2>3. CASE Under(of, y)
    BY <1>1, <2>2, <2>3, AfterUnder
  <2>4. CASE ~Again(at, v) /\ After(at, y)
    <3>1. CASE q = at
      <4>1. of = at
        BY <1>1, <3>1, <1>8, PointsAre, <1>12, NobodyIs
      <4> QED BY <1>1, <1>8, <1>12, <2>4, <3>1, <4>1, NobodyIs
    <3>2. CASE After(q, at)
      BY <1>1, <2>2, <3>2, AfterUnder
    <3>3. CASE After(at, q)
      <4>1. After(at, z)
        BY <1>1, <1>12, <3>3, AfterUnder
      <4> QED BY <1>10, <1>12, <2>1, <4>1
    <3> QED BY <1>1, <2>4, <3>1, <3>2, <3>3, AfterLinear
  <2> QED BY <1>11, <2>2, <2>3, <2>4
<1>13. CASE Live(x)
  <2>1. CASE q = at
    <3>1. at \in Leaves \/ at \notin passed
      BY <1>8, <2>1, PointsAre
    <3>2. at \notin Frames
      BY <1>1, <1>8, <2>1, <3>1, NobodyIs, PointsAre
    <3>3. at \in Leaves /\ at = of /\ x = at
      BY <1>1, <1>8, <2>1, <3>2, PointsAre DEF Under
    <3> QED BY <1>5, <1>8, <1>12, <1>13, <2>1, <3>3
  <2>2. CASE q # at
    <3>1. x # of \/ Again(at, v)
      BY <1>5
    <3> QED BY <1>8, <1>12, <1>13, <2>2, <3>1
  <2> QED BY <2>1, <2>2
<1>14. CASE ~Live(x) /\ x \in v.parks /\ ~Again(at, v)
  <2>1. After(at, x)
    BY <1>2, <1>14
  <2>2. CASE q \in Frames /\ In(at, Arms[q])
    <3>1. Under(at, q) /\ Under(of, q) /\ q # at
      <4>1. Under(at, q)
        BY <2>2 DEF Under
      <4> QED BY <1>1, <2>2, <4>1, UnderTrans, NotInSelf
    <3>2. q # of \/ of \in Races
      BY <2>2, <1>1, PointsAre, NobodyIs
    <3> QED BY <1>1, <1>12, <3>1, <3>2
  <2>3. CASE After(at, q)
    <3>1. After(at, y)
      BY <1>1, <2>3, AfterTrans
    <3>2. ~Touched(y)
      BY <1>10, <3>1
    <3>3. ~Under(of, y)
      <4> SUFFICES ASSUME Under(of, y) PROVE FALSE
        OBVIOUS
      <4>1. CASE y = of
        BY <1>9, <3>2, <4>1
      <4>2. Under(y, at) \/ Under(at, y)
        BY <1>1, UnderLinear
      <4> QED BY <1>1, <3>1, <4>2, AfterApart
    <3>4. ~(y \in v.parks)
      <4> SUFFICES ASSUME y \in v.parks PROVE FALSE
        OBVIOUS
      <4> QED BY <1>2, <1>8, <1>14 DEF Goes
    <3>5. ~(\E k \in v.joins : k[1] = y)
      <4> SUFFICES ASSUME NEW k \in v.joins, k[1] = y PROVE FALSE
        OBVIOUS
      <4>1. Counts(v, k) /\ k[1] \in Frames
        BY <1>2, <1>14 DEF Goes
      <4>2. PICK a \in Arms[y], l \in v.parks : In(l, {a})
        BY <4>1 DEF Counts, ArmsLeft
      <4>3. l \in Points /\ Under(l, y)
        BY <1>2, <1>14, <4>1, <4>2, InOne DEF Under
      <4>4. After(q, l)
        BY <4>3, AfterUnder
      <4> QED BY <1>2, <1>8, <1>14, <4>2, <4>4 DEF Goes
    <3> QED BY <1>11, <3>2, <3>3, <3>4, <3>5
  <2> QED BY <1>1, <1>8, <2>1, <2>2, <2>3, AfterOut
<1>15. CASE ~Live(x) /\ x \in owes
  <2>1. x \in Races /\ Under(of, x) /\ of \in Leaves
    BY <1>1, <1>15
  <2>2. Under(of, q)
    BY <1>1, <1>8, <2>1, UnderTrans
  <2>3. q \notin Leaves
    BY <1>8, <2>1, NobodyIs DEF Under
  <2>4. q # of /\ q # at
    BY <1>1, <1>8, <2>1, <2>3, PointsAre
  <2> QED BY <1>1, <1>12, <2>2, <2>4
<1>16. CASE ~Live(x) /\ x \in v.parks /\ Again(at, v)
  BY <1>1, <1>7, <1>16
<1> QED BY <1>5, <1>13, <1>14, <1>15, <1>16

\* Nothing is live in a race whose going on past is kept.
LEMMA CommitRaces ==
    ASSUME NoRaceInRace, PassInv, NEW w \in Workers, Commit(w), NEW f \in Races, past'[f] > 0, NEW x \in Points, Under(x, f), Live(x)'
    PROVE  FALSE
<1> DEFINE of == job[w].of
           at == job[w].at
           v == job[w].way
           passed == job[w].passed
           owes == job[w].owes
<1>1. /\ TypeInv /\ TypeOK /\ passed \cap Races = {of} \ Leaves
      /\ of \in Points /\ at \in Points /\ Live(of) /\ Under(of, at) /\ Ahead(of, at) /\ (of \in Races => of \in passed)
      /\ \A g \in passed : g \in Points /\ Under(of, g) /\ Under(g, at) /\ past[g] = 0
      /\ at # of => at \in passed
      /\ Again(at, v) => at = of /\ passed = {} /\ of \in Leaves
      /\ \A g \in owes : g \in Races /\ g \in Points /\ of \in Leaves /\ Under(of, g) /\ v.parks = {}
      /\ of \in Races => \A l \in Leaves : In(l, Arms[of]) => leaf[l] = "none"
  BY CommitFacts
<1>2. ~Again(at, v) => \A l \in v.parks : l \in Points /\ After(at, l)
  BY CommitFacts
<1>3. \A g \in Frames : past'[g] = past[g] + IF g \in passed THEN 1 ELSE 0
  BY <1>1, CommitDoes
<1>4. \A g \in Frames : past[g] \in Nat
  BY <1>1, StateIs
<1>5. /\ x # of \/ Again(at, v)
      /\ Live(x) \/ (x \in v.parks /\ x \in Leaves) \/ x \in owes
  BY CommitLive
<1>6. Again(at, v) => v.parks = {of} /\ v.joins = {}
  BY <1>1 DEF Again
<1> HIDE DEF of, at, v, passed, owes
<1>7. f \in Frames /\ f \in Points /\ f \notin Leaves
  BY PointsAre, NobodyIs
<1>8. CASE past[f] > 0
  <2>1. \A z \in Points : Under(z, f) => ~Live(z)
    BY <1>8 DEF PassInv, RacesPast
  <2>2. ~Under(of, f)
    BY <1>1, <2>1
  <2>3. CASE x \in v.parks /\ ~Again(at, v)
    <3>1. After(at, x)
      BY <1>2, <2>3
    <3>2. CASE In(at, Arms[f])
      <4>1. Under(at, f)
        BY <1>7, <3>2 DEF Under
      <4> QED BY <1>1, <1>7, <2>2, <4>1, UnderTrans
    <3>3. CASE After(at, f)
      <4>1. Touched(f)
        BY <1>7, <1>8 DEF Touched
      <4> QED BY <1>1, <1>7, <3>3, <4>1 DEF PassInv, Fresh
    <3> QED BY <1>1, <1>7, <3>1, <3>2, <3>3, AfterOut
  <2>4. CASE x \in v.parks /\ Again(at, v)
    BY <1>1, <1>6, <2>1, <2>4
  <2>5. CASE x \in owes
    BY <1>1, <1>7, <2>2, <2>5, UnderTrans
  <2> QED BY <1>5, <2>1, <2>3, <2>4, <2>5
<1>9. CASE ~(past[f] > 0)
  <2>1. f \in passed /\ f = of /\ of \in Races /\ of \notin Leaves
    BY <1>1, <1>3, <1>4, <1>7, <1>9
  <2>2. x # of /\ ~Again(at, v) /\ In(x, Arms[of])
    BY <1>1, <1>5, <2>1 DEF Under
  <2>3. CASE x \in owes
    BY <1>1, <2>1, <2>3
  <2>4. CASE x \in v.parks
    <3>1. After(at, x) /\ Under(x, at)
      BY <1>1, <1>2, <1>7, <2>1, <2>2, <2>4, UnderTrans
    <3> QED BY <1>1, <3>1, AfterApart
  <2>5. CASE Live(x)
    <3>1. x \notin Leaves
      BY <1>1, <2>1, <2>2, <2>5, NobodyIs DEF Live, Drainable, TypeOK
    <3>2. x \in Races
      BY <1>1, <2>5, <3>1, LiveIn
    <3> QED BY <2>1, <2>2, <3>2 DEF NoRaceInRace
  <2> QED BY <1>5, <2>3, <2>4, <2>5
<1> QED BY <1>8, <1>9

\* The joins a kept segment counts are of frames nothing touched.
LEMMA CommitJoins ==
    ASSUME PassInv, NEW w \in Workers, Commit(w), NEW f \in Frames
    PROVE  /\ (~\E k \in job[w].way.joins : k[1] = f) => join'[f] = join[f]
           /\ (\E k \in job[w].way.joins : k[1] = f) =>
                /\ join[f] = NoJoin /\ After(job[w].at, f) /\ ~Touched(f) /\ past[f] = 0 /\ f \notin job[w].passed
                /\ join'[f].closedBy = Nobody /\ ArmsLeft(job[w].way, f) # {}
                /\ join'[f].pending = IF f \in Races THEN 1 ELSE Cardinality(ArmsLeft(job[w].way, f))
                /\ join'[f].pending \in Nat \ {0}
           /\ join'[f].closedBy = join[f].closedBy
<1>0. TypeInv /\ TypeOK /\ JobIs(w) /\ JobOf(w)
  BY DEF PassInv, TypeInv
<1>1. join' = Joined(w) /\ At(w, "commit")
  BY <1>0, CommitDoes
<1>2. \A k \in job[w].way.joins : Counts(job[w].way, k)
  BY <1>0, <1>1 DEF JobIs, InSegment, At, GoesOn, Goes, Again
<1>3. /\ (~\E k \in job[w].way.joins : k[1] = f) => join'[f] = join[f]
      /\ (\E k \in job[w].way.joins : k[1] = f) =>
                /\ ArmsLeft(job[w].way, f) # {}
                /\ join'[f].closedBy = join[f].closedBy
                /\ join'[f].pending = IF f \in Races THEN 1 ELSE Cardinality(ArmsLeft(job[w].way, f))
  BY <1>0, <1>1, <1>2, JoinedIs
<1>4. ASSUME NEW k \in job[w].way.joins, k[1] = f
      PROVE  join[f] = NoJoin /\ After(job[w].at, f) /\ ~Touched(f) /\ past[f] = 0 /\ f \notin job[w].passed
  <2>1. ~Again(job[w].at, job[w].way)
    BY <1>4 DEF Again
  <2>2. After(job[w].at, f) /\ f \in Points
    BY <1>4, <2>1, CommitFacts
  <2>3. Live(job[w].of) /\ Ahead(job[w].of, job[w].at) /\ job[w].of \in Points /\ job[w].at \in Points
        /\ \A g \in job[w].passed : Under(g, job[w].at)
    BY CommitFacts
  <2>4. ~Touched(f)
    BY <2>2, <2>3 DEF PassInv, Fresh
  <2>5. past[f] = 0
    <3>1. ~(past[f] > 0) /\ past[f] \in Nat
      BY <1>0, <2>4, StateIs DEF Touched
    <3> QED BY <3>1
  <2> QED BY <2>2, <2>3, <2>4, <2>5, AfterApart DEF Touched
<1>5. ArmsLeft(job[w].way, f) # {} => Cardinality(ArmsLeft(job[w].way, f)) \in Nat \ {0}
  <2>1. ArmsLeft(job[w].way, f) \subseteq Bodies
    BY TreeAssumption DEF ArmsLeft
  <2>2. IsFiniteSet(ArmsLeft(job[w].way, f))
    BY <2>1, TreeAssumption, FS_Subset
  <2>3. Cardinality(ArmsLeft(job[w].way, f)) \in Nat /\ (Cardinality(ArmsLeft(job[w].way, f)) = 0 <=> ArmsLeft(job[w].way, f) = {})
    BY <2>2, FS_CardinalityType, FS_EmptySet
  <2> QED BY <2>3
<1>6. NoJoin.closedBy = Nobody
  BY DEF NoJoin
<1> QED BY <1>3, <1>4, <1>5, <1>6

\* An `all` whose going on past is kept waits for nothing, and its closer is
\* done.
LEMMA CommitAlls ==
    ASSUME NoRaceInRace, PassInv, TypeOK', NEW w \in Workers, Commit(w), NEW f \in Alls, past'[f] > 0
    PROVE  /\ join'[f].pending <= 0 /\ ~Live(join[f].closedBy)' /\ join'[f].closedBy = join[f].closedBy
           /\ join[f].closedBy \in Races => past'[join[f].closedBy] > 0
<1> DEFINE of == job[w].of
           at == job[w].at
           v == job[w].way
           passed == job[w].passed
           owes == job[w].owes
<1>1. /\ TypeInv /\ TypeOK /\ passed \cap Races = {of} \ Leaves
      /\ of \in Points /\ at \in Points /\ Live(of) /\ Under(of, at) /\ Ahead(of, at) /\ (of \in Races => of \in passed)
      /\ \A g \in passed : g \in Points /\ Under(of, g) /\ Under(g, at) /\ past[g] = 0
      /\ at # of => at \in passed
      /\ Again(at, v) => at = of /\ passed = {} /\ of \in Leaves
      /\ \A g \in owes : g \in Races /\ g \in Points /\ of \in Leaves /\ Under(of, g) /\ v.parks = {}
      /\ \A g \in passed \cap Alls : join[g] = NoJoin \/ (join[g].pending = 0 /\ join[g].closedBy = of)
  BY CommitFacts
<1>2. ~Again(at, v) => \A l \in v.parks : l \in Points /\ After(at, l)
  BY CommitFacts
<1>3. \A g \in Frames : past'[g] = past[g] + IF g \in passed THEN 1 ELSE 0
  BY <1>1, CommitDoes
<1>4. \A g \in Frames : past[g] \in Nat
  BY <1>1, StateIs
<1>5. \A x \in Points : Live(x)' => 
        /\ x # of \/ Again(at, v)
        /\ Live(x) \/ (x \in v.parks /\ x \in Leaves) \/ x \in owes
  BY CommitLive
<1>6. Again(at, v) => v.parks = {of} /\ v.joins = {}
  BY <1>1 DEF Again
<1>7. f \in Frames /\ f \in Points
  BY PointsAre
<1>8. (~\E k \in v.joins : k[1] = f) /\ join'[f] = join[f]
  <2>1. ~(past[f] > 0) \/ ~\E k \in v.joins : k[1] = f
    BY <1>7, CommitJoins
  <2>2. f \in passed => ~\E k \in v.joins : k[1] = f
    BY <1>7, CommitJoins
  <2>3. past[f] > 0 \/ f \in passed
    BY <1>3, <1>4, <1>7
  <2>4. ~\E k \in v.joins : k[1] = f
    <3>1. (\E k \in v.joins : k[1] = f) => past[f] = 0 /\ f \notin passed
      BY <1>7, CommitJoins
    <3> QED BY <2>3, <3>1
  <2> QED BY <1>7, <2>4, CommitJoins
<1> HIDE DEF of, at, v, passed, owes
<1>9. ~Live(Nobody)' /\ Nobody \notin Races
  BY NobodyIs, LiveInNext
<1>10. CASE f \in passed
  <2>1. join[f] = NoJoin \/ (join[f].pending = 0 /\ join[f].closedBy = of)
    BY <1>1, <1>10
  <2>2. CASE join[f] = NoJoin
    <3>1. join[f].pending = -1 /\ join[f].closedBy = Nobody
      BY <2>2 DEF NoJoin
    <3> QED BY <1>8, <1>9, <3>1
  <2>3. CASE join[f].pending = 0 /\ join[f].closedBy = of
    <3>1. PICK o : o = of
      OBVIOUS
    <3>4. o \in Points /\ ~Live(o)'
      BY <1>1, <1>5, <1>10, <3>1
    <3>3. (join[f].closedBy)' = o
      BY <1>8, <2>3, <3>1
    <3>5. ~Live(join[f].closedBy)'
      BY <3>3, <3>4
    <3>2. of \in Races => past'[of] > 0
      <4> SUFFICES ASSUME of \in Races PROVE past'[of] > 0
        OBVIOUS
      <4> QED BY <1>1, <1>3, <1>4, PointsAre
    <3> QED BY <1>8, <2>3, <3>5, <3>2
  <2> QED BY <2>1, <2>2, <2>3
<1>11. CASE f \notin passed
  <2>1. past[f] > 0
    BY <1>3, <1>4, <1>7, <1>11
  <2>2. join[f].pending <= 0 /\ ~Live(join[f].closedBy) /\ (join[f].closedBy \in Races => past[join[f].closedBy] > 0)
    BY <2>1 DEF PassInv, AllsPast
  <2>3. PICK c : c = join[f].closedBy
    OBVIOUS
  <2>4. c = Nobody \/ c \in Points
    BY <1>1, <1>7, <2>3, StateIs, PointsAre
  <2>5. ASSUME c \in Points, Live(c)' PROVE FALSE
    <3>1. Touched(c)
      BY <1>7, <2>3 DEF Touched
    <3>2. CASE c \in v.parks /\ Again(at, v)
      BY <1>1, <1>6, <2>2, <2>3, <3>2
    <3>3. CASE c \in v.parks /\ ~Again(at, v)
      BY <1>1, <1>2, <3>1, <3>3, <2>5 DEF PassInv, Fresh
    <3>4. CASE c \in owes
      <4>1. c \in Races /\ past[c] > 0 /\ Under(of, c)
        BY <1>1, <2>2, <2>3, <3>4
      <4> QED BY <1>1, <4>1 DEF PassInv, RacesPast
    <3> QED BY <1>5, <2>2, <2>3, <2>5, <3>2, <3>3, <3>4
  <2>6. c \in Races => past'[c] > 0
    <3> SUFFICES ASSUME c \in Races PROVE past'[c] > 0
      OBVIOUS
    <3>1. past[c] > 0 /\ c \in Frames
      BY <2>2, <2>3, PointsAre
    <3> QED BY <1>3, <1>4, <3>1
  <2> QED BY <1>8, <1>9, <2>2, <2>3, <2>4, <2>5, <2>6
<1> QED BY <1>10, <1>11

\* Commit keeps every part of the invariant.
LEMMA CommitPass ==
    ASSUME NoRaceInRace, PassInv, TypeInv', NEW w \in Workers, Commit(w)
    PROVE  JobOf(w)' /\ Holding(w)' /\ Fresh' /\ RacesPast' /\ AllsPast' /\ Closed' /\ PassedOnce'
<1>0. TypeOK /\ TypeInv /\ TypeOK' /\ Holding(w) /\ JobOf(w)
  BY DEF PassInv, TypeInv
<1>1. /\ Only(w) /\ At(w, "commit") /\ Holds(w) /\ lease' = lease /\ job'[w].step = "next" /\ job'[w].of = Nobody
      /\ \A l \in Leaves : leaf'[l] = IF l \in job[w].way.parks THEN "parked"
                                           ELSE IF l = job[w].of /\ leaf[l] = "resuming" THEN "none" ELSE leaf[l]
      /\ \A f \in Frames : past'[f] = past[f] + IF f \in job[w].passed THEN 1 ELSE 0
  BY <1>0, CommitDoes
<1>2. JobOf(w)'
  BY <1>1 DEF JobOf, InSegment
<1>3. Holding(w)'
  <2>1. \A l \in Leaves : leaf'[l] # "resuming"
    BY <1>0, <1>1 DEF Holding
  <2> QED BY <1>1, <2>1 DEF Holding, InSegment
<1>4. Fresh'
  BY CommitFresh DEF Fresh
<1>5. RacesPast'
  BY CommitRaces DEF RacesPast
<1>6. AllsPast'
  BY <1>0, CommitAlls DEF AllsPast
<1>7. Closed'
  <2> SUFFICES ASSUME NEW f \in Frames
               PROVE  (join'[f].closedBy # Nobody => join'[f].pending = 0) /\ (join'[f].pending = -1 => join'[f] = NoJoin)
    BY DEF Closed
  <2>1. CASE \E k \in job[w].way.joins : k[1] = f
    BY <2>1, CommitJoins
  <2>2. CASE ~\E k \in job[w].way.joins : k[1] = f
    BY <2>2, CommitJoins DEF PassInv, Closed
  <2> QED BY <2>1, <2>2
<1>8. PassedOnce'
  <2> SUFFICES ASSUME NEW f \in Frames PROVE past'[f] <= 1
    BY DEF PassedOnce
  <2>1. f \in job[w].passed => past[f] = 0
    BY CommitFacts
  <2>2. past[f] <= 1 /\ past[f] \in Nat
    BY <1>0, StateIs DEF PassInv, PassedOnce
  <2> QED BY <1>1, <2>1, <2>2
<1> QED BY <1>2, <1>3, <1>4, <1>5, <1>6, <1>7, <1>8

\* The invariant holds at first.
LEMMA InitPass == ASSUME Init PROVE PassInv
<1>0. TypeInv /\ TypeOK
  BY InitTypes DEF TypeInv
<1>1. PICK way \in Ways[Top][0] :
             /\ WayOf(Top, 0, way)
             /\ \A l \in Leaves : leaf[l] = IF l \in way.parks THEN "parked" ELSE "none"
             /\ \A f \in Frames :
                  /\ (~\E j \in way.joins : j[1] = f) => join[f] = NoJoin
                  /\ (\E j \in way.joins : j[1] = f) =>
                       /\ ArmsLeft(way, f) # {} /\ join[f].closedBy = Nobody
                       /\ join[f].pending = IF f \in Races THEN 1 ELSE Cardinality(ArmsLeft(way, f))
             /\ export = [b \in Bodies |-> IF b \in way.keeps THEN "kept" ELSE NoExport]
  BY InitIs
<1>2. job = [w \in Workers |-> Idle] /\ past = [f \in Frames |-> 0] /\ owed = {} /\ lease = Nobody
  BY DEF Init
<1>3. \A w \in Workers : job[w].of = Nobody /\ ~InSegment(w)
  BY <1>2, IdleIs DEF InSegment
<1>4. \A w \in Workers : JobOf(w) /\ Holding(w)
  BY <1>2, <1>3, NobodyIs DEF JobOf, Holding, Holds
<1>5. \A x \in Points : Live(x) => x \in way.parks
  BY <1>1, <1>2 DEF Live, Drainable
<1>6. NoJoin.closedBy = Nobody /\ NoJoin.pending = -1
  BY DEF NoJoin
<1>7. \A f \in Frames : join[f].closedBy = Nobody
  BY <1>1, <1>6
<1>8. ASSUME NEW y \in Points, Touched(y) PROVE y \in way.parks \/ (y \in Frames /\ \E l \in way.parks : In(l, Arms[y]))
  <2>1. \A b \in Bodies : export[b] # "decremented"
    BY <1>1 DEF NoExport
  <2>2. Live(y) \/ (y \in Frames /\ join[y] # NoJoin)
    BY <1>2, <1>3, <1>7, <1>8, <2>1, ArmsIn, NobodyIs DEF Touched
  <2>3. CASE y \in Frames /\ join[y] # NoJoin
    <3>1. ArmsLeft(way, y) # {}
      BY <1>1, <2>3
    <3> QED BY <2>3, <3>1, InOne DEF ArmsLeft
  <2> QED BY <1>5, <1>8, <2>2, <2>3
<1>9. Fresh
  <2> SUFFICES ASSUME NEW x \in Points, NEW q \in Points, NEW y \in Points, Live(x), Ahead(x, q), After(q, y), Touched(y) PROVE FALSE
    BY DEF Fresh
  <2>1. x \in way.parks /\ Under(x, q)
    BY <1>5 DEF Ahead
  <2>2. \A l, m \in way.parks : \A p \in Points : Under(l, p) => ~After(p, m)
    BY <1>1 DEF WayOf, Goes
  <2>3. PICK m \in way.parks : Under(m, y)
    BY <1>8, UnderSelf DEF Under
  <2>4. m \in Points
    BY <1>1, <2>3, WayFields, PointsAre DEF WayOf
  <2> QED BY <2>1, <2>2, <2>3, <2>4, AfterUnder
<1>10. RacesPast /\ AllsPast /\ PassedOnce
  BY <1>2, PointsAre DEF RacesPast, AllsPast, PassedOnce
<1>11. Closed
  <2> SUFFICES ASSUME NEW f \in Frames, join[f].pending = -1, join[f] # NoJoin PROVE FALSE
    BY <1>7 DEF Closed
  <2>1. join[f].pending = IF f \in Races THEN 1 ELSE Cardinality(ArmsLeft(way, f))
    BY <1>1
  <2>2. Cardinality(ArmsLeft(way, f)) \in Nat
    <3>1. ArmsLeft(way, f) \subseteq Bodies
      BY TreeAssumption DEF ArmsLeft
    <3> QED BY <3>1, TreeAssumption, FS_Subset, FS_CardinalityType
  <2> QED BY <2>1, <2>2
<1> QED BY <1>0, <1>4, <1>9, <1>10, <1>11 DEF PassInv

\* Every step keeps it.
LEMMA PassStep ==
    ASSUME NoRaceInRace, PassInv, [Next]_vars, TypeInv'
    PROVE  PassInv'
<1>0. TypeOK /\ TypeInv /\ TypeOK' /\ \A u \in Workers : JobOf(u) /\ Holding(u)
  BY DEF PassInv, TypeInv
<1>1. ASSUME NEW w \in Workers, Only(w), JobOf(w)', Holding(w)', lease' = lease \/ lease' = Nobody \/ lease' = w,
             Holds(w) \/ lease = Nobody \/ Spares(w)
      PROVE  \A u \in Workers : JobOf(u)' /\ Holding(u)'
  <2> SUFFICES ASSUME NEW u \in Workers, u # w PROVE JobOf(u)' /\ Holding(u)'
    BY <1>1
  <2>1. JobOf(u)'
    BY <1>0, <1>1 DEF Only, JobOf, InSegment
  <2>2. Holding(u)'
    BY <1>0, <1>1, HoldingOther
  <2> QED BY <2>1, <2>2
<1>2. ASSUME NEW w \in Workers, Only(w), JobOf(w)', Holding(w)', lease' = lease \/ lease' = Nobody \/ lease' = w,
             Holds(w) \/ lease = Nobody \/ Spares(w), Lessens(w)
      PROVE  PassInv'
  <2>1. \A u \in Workers : JobOf(u)' /\ Holding(u)'
    BY <1>1, <1>2
  <2>2. Fresh' /\ RacesPast' /\ AllsPast' /\ Closed' /\ PassedOnce'
    BY <1>0, <1>2, LessPasses DEF PassInv
  <2> QED BY <2>1, <2>2 DEF PassInv
<1>3. ASSUME NEW w \in Workers, NEW todo \in SUBSET Leaves, Drain(w, todo) PROVE PassInv'
  <2>1. Only(w) /\ lease = Nobody /\ lease' = w
    BY <1>0, <1>3, DrainDoes
  <2> QED BY <1>2, <1>3, <2>1, DrainPass
<1>4. ASSUME NEW w \in Workers, ClaimLeaf(w) PROVE PassInv'
  <2>1. Only(w) /\ Holds(w) /\ lease' = lease
    BY <1>0, <1>4, ClaimDoes DEF TypeInv
  <2> QED BY <1>2, <1>4, <2>1, ClaimPass
<1>5. ASSUME NEW w \in Workers, SettleRace(w) PROVE PassInv'
  <2>1. Only(w) /\ Holds(w) /\ lease' = lease
    BY <1>0, <1>5, SettleDoes DEF TypeInv
  <2> QED BY <1>2, <1>5, <2>1, SettlePass
<1>6. ASSUME NEW w \in Workers, WithdrawLeaves(w) PROVE PassInv'
  <2>1. Only(w) /\ lease' = lease
    BY <1>0, <1>6, WithdrawLeavesDoes
  <2> QED BY <1>2, <1>6, <2>1, WithdrawLeavesPass
<1>7. ASSUME NEW w \in Workers, WithdrawFrames(w) PROVE PassInv'
  <2>1. Only(w) /\ lease' = lease
    BY <1>0, <1>7, WithdrawFramesDoes
  <2> QED BY <1>2, <1>7, <2>1, WithdrawFramesPass
<1>8. ASSUME NEW w \in Workers, Keep(w) PROVE PassInv'
  <2>1. Only(w) /\ lease' = lease
    BY <1>0, <1>8, KeepDoes
  <2> QED BY <1>2, <1>8, <2>1, KeepPass
<1>9. ASSUME NEW w \in Workers, Export(w) PROVE PassInv'
  <2>1. Only(w) /\ lease' = lease
    BY <1>0, <1>9, ExportDoes
  <2> QED BY <1>2, <1>9, <2>1, ExportPass
<1>10. ASSUME NEW w \in Workers, Decrement(w) PROVE PassInv'
  <2>1. Only(w) /\ lease' = lease
    BY <1>0, <1>10, DecrementDoes
  <2> QED BY <1>2, <1>10, <2>1, DecrementPass
<1>11. ASSUME NEW w \in Workers, Judge(w) PROVE PassInv'
  <2>1. Only(w) /\ lease' = lease
    BY <1>0, <1>11, JudgeDoes
  <2> QED BY <1>2, <1>11, <2>1, JudgePass
<1>12. ASSUME NEW w \in Workers, Commit(w) PROVE PassInv'
  <2>1. Only(w) /\ Holds(w) /\ lease' = lease
    BY <1>0, <1>12, CommitDoes
  <2>2. JobOf(w)' /\ Holding(w)' /\ Fresh' /\ RacesPast' /\ AllsPast' /\ Closed' /\ PassedOnce'
    BY <1>12, CommitPass
  <2>3. \A u \in Workers : JobOf(u)' /\ Holding(u)'
    BY <1>1, <2>1, <2>2
  <2> QED BY <2>2, <2>3 DEF PassInv
<1>13. ASSUME NEW w \in Workers, CommitRefused(w) \/ LoseRun(w) PROVE PassInv'
  <2>1. Only(w) /\ job'[w] = Idle /\ ~Holds(w) /\ UNCHANGED <<status, leaf, join, export, owed, lease, plan, past, open, left>>
    BY <1>0, <1>13, LeaveDoes
  <2>2. Spares(w)
    BY <2>1 DEF Spares
  <2>3. lease' # w
    BY <2>1 DEF Holds
  <2>4. JobOf(w)' /\ Holding(w)' /\ Lessens(w)
    BY <1>0, <2>1, <2>3, IdlePass
  <2> QED BY <1>2, <2>1, <2>2, <2>4
<1>14. ASSUME NEW w \in Workers, FailRun(w) PROVE PassInv'
  <2>1. /\ Only(w) /\ job'[w] = Idle /\ past' = past
        /\ lease' = IF Holds(w) THEN Nobody ELSE lease
        /\ (Holds(w) /\ Gone) \/ (~Holds(w) /\ UNCHANGED <<leaf, join, export, owed>>)
    BY <1>0, <1>14, FailDoes
  <2>2. Holds(w) \/ Spares(w)
    BY <2>1 DEF Spares
  <2>3. lease' # w
    BY <2>1, NobodyIs DEF Holds
  <2>4. JobOf(w)' /\ Holding(w)' /\ Lessens(w)
    BY <1>0, <2>1, <2>3, IdlePass
  <2> QED BY <1>2, <2>1, <2>2, <2>4
<1>15. ASSUME NEW w \in Workers, EndDrain(w) PROVE PassInv'
  <2>1. /\ Only(w) /\ job'[w] = Idle /\ past' = past /\ Holds(w) /\ lease' = Nobody
        /\ Gone \/ UNCHANGED <<leaf, join, export, owed>>
    BY <1>0, <1>15, EndDrainDoes
  <2>2. lease' # w
    BY <2>1, NobodyIs
  <2>3. JobOf(w)' /\ Holding(w)' /\ Lessens(w)
    BY <1>0, <2>1, <2>2, IdlePass
  <2> QED BY <1>2, <2>1, <2>3
<1>16. ASSUME NEW w \in Workers, Crash(w) PROVE PassInv'
  <2>1. /\ Only(w) /\ job'[w] = Idle /\ UNCHANGED <<status, leaf, join, export, owed, past, open>>
        /\ lease' = (IF Holds(w) THEN Nobody ELSE lease)
    BY <1>0, <1>16, CrashDoes
  <2>2. Spares(w)
    BY <2>1 DEF Spares
  <2>3. lease' # w
    BY <2>1, NobodyIs DEF Holds
  <2>4. JobOf(w)' /\ Holding(w)' /\ Lessens(w)
    BY <1>0, <2>1, <2>3, IdlePass
  <2> QED BY <1>2, <2>1, <2>2, <2>4
<1>17. ASSUME NEW w \in Workers, Stall(w) PROVE PassInv'
  <2>1. lease' = Nobody /\ UNCHANGED <<status, leaf, join, export, owed, job, plan, past, open>>
    BY <1>0, <1>17, StallDoes
  <2>2. \A u \in Workers : JobOf(u)' /\ Holding(u)'
    BY <1>0, <2>1, NobodyIs DEF JobOf, Holding, Holds, InSegment
  <2>3. Fresh' /\ RacesPast' /\ AllsPast' /\ Closed' /\ PassedOnce'
    BY <2>1 DEF PassInv, Fresh, Ahead, Touched, Live, Drainable, RacesPast, AllsPast, Closed, PassedOnce
  <2> QED BY <2>2, <2>3 DEF PassInv
<1>18. CASE UNCHANGED vars
  <2>1. lease' = lease /\ UNCHANGED <<status, leaf, join, export, owed, job, plan, past, open>>
    BY <1>18 DEF vars
  <2>2. \A u \in Workers : JobOf(u)' /\ Holding(u)'
    BY <1>0, <2>1 DEF JobOf, Holding, Holds, InSegment, Live, Drainable
  <2>3. Fresh' /\ RacesPast' /\ AllsPast' /\ Closed' /\ PassedOnce'
    BY <2>1 DEF PassInv, Fresh, Ahead, Touched, Live, Drainable, RacesPast, AllsPast, Closed, PassedOnce
  <2> QED BY <2>2, <2>3 DEF PassInv
<1> QED BY <1>3, <1>4, <1>5, <1>6, <1>7, <1>8, <1>9, <1>10, <1>11, <1>12, <1>13, <1>14, <1>15, <1>16, <1>17, <1>18, StepsAre, Zenon

\* What goes on past a frame is kept once, whoever dies and whichever lease
\* lapses under a process that goes on, where no race is in an arm of a race.
THEOREM OncePassed ==
    ASSUME NoRaceInRace
    PROVE  Spec => []PassedOnce
<1>1. Init => PassInv
  BY InitPass
<1>2. PassInv /\ [Next]_vars /\ TypeInv' => PassInv'
  BY PassStep
<1>3. PassInv => PassedOnce
  BY DEF PassInv
<1> QED BY <1>1, <1>2, <1>3, TypeInvHolds, PTL DEF Spec

-----------------------------------------------------------------------------
(* Nothing is left behind in a frame gone past. *)

\* No lease lapses under a process that goes on.
NoStalls == "stall" \notin Faults

\* f has a row.
Recd(f) == join[f] # NoJoin

\* The arms of f whose export is not in, or that something may go on in.
Left(f) == {b \in Arms[f] : export[b] = NoExport \/ b \in Waiting(f)}

\* Only the process that holds the run does anything.
Alone == \A w \in Workers : ~At(w, "idle") => Holds(w)

\* An `all` waits for at least those.
LeftCounted == \A f \in Alls : Recd(f) => Cardinality(Left(f)) <= join[f].pending

\* What may go on is in frames whose join is kept.
LiveRecorded == \A x \in Points : Live(x) => \A f \in Frames : Under(x, f) => Recd(f)

\* The exports a segment's joins count on are in, or are kept before it ends.
JoinsKept(w) == InSegment(w) =>
    /\ job[w].step \notin {"run", "frames"} => job[w].way.keeps = {}
    /\ \A j \in job[w].way.joins : j[1] \in Alls =>
         \A a \in Arms[j[1]] : a \in ArmsLeft(job[w].way, j[1]) \cup job[w].way.keeps \/ export[a] # NoExport

\* A segment went on past every frame from what it is of to where it is.
Chain(w) == InSegment(w) =>
    /\ \A f \in Frames : Under(job[w].of, f) /\ Under(f, job[w].at) => f \in job[w].passed
    /\ \A f \in job[w].passed \cap Alls : Recd(f) /\ join[f].closedBy = job[w].of

\* The inductive invariant under NoneLeftBehind and ClosesWithAllIn.
LeftInv == Alone /\ LeftCounted /\ LiveRecorded /\ \A w \in Workers : JoinsKept(w) /\ Chain(w)

\* A set of bodies is finite, and a part of it has no more of them.
LEMMA CardLess ==
    ASSUME NEW S \in SUBSET Bodies, NEW T \in SUBSET S
    PROVE  /\ IsFiniteSet(S) /\ Cardinality(S) \in Nat /\ Cardinality(T) \in Nat /\ Cardinality(T) <= Cardinality(S)
           /\ (Cardinality(S) = 0 => S = {})
<1>1. IsFiniteSet(S)
  BY TreeAssumption, FS_Subset
<1> QED BY <1>1, FS_Subset, FS_CardinalityType, FS_EmptySet

\* What an `all` has left is bodies.
LEMMA LeftIn == ASSUME NEW f \in Frames PROVE Left(f) \in SUBSET Bodies
BY TreeAssumption DEF Left

\* The arms an `all` has left: with no export in, or not decremented and with
\* something to go on from.
LEMMA LeftIs ==
    ASSUME NEW f \in Frames
    PROVE  \A b : b \in Left(f) <=> b \in Arms[f] /\ (export[b] = NoExport \/ (export[b] # "decremented" /\ \E x : Live(x) /\ In(x, {b})))
BY DEF Left, Waiting, Live

\* The same, after a step.
LEMMA LeftIsNext ==
    ASSUME NEW f \in Frames
    PROVE  \A b : b \in Left(f)' <=> b \in Arms[f] /\ (export'[b] = NoExport \/ (export'[b] # "decremented" /\ \E x : Live(x)' /\ In(x, {b})))
BY DEF Left, Waiting, Live, Drainable

\* A segment that runs alone comes on nothing past where it is.
LEMMA NothingAfter ==
    ASSUME PassInv, NEW w \in Workers, InSegment(w), Holds(w), NEW y \in Points, After(job[w].at, y)
    PROVE  ~Touched(y)
<1>0. TypeInv /\ TypeOK /\ JobOf(w) /\ Holding(w) /\ JobIs(w)
  BY DEF PassInv, TypeInv
<1>1. job[w].of \in Points /\ job[w].at \in Points /\ job[w].of \in Leaves \cup Races
  BY <1>0, PointsAre DEF JobIs
<1>2. Live(job[w].of) /\ (\A f \in job[w].passed : past[f] = 0)
  BY <1>0 DEF Holding
<1>3. /\ Under(job[w].of, job[w].at) /\ job[w].passed \cap Races = {job[w].of} \ Leaves
      /\ (job[w].at # job[w].of => job[w].at \in job[w].passed)
  BY <1>0 DEF JobOf
<1>4. Ahead(job[w].of, job[w].at)
  BY <1>1, <1>2, <1>3, NobodyIs, PointsAre DEF Ahead
<1> QED BY <1>1, <1>2, <1>4 DEF PassInv, Fresh

\* What a segment withdraws that is live or kept is in the race it settles.
LEMMA LosersOf ==
    ASSUME PassInv, NEW w \in Workers, InSegment(w), Holds(w), NEW x \in Points, Touched(x), In(x, Losers(w))
    PROVE  /\ job[w].of \in Races /\ job[w].losers = Arms[job[w].of] /\ Losers(w) = Arms[job[w].of] /\ job[w].at = job[w].of
           /\ In(x, Arms[job[w].of])
<1>0. TypeInv /\ TypeOK /\ JobOf(w) /\ JobIs(w)
  BY DEF PassInv, TypeInv
<1>1. CASE job[w].losers # {}
  BY <1>0, <1>1, LosersAre DEF JobOf
<1>2. CASE job[w].losers = {}
  <2>1. In(x, job[w].way.drops)
    BY <1>2 DEF Losers, In
  <2>2. PICK a \in job[w].way.drops : In(x, {a})
    BY <2>1, InOne
  <2>3. GoesOn(job[w].at, job[w].way) /\ job[w].way \in Way
    BY <1>0, StateIs, JobFields DEF JobIs
  <2>4. a \in Bodies /\ a # Top /\ After(job[w].at, FrameOf(a))
    BY <2>2, <2>3, WayFields DEF GoesOn, Goes, Again, After
  <2>5. FrameOf(a) \in Points /\ Under(x, FrameOf(a))
    BY <2>2, <2>4, FrameOfArm, InOne DEF Under
  <2>6. After(job[w].at, x)
    BY <2>4, <2>5, AfterUnder
  <2> QED BY <2>6, NothingAfter
<1> QED BY <1>1, <1>2

\* A step of the process that holds the run, or takes it, leaves it alone.
LEMMA AloneNext ==
    ASSUME TypeOK, Alone, NEW w \in Workers, Only(w), ~At(w, "idle") \/ lease = Nobody,
           lease' = w \/ (job'[w].step = "idle")
    PROVE  Alone'
<1> SUFFICES ASSUME NEW u \in Workers, job'[u].step # "idle" PROVE lease' = u
  BY DEF Alone, At, Holds
<1>1. CASE u = w
  BY <1>1
<1>2. CASE u # w
  <2>1. job[u].step # "idle"
    BY <1>2 DEF Only
  <2>2. lease = u
    BY <2>1 DEF Alone, At, Holds
  <2>3. ~(~At(w, "idle"))
    BY <1>2, <2>2 DEF Alone, Holds
  <2> QED BY <2>2, <2>3, NobodyIs
<1> QED BY <1>1, <1>2

\* A step that leaves the exports, or keeps one, and brings nothing to go on.
LEMMA LeftSame ==
    ASSUME TypeOK, TypeOK', LeftCounted, LiveRecorded, \A x \in Points : Live(x)' => Live(x),
           \A f \in Frames : join'[f] = join[f], \A f \in Frames : \A b \in Arms[f] : export'[b] = export[b] \/ export[b] = NoExport
    PROVE  LeftCounted' /\ LiveRecorded'
<1>1. ASSUME NEW f \in Alls, join'[f] # NoJoin PROVE Cardinality(Left(f)') <= join'[f].pending
  <2>1. f \in Frames /\ join[f] # NoJoin /\ join'[f] = join[f]
    BY <1>1, PointsAre
  <2>2. Left(f)' \subseteq Left(f)
    <3> SUFFICES ASSUME NEW b \in Left(f)' PROVE b \in Left(f)
      OBVIOUS
    <3>1. b \in Arms[f] /\ (export'[b] = NoExport \/ (export'[b] # "decremented" /\ \E x : Live(x)' /\ In(x, {b})))
      BY <2>1, LeftIsNext
    <3>2. \A x : Live(x)' => Live(x)
      BY LiveInNext
    <3> QED BY <2>1, <3>1, <3>2, LeftIs
  <2>3. Cardinality(Left(f)) <= join[f].pending
    BY <2>1 DEF LeftCounted, Recd
  <2>4. join[f].pending \in Nat \cup {-1}
    BY <2>1, StateIs
  <2> QED BY <2>1, <2>2, <2>3, <2>4, LeftIn, CardLess
<1> QED BY <1>1 DEF LeftCounted, LiveRecorded, Recd

\* What the others are at stays.
LEMMA LeftOthers ==
    ASSUME NEW w \in Workers, Only(w), Alone, ~At(w, "idle") \/ lease = Nobody, JoinsKept(w)', Chain(w)'
    PROVE  \A u \in Workers : JoinsKept(u)' /\ Chain(u)'
<1> SUFFICES ASSUME NEW u \in Workers, u # w PROVE ~InSegment(u)'
  BY DEF JoinsKept, Chain
<1>1. At(u, "idle")
  BY NobodyIs DEF Alone, Holds
<1> QED BY <1>1 DEF Only, InSegment, At

\* Drain keeps what is left counted.
LEMMA DrainLeft ==
    ASSUME PassInv, LeftInv, TypeOK', NEW w \in Workers, NEW todo \in SUBSET Leaves, Drain(w, todo)
    PROVE  LeftInv'
<1>0. TypeOK /\ Lessens(w)
  BY DrainPass DEF PassInv, TypeInv
<1>1. /\ Only(w) /\ lease = Nobody /\ lease' = w /\ job'[w].step = "next" /\ UNCHANGED <<join, export>>
  BY <1>0, DrainDoes
<1>2. Alone'
  BY <1>0, <1>1, AloneNext DEF LeftInv
<1>3. LeftCounted' /\ LiveRecorded'
  BY <1>0, <1>1, LeftSame DEF LeftInv, Lessens
<1>4. JoinsKept(w)' /\ Chain(w)'
  BY <1>1 DEF JoinsKept, Chain, InSegment
<1> QED BY <1>1, <1>2, <1>3, <1>4, LeftOthers DEF LeftInv

\* So does ClaimLeaf.
LEMMA ClaimLeft ==
    ASSUME PassInv, LeftInv, TypeOK', NEW w \in Workers, ClaimLeaf(w)
    PROVE  LeftInv'
<1>0. TypeOK /\ PlansGo /\ Lessens(w) /\ JobOf(w) /\ Chain(w) /\ JoinsKept(w)
  BY ClaimPass DEF PassInv, TypeInv, LeftInv
<1>1. Only(w) /\ At(w, "next") /\ Holds(w) /\ UNCHANGED <<status, join, export, owed, lease, past, open>>
  BY <1>0, ClaimDoes
<1>2. Alone'
  BY <1>0, <1>1, AloneNext DEF LeftInv, Holds, At
<1>3. LeftCounted' /\ LiveRecorded'
  BY <1>0, <1>1, LeftSame DEF LeftInv, Lessens
<1>4. JoinsKept(w)' /\ Chain(w)'
  <2>1. CASE \E l \in Leaves : \E way \in Way :
                   /\ KeepsRest(way)
                   /\ job'[w].step = "run" /\ job'[w].of = l /\ job'[w].at = l /\ job'[w].way = way /\ job'[w].passed = {}
    <3>1. PICK l \in Leaves, way \in Way :
                   /\ KeepsRest(way)
                   /\ job'[w].step = "run" /\ job'[w].of = l /\ job'[w].at = l /\ job'[w].way = way /\ job'[w].passed = {}
      BY <2>1
    <3>2. JoinsKept(w)'
      BY <3>1 DEF JoinsKept, KeepsRest
    <3>3. \A f \in Frames : ~(Under(l, f) /\ Under(f, l))
      BY UnderAntisym, PointsAre, NobodyIs
    <3>4. Chain(w)'
      BY <3>1, <3>3 DEF Chain
    <3> QED BY <3>2, <3>4
  <2>2. CASE job'[w].step = job[w].step
    BY <1>1, <2>2 DEF JoinsKept, Chain, InSegment, At
  <2> QED BY <1>0, <2>1, <2>2, ClaimDoes
<1> QED BY <1>1, <1>2, <1>3, <1>4, LeftOthers DEF LeftInv, At

\* So does SettleRace.
LEMMA SettleLeft ==
    ASSUME PassInv, LeftInv, TypeOK', NEW w \in Workers, SettleRace(w)
    PROVE  LeftInv'
<1>0. TypeOK /\ PlansGo /\ Lessens(w)
  BY SettlePass DEF PassInv, TypeInv
<1>1. Only(w) /\ At(w, "next") /\ Holds(w) /\ UNCHANGED <<status, leaf, join, export, owed, lease, past, open, left>>
  BY <1>0, SettleDoes
<1>2. Alone'
  BY <1>0, <1>1, AloneNext DEF LeftInv, Holds, At
<1>3. LeftCounted' /\ LiveRecorded'
  BY <1>0, <1>1, LeftSame DEF LeftInv, Lessens
<1>4. PICK f \in owed, way \in Way :
                   /\ f \in Races /\ KeepsRest(way)
                   /\ job'[w].step = "run" /\ job'[w].of = f /\ job'[w].at = f /\ job'[w].way = way /\ job'[w].passed = {f}
  BY <1>0, SettleDoes
<1>5. f \in Points /\ f \notin Alls
  BY <1>4, PointsAre, NobodyIs
<1>6. JoinsKept(w)'
  BY <1>4 DEF JoinsKept, KeepsRest
<1>7. \A g \in Frames : Under(f, g) /\ Under(g, f) => g = f
  BY <1>5, UnderAntisym, PointsAre
<1>8. Chain(w)'
  BY <1>4, <1>5, <1>7 DEF Chain
<1> QED BY <1>1, <1>2, <1>3, <1>6, <1>8, LeftOthers DEF LeftInv, At

\* So does WithdrawLeaves.
LEMMA WithdrawLeavesLeft ==
    ASSUME PassInv, LeftInv, TypeOK', NEW w \in Workers, WithdrawLeaves(w)
    PROVE  LeftInv'
<1>0. TypeOK /\ Lessens(w) /\ JoinsKept(w) /\ Chain(w)
  BY WithdrawLeavesPass DEF PassInv, TypeInv, LeftInv
<1>1. /\ Only(w) /\ At(w, "run") /\ UNCHANGED <<status, join, export, owed, lease, plan, past, open, left>>
      /\ job'[w].step = "frames" /\ job'[w].of = job[w].of
      /\ job'[w].at = job[w].at /\ job'[w].way = job[w].way /\ job'[w].passed = job[w].passed
  BY <1>0, WithdrawLeavesDoes
<1>2. Holds(w) /\ InSegment(w)
  BY <1>1 DEF LeftInv, Alone, At, InSegment
<1>3. Alone'
  BY <1>0, <1>1, <1>2, AloneNext DEF LeftInv, Holds, At
<1>4. LeftCounted' /\ LiveRecorded'
  BY <1>0, <1>1, LeftSame DEF LeftInv, Lessens
<1>5. JoinsKept(w)'
  BY <1>0, <1>1, <1>2 DEF JoinsKept
<1>6. Chain(w)'
  BY <1>0, <1>1, <1>2 DEF Chain, Recd
<1> QED BY <1>1, <1>3, <1>4, <1>5, <1>6, LeftOthers DEF LeftInv, At

\* So does WithdrawFrames.
LEMMA WithdrawFramesLeft ==
    ASSUME NoRaceInRace, PassInv, LeftInv, TypeOK', NEW w \in Workers, WithdrawFrames(w)
    PROVE  LeftInv'
<1>0. TypeOK /\ TypeInv /\ Lessens(w) /\ JoinsKept(w) /\ Chain(w) /\ JobOf(w) /\ Holding(w)
  BY WithdrawFramesPass DEF PassInv, TypeInv, LeftInv
<1>1. /\ Only(w) /\ At(w, "frames") /\ UNCHANGED <<status, leaf, lease, plan, past, left>>
      /\ \A f \in Frames : join'[f] = IF f \in Dead(w) THEN NoJoin ELSE join[f]
      /\ \A f \in Frames : \A b \in Arms[f] : export'[b] = IF f \in Dead(w) THEN NoExport ELSE export[b]
      /\ owed' = owed \ Dead(w)
      /\ job'[w].step = "run" /\ job'[w].of = job[w].of
      /\ job'[w].at = job[w].at /\ job'[w].passed = job[w].passed
      /\ job'[w].way \in Way /\ job'[w].way.parks = job[w].way.parks /\ job'[w].way.joins = job[w].way.joins
      /\ job'[w].way.keeps = job[w].way.keeps
  BY <1>0, WithdrawFramesDoes
<1>2. Holds(w) /\ InSegment(w)
  BY <1>1 DEF LeftInv, Alone, At, InSegment
<1>3. Alone'
  BY <1>0, <1>1, <1>2, AloneNext DEF LeftInv, Holds, At
\* What is withdrawn is in the race the segment settles, and nothing in it goes on.
<1>4. ASSUME NEW f \in Dead(w)
      PROVE  f \in Frames /\ f \in Points /\ job[w].of \in Races /\ In(f, Arms[job[w].of]) /\ job[w].at = job[w].of /\ Touched(f)
  <2>1. f \in Frames /\ f \in Points /\ In(f, Losers(w)) /\ Touched(f)
    BY PointsAre DEF Dead, Recorded, Touched
  <2> QED BY <1>2, <2>1, LosersOf
<1>5. ASSUME NEW f \in Dead(w), NEW x \in Points, Live(x), Under(x, f) PROVE FALSE
  <2>1. f \in Frames /\ f \in Points /\ job[w].of \in Races /\ In(f, Arms[job[w].of])
    BY <1>4, <1>5
  <2>2. In(x, Arms[job[w].of])
    BY <1>5, <2>1, UnderIn
  <2>3. x \notin Races
    BY <2>1, <2>2 DEF NoRaceInRace
  <2>4. x \in Leaves /\ leaf[x] # "none"
    BY <1>0, <1>5, <2>3, LiveIn DEF Live, Drainable, TypeOK
  <2> QED BY <1>0, <1>1, <1>2, <2>1, <2>2, <2>4 DEF Holding, At
<1>6. LiveRecorded'
  <2> SUFFICES ASSUME NEW x \in Points, Live(x)', NEW f \in Frames, Under(x, f) PROVE join'[f] # NoJoin
    BY DEF LiveRecorded, Recd
  <2>1. Live(x)
    BY <1>0 DEF Lessens
  <2> QED BY <1>1, <1>5, <2>1 DEF LeftInv, LiveRecorded, Recd
<1>7. ASSUME NEW f \in Alls, join'[f] # NoJoin PROVE Cardinality(Left(f)') <= join'[f].pending
  <2>1. f \in Frames /\ f \notin Dead(w) /\ join[f] # NoJoin /\ join'[f] = join[f] /\ \A b \in Arms[f] : export'[b] = export[b]
    BY <1>1, <1>7, PointsAre
  <2>2. Left(f)' \subseteq Left(f)
    <3> SUFFICES ASSUME NEW b \in Left(f)' PROVE b \in Left(f)
      OBVIOUS
    <3>1. b \in Arms[f] /\ (export'[b] = NoExport \/ (export'[b] # "decremented" /\ \E x : Live(x)' /\ In(x, {b})))
      BY <2>1, LeftIsNext
    <3>2. \A x : Live(x)' => Live(x)
      BY <1>0, LiveInNext DEF Lessens
    <3> QED BY <2>1, <3>1, <3>2, LeftIs
  <2>3. Cardinality(Left(f)) <= join[f].pending
    BY <2>1 DEF LeftInv, LeftCounted, Recd
  <2>4. join[f].pending \in Nat \cup {-1}
    BY <1>0, <2>1, StateIs
  <2> QED BY <2>1, <2>2, <2>3, <2>4, LeftIn, CardLess
<1>8. LeftCounted'
  BY <1>7 DEF LeftCounted, Recd
<1>9. JoinsKept(w)'
  <2> SUFFICES ASSUME NEW j \in job[w].way.joins, j[1] \in Alls, NEW a \in Arms[j[1]], a \notin ArmsLeft(job'[w].way, j[1]) \cup job'[w].way.keeps
               PROVE  export'[a] # NoExport
    BY <1>1 DEF JoinsKept
  <2>1. a \notin ArmsLeft(job[w].way, j[1]) \cup job[w].way.keeps
    BY <1>1 DEF ArmsLeft
  <2>2. export[a] # NoExport
    BY <1>0, <1>2, <2>1 DEF JoinsKept
  <2>3. GoesOn(job[w].at, job[w].way) /\ j[1] \in Points /\ j[1] \in Frames
    BY <1>0, <1>2, PointsAre DEF TypeInv, JobIs
  <2>4. After(job[w].at, j[1])
    BY <2>3 DEF GoesOn, Goes, Again, After
  <2>5. j[1] \notin Dead(w)
    BY <1>2, <1>4, <2>3, <2>4, NothingAfter
  <2> QED BY <1>1, <2>2, <2>3, <2>5
<1>10. Chain(w)'
  <2>1. ASSUME NEW f \in job[w].passed \cap Alls PROVE join'[f] # NoJoin /\ join'[f].closedBy = job[w].of
    <3>1. join[f] # NoJoin /\ join[f].closedBy = job[w].of /\ f \in Frames /\ f \in Points
      BY <1>0, <1>2, PointsAre DEF Chain, Recd
    <3>2. Under(job[w].of, f) /\ Under(f, job[w].at)
      BY <1>0, <1>2 DEF JobOf
    <3>3. f \notin Dead(w)
      <4> SUFFICES ASSUME f \in Dead(w) PROVE FALSE
        OBVIOUS
      <4>1. f = job[w].of /\ job[w].of \in Races
        BY <1>4, <3>1, <3>2, UnderAntisym, PointsAre
      <4> QED BY <4>1, NobodyIs
    <3> QED BY <1>1, <3>1, <3>3
  <2>2. \A f \in Frames : Under(job[w].of, f) /\ Under(f, job[w].at) => f \in job[w].passed
    BY <1>0, <1>2 DEF Chain
  <2> QED BY <1>1, <2>1, <2>2 DEF Chain, Recd
<1> QED BY <1>1, <1>3, <1>6, <1>8, <1>9, <1>10, LeftOthers DEF LeftInv, At

\* So does Keep.
LEMMA KeepLeft ==
    ASSUME PassInv, LeftInv, TypeOK', NEW w \in Workers, Keep(w)
    PROVE  LeftInv'
<1>0. TypeOK /\ Lessens(w) /\ JoinsKept(w) /\ Chain(w)
  BY KeepPass DEF PassInv, TypeInv, LeftInv
<1>1. /\ Only(w) /\ At(w, "run") /\ UNCHANGED <<status, leaf, join, owed, lease, plan, past, open, left>>
      /\ job'[w].step = "run" /\ job'[w].of = job[w].of
      /\ job'[w].at = job[w].at /\ job'[w].passed = job[w].passed
      /\ job'[w].way.parks = job[w].way.parks /\ job'[w].way.joins = job[w].way.joins
  BY <1>0, KeepDoes
<1>2. PICK b \in job[w].way.keeps : b \in Bodies /\ export' = Kept(b) /\ job'[w].way.keeps = job[w].way.keeps \ {b}
  BY <1>0, KeepDoes
<1>3. Holds(w) /\ InSegment(w)
  BY <1>1 DEF LeftInv, Alone, At, InSegment
<1>4. Alone'
  BY <1>0, <1>1, <1>3, AloneNext DEF LeftInv, Holds, At
<1>5. \A c \in Bodies : (export'[c] = export[c] \/ export[c] = NoExport) /\ (export[c] # NoExport => export'[c] # NoExport) /\ export'[b] # NoExport
  BY <1>0, <1>2, KeptIs DEF NoExport
<1>6. \A f \in Frames : \A c \in Arms[f] : export'[c] = export[c] \/ export[c] = NoExport
  BY <1>5, ArmsIn
<1>7. LeftCounted' /\ LiveRecorded'
  BY <1>0, <1>1, <1>6, LeftSame DEF LeftInv, Lessens
<1>8. JoinsKept(w)'
  <2> SUFFICES ASSUME NEW j \in job[w].way.joins, j[1] \in Alls, NEW a \in Arms[j[1]], a \notin ArmsLeft(job'[w].way, j[1]) \cup job'[w].way.keeps
               PROVE  export'[a] # NoExport
    BY <1>1 DEF JoinsKept
  <2>1. a \notin ArmsLeft(job[w].way, j[1])
    BY <1>1 DEF ArmsLeft
  <2>2. a \in Bodies
    BY ArmsIn, PointsAre
  <2> QED BY <1>0, <1>2, <1>3, <1>5, <2>1, <2>2 DEF JoinsKept
<1>9. Chain(w)'
  BY <1>0, <1>1, <1>3 DEF Chain, Recd
<1> QED BY <1>1, <1>4, <1>7, <1>8, <1>9, LeftOthers DEF LeftInv, At

\* So does Export.
LEMMA ExportLeft ==
    ASSUME PassInv, LeftInv, TypeOK', NEW w \in Workers, Export(w)
    PROVE  LeftInv'
<1>0. TypeOK /\ TypeInv /\ Lessens(w) /\ JoinsKept(w) /\ Chain(w)
  BY ExportPass DEF PassInv, TypeInv, LeftInv
<1>1. /\ Only(w) /\ Ran(w) /\ UNCHANGED <<status, leaf, join, owed, lease, plan, past, open, left>>
      /\ export' = Kept(Body(w))
      /\ job'[w].step = "decrement" /\ job'[w].of = job[w].of
      /\ job'[w].at = job[w].at /\ job'[w].way = job[w].way /\ job'[w].passed = job[w].passed
  BY <1>0, ExportDoes
<1>2. At(w, "run") /\ Holds(w) /\ InSegment(w) /\ job[w].way.keeps = {}
  BY <1>1 DEF LeftInv, Alone, At, InSegment, Ran
<1>3. Body(w) \in Bodies
  BY <1>0, <1>2, HomeIn DEF Body, TypeInv, JobIs
<1>4. Alone'
  BY <1>0, <1>1, <1>2, AloneNext DEF LeftInv, Holds, At
<1>5. \A c \in Bodies : (export'[c] = export[c] \/ export[c] = NoExport) /\ (export[c] # NoExport => export'[c] # NoExport)
  BY <1>0, <1>1, <1>3, KeptIs DEF NoExport
<1>6. \A f \in Frames : \A c \in Arms[f] : export'[c] = export[c] \/ export[c] = NoExport
  BY <1>5, ArmsIn
<1>7. LeftCounted' /\ LiveRecorded'
  BY <1>0, <1>1, <1>6, LeftSame DEF LeftInv, Lessens
<1>8. JoinsKept(w)'
  BY <1>0, <1>1, <1>2, <1>5, ArmsIn, PointsAre DEF JoinsKept
<1>9. Chain(w)'
  BY <1>0, <1>1, <1>2 DEF Chain, Recd
<1> QED BY <1>1, <1>2, <1>4, <1>7, <1>8, <1>9, LeftOthers DEF LeftInv, At

\* So does Judge.
LEMMA JudgeLeft ==
    ASSUME PassInv, LeftInv, TypeOK', NEW w \in Workers, Judge(w)
    PROVE  LeftInv'
<1>0. TypeOK /\ Lessens(w) /\ JoinsKept(w) /\ Chain(w)
  BY JudgePass DEF PassInv, TypeInv, LeftInv
<1>1. /\ Only(w) /\ (At(w, "judge") \/ (Ran(w) /\ Parks(w)))
      /\ UNCHANGED <<status, leaf, join, export, owed, lease, plan, past, open, left>>
      /\ job'[w].of = job[w].of /\ job'[w].at = job[w].at /\ job'[w].way = job[w].way /\ job'[w].passed = job[w].passed
  BY <1>0, JudgeDoes
<1>2. ~At(w, "idle") /\ Holds(w) /\ InSegment(w)
  BY <1>1 DEF LeftInv, Alone, At, InSegment, Ran
<1>3. job[w].way.keeps = {}
  BY <1>0, <1>1, <1>2 DEF JoinsKept, Ran, At
<1>4. Alone'
  BY <1>0, <1>1, <1>2, AloneNext DEF LeftInv, Holds
<1>7. LeftCounted' /\ LiveRecorded'
  BY <1>0, <1>1, LeftSame DEF LeftInv, Lessens
<1>8. JoinsKept(w)'
  BY <1>0, <1>1, <1>2, <1>3 DEF JoinsKept
<1>9. Chain(w)'
  BY <1>0, <1>1, <1>2 DEF Chain, Recd
<1> QED BY <1>1, <1>2, <1>4, <1>7, <1>8, <1>9, LeftOthers DEF LeftInv

\* So does Decrement: it counts only an arm whose export goes from kept to
\* decremented.
LEMMA DecrementLeft ==
    ASSUME NoRaceInRace, PassInv, LeftInv, TypeOK', NEW w \in Workers, Decrement(w)
    PROVE  LeftInv'
<1>0. TypeOK /\ TypeInv /\ Lessens(w) /\ JoinsKept(w) /\ Chain(w) /\ JobOf(w) /\ Holding(w) /\ At(w, "decrement") /\ InSegment(w)
  BY DecrementPass DEF PassInv, TypeInv, LeftInv, Decrement, At, InSegment
<1>1. PICK b, f, of : b = Body(w) /\ f = FrameOf(b) /\ of = job[w].of
  OBVIOUS
<1>2. /\ f \in Frames /\ f \in Points /\ b \in Arms[f] /\ b \in Bodies /\ of \in Points /\ job[w].at \in Points
      /\ Under(job[w].at, f) /\ Under(of, f) /\ In(of, {b}) /\ of # f /\ job[w].at # f
  BY <1>0, <1>1, OfInArm
<1>3. /\ export'[b] = (IF export[b] = "kept" THEN "decremented" ELSE export[b])
      /\ \A c \in Bodies \ {b} : export'[c] = export[c]
      /\ \A g \in Frames \ {f} : join'[g] = join[g]
      /\ ~Claims(b) => join'[f] = join[f]
      /\ Claims(b) => join'[f] = [pending |-> join[f].pending - 1, closedBy |-> IF join[f].pending = 1 THEN of ELSE join[f].closedBy]
  BY <1>0, <1>1, DecrementCounts
<1>4. /\ Only(w) /\ UNCHANGED <<status, leaf, owed, lease, past, open, left>>
      /\ \/ Closes(b, of) /\ ~LeavesToRun(w, f) /\ WentOn(w, f)
         \/ ~(Closes(b, of) /\ ~LeavesToRun(w, f)) /\ Ended(w, f)
  BY <1>0, <1>1, DecrementDoes
<1>5. Holds(w)
  BY <1>0 DEF LeftInv, Alone, At
<1>6. Live(of) /\ Under(of, job[w].at)
  BY <1>0, <1>1, <1>5 DEF Holding, JobOf
<1>7. Alone'
  BY <1>0, <1>4, <1>5, AloneNext DEF LeftInv, Holds, At
<1>8. \A g \in Frames : join[g].pending \in Nat \cup {-1}
  BY <1>0, StateIs
<1>9. \A x : Live(x)' <=> Live(x)
  BY <1>4 DEF Live, Drainable
<1>10. ASSUME NEW g \in Frames PROVE Left(g)' \subseteq Left(g) /\ (g = f /\ export[b] = "kept" => b \in Left(g) /\ b \notin Left(g)')
  <2>1. Left(g)' \subseteq Left(g)
    <3> SUFFICES ASSUME NEW c \in Left(g)' PROVE c \in Left(g)
      OBVIOUS
    <3>1. c \in Arms[g] /\ (export'[c] = NoExport \/ (export'[c] # "decremented" /\ \E x : Live(x)' /\ In(x, {c})))
      BY LeftIsNext
    <3>2. c \in Bodies
      BY <3>1, ArmsIn
    <3>3. export'[c] = export[c] \/ export'[c] = "decremented"
      BY <1>3, <3>2
    <3> QED BY <1>9, <3>1, <3>3, LeftIs DEF NoExport
  <2>2. ASSUME g = f, export[b] = "kept" PROVE b \in Left(g) /\ b \notin Left(g)'
    <3>1. export'[b] = "decremented"
      BY <1>3, <2>2
    <3>2. b \in Left(g)
      BY <1>2, <1>6, <2>2, LeftIs
    <3> QED BY <2>2, <3>1, <3>2, LeftIsNext DEF NoExport
  <2> QED BY <2>1, <2>2
<1>11. ASSUME NEW g \in Alls, join'[g] # NoJoin PROVE Cardinality(Left(g)') <= join'[g].pending
  <2>1. g \in Frames
    BY PointsAre
  <2>2. Left(g) \in SUBSET Bodies /\ Left(g)' \in SUBSET Left(g)
    BY <1>10, <2>1, LeftIn
  <2>3. CASE g = f /\ Claims(b)
    <3>1. export[b] = "kept" /\ join[f].pending > 0 /\ join'[f].pending = join[f].pending - 1
      BY <1>1, <1>3, <2>3 DEF Claims
    <3>2. join[f] # NoJoin
      BY <3>1 DEF NoJoin
    <3>3. Cardinality(Left(f)) <= join[f].pending
      BY <2>3, <3>2 DEF LeftInv, LeftCounted, Recd
    <3>4. Left(f)' \subseteq Left(f) \ {b} /\ b \in Left(f)
      BY <1>10, <2>1, <2>3, <3>1
    <3>5. IsFiniteSet(Left(f)) /\ Cardinality(Left(f)) \in Nat
      BY <2>2, <2>3, CardLess
    <3>6. Cardinality(Left(f) \ {b}) = Cardinality(Left(f)) - 1 /\ IsFiniteSet(Left(f) \ {b})
      BY <3>4, <3>5, FS_RemoveElement
    <3>7. Cardinality(Left(f)') <= Cardinality(Left(f)) - 1 /\ Cardinality(Left(f)') \in Nat
      BY <3>4, <3>6, FS_Subset, FS_CardinalityType
    <3> QED BY <1>8, <2>1, <2>3, <3>1, <3>3, <3>5, <3>7
  <2>4. CASE ~(g = f /\ Claims(b))
    <3>1. join'[g] = join[g]
      BY <1>3, <2>1, <2>4
    <3>2. Cardinality(Left(g)) <= join[g].pending
      BY <1>11, <3>1 DEF LeftInv, LeftCounted, Recd
    <3>3. Cardinality(Left(g)') <= Cardinality(Left(g)) /\ Cardinality(Left(g)') \in Nat /\ Cardinality(Left(g)) \in Nat
      BY <2>2, CardLess
    <3> QED BY <1>8, <2>1, <3>1, <3>2, <3>3
  <2> QED BY <2>3, <2>4
<1>12. LeftCounted'
  BY <1>11 DEF LeftCounted, Recd
<1>13. \A g \in Frames : join[g] # NoJoin => join'[g] # NoJoin
  <2> SUFFICES ASSUME Claims(b) PROVE join'[f] # NoJoin
    BY <1>3
  <2>1. join[f].pending > 0 /\ join'[f].pending = join[f].pending - 1
    BY <1>1, <1>3 DEF Claims
  <2> QED BY <1>2, <1>8, <2>1 DEF NoJoin
<1>14. LiveRecorded'
  BY <1>9, <1>13 DEF LeftInv, LiveRecorded, Recd
<1>15. \A c \in Bodies : export[c] # NoExport => export'[c] # NoExport
  BY <1>3 DEF NoExport
<1>16. CASE Ended(w, f)
  <2>1. JoinsKept(w)'
    <3>1. job'[w].way = job[w].way /\ job[w].way.keeps = {}
      BY <1>0, <1>16 DEF Ended, JoinsKept, At
    <3> QED BY <1>0, <1>15, <3>1, ArmsIn, PointsAre DEF JoinsKept
  <2>2. ASSUME NEW g \in job[w].passed \cap Alls PROVE join'[g] # NoJoin /\ join'[g].closedBy = of
    <3>1. join[g] # NoJoin /\ join[g].closedBy = of /\ g \in Frames
      BY <1>0, <1>1, PointsAre DEF Chain, Recd
    <3>2. join[g].pending = 0
      BY <1>2, <3>1, NobodyIs DEF PassInv, Closed
    <3>3. join'[g] = join[g]
      BY <1>1, <1>3, <3>1, <3>2 DEF Claims
    <3> QED BY <3>1, <3>3
  <2>3. Chain(w)'
    BY <1>0, <1>1, <1>16, <2>2 DEF Chain, Recd, Ended
  <2> QED BY <1>0, <1>4, <1>7, <1>12, <1>14, <2>1, <2>3, LeftOthers DEF LeftInv, At
<1>17. CASE Closes(b, of) /\ WentOn(w, f)
  <2>1. PICK way \in Way :
          /\ KeepsRest(way) /\ job'[w].step = "run" /\ job'[w].of = of /\ job'[w].at = f /\ job'[w].way = way
          /\ job'[w].passed = job[w].passed \cup {f}
    BY <1>1, <1>17 DEF WentOn
  <2>2. JoinsKept(w)'
    BY <2>1 DEF JoinsKept, KeepsRest
  <2>3. ASSUME NEW g \in job[w].passed \cap Alls, g # f PROVE join'[g] # NoJoin /\ join'[g].closedBy = of
    BY <1>0, <1>1, <1>3, <2>3, PointsAre DEF Chain, Recd
  <2>4. join'[f] # NoJoin /\ join'[f].closedBy = of
    <3>1. CASE Claims(b)
      <4>1. join[f].pending = 1
        BY <1>1, <1>17, <3>1 DEF Closes
      <4> QED BY <1>3, <3>1, <4>1, <1>13, <1>2 DEF NoJoin
    <3>2. CASE ~Claims(b)
      BY <1>1, <1>3, <1>17, <3>2 DEF Closes
    <3> QED BY <3>1, <3>2
  <2>5. ASSUME NEW g \in Frames, Under(of, g), Under(g, f) PROVE g \in job[w].passed \cup {f}
    <3>1. g \in Points
      BY PointsAre
    <3>2. CASE Under(g, job[w].at)
      BY <1>0, <1>1, <2>5, <3>2 DEF Chain
    <3>3. CASE Under(job[w].at, g) /\ g # job[w].at
      <4>1. In(job[w].at, Arms[g])
        BY <3>3 DEF Under
      <4>2. Under(FrameOf(HomeOf(job[w].at)), g)
        BY <1>2, <4>1, UnderParent
      <4>3. Under(f, g)
        BY <1>1, <4>2 DEF Body
      <4> QED BY <1>2, <2>5, <3>1, <4>3, UnderAntisym
    <3>4. CASE g = job[w].at
      BY <3>2, <3>4, UnderSelf
    <3> QED BY <1>2, <1>6, <2>5, <3>1, <3>2, <3>3, <3>4, UnderLinear
  <2>6. Chain(w)'
    BY <2>1, <2>3, <2>4, <2>5 DEF Chain, Recd
  <2> QED BY <1>0, <1>4, <1>7, <1>12, <1>14, <2>2, <2>6, LeftOthers DEF LeftInv, At
<1> QED BY <1>4, <1>16, <1>17

\* So does Commit: a frame it joins counts the arms it left parked, and the
\* exports of the others are in.
LEMMA CommitLeft ==
    ASSUME PassInv, LeftInv, TypeOK', NEW w \in Workers, Commit(w)
    PROVE  LeftInv'
<1> DEFINE of == job[w].of
           at == job[w].at
           v == job[w].way
           owes == job[w].owes
<1>1. /\ TypeInv /\ TypeOK
      /\ of \in Points /\ at \in Points /\ Live(of) /\ Under(of, at) /\ Ahead(of, at)
      /\ Again(at, v) => at = of
      /\ \A f \in owes : f \in Races /\ f \in Points /\ of \in Leaves /\ Under(of, f) /\ v.parks = {}
  BY CommitFacts
<1>2. ~Again(at, v) =>
         /\ Goes(HomeOf(at), PlaceOf(at), v)
         /\ \A l \in v.parks : l \in Points /\ After(at, l)
         /\ \A k \in v.joins : k[1] \in Points /\ k[1] \in Frames /\ After(at, k[1])
  BY CommitFacts
<1>3. \A x \in Points : Live(x)' => Live(x) \/ (x \in v.parks /\ x \in Leaves) \/ x \in owes
  BY CommitLive
<1>4. Again(at, v) => v.parks = {of} /\ v.joins = {}
  BY <1>1 DEF Again
<1>5. /\ Only(w) /\ At(w, "commit") /\ Holds(w) /\ UNCHANGED <<export, lease, left>> /\ job'[w].step = "next"
  BY <1>1, CommitDoes
<1>6. JoinsKept(w) /\ InSegment(w) /\ v.keeps = {}
  BY <1>5 DEF LeftInv, JoinsKept, At, InSegment
<1>7. \A j \in v.joins : j[1] \in Alls => \A a \in Arms[j[1]] : a \in ArmsLeft(v, j[1]) \/ export[a] # NoExport
  BY <1>6 DEF JoinsKept
<1>8. \A f \in Frames :
           /\ (~\E k \in v.joins : k[1] = f) => join'[f] = join[f]
           /\ (\E k \in v.joins : k[1] = f) =>
                /\ join'[f].pending = IF f \in Races THEN 1 ELSE Cardinality(ArmsLeft(v, f))
                /\ join'[f].pending \in Nat \ {0}
  BY CommitJoins
<1> HIDE DEF of, at, v, owes
<1>9. \A y \in Points : After(at, y) => ~Touched(y)
  BY <1>1 DEF PassInv, Fresh
<1>10. \A f \in Frames : (\E k \in v.joins : k[1] = f) \/ join[f] # NoJoin => join'[f] # NoJoin
  BY <1>8 DEF NoJoin
<1>11. ASSUME NEW x \in Points, Live(x)', NEW f \in Frames, Under(x, f) PROVE join'[f] # NoJoin
  <2>1. f \in Points
    BY PointsAre
  <2>2. \A z \in Points : Live(z) /\ Under(z, f) => join'[f] # NoJoin
    BY <1>10 DEF LeftInv, LiveRecorded, Recd
  <2>3. CASE Live(x)
    BY <1>11, <2>2, <2>3
  <2>4. CASE x \in owes
    <3>1. Under(of, f)
      BY <1>1, <1>11, <2>1, <2>4, UnderTrans
    <3> QED BY <1>1, <2>2, <3>1
  <2>5. CASE x \in v.parks /\ Again(at, v)
    BY <1>1, <1>4, <1>11, <2>2, <2>5
  <2>6. CASE x \in v.parks /\ ~Again(at, v)
    <3>1. After(at, x)
      BY <1>2, <2>6
    <3>2. CASE In(at, Arms[f])
      <4>1. Under(at, f)
        BY <3>2 DEF Under
      <4>2. Under(of, f)
        BY <1>1, <2>1, <4>1, UnderTrans
      <4> QED BY <1>1, <2>2, <4>2
    <3>3. CASE After(at, f)
      <4>1. \E k \in v.joins : k[1] = f
        BY <1>2, <1>11, <2>6, <3>3 DEF Goes, After
      <4> QED BY <1>10, <4>1
    <3> QED BY <1>1, <1>11, <2>1, <3>1, <3>2, <3>3, AfterOut
  <2> QED BY <1>3, <1>11, <2>3, <2>4, <2>5, <2>6
<1>12. LiveRecorded'
  BY <1>11 DEF LiveRecorded, Recd
\* An arm of a frame kept before has something to go on from only if it had.
<1>13. ASSUME NEW f \in Frames, join[f] # NoJoin, NEW x \in Points, Live(x)', NEW a \in Arms[f], In(x, {a})
       PROVE  \E z \in Points : Live(z) /\ In(z, {a})
  <2>1. f \in Points /\ Under(x, f) /\ Touched(f)
    BY <1>13, InOne, PointsAre DEF Under, Touched
  <2>2. CASE x \in owes
    <3>1. In(of, {a})
      BY <1>1, <1>13, <2>2, UnderIn
    <3> QED BY <1>1, <3>1
  <2>3. CASE x \in v.parks /\ ~Again(at, v)
    <3>1. After(at, x)
      BY <1>2, <2>3
    <3>2. ~After(at, f)
      BY <1>9, <2>1
    <3>3. In(at, Arms[f])
      BY <1>1, <2>1, <3>1, <3>2, AfterOut
    <3>4. PICK c \in Arms[f] : In(at, {c})
      BY <3>3, InOne
    <3>5. In(x, {c})
      BY <3>1, <3>4, AfterIn
    <3>6. c = a
      BY <1>13, <3>4, <3>5, OneArm
    <3>7. In(of, {a})
      BY <1>1, <3>4, <3>6, UnderIn
    <3> QED BY <1>1, <3>7
  <2>4. CASE x \in v.parks /\ Again(at, v)
    BY <1>1, <1>4, <1>13, <2>4
  <2> QED BY <1>3, <1>13, <2>2, <2>3, <2>4
<1>14. ASSUME NEW f \in Alls, join'[f] # NoJoin PROVE Cardinality(Left(f)') <= join'[f].pending
  <2>1. f \in Frames /\ f \in Points /\ f \notin Races
    BY PointsAre, NobodyIs
  <2>2. \A b : b \in Left(f)' => b \in Arms[f] /\ (export[b] = NoExport \/ (export[b] # "decremented" /\ \E x \in Points : Live(x)' /\ In(x, {b})))
    <3>1. \A x : Live(x)' => x \in Points
      BY LiveInNext
    <3> QED BY <1>5, <2>1, <3>1, LeftIsNext
  <2>3. CASE \E k \in v.joins : k[1] = f
    <3>1. join'[f].pending = Cardinality(ArmsLeft(v, f)) /\ join'[f].pending \in Nat
      BY <1>8, <2>1, <2>3
    <3>2. ~Again(at, v) /\ After(at, f) /\ v.parks # {}
      BY <1>2, <1>4, <2>3 DEF Goes
    <3>3. ASSUME NEW b \in Left(f)' PROVE b \in ArmsLeft(v, f)
      <4>1. CASE export[b] = NoExport
        BY <1>7, <2>2, <2>3, <3>3, <4>1
      <4>2. CASE \E x \in Points : Live(x)' /\ In(x, {b})
        <5>1. PICK x \in Points : Live(x)' /\ In(x, {b})
          BY <4>2
        <5>2. b \in Arms[f] /\ Under(x, f)
          BY <2>1, <2>2, <3>3, <5>1, InOne DEF Under
        <5>3. After(at, x) /\ ~Touched(x)
          BY <1>9, <2>1, <3>2, <5>2, AfterUnder
        <5>4. x \in v.parks
          BY <1>1, <1>3, <3>2, <5>1, <5>3 DEF Touched
        <5> QED BY <5>1, <5>2, <5>4 DEF ArmsLeft
      <4> QED BY <2>2, <3>3, <4>1, <4>2
    <3>4. ArmsLeft(v, f) \in SUBSET Bodies
      BY <2>1, TreeAssumption DEF ArmsLeft
    <3> QED BY <3>1, <3>3, <3>4, CardLess
  <2>4. CASE ~\E k \in v.joins : k[1] = f
    <3>1. join'[f] = join[f] /\ join[f] # NoJoin
      BY <1>8, <1>14, <2>1, <2>4
    <3>2. Left(f)' \subseteq Left(f)
      BY <1>13, <2>1, <2>2, <3>1, LeftIs
    <3>3. Cardinality(Left(f)) <= join[f].pending
      BY <3>1 DEF LeftInv, LeftCounted, Recd
    <3>4. join[f].pending \in Nat \cup {-1}
      BY <1>1, <2>1, StateIs
    <3> QED BY <2>1, <3>1, <3>2, <3>3, <3>4, LeftIn, CardLess
  <2> QED BY <2>3, <2>4
<1>15. LeftCounted'
  BY <1>14 DEF LeftCounted, Recd
<1>16. ~At(w, "idle") /\ lease' = w
  BY <1>5 DEF At, Holds
<1>17. Alone'
  BY <1>1, <1>5, <1>16, AloneNext DEF LeftInv
<1>18. JoinsKept(w)' /\ Chain(w)'
  BY <1>5 DEF JoinsKept, Chain, InSegment
<1> QED BY <1>5, <1>12, <1>15, <1>16, <1>17, <1>18, LeftOthers DEF LeftInv

\* A drain that ends.
LEMMA IdleLeft ==
    ASSUME PassInv, LeftInv, TypeOK', NEW w \in Workers, ~At(w, "idle"), Only(w), job'[w] = Idle,
           Gone \/ UNCHANGED <<leaf, join, export, owed>>
    PROVE  LeftInv'
<1>0. TypeOK
  BY DEF PassInv, TypeInv
<1>1. Alone'
  BY <1>0, IdleIs, AloneNext DEF LeftInv
<1>2. JoinsKept(w)' /\ Chain(w)'
  BY IdleIs DEF JoinsKept, Chain, InSegment
<1>3. LeftCounted' /\ LiveRecorded'
  <2>1. CASE Gone
    <3>1. \A x : ~Live(x)'
      BY <2>1 DEF Gone, Live, Drainable
    <3>2. \A f \in Frames : join'[f] = NoJoin
      BY <2>1 DEF Gone
    <3> QED BY <3>1, <3>2, PointsAre DEF LeftCounted, LiveRecorded, Recd
  <2>2. CASE UNCHANGED <<leaf, join, export, owed>>
    BY <1>0, <2>2, LeftSame DEF LeftInv, Live, Drainable
  <2> QED BY <2>1, <2>2
<1> QED BY <1>1, <1>2, <1>3, LeftOthers DEF LeftInv

\* It is counted at first.
LEMMA InitLeft == ASSUME Init PROVE LeftInv
<1>0. TypeInv /\ TypeOK
  BY InitTypes DEF TypeInv
<1>1. PICK way \in Ways[Top][0] :
             /\ WayOf(Top, 0, way)
             /\ \A l \in Leaves : leaf[l] = IF l \in way.parks THEN "parked" ELSE "none"
             /\ \A f \in Frames :
                  /\ (~\E j \in way.joins : j[1] = f) => join[f] = NoJoin
                  /\ (\E j \in way.joins : j[1] = f) =>
                       /\ ArmsLeft(way, f) # {} /\ join[f].closedBy = Nobody
                       /\ join[f].pending = IF f \in Races THEN 1 ELSE Cardinality(ArmsLeft(way, f))
             /\ export = [b \in Bodies |-> IF b \in way.keeps THEN "kept" ELSE NoExport]
  BY InitIs
<1>2. job = [w \in Workers |-> Idle] /\ owed = {}
  BY DEF Init
<1>3. \A w \in Workers : At(w, "idle") /\ ~InSegment(w)
  BY <1>2, IdleIs DEF InSegment, At
<1>4. \A x : Live(x) => x \in way.parks /\ x \in Points
  BY <1>1, <1>2, PointsAre DEF Live, Drainable
<1>5. KeepsRest(way) /\ Goes(Top, 0, way)
  BY <1>1 DEF WayOf
<1>6. ASSUME NEW f \in Alls, join[f] # NoJoin PROVE Cardinality(Left(f)) <= join[f].pending
  <2>1. f \in Frames /\ f \notin Races
    BY PointsAre, NobodyIs
  <2>2. PICK j \in way.joins : j[1] = f
    BY <1>1, <1>6, <2>1
  <2>3. join[f].pending = Cardinality(ArmsLeft(way, f))
    BY <1>1, <2>1, <2>2
  <2>4. ASSUME NEW b \in Left(f) PROVE b \in ArmsLeft(way, f)
    <3>1. b \in Arms[f] /\ b \in Bodies
      BY <2>1, <2>4, LeftIs, ArmsIn
    <3>2. CASE export[b] = NoExport
      BY <1>1, <1>5, <2>2, <3>1, <3>2 DEF KeepsRest, NoExport
    <3>3. CASE \E x : Live(x) /\ In(x, {b})
      BY <1>4, <3>1, <3>3 DEF ArmsLeft
    <3> QED BY <2>1, <2>4, <3>2, <3>3, LeftIs
  <2>5. ArmsLeft(way, f) \in SUBSET Bodies
    BY <2>1, TreeAssumption DEF ArmsLeft
  <2> QED BY <2>3, <2>4, <2>5, CardLess
<1>7. ASSUME NEW x \in Points, Live(x), NEW f \in Frames, Under(x, f) PROVE join[f] # NoJoin
  <2>1. Top \in Bodies /\ f \in Points
    BY TreeAssumption, PointsAre
  <2>2. Follows(Top, 0, f)
    BY <2>1, InTop, ArmFollows
  <2>3. PICK j \in way.joins : j[1] = f
    BY <1>4, <1>5, <1>7, <2>2 DEF Goes
  <2>4. ArmsLeft(way, f) \in SUBSET Bodies /\ Cardinality(ArmsLeft(way, f)) \in Nat
    <3>1. ArmsLeft(way, f) \in SUBSET Bodies
      BY TreeAssumption DEF ArmsLeft
    <3> QED BY <3>1, CardLess
  <2>5. join[f].pending = IF f \in Races THEN 1 ELSE Cardinality(ArmsLeft(way, f))
    BY <1>1, <2>3
  <2> QED BY <2>4, <2>5 DEF NoJoin
<1> QED BY <1>3, <1>6, <1>7 DEF LeftInv, Alone, LeftCounted, LiveRecorded, JoinsKept, Chain, Recd

\* Every step keeps it, where no lease lapses under a process that goes on.
LEMMA LeftStep ==
    ASSUME NoRaceInRace, NoStalls, PassInv, LeftInv, TypeOK', [Next]_vars
    PROVE  LeftInv'
<1>0. TypeOK /\ TypeInv
  BY DEF PassInv, TypeInv
<1>1. ASSUME NEW w \in Workers, CommitRefused(w) \/ LoseRun(w) PROVE LeftInv'
  <2>1. Only(w) /\ job'[w] = Idle /\ UNCHANGED <<status, leaf, join, export, owed, lease, plan, past, open, left>>
    BY <1>0, <1>1, LeaveDoes
  <2>2. ~At(w, "idle")
    BY <1>1 DEF CommitRefused, LoseRun, At
  <2> QED BY <2>1, <2>2, IdleLeft
<1>2. ASSUME NEW w \in Workers, FailRun(w) PROVE LeftInv'
  <2>1. Only(w) /\ job'[w] = Idle /\ (Gone \/ UNCHANGED <<leaf, join, export, owed>>)
    BY <1>0, <1>2, FailDoes
  <2>2. ~At(w, "idle")
    BY <1>2 DEF FailRun, At
  <2> QED BY <2>1, <2>2, IdleLeft
<1>3. ASSUME NEW w \in Workers, EndDrain(w) PROVE LeftInv'
  <2>1. Only(w) /\ job'[w] = Idle /\ (Gone \/ UNCHANGED <<leaf, join, export, owed>>)
    BY <1>0, <1>3, EndDrainDoes
  <2>2. ~At(w, "idle")
    BY <1>3 DEF EndDrain, At
  <2> QED BY <2>1, <2>2, IdleLeft
<1>4. ASSUME NEW w \in Workers, Crash(w) PROVE LeftInv'
  <2>1. Only(w) /\ job'[w] = Idle /\ ~At(w, "idle") /\ UNCHANGED <<leaf, join, export, owed>>
    BY <1>0, <1>4, CrashDoes
  <2> QED BY <2>1, IdleLeft
<1>5. ASSUME NEW w \in Workers, Stall(w) PROVE LeftInv'
  BY <1>0, <1>5, StallDoes DEF NoStalls
<1>6. CASE UNCHANGED vars
  <2>1. UNCHANGED <<leaf, join, export, owed, job, lease>>
    BY <1>6 DEF vars
  <2>2. LeftCounted' /\ LiveRecorded'
    BY <1>0, <2>1, LeftSame DEF LeftInv, Live, Drainable
  <2> QED BY <2>1, <2>2 DEF LeftInv, Alone, At, Holds, JoinsKept, Chain, InSegment, Recd
<1> QED BY <1>1, <1>2, <1>3, <1>4, <1>5, <1>6, StepsAre, DrainLeft, ClaimLeft, SettleLeft, WithdrawLeavesLeft, WithdrawFramesLeft,
           KeepLeft, ExportLeft, DecrementLeft, JudgeLeft, CommitLeft, Zenon

\* An `all` recorded that waits for no arm has every export in, and nothing goes on in it.
LEMMA NoneLeft ==
    ASSUME TypeOK, LeftCounted, NEW f \in Alls, Recd(f), join[f].pending <= 0
    PROVE  \A b \in Arms[f] : export[b] # NoExport /\ (export[b] # "decremented" => \A x : Live(x) => ~In(x, {b}))
<1>1. f \in Frames
  BY PointsAre
<1>2. Cardinality(Left(f)) <= join[f].pending /\ join[f].pending \in Nat \cup {-1}
  BY <1>1, StateIs DEF LeftCounted
<1>3. Cardinality(Left(f)) \in Nat /\ (Cardinality(Left(f)) = 0 => Left(f) = {})
  BY <1>1, LeftIn, CardLess
<1>4. Left(f) = {}
  BY <1>2, <1>3
<1> QED BY <1>1, <1>4, LeftIs

\* Where what is left is counted, nothing is left behind.
LEMMA BehindHolds == ASSUME PassInv, LeftInv PROVE NoneLeftBehind /\ ClosesWithAllIn
<1>0. TypeOK /\ LeftCounted
  BY DEF PassInv, TypeInv, LeftInv
<1>1. NoneLeftBehind
  <2> SUFFICES ASSUME NEW f \in Frames, past[f] > 0, NEW l \in Drainable, NEW b \in Arms[f], In(l, {b})
               PROVE  f \in Alls /\ export[b] = "decremented"
    BY DEF NoneLeftBehind
  <2>1. Live(l) /\ l \in Points /\ Under(l, f)
    BY InOne, PointsAre DEF Live, Under, Drainable
  <2>2. f \in Alls
    BY <2>1, PointsAre DEF PassInv, RacesPast
  <2>3. Recd(f)
    BY <2>1 DEF LeftInv, LiveRecorded
  <2>4. join[f].pending <= 0
    BY <2>2 DEF PassInv, AllsPast
  <2> QED BY <1>0, <2>1, <2>2, <2>3, <2>4, NoneLeft
<1>2. ClosesWithAllIn
  <2> SUFFICES ASSUME NEW w \in Workers, NEW f \in job[w].passed \cap Alls, At(w, "run"), NEW b \in Arms[f] PROVE export[b] # NoExport
    BY DEF ClosesWithAllIn
  <2>1. InSegment(w) /\ f \in Frames
    BY PointsAre DEF InSegment, At
  <2>2. Recd(f) /\ join[f].closedBy = job[w].of
    BY <2>1 DEF LeftInv, Chain
  <2>3. job[w].of # Nobody
    BY <2>1, NobodyIs DEF PassInv, TypeInv, JobIs
  <2>4. f \in Alls /\ join[f].pending = 0
    BY <2>1, <2>2, <2>3 DEF PassInv, Closed
  <2>5. join[f].pending <= 0
    BY <2>4
  <2> QED BY <1>0, <2>2, <2>4, <2>5, NoneLeft
<1> QED BY <1>1, <1>2

\* What is left is counted in every state.
LEMMA LeftHolds == ASSUME NoRaceInRace, NoStalls PROVE Spec => [](PassInv /\ LeftInv)
<1>1. Init => PassInv /\ LeftInv
  BY InitPass, InitLeft
<1>2. PassInv /\ LeftInv /\ [Next]_vars /\ TypeInv' => PassInv' /\ LeftInv'
  BY PassStep, LeftStep DEF TypeInv
<1> QED BY <1>1, <1>2, TypeInvHolds, PTL DEF Spec

\* Where no race is in an arm of a race and no lease lapses under a process
\* that goes on, nothing goes on in a frame the run has gone past.
THEOREM NoneBehind == ASSUME NoRaceInRace, NoStalls PROVE Spec => []NoneLeftBehind
BY LeftHolds, BehindHolds, PTL

\* There, every arm's export is in before any segment goes on past its `all`.
THEOREM ClosedWithAllIn == ASSUME NoRaceInRace, NoStalls PROVE Spec => []ClosesWithAllIn
BY LeftHolds, BehindHolds, PTL
=============================================================================
