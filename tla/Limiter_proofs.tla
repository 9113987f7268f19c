--------------------------- MODULE Limiter_proofs ---------------------------
(***************************************************************************)
(* What Limiter promises, for any callers, limits and costs: its types,    *)
(* that no limit is ever passed, and that no caller sleeps past room.      *)
(*                                                                         *)
(* Sums, least and greatest elements are reasoned about by a least         *)
(* counterexample (LeastNat): the same as induction, but stated of a set.  *)
(***************************************************************************)
EXTENDS Limiter, FiniteSetTheorems, WellFoundedInduction, SequenceTheorems, TLAPS

-----------------------------------------------------------------------------
(* Least and greatest elements. *)

\* A set of naturals that is not empty has a least element.
LEMMA LeastNat ==
    ASSUME NEW S \in SUBSET Nat, S # {}
    PROVE  \E m \in S : \A k \in S : m <= k
<1> DEFINE R == StrictSubsetOrdering(Nat)
           F == FiniteSubsetsOf(Nat)
           T == {0 .. n : n \in S}
<1>1. IsWellFoundedOn(R, F)
  BY FS_StrictSubsetOrderingWellFounded, Zenon
<1>2. T \subseteq F /\ T # {}
  <2>1. \A n \in S : 0 .. n \in SUBSET Nat /\ IsFiniteSet(0 .. n)
    BY FS_Interval
  <2> QED BY <2>1 DEF FiniteSubsetsOf
<1>3. \E x \in T : \A y \in T : ~(<<y, x>> \in R)
  <2> HIDE DEF R, T, F
  <2> QED BY <1>1, <1>2, WFMin
<1>4. PICK m \in S : \A k \in S : ~(<<0 .. k, 0 .. m>> \in R)
  BY <1>3
<1>5. ASSUME NEW k \in S, k < m PROVE FALSE
  <2>1. m \in 0 .. m /\ m \notin 0 .. k
    BY <1>5
  <2>2. 0 .. k \in SUBSET Nat /\ 0 .. m \in SUBSET Nat /\ 0 .. k \subseteq 0 .. m /\ 0 .. k # 0 .. m
    BY <1>5, <2>1
  <2>3. <<0 .. k, 0 .. m>> \in R
    BY <2>2 DEF StrictSubsetOrdering
  <2> QED BY <2>3, <1>4
<1> QED BY <1>4, <1>5

\* Min of a set of naturals that is not empty.
LEMMA MinIs ==
    ASSUME NEW S \in SUBSET Nat, S # {}
    PROVE  Min(S) \in S /\ \A k \in S : Min(S) <= k
<1>1. \E m \in S : \A k \in S : m <= k
  BY LeastNat
<1> QED BY <1>1, Zenon DEF Min

\* A finite set of naturals that is not empty has a greatest element.
LEMMA GreatestNat ==
    ASSUME NEW S \in SUBSET Nat, IsFiniteSet(S), S # {}
    PROVE  \E m \in S : \A k \in S : k <= m
<1> DEFINE R == StrictSubsetOrdering(S)
           T == {U \in SUBSET S : U # {} /\ ~ \E m \in U : \A k \in U : k <= m}
<1> SUFFICES ASSUME T # {} PROVE FALSE
  OBVIOUS
<1>1. IsWellFoundedOn(R, SUBSET S)
  BY FS_StrictSubsetOrderingWellFounded, FS_FiniteSubsetsOfFinite
<1>2. \E x \in T : \A y \in T : ~(<<y, x>> \in R)
  <2>1. T \subseteq SUBSET S
    OBVIOUS
  <2> HIDE DEF R, T
  <2> QED BY <1>1, <2>1, WFMin
<1>3. PICK U \in T : \A V \in T : ~(<<V, U>> \in R)
  BY <1>2
<1>4. PICK u \in U : TRUE
  OBVIOUS
<1> DEFINE V == U \ {u}
<1>5. V # {}
  <2> SUFFICES ASSUME V = {} PROVE FALSE
    OBVIOUS
  <2>1. U = {u} /\ u \in Nat
    BY <1>4
  <2>2. \A k \in U : k <= u
    BY <2>1
  <2> QED BY <2>1, <2>2
<1>6. V \notin T
  <2>1. <<V, U>> \in R
    BY <1>4 DEF StrictSubsetOrdering
  <2> QED BY <2>1, <1>3
<1>7. PICK m \in V : \A k \in V : k <= m
  BY <1>5, <1>6
<1>8. \A k \in U : k <= m \/ k = u
  BY <1>7
<1>9. m \in U /\ u \in U /\ m \in Nat /\ u \in Nat
  BY <1>7
<1>10. CASE u <= m
  BY <1>8, <1>9, <1>10
<1>11. CASE m <= u
  <2>1. \A k \in U : k \in Nat
    OBVIOUS
  <2>2. \A k \in U : k <= u
    BY <1>8, <1>9, <1>11, <2>1
  <2> QED BY <2>2, <1>9
<1> QED BY <1>9, <1>10, <1>11

\* Max of a finite set of naturals that is not empty.
LEMMA MaxIs ==
    ASSUME NEW S \in SUBSET Nat, IsFiniteSet(S), S # {}
    PROVE  Max(S) \in S /\ \A k \in S : k <= Max(S)
<1>1. \E m \in S : \A k \in S : m >= k
  BY GreatestNat
<1>2. Max(S) \in S /\ \A k \in S : Max(S) >= k
  BY <1>1, Zenon DEF Max
<1> QED BY <1>2

-----------------------------------------------------------------------------
(* What calls cost together. *)

Costed == [age : Nat, cost : Nat]

\* f sums the costs of calls, from the oldest.
SumsOf(f, calls) ==
    /\ \A n \in 0 .. Len(calls) : f[n] \in Nat
    /\ f[0] = 0 /\ \A n \in 1 .. Len(calls) : f[n] = f[n - 1] + calls[n].cost

\* The recursive function Spent is defined by exists.
LEMMA UptoExists ==
    ASSUME NEW calls \in Seq(Costed)
    PROVE  \E f : f = [n \in 0 .. Len(calls) |-> IF n = 0 THEN 0 ELSE f[n - 1] + calls[n].cost]
<1> DEFINE Is(f, m) == f = [n \in 0 .. m |-> IF n = 0 THEN 0 ELSE f[n - 1] + calls[n].cost]
           Bad == {m \in 0 .. Len(calls) : ~ \E f : Is(f, m)}
<1>1. Len(calls) \in Nat
  OBVIOUS
<1> SUFFICES ASSUME Bad # {} PROVE FALSE
  BY <1>1
<1>2. PICK m \in Bad : \A k \in Bad : m <= k
  <2>1. Bad \in SUBSET Nat
    BY <1>1
  <2> HIDE DEF Bad
  <2> QED BY <2>1, LeastNat
<1>3. m # 0
  <2>1. Is([n \in 0 .. 0 |-> 0], 0)
    OBVIOUS
  <2> QED BY <2>1
<1>4. m - 1 \in 0 .. Len(calls) /\ m \in Nat
  BY <1>1, <1>3
<1>5. PICK f : Is(f, m - 1)
  <2>1. m - 1 \notin Bad
    <3> HIDE DEF Bad
    <3> QED BY <1>2, <1>4
  <2> QED BY <2>1, <1>4
<1> DEFINE g == [n \in 0 .. m |-> IF n = m THEN f[m - 1] + calls[m].cost ELSE f[n]]
<1>6. ASSUME NEW n \in 0 .. m PROVE g[n] = IF n = 0 THEN 0 ELSE g[n - 1] + calls[n].cost
  <2>1. CASE n = m
    BY <2>1, <1>3, <1>4
  <2>2. CASE n # m
    <3>1. n \in 0 .. (m - 1)
      BY <2>2, <1>4
    <3>2. f[n] = IF n = 0 THEN 0 ELSE f[n - 1] + calls[n].cost
      BY <3>1, <1>5
    <3>3. n = 0 \/ (n - 1 \in 0 .. m /\ n - 1 # m)
      BY <3>1, <1>4
    <3> QED BY <2>2, <3>2, <3>3
  <2> QED BY <2>1, <2>2
<1>7. Is(g, m)
  <2>1. g = [n \in 0 .. m |-> g[n]]
    OBVIOUS
  <2> HIDE DEF g
  <2> QED BY <2>1, <1>6
<1> QED BY <1>7, <1>2

\* What Spent is: the last of the sums of its calls.
LEMMA SpentIs ==
    ASSUME NEW calls \in Seq(Costed)
    PROVE  \E f : SumsOf(f, calls) /\ Spent(calls) = f[Len(calls)]
<1> DEFINE Is(f) == f = [n \in 0 .. Len(calls) |-> IF n = 0 THEN 0 ELSE f[n - 1] + calls[n].cost]
           upto == CHOOSE f : Is(f)
           Bad == {n \in 0 .. Len(calls) : upto[n] \notin Nat}
<1>1. Is(upto)
  BY UptoExists
<1>2. Spent(calls) = upto[Len(calls)]
  BY DEF Spent
<1> HIDE DEF upto
<1>3. Len(calls) \in Nat
  OBVIOUS
<1>4. upto[0] = 0 /\ \A n \in 1 .. Len(calls) : upto[n] = upto[n - 1] + calls[n].cost
  BY <1>1, <1>3
<1>5. Bad = {}
  <2> SUFFICES ASSUME Bad # {} PROVE FALSE
    OBVIOUS
  <2>1. PICK m \in Bad : \A k \in Bad : m <= k
    <3>1. Bad \in SUBSET Nat
      BY <1>3
    <3> HIDE DEF Bad
    <3> QED BY <3>1, LeastNat
  <2>2. m # 0
    BY <1>4
  <2>3. m - 1 \in 0 .. Len(calls) /\ m \in 1 .. Len(calls)
    BY <1>3, <2>2
  <2>4. upto[m - 1] \in Nat
    <3>1. m - 1 \notin Bad
      <4> HIDE DEF Bad
      <4> QED BY <2>1, <2>3
    <3> QED BY <3>1, <2>3
  <2>5. calls[m] \in Costed
    BY <2>3
  <2>6. calls[m].cost \in Nat
    BY <2>5 DEF Costed
  <2>7. upto[m] \in Nat
    <3>1. upto[m] = upto[m - 1] + calls[m].cost
      BY <2>3, <1>4
    <3> HIDE DEF Bad
    <3> QED BY <2>4, <2>6, <3>1
  <2> QED BY <2>1, <2>7
<1> QED BY <1>2, <1>4, <1>5 DEF SumsOf

\* Sums agree as far as the costs do.
LEMMA SumsAgree ==
    ASSUME NEW s \in Seq(Costed), NEW t \in Seq(Costed), NEW f, NEW g, SumsOf(f, s), SumsOf(g, t),
           NEW k \in Nat, k <= Len(s), k <= Len(t), \A n \in 1 .. k : s[n].cost = t[n].cost
    PROVE  \A n \in 0 .. k : f[n] = g[n]
<1> DEFINE Bad == {n \in 0 .. k : f[n] # g[n]}
<1> SUFFICES ASSUME Bad # {} PROVE FALSE
  OBVIOUS
<1>1. PICK m \in Bad : \A n \in Bad : m <= n
  <2>1. Bad \in SUBSET Nat
    OBVIOUS
  <2> HIDE DEF Bad
  <2> QED BY <2>1, LeastNat
<1>2. Len(s) \in Nat /\ Len(t) \in Nat
  OBVIOUS
<1>3. m # 0
  BY <1>1 DEF SumsOf
<1>4. m - 1 \in 0 .. k /\ m \in 1 .. k /\ m \in 1 .. Len(s) /\ m \in 1 .. Len(t)
  BY <1>2, <1>3
<1>5. f[m - 1] = g[m - 1]
  BY <1>1, <1>4
<1> QED BY <1>1, <1>4, <1>5 DEF SumsOf

\* Nothing costs nothing, and each call adds its cost.
LEMMA SpentOnNothing == Spent(<<>>) = 0
<1>1. PICK f : SumsOf(f, <<>>) /\ Spent(<<>>) = f[Len(<<>>)]
  <2>1. <<>> \in Seq(Costed)
    OBVIOUS
  <2> QED BY <2>1, SpentIs
<1> QED BY <1>1 DEF SumsOf

LEMMA SpentType ==
    ASSUME NEW s \in Seq(Costed)
    PROVE  Spent(s) \in Nat
<1>1. PICK f : SumsOf(f, s) /\ Spent(s) = f[Len(s)]
  BY SpentIs
<1>2. Len(s) \in 0 .. Len(s)
  OBVIOUS
<1> QED BY <1>1, <1>2 DEF SumsOf

\* Calls that cost the same, one by one, cost the same together.
LEMMA SpentAgrees ==
    ASSUME NEW s \in Seq(Costed), NEW t \in Seq(Costed), Len(s) = Len(t),
           \A n \in 1 .. Len(s) : s[n].cost = t[n].cost
    PROVE  Spent(s) = Spent(t)
<1>1. PICK f : SumsOf(f, s) /\ Spent(s) = f[Len(s)]
  BY SpentIs
<1>2. PICK g : SumsOf(g, t) /\ Spent(t) = g[Len(t)]
  BY SpentIs
<1>3. Len(s) \in Nat /\ Len(s) \in 0 .. Len(s)
  OBVIOUS
<1>4. \A n \in 0 .. Len(s) : f[n] = g[n]
  BY <1>1, <1>2, <1>3, SumsAgree
<1> QED BY <1>1, <1>2, <1>3, <1>4

\* The cost of all but the last calls, and of the last.
LEMMA SpentLast ==
    ASSUME NEW s \in Seq(Costed), NEW t \in Seq(Costed), Len(t) = Len(s) + 1,
           \A n \in 1 .. Len(s) : t[n].cost = s[n].cost
    PROVE  Spent(t) = Spent(s) + t[Len(t)].cost
<1>1. PICK f : SumsOf(f, s) /\ Spent(s) = f[Len(s)]
  BY SpentIs
<1>2. PICK g : SumsOf(g, t) /\ Spent(t) = g[Len(t)]
  BY SpentIs
<1>3. Len(s) \in Nat /\ Len(s) \in 0 .. Len(s) /\ Len(s) <= Len(t)
  OBVIOUS
<1>4. \A n \in 0 .. Len(s) : f[n] = g[n]
  BY <1>1, <1>2, <1>3, SumsAgree
<1>5. g[Len(t)] = g[Len(t) - 1] + t[Len(t)].cost
  BY <1>2, <1>3 DEF SumsOf
<1> QED BY <1>1, <1>2, <1>3, <1>4, <1>5

\* t costs what the last calls of s cost, one by one.
EndsLike(t, s) ==
    Len(t) <= Len(s) /\ \A i \in 1 .. Len(t) : t[i].cost = s[i + (Len(s) - Len(t))].cost

\* The last calls cost no more than all of them.
LEMMA SpentOfSuffix ==
    ASSUME NEW s \in Seq(Costed), NEW t \in Seq(Costed), EndsLike(t, s)
    PROVE  Spent(t) <= Spent(s)
<1>1. PICK f : SumsOf(f, s) /\ Spent(s) = f[Len(s)]
  BY SpentIs
<1>2. PICK g : SumsOf(g, t) /\ Spent(t) = g[Len(t)]
  BY SpentIs
<1>3. Len(s) \in Nat /\ Len(t) \in Nat /\ Len(t) <= Len(s)
  BY DEF EndsLike
<1>4. PICK d \in Nat : d = Len(s) - Len(t)
  BY <1>3
<1> DEFINE Bad == {n \in 0 .. Len(t) : ~(g[n] <= f[n + d])}
<1>5. Bad = {}
  <2> SUFFICES ASSUME Bad # {} PROVE FALSE
    OBVIOUS
  <2>1. PICK m \in Bad : \A k \in Bad : m <= k
    <3>1. Bad \in SUBSET Nat
      BY <1>3
    <3> HIDE DEF Bad
    <3> QED BY <3>1, LeastNat
  <2>2. m # 0
    <3>1. g[0] = 0 /\ f[d] \in Nat
      BY <1>1, <1>2, <1>3, <1>4 DEF SumsOf
    <3> QED BY <3>1, <1>4
  <2>3. m - 1 \in 0 .. Len(t) /\ m \in 1 .. Len(t) /\ m + d \in 1 .. Len(s) /\ (m + d) - 1 = (m - 1) + d
    BY <1>3, <1>4, <2>2
  <2>4. g[m - 1] <= f[(m - 1) + d]
    <3>1. m - 1 \notin Bad
      <4> HIDE DEF Bad
      <4> QED BY <2>1, <2>3
    <3> QED BY <3>1, <2>3
  <2>5. g[m] = g[m - 1] + t[m].cost /\ f[m + d] = f[(m + d) - 1] + s[m + d].cost
    BY <1>1, <1>2, <2>3 DEF SumsOf
  <2>6. t[m].cost = s[m + d].cost
    BY <1>4, <2>3 DEF EndsLike
  <2>7. t[m] \in Costed
    BY <2>3
  <2>8. t[m].cost \in Nat
    BY <2>7 DEF Costed
  <2>9. g[m - 1] \in Nat /\ f[(m - 1) + d] \in Nat
    <3>1. (m - 1) + d \in 0 .. Len(s)
      BY <2>3, <1>3, <1>4
    <3> QED BY <1>1, <1>2, <2>3, <3>1 DEF SumsOf
  <2>10. g[m] <= f[m + d]
    BY <2>3, <2>4, <2>5, <2>6, <2>8, <2>9
  <2> QED BY <2>1, <2>10
<1>6. Len(t) \notin Bad /\ Len(t) \in 0 .. Len(t) /\ Len(t) + d = Len(s)
  BY <1>3, <1>4, <1>5
<1> QED BY <1>1, <1>2, <1>6

-----------------------------------------------------------------------------
(* What a window keeps. *)

\* Whose window passed: what Kept takes from the front, n calls.
Goes(n, calls, b) ==
    /\ n \in 0 .. Len(calls)
    /\ n < Len(calls) => calls[n + 1].age < Limit[b].per
    /\ \A i \in 1 .. n : ~(calls[i].age < Limit[b].per)

\* What is kept of calls is what is left once n of them went.
LEMMA KeptIs ==
    ASSUME NEW S, NEW calls \in Seq(S), NEW b
    PROVE  \E n \in 0 .. Len(calls) :
               /\ Goes(n, calls, b)
               /\ Kept(calls, b) \in Seq(S)
               /\ Len(Kept(calls, b)) = Len(calls) - n
               /\ \A i \in 1 .. Len(Kept(calls, b)) : Kept(calls, b)[i] = calls[i + n]
<1> DEFINE Ends == {n \in 0 .. Len(calls) : n < Len(calls) => calls[n + 1].age < Limit[b].per}
<1>1. PICK m : m = Min(Ends)
  OBVIOUS
<1>2. Kept(calls, b) = SubSeq(calls, m + 1, Len(calls))
  BY <1>1 DEF Kept
<1>3. Len(calls) \in Nat
  OBVIOUS
<1>4. m \in Ends /\ \A k \in Ends : m <= k
  <2>1. Ends \in SUBSET Nat /\ Len(calls) \in Ends
    BY <1>3
  <2> HIDE DEF Ends
  <2> QED BY <2>1, <1>1, MinIs
<1>5. ASSUME NEW i \in 1 .. m PROVE ~(calls[i].age < Limit[b].per)
  <2>1. i - 1 \in 0 .. Len(calls) /\ i - 1 < Len(calls) /\ (i - 1) + 1 = i /\ ~(m <= i - 1)
    BY <1>3, <1>4
  <2>2. i - 1 \notin Ends
    <3> HIDE DEF Ends
    <3> QED BY <2>1, <1>4
  <2> QED BY <2>1, <2>2
<1>6. Goes(m, calls, b)
  BY <1>4, <1>5 DEF Goes
<1>7. m \in Nat /\ m <= Len(calls)
  BY <1>3, <1>4
<1>8. /\ Kept(calls, b) \in Seq(S)
      /\ Len(Kept(calls, b)) = Len(calls) - m
      /\ \A i \in 1 .. Len(calls) - m : Kept(calls, b)[i] = calls[i + m]
  BY <1>2, <1>3, <1>7
<1> QED BY <1>4, <1>6, <1>8

\* As many go, however it is said.
LEMMA GoesOnce ==
    ASSUME NEW S, NEW calls \in Seq(S), NEW b, NEW n, NEW m, Goes(n, calls, b), Goes(m, calls, b)
    PROVE  n = m
<1>1. n \in Nat /\ m \in Nat /\ n <= Len(calls) /\ m <= Len(calls) /\ Len(calls) \in Nat
  BY DEF Goes
<1>2. ~(n < m)
  <2> SUFFICES ASSUME n < m PROVE FALSE
    OBVIOUS
  <2>1. n + 1 \in 1 .. m /\ n < Len(calls)
    BY <1>1
  <2> QED BY <2>1 DEF Goes
<1>3. ~(m < n)
  <2> SUFFICES ASSUME m < n PROVE FALSE
    OBVIOUS
  <2>1. m + 1 \in 1 .. n /\ m < Len(calls)
    BY <1>1
  <2> QED BY <2>1 DEF Goes
<1> QED BY <1>1, <1>2, <1>3

\* So what is kept is known by how many go.
LEMMA KeptAs ==
    ASSUME NEW S, NEW calls \in Seq(S), NEW b, NEW n, Goes(n, calls, b)
    PROVE  /\ Kept(calls, b) \in Seq(S)
           /\ Len(Kept(calls, b)) = Len(calls) - n
           /\ \A i \in 1 .. Len(Kept(calls, b)) : Kept(calls, b)[i] = calls[i + n]
<1>1. PICK m \in 0 .. Len(calls) :
               /\ Goes(m, calls, b)
               /\ Kept(calls, b) \in Seq(S)
               /\ Len(Kept(calls, b)) = Len(calls) - m
               /\ \A i \in 1 .. Len(Kept(calls, b)) : Kept(calls, b)[i] = calls[i + m]
  BY KeptIs
<1>2. m = n
  BY <1>1, GoesOnce
<1> QED BY <1>1, <1>2

-----------------------------------------------------------------------------
(* What each step makes of a window. *)

\* A call counted in bucket b.
CallIn(b) == [age : 0 .. Limit[b].per, cost : 1 .. Limit[b].calls]

\* The oldest come first.
Aged(calls) == \A i, j \in 1 .. Len(calls) : i <= j => calls[j].age <= calls[i].age

LEMMA LimitIs ==
    ASSUME NEW b \in Buckets
    PROVE  /\ Limit[b].per \in Nat /\ Limit[b].per > 0 /\ Limit[b].calls \in Nat /\ Limit[b].concurrent \in Nat
           /\ \A s \in Seq(CallIn(b)) : s \in Seq(Costed)
<1>1. Limit[b] \in [calls : Nat, per : Nat \ {0}, concurrent : Nat]
  BY LimiterAssumption
<1>2. CallIn(b) \subseteq Costed
  BY <1>1 DEF CallIn, Costed
<1>3. \A s \in Seq(CallIn(b)) : s \in Seq(Costed)
  BY <1>2
<1> QED BY <1>1, <1>3

\* Sequences are the same when their elements are.
LEMMA SameCalls ==
    ASSUME NEW S, NEW s \in Seq(S), NEW t \in Seq(S), Len(s) = Len(t), \A i \in 1 .. Len(s) : s[i] = t[i]
    PROVE  s = t
<1>1. DOMAIN s = 1 .. Len(s) /\ DOMAIN t = 1 .. Len(s)
  OBVIOUS
<1>2. s = [i \in 1 .. Len(s) |-> s[i]] /\ t = [i \in 1 .. Len(s) |-> t[i]]
  BY <1>1
<1> QED BY <1>2

\* Time passes: every call is as many, costs the same, and is older.
LEMMA OlderIs ==
    ASSUME NEW b \in Buckets, NEW calls \in Seq(CallIn(b))
    PROVE  /\ Older(calls, b) \in Seq(CallIn(b))
           /\ Len(Older(calls, b)) = Len(calls)
           /\ \A i \in 1 .. Len(calls) :
                /\ Older(calls, b)[i].cost = calls[i].cost
                /\ Older(calls, b)[i].age = IF calls[i].age < Limit[b].per THEN calls[i].age + 1 ELSE calls[i].age
                /\ Older(calls, b)[i] = [calls[i] EXCEPT !.age = IF @ < Limit[b].per THEN @ + 1 ELSE @]
<1>1. Limit[b].per \in Nat /\ Len(calls) \in Nat /\ DOMAIN calls = 1 .. Len(calls)
  BY LimitIs
<1>2. ASSUME NEW i \in 1 .. Len(calls)
      PROVE  /\ [calls[i] EXCEPT !.age = IF @ < Limit[b].per THEN @ + 1 ELSE @] \in CallIn(b)
             /\ [calls[i] EXCEPT !.age = IF @ < Limit[b].per THEN @ + 1 ELSE @].cost = calls[i].cost
             /\ [calls[i] EXCEPT !.age = IF @ < Limit[b].per THEN @ + 1 ELSE @].age
                    = IF calls[i].age < Limit[b].per THEN calls[i].age + 1 ELSE calls[i].age
  <2>1. calls[i] \in CallIn(b)
    BY <1>2
  <2> QED BY <2>1, <1>1 DEF CallIn
<1>3. Older(calls, b) = [i \in 1 .. Len(calls) |-> [calls[i] EXCEPT !.age = IF @ < Limit[b].per THEN @ + 1 ELSE @]]
  BY <1>1 DEF Older
<1>4. Older(calls, b) \in [1 .. Len(calls) -> CallIn(b)]
  BY <1>2, <1>3
<1>5. Older(calls, b) \in Seq(CallIn(b)) /\ Len(Older(calls, b)) = Len(calls)
  BY <1>1, <1>4
<1>6. ASSUME NEW i \in 1 .. Len(calls)
      PROVE  Older(calls, b)[i] = [calls[i] EXCEPT !.age = IF @ < Limit[b].per THEN @ + 1 ELSE @]
  BY <1>3, Zenon
<1>7. ASSUME NEW i \in 1 .. Len(calls)
      PROVE  /\ Older(calls, b)[i].cost = calls[i].cost
             /\ Older(calls, b)[i].age = IF calls[i].age < Limit[b].per THEN calls[i].age + 1 ELSE calls[i].age
  <2>1. PICK g : g = [calls[i] EXCEPT !.age = IF @ < Limit[b].per THEN @ + 1 ELSE @]
    OBVIOUS
  <2>2. g.cost = calls[i].cost /\ g.age = IF calls[i].age < Limit[b].per THEN calls[i].age + 1 ELSE calls[i].age
    BY <1>2, <2>1
  <2>3. Older(calls, b)[i] = g
    BY <1>6, <2>1
  <2> QED BY <2>2, <2>3
<1> QED BY <1>5, <1>6, <1>7, Zenon

\* They cost as much together, and the oldest still come first.
LEMMA OlderKeeps ==
    ASSUME NEW b \in Buckets, NEW calls \in Seq(CallIn(b))
    PROVE  /\ Spent(Older(calls, b)) = Spent(calls)
           /\ Aged(calls) => Aged(Older(calls, b))
<1>1. calls \in Seq(Costed) /\ Older(calls, b) \in Seq(Costed)
  BY OlderIs, LimitIs
<1>2. Spent(Older(calls, b)) = Spent(calls)
  <2>1. Len(calls) = Len(Older(calls, b)) /\ \A n \in 1 .. Len(calls) : calls[n].cost = Older(calls, b)[n].cost
    BY OlderIs, Zenon
  <2> QED BY <1>1, <2>1, SpentAgrees
<1>3. ASSUME Aged(calls), NEW i \in 1 .. Len(calls), NEW j \in 1 .. Len(calls), i <= j
      PROVE  Older(calls, b)[j].age <= Older(calls, b)[i].age
  <2>1. calls[i] \in CallIn(b) /\ calls[j] \in CallIn(b) /\ Limit[b].per \in Nat
    BY LimitIs, <1>3
  <2>2. calls[i].age \in Nat /\ calls[j].age \in Nat /\ calls[j].age <= calls[i].age
    BY <1>3, <2>1 DEF Aged, CallIn
  <2>3. /\ Older(calls, b)[i].age = IF calls[i].age < Limit[b].per THEN calls[i].age + 1 ELSE calls[i].age
        /\ Older(calls, b)[j].age = IF calls[j].age < Limit[b].per THEN calls[j].age + 1 ELSE calls[j].age
    BY <1>3, OlderIs, Zenon
  <2> QED BY <2>1, <2>2, <2>3
<1> QED BY <1>2, <1>3, OlderIs DEF Aged

\* What is kept of a bucket's calls, and how many went.
LEMMA KeptOf ==
    ASSUME NEW b \in Buckets, NEW calls \in Seq(CallIn(b))
    PROVE  \E n \in 0 .. Len(calls) : \E k \in Seq(CallIn(b)) :
               /\ k = Kept(calls, b) /\ Goes(n, calls, b)
               /\ Len(k) = Len(calls) - n
               /\ \A i \in 1 .. Len(k) : k[i] = calls[i + n]
<1>1. PICK n \in 0 .. Len(calls) :
               /\ Goes(n, calls, b)
               /\ Kept(calls, b) \in Seq(CallIn(b))
               /\ Len(Kept(calls, b)) = Len(calls) - n
               /\ \A i \in 1 .. Len(Kept(calls, b)) : Kept(calls, b)[i] = calls[i + n]
  <2>1. PICK S : S = CallIn(b)
    OBVIOUS
  <2>2. calls \in Seq(S)
    BY <2>1
  <2>3. \E n \in 0 .. Len(calls) :
               /\ Goes(n, calls, b)
               /\ Kept(calls, b) \in Seq(S)
               /\ Len(Kept(calls, b)) = Len(calls) - n
               /\ \A i \in 1 .. Len(Kept(calls, b)) : Kept(calls, b)[i] = calls[i + n]
    BY <2>2, KeptIs
  <2> QED BY <2>1, <2>3
<1> QED BY <1>1

\* What is kept costs no more, is as aged, and is all in the window.
LEMMA KeptKeeps ==
    ASSUME NEW b \in Buckets, NEW calls \in Seq(CallIn(b))
    PROVE  /\ Kept(calls, b) \in Seq(CallIn(b))
           /\ Spent(Kept(calls, b)) <= Spent(calls)
           /\ Aged(calls) => Aged(Kept(calls, b))
           /\ Aged(calls) => \A i \in 1 .. Len(Kept(calls, b)) : Kept(calls, b)[i].age < Limit[b].per
<1>1. PICK n \in 0 .. Len(calls) : \E k \in Seq(CallIn(b)) :
               /\ k = Kept(calls, b) /\ Goes(n, calls, b)
               /\ Len(k) = Len(calls) - n
               /\ \A i \in 1 .. Len(k) : k[i] = calls[i + n]
  BY KeptOf
<1>2. PICK k \in Seq(CallIn(b)) :
               /\ k = Kept(calls, b) /\ Goes(n, calls, b)
               /\ Len(k) = Len(calls) - n
               /\ \A i \in 1 .. Len(k) : k[i] = calls[i + n]
  BY <1>1
<1>3. Len(calls) \in Nat /\ n \in Nat /\ Len(k) = Len(calls) - n /\ \A i \in 1 .. Len(k) : k[i] = calls[i + n]
  BY <1>2
<1>4. Spent(k) <= Spent(calls)
  <2>1. EndsLike(k, calls)
    BY <1>3 DEF EndsLike
  <2>2. k \in Seq(Costed) /\ calls \in Seq(Costed)
    BY LimitIs
  <2> QED BY <2>1, <2>2, SpentOfSuffix
<1>5. ASSUME Aged(calls) PROVE Aged(k)
  BY <1>3, <1>5 DEF Aged
<1>6. ASSUME Aged(calls), NEW i \in 1 .. Len(k) PROVE k[i].age < Limit[b].per
  <2>1. n < Len(calls) /\ n + 1 \in 1 .. Len(calls) /\ i + n \in 1 .. Len(calls) /\ n + 1 <= i + n
    BY <1>3
  <2>2. calls[n + 1].age < Limit[b].per
    BY <1>2, <2>1 DEF Goes
  <2>3. calls[i + n].age <= calls[n + 1].age
    BY <1>6, <2>1 DEF Aged
  <2>4. calls[n + 1] \in CallIn(b) /\ calls[i + n] \in CallIn(b) /\ Limit[b].per \in Nat
    BY <2>1, LimitIs
  <2>5. \A g \in CallIn(b) : g.age \in Nat
    BY <2>4 DEF CallIn
  <2> QED BY <1>3, <2>2, <2>3, <2>4, <2>5
<1> QED BY <1>2, <1>4, <1>5, <1>6

\* Taking from the front again takes nothing; nor does it once a call was
\* counted; nor does it matter whether it was done before time passed.
LEMMA KeptKept ==
    ASSUME NEW b \in Buckets, NEW calls \in Seq(CallIn(b))
    PROVE  Kept(Kept(calls, b), b) = Kept(calls, b)
<1>1. PICK n \in 0 .. Len(calls) : \E k \in Seq(CallIn(b)) :
               /\ k = Kept(calls, b) /\ Goes(n, calls, b)
               /\ Len(k) = Len(calls) - n
               /\ \A i \in 1 .. Len(k) : k[i] = calls[i + n]
  BY KeptOf
<1>2. PICK k \in Seq(CallIn(b)) :
               /\ k = Kept(calls, b) /\ Goes(n, calls, b)
               /\ Len(k) = Len(calls) - n
               /\ \A i \in 1 .. Len(k) : k[i] = calls[i + n]
  BY <1>1
<1>3. Goes(0, k, b)
  <2>1. 0 < Len(k) => 1 \in 1 .. Len(k) /\ k[1] = calls[1 + n] /\ n < Len(calls) /\ n + 1 = 1 + n
    BY <1>2
  <2> QED BY <1>2, <2>1 DEF Goes
<1>4. Kept(k, b) \in Seq(CallIn(b)) /\ Len(Kept(k, b)) = Len(k) - 0 /\ \A i \in 1 .. Len(Kept(k, b)) : Kept(k, b)[i] = k[i + 0]
  BY <1>3, KeptAs
<1>5. Kept(k, b) = k
  <2>1. PICK kk \in Seq(CallIn(b)) : kk = Kept(k, b)
    BY <1>4
  <2>2. Len(kk) = Len(k) /\ \A i \in 1 .. Len(kk) : kk[i] = k[i]
    BY <1>4, <2>1
  <2> QED BY <2>1, <2>2, SameCalls
<1> QED BY <1>2, <1>5

LEMMA KeptCounted ==
    ASSUME NEW b \in Buckets, NEW calls \in Seq(CallIn(b)), NEW g \in CallIn(b), g.age = 0
    PROVE  /\ Append(Kept(calls, b), g) \in Seq(CallIn(b))
           /\ Kept(Append(Kept(calls, b), g), b) = Append(Kept(calls, b), g)
           /\ Spent(Append(Kept(calls, b), g)) = Spent(Kept(calls, b)) + g.cost
           /\ Aged(calls) => Aged(Append(Kept(calls, b), g))
<1>1. PICK k \in Seq(CallIn(b)) : k = Kept(calls, b)
  BY KeptKeeps
<1>2. PICK more \in Seq(CallIn(b)) : more = Append(k, g)
  <2>1. PICK S : S = CallIn(b)
    OBVIOUS
  <2>2. k \in Seq(S) /\ g \in S
    BY <2>1
  <2>3. Append(k, g) \in Seq(S)
    BY <2>2
  <2> QED BY <2>1, <2>3
<1>3. Len(k) \in Nat /\ Len(more) = Len(k) + 1 /\ more[Len(k) + 1] = g /\ \A i \in 1 .. Len(k) : more[i] = k[i]
  BY <1>2
<1>4. Kept(more, b) = more
  <2>1. Goes(0, more, b)
    <3>1. CASE Len(k) = 0
      BY <3>1, <1>3, LimitIs DEF Goes
    <3>2. CASE Len(k) # 0
      <4>1. PICK n \in 0 .. Len(k) : \E kk \in Seq(CallIn(b)) :
               /\ kk = Kept(k, b) /\ Goes(n, k, b)
               /\ Len(kk) = Len(k) - n
               /\ \A i \in 1 .. Len(kk) : kk[i] = k[i + n]
        BY KeptOf
      <4>2. Kept(k, b) = k
        BY <1>1, KeptKept
      <4>3. n = 0
        BY <1>3, <4>1, <4>2
      <4> QED BY <3>2, <4>1, <4>3, <1>3 DEF Goes
    <3> QED BY <3>1, <3>2
  <2>2. Kept(more, b) \in Seq(CallIn(b)) /\ Len(Kept(more, b)) = Len(more) - 0
        /\ \A i \in 1 .. Len(Kept(more, b)) : Kept(more, b)[i] = more[i + 0]
    BY <2>1, KeptAs
  <2>3. PICK kk \in Seq(CallIn(b)) : kk = Kept(more, b)
    BY <2>2
  <2>4. Len(kk) = Len(more) /\ \A i \in 1 .. Len(kk) : kk[i] = more[i]
    BY <1>3, <2>2, <2>3
  <2> QED BY <2>3, <2>4, SameCalls
<1>5. Spent(more) = Spent(k) + g.cost
  <2>1. k \in Seq(Costed) /\ more \in Seq(Costed)
    BY LimitIs
  <2>2. Spent(more) = Spent(k) + more[Len(more)].cost
    BY <1>3, <2>1, SpentLast
  <2> QED BY <1>3, <2>2
<1>6. ASSUME Aged(calls) PROVE Aged(more)
  <2>1. Aged(k)
    BY <1>1, <1>6, KeptKeeps
  <2> SUFFICES ASSUME NEW i \in 1 .. Len(more), NEW j \in 1 .. Len(more), i <= j PROVE more[j].age <= more[i].age
    BY DEF Aged
  <2>2. CASE j = Len(k) + 1
    <3>1. more[i] \in CallIn(b)
      OBVIOUS
    <3>2. \A h \in CallIn(b) : 0 <= h.age
      BY LimitIs DEF CallIn
    <3> QED BY <2>2, <1>3, <3>1, <3>2
  <2>3. CASE j # Len(k) + 1
    BY <2>1, <2>3, <1>3 DEF Aged
  <2> QED BY <2>2, <2>3
<1> QED BY <1>1, <1>2, <1>4, <1>5, <1>6

LEMMA KeptOlder ==
    ASSUME NEW b \in Buckets, NEW calls \in Seq(CallIn(b))
    PROVE  Kept(Older(Kept(calls, b), b), b) = Kept(Older(calls, b), b)
<1>1. PICK n \in 0 .. Len(calls) : \E k \in Seq(CallIn(b)) :
               /\ k = Kept(calls, b) /\ Goes(n, calls, b)
               /\ Len(k) = Len(calls) - n
               /\ \A i \in 1 .. Len(k) : k[i] = calls[i + n]
  BY KeptOf
<1>2. PICK k \in Seq(CallIn(b)) :
               /\ k = Kept(calls, b) /\ Goes(n, calls, b)
               /\ Len(k) = Len(calls) - n
               /\ \A i \in 1 .. Len(k) : k[i] = calls[i + n]
  BY <1>1
<1>3. PICK oc \in Seq(CallIn(b)) : oc = Older(calls, b)
  BY OlderIs
<1>4. PICK ok \in Seq(CallIn(b)) : ok = Older(k, b)
  BY OlderIs
<1>5. /\ Len(oc) = Len(calls) /\ Len(ok) = Len(k) /\ Len(calls) \in Nat /\ n \in Nat
      /\ \A i \in 1 .. Len(k) : ok[i] = oc[i + n]
  <2>1. Len(oc) = Len(calls) /\ Len(ok) = Len(k) /\ Len(calls) \in Nat /\ n \in Nat
    BY <1>3, <1>4, OlderIs
  <2>2. ASSUME NEW i \in 1 .. Len(k) PROVE ok[i] = oc[i + n]
    <3>1. i + n \in 1 .. Len(calls) /\ k[i] = calls[i + n]
      BY <1>2, <2>1
    <3>2. ok[i] = [k[i] EXCEPT !.age = IF @ < Limit[b].per THEN @ + 1 ELSE @]
      <4>1. Older(k, b)[i] = [k[i] EXCEPT !.age = IF @ < Limit[b].per THEN @ + 1 ELSE @]
        BY <1>2, <2>2, OlderIs, Zenon
      <4> QED BY <1>4, <4>1, Zenon
    <3>3. oc[i + n] = [calls[i + n] EXCEPT !.age = IF @ < Limit[b].per THEN @ + 1 ELSE @]
      BY <1>3, <3>1, OlderIs, Zenon
    <3> QED BY <3>1, <3>2, <3>3
  <2> QED BY <2>1, <2>2
<1>6. \A i \in 1 .. n : ~(oc[i].age < Limit[b].per)
  <2> SUFFICES ASSUME NEW i \in 1 .. n PROVE ~(oc[i].age < Limit[b].per)
    OBVIOUS
  <2>1. i \in 1 .. Len(calls) /\ ~(calls[i].age < Limit[b].per)
    BY <1>2, <1>5 DEF Goes
  <2>2. oc[i].age = IF calls[i].age < Limit[b].per THEN calls[i].age + 1 ELSE calls[i].age
    BY <1>3, <2>1, OlderIs, Zenon
  <2> QED BY <2>1, <2>2
<1>7. PICK m \in 0 .. Len(ok) : \E kk \in Seq(CallIn(b)) :
               /\ kk = Kept(ok, b) /\ Goes(m, ok, b)
               /\ Len(kk) = Len(ok) - m
               /\ \A i \in 1 .. Len(kk) : kk[i] = ok[i + m]
  BY KeptOf
<1>8. PICK kk \in Seq(CallIn(b)) :
               /\ kk = Kept(ok, b) /\ Goes(m, ok, b)
               /\ Len(kk) = Len(ok) - m
               /\ \A i \in 1 .. Len(kk) : kk[i] = ok[i + m]
  BY <1>7
<1>9. PICK nm \in Nat : nm = n + m
  BY <1>5
<1>10. Goes(nm, oc, b)
  <2>1. nm \in 0 .. Len(oc)
    BY <1>2, <1>5, <1>7, <1>9
  <2>2. nm < Len(oc) => oc[nm + 1].age < Limit[b].per
    <3> SUFFICES ASSUME nm < Len(oc) PROVE oc[nm + 1].age < Limit[b].per
      OBVIOUS
    <3>1. m < Len(ok) /\ m + 1 \in 1 .. Len(k) /\ (m + 1) + n = nm + 1
      BY <1>2, <1>5, <1>7, <1>9
    <3>2. ok[m + 1].age < Limit[b].per /\ ok[m + 1] = oc[(m + 1) + n]
      BY <3>1, <1>5, <1>8 DEF Goes
    <3> QED BY <3>1, <3>2
  <2>3. ASSUME NEW i \in 1 .. nm PROVE ~(oc[i].age < Limit[b].per)
    <3>1. CASE i <= n
      BY <3>1, <1>5, <1>6
    <3>2. CASE ~(i <= n)
      <4>1. i - n \in 1 .. m /\ i - n \in 1 .. Len(k) /\ (i - n) + n = i
        BY <3>2, <1>2, <1>5, <1>7, <1>9
      <4>2. ~(ok[i - n].age < Limit[b].per) /\ ok[i - n] = oc[(i - n) + n]
        BY <4>1, <1>5, <1>8 DEF Goes
      <4> QED BY <4>1, <4>2
    <3> QED BY <3>1, <3>2
  <2> QED BY <2>1, <2>2, <2>3 DEF Goes
<1>11. /\ Kept(oc, b) \in Seq(CallIn(b)) /\ Len(Kept(oc, b)) = Len(oc) - nm
       /\ \A i \in 1 .. Len(Kept(oc, b)) : Kept(oc, b)[i] = oc[i + nm]
  BY <1>10, KeptAs
<1>12. PICK ko \in Seq(CallIn(b)) : ko = Kept(oc, b)
  BY <1>11
<1>13. Len(kk) = Len(ko) /\ \A i \in 1 .. Len(kk) : kk[i] = ko[i]
  <2>1. Len(kk) = Len(ko)
    <3>1. Len(kk) = Len(ok) - m /\ Len(ok) = Len(calls) - n /\ Len(ko) = Len(calls) - nm
      BY <1>2, <1>5, <1>8, <1>11, <1>12
    <3> QED BY <3>1, <1>5, <1>7, <1>9
  <2>2. ASSUME NEW i \in 1 .. Len(kk) PROVE kk[i] = ko[i]
    <3>1. kk[i] = ok[i + m] /\ i + m \in 1 .. Len(k) /\ (i + m) + n = i + nm
      BY <1>5, <1>7, <1>8, <1>9
    <3>2. ok[i + m] = oc[(i + m) + n]
      BY <3>1, <1>5
    <3>3. ko[i] = oc[i + nm]
      BY <2>1, <1>11, <1>12
    <3> QED BY <3>1, <3>2, <3>3
  <2> QED BY <2>1, <2>2
<1>14. kk = ko
  BY <1>13, SameCalls
<1> QED BY <1>2, <1>3, <1>4, <1>8, <1>12, <1>14

-----------------------------------------------------------------------------
(* What an acquire reads. *)

LEMMA RequestIs ==
    ASSUME NEW c \in Callers
    PROVE  /\ Windows(c) \subseteq Buckets /\ Places(c) \subseteq Buckets
           /\ IsFiniteSet(Windows(c)) /\ IsFiniteSet(Places(c))
           /\ \A b \in Windows(c) : Limit[b].calls > 0 /\ WindowCost(c, b) \in 1 .. Limit[b].calls
           /\ \A b \in Places(c) : Limit[b].concurrent > 0
           /\ Key[c] \in Keys /\ Ticket[c] \in Tickets
<1>1. Under[c] \subseteq Buckets /\ Cost[c] \in Nat \ {0} /\ IsFiniteSet(Buckets) /\ Key[c] \in Keys /\ Ticket[c] \in Tickets
  BY LimiterAssumption
<1>2. Windows(c) \subseteq Buckets /\ Places(c) \subseteq Buckets
  BY <1>1 DEF Windows, Places
<1>3. IsFiniteSet(Windows(c)) /\ IsFiniteSet(Places(c))
  BY <1>1, <1>2, FS_Subset
<1>4. ASSUME NEW b \in Windows(c) PROVE Limit[b].calls > 0 /\ WindowCost(c, b) \in 1 .. Limit[b].calls
  <2>1. Limit[b].calls > 0 /\ Limit[b].calls \in Nat
    BY <1>2, <1>4, LimitIs DEF Windows
  <2> QED BY <2>1, <1>1 DEF WindowCost
<1>5. \A b \in Places(c) : Limit[b].concurrent > 0
  BY DEF Places
<1> QED BY <1>1, <1>2, <1>3, <1>4, <1>5

\* What is left of calls from the n-th on, and of all of them.
LEMMA RestOf ==
    ASSUME NEW S, NEW calls \in Seq(S), NEW n \in 1 .. Len(calls) + 1
    PROVE  /\ SubSeq(calls, n, Len(calls)) \in Seq(S)
           /\ Len(SubSeq(calls, n, Len(calls))) = Len(calls) - (n - 1)
           /\ \A i \in 1 .. Len(SubSeq(calls, n, Len(calls))) : SubSeq(calls, n, Len(calls))[i] = calls[i + (n - 1)]
<1>1. Len(calls) \in Nat /\ n \in Nat
  OBVIOUS
<1>2. /\ SubSeq(calls, n, Len(calls)) \in Seq(S)
      /\ Len(SubSeq(calls, n, Len(calls))) = Len(calls) - (n - 1)
      /\ \A i \in 1 .. Len(calls) - (n - 1) : SubSeq(calls, n, Len(calls))[i] = calls[i + (n - 1)]
  BY <1>1
<1> QED BY <1>2

\* The windows have their types, the oldest calls first.
WindowsAre == \A b \in Buckets : window[b] \in Seq(CallIn(b)) /\ Aged(window[b])

\* window_retry_at: at once where the window has room, else when one of its
\* calls leaves, with whose rest it had none.
LEMMA WindowRetryIs ==
    ASSUME WindowsAre, NEW c \in Callers, NEW b \in Windows(c)
    PROVE  /\ WindowRetry(c, b) \in Nat
           /\ WindowRetry(c, b) = 0 => Spent(InWindow(b)) + WindowCost(c, b) <= Limit[b].calls
           /\ WindowRetry(c, b) > 0 =>
                \E n \in 1 .. Len(InWindow(b)) :
                    /\ WindowRetry(c, b) = Limit[b].per - InWindow(b)[n].age
                    /\ Spent(SubSeq(InWindow(b), n, Len(InWindow(b)))) + WindowCost(c, b) > Limit[b].calls
           /\ Spent(InWindow(b)) + WindowCost(c, b) > Limit[b].calls => WindowRetry(c, b) > 0
<1>1. b \in Buckets /\ WindowCost(c, b) \in 1 .. Limit[b].calls /\ Limit[b].calls \in Nat /\ Limit[b].per \in Nat
  BY RequestIs, LimitIs
<1>2. window[b] \in Seq(CallIn(b)) /\ Aged(window[b])
  BY <1>1 DEF WindowsAre
<1>3. PICK k \in Seq(CallIn(b)) : k = InWindow(b) /\ \A i \in 1 .. Len(k) : k[i].age < Limit[b].per
  BY <1>1, <1>2, KeptKeeps DEF InWindow
<1> DEFINE Rest(n) == SubSeq(k, n + 1, Len(k))
           Fits(n) == Spent(Rest(n)) + WindowCost(c, b) <= Limit[b].calls
           Enough == {n \in 0 .. Len(k) : Fits(n)}
<1>4. Len(k) \in Nat /\ \A n \in 0 .. Len(k) : Rest(n) \in Seq(Costed)
  <2>1. ASSUME NEW n \in 0 .. Len(k) PROVE Rest(n) \in Seq(Costed)
    <3>1. PICK m \in 1 .. Len(k) + 1 : m = n + 1
      BY <2>1
    <3>2. SubSeq(k, m, Len(k)) \in Seq(CallIn(b))
      BY RestOf
    <3> QED BY <1>1, <3>1, <3>2, LimitIs
  <2> QED BY <2>1
<1>5. \A n \in 0 .. Len(k) : Spent(Rest(n)) \in Nat
  BY <1>4, SpentType
<1>6. Rest(0) = k
  <2>1. 1 \in 1 .. Len(k) + 1
    BY <1>4
  <2>2. PICK r \in Seq(CallIn(b)) : r = SubSeq(k, 1, Len(k)) /\ Len(r) = Len(k) - 0 /\ \A i \in 1 .. Len(r) : r[i] = k[i + 0]
    BY <2>1, RestOf
  <2>3. Len(r) = Len(k) /\ \A i \in 1 .. Len(r) : r[i] = k[i]
    BY <1>4, <2>2
  <2> QED BY <2>2, <2>3, SameCalls
<1>7. Fits(Len(k))
  <2>1. Rest(Len(k)) = <<>>
    BY <1>4
  <2>2. Spent(Rest(Len(k))) = 0
    BY <2>1, SpentOnNothing
  <2> QED BY <1>1, <2>2
<1>8. PICK leave : leave = Min(Enough)
  OBVIOUS
<1>9. leave \in Enough /\ \A n \in Enough : leave <= n
  <2>1. Enough \in SUBSET Nat /\ Len(k) \in Enough
    BY <1>4, <1>7
  <2> HIDE DEF Enough
  <2> QED BY <2>1, <1>8, MinIs
<1>10. WindowRetry(c, b) = IF leave = 0 THEN 0 ELSE Limit[b].per - k[leave].age
  BY <1>3, <1>8 DEF WindowRetry
<1>11. ASSUME leave # 0
       PROVE  /\ leave \in 1 .. Len(k) /\ Limit[b].per - k[leave].age \in Nat /\ Limit[b].per - k[leave].age > 0
              /\ Spent(SubSeq(k, leave, Len(k))) + WindowCost(c, b) > Limit[b].calls
  <2>1. leave \in 1 .. Len(k) /\ leave - 1 \in 0 .. Len(k) /\ ~(leave <= leave - 1) /\ (leave - 1) + 1 = leave
    BY <1>4, <1>9, <1>11
  <2>2. leave - 1 \notin Enough
    <3> HIDE DEF Enough
    <3> QED BY <2>1, <1>9
  <2>3. ~Fits(leave - 1) /\ Spent(Rest(leave - 1)) \in Nat
    BY <2>1, <2>2, <1>5
  <2>4. Rest(leave - 1) = SubSeq(k, leave, Len(k))
    BY <2>1
  <2>5. Spent(SubSeq(k, leave, Len(k))) \in Nat /\ ~(Spent(SubSeq(k, leave, Len(k))) + WindowCost(c, b) <= Limit[b].calls)
    BY <2>3, <2>4
  <2>6. k[leave] \in CallIn(b) /\ k[leave].age < Limit[b].per
    BY <1>3, <2>1
  <2>7. k[leave].age \in Nat
    BY <2>6, <1>1 DEF CallIn
  <2> QED BY <1>1, <2>1, <2>5, <2>6, <2>7
<1>12. leave = 0 => Spent(k) + WindowCost(c, b) <= Limit[b].calls
  BY <1>6, <1>9
<1>13. Spent(k) \in Nat
  <2>1. k \in Seq(Costed)
    BY <1>1, LimitIs
  <2> QED BY <2>1, SpentType
<1>14. Spent(k) + WindowCost(c, b) > Limit[b].calls => leave # 0
  BY <1>1, <1>12, <1>13
<1> HIDE DEF Rest, Fits, Enough
<1>15. CASE leave = 0
  BY <1>1, <1>3, <1>10, <1>12, <1>13, <1>14, <1>15
<1>16. CASE leave # 0
  BY <1>1, <1>3, <1>10, <1>11, <1>13, <1>16
<1> QED BY <1>15, <1>16

\* The places taken by the permits p.
Holders(p, b) == {c \in Callers : p[c] # NoPermit /\ b \in Places(c)}

\* Each place taken is a permit's, and permits are of calls not yet answered.
PlacesAre ==
    /\ permit \in [Callers -> NoPermit .. Hold] /\ held \in [Buckets -> Nat]
    /\ \A b \in Buckets : held[b] = Cardinality(Holders(permit, b)) /\ held[b] <= Limit[b].concurrent

HoldIs == Hold \in Nat /\ Hold > 0 /\ Recheck \in Nat /\ Recheck > 0 /\ IsFiniteSet(Callers)

LEMMA ConstantsAre == HoldIs
BY LimiterAssumption DEF HoldIs

LEMMA HoldersFinite ==
    ASSUME NEW p, NEW b
    PROVE  IsFiniteSet(Holders(p, b)) /\ Cardinality(Holders(p, b)) \in Nat
           /\ Cardinality(Holders(p, b)) <= Cardinality(Callers) /\ Cardinality(Callers) \in Nat
BY ConstantsAre, FS_Subset, FS_CardinalityType DEF Holders, HoldIs

\* Where the permits of cs go, their places are given back, and no other.
LEMMA HeldWithoutIs ==
    ASSUME PlacesAre, NEW cs \in SUBSET Callers, NEW b \in Buckets,
           NEW q, \A c \in Callers : q[c] = IF c \in cs THEN NoPermit ELSE permit[c]
    PROVE  /\ HeldWithout(cs)[b] = Cardinality(Holders(q, b))
           /\ HeldWithout(cs)[b] \in Nat /\ HeldWithout(cs)[b] <= held[b]
<1> DEFINE H == Holders(permit, b)
           G == {c \in cs : permit[c] # NoPermit /\ b \in Places(c)}
<1>1. IsFiniteSet(H) /\ Cardinality(H) \in Nat
  BY HoldersFinite
<1>2. G \subseteq H
  BY DEF Holders
<1>3. Holders(q, b) = H \ G
  BY DEF Holders
<1>4. IsFiniteSet(G) /\ Cardinality(G) \in Nat /\ Cardinality(G) <= Cardinality(H)
  BY <1>1, <1>2, FS_Subset, FS_CardinalityType
<1>5. Cardinality(H \ G) = Cardinality(H) - Cardinality(G)
  <2>1. H \cap G = G
    BY <1>2
  <2>2. Cardinality(H \ G) = Cardinality(H) - Cardinality(H \cap G)
    BY <1>1, FS_Difference
  <2> QED BY <2>1, <2>2
<1>6. HeldWithout(cs)[b] = held[b] - Cardinality(G)
  BY DEF HeldWithout
<1>7. held[b] = Cardinality(H)
  BY DEF PlacesAre
<1> HIDE DEF H, G
<1> QED BY <1>1, <1>3, <1>4, <1>5, <1>6, <1>7

\* A limit on calls at once has room, or says a while, as long as the first of
\* the permits held lasts at most.
LEMMA ConcurrencyRetryIs ==
    ASSUME PlacesAre, NEW c \in Callers, NEW b \in Places(c)
    PROVE  /\ ConcurrencyRetry(c, b) \in Nat
           /\ ConcurrencyRetry(c, b) = 0 <=> HeldWithout(Lapsed)[b] < Limit[b].concurrent
           /\ ConcurrencyRetry(c, b) > 0 =>
                \A d \in Callers : permit[d] > 0 => ConcurrencyRetry(c, b) <= permit[d]
<1> DEFINE Waits == {Recheck} \cup {permit[d] : d \in {d \in Callers \ Lapsed : permit[d] # NoPermit}}
<1>1. Recheck \in Nat /\ Recheck > 0 /\ permit \in [Callers -> NoPermit .. Hold] /\ Hold \in Nat
  BY ConstantsAre DEF PlacesAre, HoldIs
<1>2. \A d \in Callers : permit[d] \in Int /\ permit[d] >= -1 /\ (permit[d] # NoPermit /\ d \notin Lapsed => permit[d] > 0)
  BY <1>1 DEF NoPermit, Lapsed
<1>3. Waits \in SUBSET Nat /\ Waits # {} /\ \A n \in Waits : n > 0
  BY <1>1, <1>2
<1>4. PICK m : m = Min(Waits)
  OBVIOUS
<1>5. m \in Waits /\ \A n \in Waits : m <= n
  <2> HIDE DEF Waits
  <2> QED BY <1>3, <1>4, MinIs
<1>6. m \in Nat /\ m > 0
  BY <1>3, <1>5
<1>7. \A d \in Callers : permit[d] > 0 => m <= permit[d]
  <2> SUFFICES ASSUME NEW d \in Callers, permit[d] > 0 PROVE m <= permit[d]
    OBVIOUS
  <2>1. d \notin Lapsed /\ permit[d] # NoPermit
    BY <1>2 DEF Lapsed, NoPermit
  <2> QED BY <2>1, <1>5
<1>8. ConcurrencyRetry(c, b) = IF HeldWithout(Lapsed)[b] < Limit[b].concurrent THEN 0 ELSE m
  BY <1>4 DEF ConcurrencyRetry
<1> HIDE DEF Waits
<1> QED BY <1>6, <1>7, <1>8

\* The image of a finite set is finite.
LEMMA ImageFinite ==
    ASSUME NEW S, IsFiniteSet(S), NEW f
    PROVE  IsFiniteSet({f[x] : x \in S})
<1> DEFINE T == {f[x] : x \in S}
           g == [x \in S |-> f[x]]
<1>1. g \in Surjection(S, T)
  BY DEF Surjection
<1> QED BY <1>1, FS_Surjection

\* What a throttle says goes; else the latest of what the limits say, now if
\* all of them have room.
LEMMA RetryIs ==
    ASSUME WindowsAre, PlacesAre, NEW c \in Callers, \A k \in Keys : throttle[k] \in Nat
    PROVE  /\ Retry(c) \in Nat
           /\ throttle[Key[c]] > 0 => Retry(c) = throttle[Key[c]]
           /\ throttle[Key[c]] = 0 =>
                /\ \A b \in Windows(c) : WindowRetry(c, b) <= Retry(c)
                /\ \A b \in Places(c) : ConcurrencyRetry(c, b) <= Retry(c)
                /\ \/ Retry(c) = 0
                   \/ \E b \in Windows(c) : Retry(c) = WindowRetry(c, b)
                   \/ \E b \in Places(c) : Retry(c) = ConcurrencyRetry(c, b)
<1> DEFINE A == {WindowRetry(c, b) : b \in Windows(c)}
           B == {ConcurrencyRetry(c, b) : b \in Places(c)}
<1>1. throttle[Key[c]] \in Nat
  BY RequestIs
<1>2. A \subseteq Nat /\ IsFiniteSet(A)
  <2>1. \A b \in Windows(c) : WindowRetry(c, b) \in Nat
    BY WindowRetryIs
  <2>2. PICK f : f = [b \in Windows(c) |-> WindowRetry(c, b)]
    OBVIOUS
  <2>3. IsFiniteSet({f[b] : b \in Windows(c)})
    BY RequestIs, ImageFinite
  <2>4. {f[b] : b \in Windows(c)} = A
    BY <2>2
  <2>5. A \subseteq Nat
    BY <2>1
  <2> HIDE DEF A
  <2> QED BY <2>3, <2>4, <2>5
<1>3. B \subseteq Nat /\ IsFiniteSet(B)
  <2>1. \A b \in Places(c) : ConcurrencyRetry(c, b) \in Nat
    BY ConcurrencyRetryIs
  <2>2. PICK f : f = [b \in Places(c) |-> ConcurrencyRetry(c, b)]
    OBVIOUS
  <2>3. IsFiniteSet({f[b] : b \in Places(c)})
    BY RequestIs, ImageFinite
  <2>4. {f[b] : b \in Places(c)} = B
    BY <2>2
  <2>5. B \subseteq Nat
    BY <2>1
  <2> HIDE DEF B
  <2> QED BY <2>3, <2>4, <2>5
<1>4. PICK U \in SUBSET Nat : U = {0} \cup A \cup B
  <2>1. A \subseteq Nat /\ B \subseteq Nat
    BY <1>2, <1>3
  <2> HIDE DEF A, B
  <2>2. {0} \cup A \cup B \in SUBSET Nat
    BY <2>1
  <2> QED BY <2>2, Zenon
<1>5. IsFiniteSet(U) /\ U # {}
  <2>1. IsFiniteSet({0})
    BY FS_Singleton
  <2>2. IsFiniteSet({0} \cup A)
    BY <2>1, <1>2, FS_Union
  <2> QED BY <2>2, <1>3, <1>4, FS_Union
<1>6. Max(U) \in U /\ \A n \in U : n <= Max(U)
  BY <1>5, MaxIs
<1>7. Retry(c) = IF throttle[Key[c]] > 0 THEN throttle[Key[c]] ELSE Max(U)
  BY <1>4 DEF Retry
<1>8. CASE throttle[Key[c]] > 0
  BY <1>1, <1>7, <1>8
<1>9. CASE throttle[Key[c]] = 0
  <2>1. Retry(c) = Max(U) /\ Retry(c) \in Nat /\ Retry(c) \in U /\ \A n \in U : n <= Retry(c)
    <3>1. Retry(c) = Max(U)
      BY <1>1, <1>7, <1>9
    <3> QED BY <3>1, <1>6
  <2>2. \A b \in Windows(c) : WindowRetry(c, b) \in U
    BY <1>4
  <2>3. \A b \in Places(c) : ConcurrencyRetry(c, b) \in U
    BY <1>4
  <2>4. Retry(c) = 0 \/ Retry(c) \in A \/ Retry(c) \in B
    BY <1>4, <2>1
  <2>5. (\A b \in Windows(c) : WindowRetry(c, b) <= Retry(c)) /\ (\A b \in Places(c) : ConcurrencyRetry(c, b) <= Retry(c))
    BY <2>1, <2>2, <2>3
  <2>6. \/ Retry(c) = 0
        \/ \E b \in Windows(c) : Retry(c) = WindowRetry(c, b)
        \/ \E b \in Places(c) : Retry(c) = ConcurrencyRetry(c, b)
    BY <2>4
  <2> QED BY <1>9, <2>1, <2>5, <2>6
<1> QED BY <1>1, <1>8, <1>9

-----------------------------------------------------------------------------
(* The inductive invariant of the limits. *)

Calling == [step : {"idle", "asks", "refused", "waits", "granted", "calls", "answered", "frees", "limited"}, woken : BOOLEAN, wait : Nat]

Typed ==
    /\ throttle \in [Keys -> UNION {0 .. n : n \in Throttles \cup {0}}]
    /\ atDoor \in BOOLEAN /\ open \subseteq Tickets
    /\ call \in [Callers -> Calling]

\* What a bucket's history has is what its window would keep, and within the limit.
Counted == \A b \in Buckets : granted[b] = InWindow(b) /\ Spent(granted[b]) <= Limit[b].calls

\* A permit is that of a call granted and not yet released.
PermitsOut == \A c \in Callers : permit[c] # NoPermit => call[c].step \in {"granted", "calls", "answered"}

RoomInv == WindowsAre /\ Counted /\ PlacesAre /\ PermitsOut /\ Typed

LEMMA RoomInit == Init => RoomInv
<1> SUFFICES ASSUME Init PROVE RoomInv
  OBVIOUS
<1>1. WindowsAre /\ Counted
  <2> SUFFICES ASSUME NEW b \in Buckets
               PROVE  /\ window[b] \in Seq(CallIn(b)) /\ Aged(window[b])
                      /\ granted[b] = Kept(window[b], b) /\ Spent(granted[b]) <= Limit[b].calls
    BY DEF WindowsAre, Counted, InWindow
  <2>1. PICK e \in Seq(CallIn(b)) : e = <<>>
    BY EmptySeq
  <2>2. window[b] = e /\ granted[b] = e /\ Len(e) = 0
    BY <2>1 DEF Init
  <2>3. PICK n \in 0 .. Len(e) : \E k \in Seq(CallIn(b)) :
               /\ k = Kept(e, b) /\ Goes(n, e, b)
               /\ Len(k) = Len(e) - n
               /\ \A i \in 1 .. Len(k) : k[i] = e[i + n]
    BY KeptOf
  <2>4. PICK k \in Seq(CallIn(b)) : k = Kept(e, b) /\ Len(k) = Len(e) - n
    BY <2>3
  <2>5. k = e
    <3>1. Len(k) = 0
      <4>1. n = 0
        BY <2>2
      <4> QED BY <2>2, <2>4, <4>1
    <3> QED BY <2>1, <3>1
  <2>6. Aged(e)
    BY <2>2 DEF Aged
  <2>7. Spent(e) <= Limit[b].calls
    BY <2>1, SpentOnNothing, LimitIs
  <2> QED BY <2>2, <2>4, <2>5, <2>6, <2>7
<1>2. PlacesAre
  <2>1. permit \in [Callers -> NoPermit .. Hold] /\ held \in [Buckets -> Nat] /\ \A c \in Callers : permit[c] = NoPermit
    BY ConstantsAre DEF Init, NoPermit, HoldIs
  <2>2. \A b \in Buckets : Holders(permit, b) = {}
    BY <2>1 DEF Holders
  <2>3. \A b \in Buckets : held[b] = 0
    BY DEF Init
  <2>4. \A b \in Buckets : held[b] = Cardinality(Holders(permit, b)) /\ held[b] <= Limit[b].concurrent
    <3> SUFFICES ASSUME NEW b \in Buckets PROVE held[b] = Cardinality(Holders(permit, b)) /\ held[b] <= Limit[b].concurrent
      OBVIOUS
    <3>1. Limit[b].concurrent \in Nat
      BY LimitIs
    <3>2. Cardinality(Holders(permit, b)) = 0
      BY <2>2, FS_EmptySet
    <3> QED BY <2>3, <3>1, <3>2
  <2> QED BY <2>1, <2>4 DEF PlacesAre
<1>3. PermitsOut
  BY DEF Init, PermitsOut
<1>4. Typed
  <2>1. 0 \in UNION {0 .. n : n \in Throttles \cup {0}}
    BY LimiterAssumption
  <2>2. throttle \in [Keys -> UNION {0 .. n : n \in Throttles \cup {0}}]
    BY <2>1 DEF Init
  <2>3. call \in [Callers -> Calling] /\ atDoor \in BOOLEAN /\ open \subseteq Tickets
    BY DEF Init, Calling
  <2> QED BY <2>2, <2>3 DEF Typed
<1> QED BY <1>1, <1>2, <1>3, <1>4 DEF RoomInv

\* Permits that go give their places back.
LEMMA FreePlaces ==
    ASSUME PlacesAre, NEW cs \in SUBSET Callers, held' = HeldWithout(cs),
           permit' \in [Callers -> NoPermit .. Hold],
           \A c \in Callers : permit'[c] = IF c \in cs THEN NoPermit ELSE permit[c]
    PROVE  PlacesAre'
<1>1. \A b \in Buckets :
        /\ HeldWithout(cs)[b] = Cardinality(Holders(permit', b))
        /\ HeldWithout(cs)[b] \in Nat /\ HeldWithout(cs)[b] <= held[b]
  BY HeldWithoutIs
<1>2. held' = [b \in Buckets |-> held'[b]]
  BY DEF HeldWithout
<1>3. held' \in [Buckets -> Nat]
  BY <1>1, <1>2
<1>4. \A b \in Buckets : held[b] \in Nat /\ held[b] <= Limit[b].concurrent
  BY DEF PlacesAre
<1>5. ASSUME NEW b \in Buckets PROVE held'[b] = Cardinality(Holders(permit', b)) /\ held'[b] <= Limit[b].concurrent
  BY <1>1, <1>4, LimitIs
<1> QED BY <1>3, <1>5 DEF PlacesAre

LEMMA NoPermitIs ==
    ASSUME NEW p \in [Callers -> NoPermit .. Hold]
    PROVE  /\ NoPermit \in NoPermit .. Hold
           /\ \A c \in Callers : p[c] \in NoPermit .. Hold
BY ConstantsAre DEF NoPermit, HoldIs

\* Those that lapsed, first.
LEMMA UnlapsedIs ==
    ASSUME PlacesAre
    PROVE  /\ Unlapsed \in [Callers -> NoPermit .. Hold] /\ Lapsed \in SUBSET Callers
           /\ \A c \in Callers : Unlapsed[c] = IF c \in Lapsed THEN NoPermit ELSE permit[c]
BY NoPermitIs DEF Unlapsed, Lapsed, PlacesAre

LEMMA FreedPlaces ==
    ASSUME PlacesAre, NEW c \in Callers, Freed(c)
    PROVE  PlacesAre' /\ permit' = [permit EXCEPT ![c] = NoPermit]
<1>1. permit \in [Callers -> NoPermit .. Hold]
  BY DEF PlacesAre
<1>2. permit' = [permit EXCEPT ![c] = NoPermit] /\ held' = HeldWithout({c})
  BY DEF Freed
<1>3. permit' \in [Callers -> NoPermit .. Hold]
  BY <1>1, <1>2, NoPermitIs
<1>4. \A d \in Callers : permit'[d] = IF d \in {c} THEN NoPermit ELSE permit[d]
  BY <1>1, <1>2
<1> QED BY <1>2, <1>3, <1>4, FreePlaces

-----------------------------------------------------------------------------
(* What the steps make of the windows. *)

LEMMA WindowsFrom ==
    ASSUME \A b \in Buckets :
             /\ window'[b] \in Seq(CallIn(b)) /\ Aged(window[b])'
             /\ granted'[b] = Kept(window[b], b)' /\ Spent(granted[b])' <= Limit[b].calls
    PROVE  WindowsAre' /\ Counted'
BY DEF WindowsAre, Counted, InWindow

LEMMA BucketIs ==
    ASSUME WindowsAre, Counted, NEW b \in Buckets
    PROVE  /\ window[b] \in Seq(CallIn(b)) /\ Aged(window[b])
           /\ granted[b] = Kept(window[b], b) /\ Spent(granted[b]) <= Limit[b].calls
           /\ InWindow(b) = granted[b] /\ granted[b] \in Seq(CallIn(b))
<1>1. window[b] \in Seq(CallIn(b)) /\ Aged(window[b])
  BY DEF WindowsAre
<1>2. granted[b] = InWindow(b) /\ Spent(granted[b]) <= Limit[b].calls
  BY DEF Counted
<1>3. InWindow(b) = Kept(window[b], b)
  BY DEF InWindow
<1>4. Kept(window[b], b) \in Seq(CallIn(b))
  BY <1>1, KeptKeeps
<1> QED BY <1>1, <1>2, <1>3, <1>4

\* Windows stay, or lose the calls that left.
LEMMA WindowsRead ==
    ASSUME WindowsAre, Counted, granted' = granted,
           \A b \in Buckets : window'[b] = window[b] \/ window'[b] = InWindow(b)
    PROVE  WindowsAre' /\ Counted'
<1> SUFFICES ASSUME NEW b \in Buckets
             PROVE  /\ window'[b] \in Seq(CallIn(b)) /\ Aged(window[b])'
                    /\ granted'[b] = Kept(window[b], b)' /\ Spent(granted[b])' <= Limit[b].calls
  BY WindowsFrom
<1>1. /\ window[b] \in Seq(CallIn(b)) /\ Aged(window[b])
      /\ granted[b] = Kept(window[b], b) /\ Spent(granted[b]) <= Limit[b].calls
      /\ InWindow(b) = granted[b]
  BY BucketIs
<1>2. PICK w : w = window'[b]
  OBVIOUS
<1>3. Kept(w, b) = granted[b] /\ w \in Seq(CallIn(b)) /\ Aged(w)
  <2>1. CASE w = window[b]
    BY <1>1, <2>1
  <2>2. CASE w = InWindow(b)
    <3>1. w = Kept(window[b], b)
      BY <1>1, <2>2
    <3>2. Kept(window[b], b) \in Seq(CallIn(b)) /\ Aged(Kept(window[b], b))
          /\ Kept(Kept(window[b], b), b) = Kept(window[b], b)
      BY <1>1, KeptKeeps, KeptKept
    <3> QED BY <1>1, <3>1, <3>2
  <2> QED BY <1>2, <2>1, <2>2
<1>4. Kept(window[b], b)' = Kept(w, b) /\ (Aged(window[b])' <=> Aged(w))
  BY <1>2
<1>5. granted'[b] = granted[b] /\ Spent(granted[b])' = Spent(granted[b])
  OBVIOUS
<1> QED BY <1>1, <1>2, <1>3, <1>4, <1>5

\* Time passes: the history loses what a window would.
LEMMA WindowsTick ==
    ASSUME WindowsAre, Counted, Tick
    PROVE  WindowsAre' /\ Counted'
<1> SUFFICES ASSUME NEW b \in Buckets
             PROVE  /\ window'[b] \in Seq(CallIn(b)) /\ Aged(window[b])'
                    /\ granted'[b] = Kept(window[b], b)' /\ Spent(granted[b])' <= Limit[b].calls
  BY WindowsFrom
<1>1. /\ window[b] \in Seq(CallIn(b)) /\ Aged(window[b])
      /\ granted[b] = Kept(window[b], b) /\ Spent(granted[b]) <= Limit[b].calls
      /\ granted[b] \in Seq(CallIn(b))
  BY BucketIs
<1>2. PICK w : w = window'[b]
  OBVIOUS
<1>3. PICK g : g = granted'[b]
  OBVIOUS
<1>4. w = Older(window[b], b) /\ g = Kept(Older(granted[b], b), b)
  BY <1>2, <1>3 DEF Tick
<1>5. w \in Seq(CallIn(b)) /\ Aged(w)
  BY <1>1, <1>4, OlderIs, OlderKeeps
<1>6. g = Kept(w, b)
  BY <1>1, <1>4, KeptOlder
<1>7. Spent(g) <= Limit[b].calls
  <2>1. PICK o \in Seq(CallIn(b)) : o = Older(granted[b], b) /\ Spent(o) = Spent(granted[b])
    BY <1>1, OlderIs, OlderKeeps
  <2>2. PICK h \in Seq(CallIn(b)) : h = Kept(o, b) /\ Spent(h) <= Spent(o)
    BY KeptKeeps
  <2>3. o \in Seq(Costed) /\ h \in Seq(Costed) /\ Limit[b].calls \in Nat
    BY LimitIs
  <2>4. Spent(o) \in Nat /\ Spent(h) \in Nat
    BY <2>3, SpentType
  <2>5. g = h
    BY <1>4, <2>1, <2>2
  <2> QED BY <1>1, <2>1, <2>2, <2>3, <2>4, <2>5
<1>8. Kept(window[b], b)' = Kept(w, b) /\ (Aged(window[b])' <=> Aged(w)) /\ Spent(granted[b])' = Spent(g)
  BY <1>2, <1>3
<1> QED BY <1>2, <1>3, <1>5, <1>6, <1>7, <1>8

\* A call is counted where every limit has room for it.
LEMMA WindowsGrant ==
    ASSUME RoomInv, NEW c \in Callers, Grant(c)
    PROVE  WindowsAre' /\ Counted'
<1> USE DEF RoomInv
<1> SUFFICES ASSUME NEW b \in Buckets
             PROVE  /\ window'[b] \in Seq(CallIn(b)) /\ Aged(window[b])'
                    /\ granted'[b] = Kept(window[b], b)' /\ Spent(granted[b])' <= Limit[b].calls
  BY WindowsFrom
<1>1. /\ window[b] \in Seq(CallIn(b)) /\ Aged(window[b])
      /\ granted[b] = Kept(window[b], b) /\ Spent(granted[b]) <= Limit[b].calls
      /\ granted[b] \in Seq(CallIn(b)) /\ InWindow(b) = granted[b]
  BY BucketIs
<1>2. PICK w : w = window'[b]
  OBVIOUS
<1>3. PICK g : g = granted'[b]
  OBVIOUS
<1>4. CASE b \in Windows(c)
  <2>1. PICK e : e = [age |-> 0, cost |-> WindowCost(c, b)]
    OBVIOUS
  <2>2. w = Append(InWindow(b), e) /\ g = Append(granted[b], e)
    BY <1>2, <1>3, <1>4, <2>1 DEF Grant
  <2>3. Limit[b].calls \in Nat /\ Limit[b].per \in Nat /\ WindowCost(c, b) \in 1 .. Limit[b].calls
    BY <1>4, RequestIs, LimitIs
  <2>4. e \in CallIn(b) /\ e.age = 0 /\ e.cost = WindowCost(c, b)
    BY <2>1, <2>3 DEF CallIn
  <2>5. w = Append(Kept(window[b], b), e) /\ g = w
    BY <1>1, <2>2
  <2>6. /\ w \in Seq(CallIn(b)) /\ Kept(w, b) = w /\ Aged(w)
        /\ Spent(w) = Spent(Kept(window[b], b)) + e.cost
    BY <1>1, <2>4, <2>5, KeptCounted
  <2>7. Spent(InWindow(b)) + WindowCost(c, b) <= Limit[b].calls
    <3>1. Retry(c) = 0
      BY DEF Grant
    <3>2. \A k \in Keys : throttle[k] \in Nat
      BY LimiterAssumption DEF Typed
    <3>3. throttle[Key[c]] = 0 /\ WindowRetry(c, b) <= 0
      <4>1. Key[c] \in Keys
        BY RequestIs
      <4>2. throttle[Key[c]] > 0 => Retry(c) = throttle[Key[c]]
        BY <3>2, RetryIs
      <4>3. throttle[Key[c]] = 0
        BY <3>1, <3>2, <4>1, <4>2
      <4>4. \A d \in Windows(c) : WindowRetry(c, d) <= Retry(c)
        BY <3>2, <4>3, RetryIs
      <4> QED BY <1>4, <3>1, <4>3, <4>4
    <3>4. WindowRetry(c, b) \in Nat /\ (WindowRetry(c, b) = 0 => Spent(InWindow(b)) + WindowCost(c, b) <= Limit[b].calls)
      BY <1>4, WindowRetryIs
    <3> QED BY <3>3, <3>4
  <2>8. Spent(g) <= Limit[b].calls
    BY <1>1, <2>4, <2>5, <2>6, <2>7
  <2>9. Kept(window[b], b)' = Kept(w, b) /\ (Aged(window[b])' <=> Aged(w)) /\ Spent(granted[b])' = Spent(g)
    BY <1>2, <1>3
  <2> QED BY <1>2, <1>3, <2>5, <2>6, <2>8, <2>9
<1>5. CASE b \notin Windows(c)
  <2>1. w = window[b] /\ g = granted[b]
    BY <1>2, <1>3, <1>5 DEF Grant
  <2>2. Kept(window[b], b)' = Kept(w, b) /\ (Aged(window[b])' <=> Aged(w)) /\ Spent(granted[b])' = Spent(g)
    BY <1>2, <1>3
  <2> QED BY <1>1, <1>2, <1>3, <2>1, <2>2
<1> QED BY <1>4, <1>5

-----------------------------------------------------------------------------
(* What the steps make of the places. *)

\* A place more where the limit has one.
LEMMA PlacesGrant ==
    ASSUME RoomInv, NEW c \in Callers, Grant(c)
    PROVE  PlacesAre'
<1> USE DEF RoomInv
<1>1. permit \in [Callers -> NoPermit .. Hold] /\ Unlapsed \in [Callers -> NoPermit .. Hold] /\ Lapsed \in SUBSET Callers
      /\ \A d \in Callers : Unlapsed[d] = IF d \in Lapsed THEN NoPermit ELSE permit[d]
  BY UnlapsedIs DEF PlacesAre
<1>2. permit' = [Unlapsed EXCEPT ![c] = IF Places(c) # {} THEN Hold ELSE @]
  BY DEF Grant
<1>3. Unlapsed[c] = NoPermit /\ Hold \in NoPermit .. Hold /\ Hold # NoPermit
  <2>1. permit[c] = NoPermit
    BY DEF PermitsOut, Grant, At
  <2> QED BY <1>1, <2>1, ConstantsAre DEF NoPermit, HoldIs
<1>4. permit' \in [Callers -> NoPermit .. Hold]
  BY <1>1, <1>2, <1>3
<1>5. /\ \A d \in Callers : d # c => permit'[d] = Unlapsed[d]
      /\ permit'[c] = IF Places(c) # {} THEN Hold ELSE NoPermit
  BY <1>1, <1>2, <1>3
<1>6. held' = [b \in Buckets |-> IF b \in Places(c) THEN HeldWithout(Lapsed)[b] + 1 ELSE HeldWithout(Lapsed)[b]]
  BY DEF Grant
<1>7. ASSUME NEW b \in Buckets
      PROVE  /\ held'[b] \in Nat /\ held'[b] = Cardinality(Holders(permit', b))
             /\ held'[b] <= Limit[b].concurrent
  <2>1. /\ HeldWithout(Lapsed)[b] = Cardinality(Holders(Unlapsed, b))
        /\ HeldWithout(Lapsed)[b] \in Nat /\ HeldWithout(Lapsed)[b] <= held[b]
    BY <1>1, HeldWithoutIs
  <2>2. held[b] \in Nat /\ held[b] <= Limit[b].concurrent /\ Limit[b].concurrent \in Nat
    BY LimitIs DEF PlacesAre
  <2>3. CASE b \in Places(c)
    <3>1. Holders(permit', b) = Holders(Unlapsed, b) \cup {c} /\ c \notin Holders(Unlapsed, b)
      BY <1>3, <1>5, <2>3 DEF Holders
    <3>2. IsFiniteSet(Holders(Unlapsed, b))
      BY HoldersFinite
    <3>3. Cardinality(Holders(permit', b)) = Cardinality(Holders(Unlapsed, b)) + 1
      BY <3>1, <3>2, FS_AddElement
    <3>4. HeldWithout(Lapsed)[b] < Limit[b].concurrent
      <4>1. Retry(c) = 0
        BY DEF Grant
      <4>2. \A k \in Keys : throttle[k] \in Nat
        BY LimiterAssumption DEF Typed
      <4>3. throttle[Key[c]] = 0
        BY <4>1, <4>2, RequestIs, RetryIs
      <4>4. \A d \in Places(c) : ConcurrencyRetry(c, d) <= Retry(c)
        BY <4>2, <4>3, RetryIs
      <4>5. ConcurrencyRetry(c, b) \in Nat /\ ConcurrencyRetry(c, b) <= 0
        BY <2>3, <4>1, <4>4, ConcurrencyRetryIs
      <4>6. ConcurrencyRetry(c, b) = 0
        BY <4>5
      <4> QED BY <2>3, <4>6, ConcurrencyRetryIs
    <3>5. held'[b] = HeldWithout(Lapsed)[b] + 1
      BY <1>6, <2>3
    <3> QED BY <2>1, <2>2, <3>3, <3>4, <3>5
  <2>4. CASE b \notin Places(c)
    <3>1. Holders(permit', b) = Holders(Unlapsed, b)
      BY <1>5, <2>4 DEF Holders
    <3>2. held'[b] = HeldWithout(Lapsed)[b]
      BY <1>6, <2>4
    <3> QED BY <2>1, <2>2, <3>1, <3>2
  <2> QED BY <2>3, <2>4
<1>8. held' \in [Buckets -> Nat]
  BY <1>6, <1>7
<1> QED BY <1>4, <1>7, <1>8 DEF PlacesAre

\* Time passes: permits come closer to their lapse, and hold their places.
LEMMA PlacesTick ==
    ASSUME PlacesAre, Tick
    PROVE  PlacesAre' /\ \A c \in Callers : permit'[c] # NoPermit <=> permit[c] # NoPermit
<1>1. permit \in [Callers -> NoPermit .. Hold] /\ Hold \in Nat
  BY ConstantsAre DEF PlacesAre, HoldIs
<1>2. permit' = [c \in Callers |-> Down(permit[c])] /\ held' = held
  BY DEF Tick
<1>3. \A c \in Callers : permit'[c] \in NoPermit .. Hold /\ (permit'[c] # NoPermit <=> permit[c] # NoPermit)
  BY <1>1, <1>2 DEF Down, NoPermit
<1>4. \A b \in Buckets : Holders(permit', b) = Holders(permit, b)
  BY <1>3 DEF Holders
<1>5. permit' \in [Callers -> NoPermit .. Hold]
  BY <1>2, <1>3
<1> QED BY <1>2, <1>3, <1>4, <1>5 DEF PlacesAre

LEMMA PlacesStay ==
    ASSUME PlacesAre, permit' = permit, held' = held
    PROVE  PlacesAre'
BY DEF PlacesAre, Holders, Places

-----------------------------------------------------------------------------
(* What the steps make of the rest. *)

LEMMA CallsAre ==
    ASSUME Typed, NEW c \in Callers
    PROVE  /\ call[c] \in Calling /\ call[c].wait \in Nat /\ call[c].woken \in BOOLEAN
           /\ \A s \in {"idle", "asks", "refused", "waits", "granted", "calls", "answered", "frees", "limited"} :
                [step |-> s, woken |-> FALSE, wait |-> 0] \in Calling
           /\ \A n \in Nat : [call[c] EXCEPT !.step = "refused", !.wait = n] \in Calling
           /\ [call[c] EXCEPT !.step = "waits"] \in Calling /\ [call[c] EXCEPT !.woken = TRUE] \in Calling
           /\ \A n \in Nat : [call[c] EXCEPT !.wait = n] \in Calling
BY DEF Typed, Calling

LEMMA GotoIs ==
    ASSUME Typed, NEW c \in Callers, NEW s \in {"idle", "asks", "refused", "waits", "granted", "calls", "answered", "frees", "limited"}, Goto(c, s)
    PROVE  /\ call' \in [Callers -> Calling] /\ call'[c].step = s /\ call'[c] = [step |-> s, woken |-> FALSE, wait |-> 0]
           /\ \A d \in Callers : d # c => call'[d] = call[d]
<1>1. call \in [Callers -> Calling] /\ [step |-> s, woken |-> FALSE, wait |-> 0] \in Calling
  BY CallsAre DEF Typed
<1>2. call' = [call EXCEPT ![c] = [step |-> s, woken |-> FALSE, wait |-> 0]]
  BY DEF Goto
<1> QED BY <1>1, <1>2

\* What a caller does once its permit is released.
LEMMA DoneIs ==
    ASSUME NEW c \in Callers, Done(c)
    PROVE  Goto(c, "idle") \/ Goto(c, "limited")
<1>1. PICK s \in {"idle"} \cup (IF atDoor THEN {} ELSE {"limited"}) : Goto(c, s)
  BY DEF Done
<1> QED BY <1>1

\* Who is told of a release: everyone who listens.
LEMMA NotifyIs ==
    ASSUME Typed, NEW c \in Callers, Notify(c)
    PROVE  /\ call' \in [Callers -> Calling] /\ call'[c].step \in {"idle", "limited"}
           /\ \A d \in Callers : d # c => call'[d].step = call[d].step
           /\ \A d \in Callers : d # c /\ d \in Listeners => call'[d].woken
<1>1. PICK s \in {"idle"} \cup (IF atDoor THEN {} ELSE {"limited"}) :
         call' = [d \in Callers |->
             IF d = c THEN [step |-> s, woken |-> FALSE, wait |-> 0]
             ELSE [call[d] EXCEPT !.woken = @ \/ d \in Listeners]]
  BY DEF Notify
<1>2. s \in {"idle", "limited"}
  BY <1>1
<1>3. ASSUME NEW d \in Callers, d # c
      PROVE  call'[d] \in Calling /\ call'[d].step = call[d].step /\ (d \in Listeners => call'[d].woken)
  <2>1. PICK w \in BOOLEAN : w = (call[d].woken \/ d \in Listeners)
    OBVIOUS
  <2>2. call'[d] = [call[d] EXCEPT !.woken = w]
    BY <1>1, <1>3, <2>1
  <2>3. call[d] \in Calling
    BY CallsAre
  <2> QED BY <2>1, <2>2, <2>3 DEF Calling
<1>4. call'[c] = [step |-> s, woken |-> FALSE, wait |-> 0] /\ call'[c] \in Calling
  BY <1>1, <1>2, CallsAre
<1>5. call' \in [Callers -> Calling]
  BY <1>1, <1>3, <1>4
<1> QED BY <1>2, <1>3, <1>4, <1>5

-----------------------------------------------------------------------------
(* The invariant is kept by every step. *)

\* Where the limiter's state stays, but for calls that hold no permit.
LEMMA RoomStays ==
    ASSUME RoomInv, window' = window, granted' = granted, held' = held, permit' = permit, Typed',
           \A c \in Callers : permit[c] # NoPermit => call'[c].step \in {"granted", "calls", "answered"}
    PROVE  RoomInv'
<1> USE DEF RoomInv
<1>1. WindowsAre' /\ Counted'
  BY WindowsRead
<1>2. PlacesAre'
  BY PlacesStay
<1> QED BY <1>1, <1>2 DEF PermitsOut

\* A caller asks, begins to wait or wakes: none holds a permit.
LEMMA RoomAsks ==
    ASSUME RoomInv, NEW c \in Callers, Ask(c) \/ Sleep(c) \/ Wake(c)
    PROVE  RoomInv'
<1> USE DEF RoomInv
<1>1. window' = window /\ granted' = granted /\ held' = held /\ permit' = permit /\ throttle' = throttle
      /\ atDoor' = atDoor /\ open' = open
  BY DEF Ask, Sleep, Wake, limiterVars
<1>2. call[c].step \in {"idle", "refused", "waits"}
  BY DEF Ask, Sleep, Wake, At
<1>3. permit[c] = NoPermit
  BY <1>2 DEF PermitsOut
<1>4. call' \in [Callers -> Calling] /\ \A d \in Callers : d # c => call'[d] = call[d]
  <2>1. CASE Ask(c)
    BY <2>1, GotoIs DEF Ask
  <2>2. CASE Sleep(c)
    BY <2>2, CallsAre DEF Sleep, Typed
  <2>3. CASE Wake(c)
    <3>1. Goto(c, "idle") \/ Goto(c, "asks")
      BY <2>3 DEF Wake
    <3> QED BY <3>1, GotoIs
  <2> QED BY <2>1, <2>2, <2>3
<1>6. Typed'
  BY <1>1, <1>4 DEF Typed
<1>7. \A d \in Callers : permit[d] # NoPermit => call'[d].step \in {"granted", "calls", "answered"}
  BY <1>3, <1>4 DEF PermitsOut
<1> QED BY <1>1, <1>6, <1>7, RoomStays

LEMMA RoomRefuse ==
    ASSUME RoomInv, NEW c \in Callers, Refuse(c)
    PROVE  RoomInv'
<1> USE DEF RoomInv
<1>1. /\ held' = HeldWithout(Lapsed) /\ permit' = Unlapsed /\ granted' = granted
      /\ call' = [call EXCEPT ![c].step = "refused", ![c].wait = Retry(c)]
      /\ throttle' = throttle /\ atDoor' = atDoor /\ open' = open
      /\ \A b \in Buckets : window'[b] = window[b] \/ window'[b] = InWindow(b)
  BY DEF Refuse
<1>2. WindowsAre' /\ Counted'
  BY <1>1, WindowsRead
<1>3. PlacesAre'
  BY <1>1, UnlapsedIs, FreePlaces
<1>4. Retry(c) \in Nat
  <2>1. \A k \in Keys : throttle[k] \in Nat
    BY LimiterAssumption DEF Typed
  <2> QED BY <2>1, RetryIs
<1>5. call' = [call EXCEPT ![c] = [call[c] EXCEPT !.step = "refused", !.wait = Retry(c)]]
  BY <1>1 DEF Typed
<1>6. [call[c] EXCEPT !.step = "refused", !.wait = Retry(c)] \in Calling
  BY <1>4, CallsAre
<1>7. call' \in [Callers -> Calling] /\ \A d \in Callers : d # c => call'[d] = call[d]
  BY <1>5, <1>6 DEF Typed
<1>8. Typed'
  BY <1>1, <1>7 DEF Typed
<1>9. PermitsOut'
  <2> SUFFICES ASSUME NEW d \in Callers, permit'[d] # NoPermit PROVE call'[d].step \in {"granted", "calls", "answered"}
    BY DEF PermitsOut
  <2>1. permit[d] # NoPermit
    BY <1>1, UnlapsedIs
  <2>2. d # c
    BY <2>1 DEF Refuse, At, PermitsOut
  <2> QED BY <2>1, <2>2, <1>7 DEF PermitsOut
<1> QED BY <1>2, <1>3, <1>8, <1>9

LEMMA RoomGrant ==
    ASSUME RoomInv, NEW c \in Callers, Grant(c)
    PROVE  RoomInv'
<1> USE DEF RoomInv
<1>1. WindowsAre' /\ Counted' /\ PlacesAre'
  BY WindowsGrant, PlacesGrant
<1>2. /\ Goto(c, "granted") \/ Goto(c, "calls")
      /\ throttle' = throttle /\ atDoor' = atDoor /\ open' = open
      /\ permit' = [Unlapsed EXCEPT ![c] = IF Places(c) # {} THEN Hold ELSE @]
  BY DEF Grant
<1>3. call' \in [Callers -> Calling] /\ call'[c].step \in {"granted", "calls", "answered"} /\ \A d \in Callers : d # c => call'[d] = call[d]
  BY <1>2, GotoIs
<1>4. Typed'
  BY <1>2, <1>3 DEF Typed
<1>5. PermitsOut'
  <2> SUFFICES ASSUME NEW d \in Callers, d # c, permit'[d] # NoPermit PROVE call'[d].step \in {"granted", "calls", "answered"}
    BY <1>3 DEF PermitsOut
  <2>1. permit[d] # NoPermit
    BY <1>2, UnlapsedIs
  <2> QED BY <2>1, <1>3 DEF PermitsOut
<1> QED BY <1>1, <1>4, <1>5

\* A permit is given back, where it was not before.
LEMMA RoomRelease ==
    ASSUME RoomInv, NEW c \in Callers, Release(c)
    PROVE  RoomInv'
<1> USE DEF RoomInv
<1>1. /\ Freed(c) /\ window' = window /\ throttle' = throttle /\ atDoor' = atDoor /\ granted' = granted /\ open' = open
      /\ Goto(c, "frees") \/ Goto(c, "idle") \/ Goto(c, "limited")
  BY DoneIs DEF Release
<1>2. WindowsAre' /\ Counted'
  BY <1>1, WindowsRead
<1>3. PlacesAre' /\ permit' = [permit EXCEPT ![c] = NoPermit]
  BY <1>1, FreedPlaces
<1>4. call' \in [Callers -> Calling] /\ \A d \in Callers : d # c => call'[d] = call[d]
  BY <1>1, GotoIs
<1>5. Typed'
  BY <1>1, <1>4 DEF Typed
<1>6. PermitsOut'
  <2> SUFFICES ASSUME NEW d \in Callers, permit'[d] # NoPermit PROVE call'[d].step \in {"granted", "calls", "answered"}
    BY DEF PermitsOut
  <2>1. d # c /\ permit[d] # NoPermit
    BY <1>3 DEF PlacesAre
  <2> QED BY <2>1, <1>4 DEF PermitsOut
<1> QED BY <1>2, <1>3, <1>5, <1>6

\* The door notes a permit or is to give it back, or a call answers: its permit
\* is not released yet.
LEMMA RoomAnswers ==
    ASSUME RoomInv, NEW c \in Callers, Note(c) \/ Answer(c)
    PROVE  RoomInv'
<1> USE DEF RoomInv
<1>1. /\ window' = window /\ granted' = granted /\ held' = held /\ permit' = permit
      /\ throttle' = throttle /\ atDoor' = atDoor /\ open' = open
      /\ Goto(c, "calls") \/ Goto(c, "answered")
  BY DEF Note, Answer, limiterVars
<1>2. call' \in [Callers -> Calling] /\ call'[c].step \in {"calls", "answered"} /\ \A d \in Callers : d # c => call'[d] = call[d]
  BY <1>1, GotoIs
<1>3. Typed'
  BY <1>1, <1>2 DEF Typed
<1>4. \A d \in Callers : permit[d] # NoPermit => call'[d].step \in {"granted", "calls", "answered"}
  BY <1>2 DEF PermitsOut
<1> QED BY <1>1, <1>3, <1>4, RoomStays

\* Those who listen are told by one who holds no permit any more.
LEMMA RoomNotify ==
    ASSUME RoomInv, NEW c \in Callers, Notify(c)
    PROVE  RoomInv'
<1> USE DEF RoomInv
<1>1. window' = window /\ granted' = granted /\ held' = held /\ permit' = permit /\ throttle' = throttle
      /\ atDoor' = atDoor /\ open' = open
  BY DEF Notify, limiterVars
<1>2. call' \in [Callers -> Calling] /\ \A d \in Callers : d # c => call'[d].step = call[d].step
  BY NotifyIs
<1>3. permit[c] = NoPermit
  BY DEF Notify, At, PermitsOut
<1>4. Typed'
  BY <1>1, <1>2 DEF Typed
<1>5. \A d \in Callers : permit[d] # NoPermit => call'[d].step \in {"granted", "calls", "answered"}
  BY <1>2, <1>3 DEF PermitsOut
<1> QED BY <1>1, <1>4, <1>5, RoomStays

LEMMA RoomThrottle ==
    ASSUME RoomInv, NEW c \in Callers, Throttle(c)
    PROVE  RoomInv'
<1> USE DEF RoomInv
<1>1. /\ window' = window /\ granted' = granted /\ held' = held /\ permit' = permit
      /\ atDoor' = atDoor /\ open' = open
  BY DEF Throttle
<1>2. PICK n \in Throttles : Throttled(c, n)
  BY DEF Throttle
<1>3. throttle' \in [Keys -> UNION {0 .. m : m \in Throttles \cup {0}}]
  <2>1. throttle' = [throttle EXCEPT ![Key[c]] = Max({throttle[Key[c]], n})]
    BY <1>2 DEF Throttled, Typed
  <2>2. Key[c] \in Keys /\ n \in Nat
    BY RequestIs, LimiterAssumption
  <2>3. PICK v : v = throttle[Key[c]]
    OBVIOUS
  <2>4. v \in UNION {0 .. m : m \in Throttles \cup {0}}
    BY <2>2, <2>3 DEF Typed
  <2>5. v \in Nat
    BY <2>4, LimiterAssumption
  <2>6. PICK U \in SUBSET Nat : U = {v, n}
    BY <2>2, <2>5
  <2>7. Max(U) \in U
    <3>1. IsFiniteSet(U) /\ U # {}
      <4>1. IsFiniteSet({v}) /\ IsFiniteSet({n})
        BY FS_Singleton
      <4>2. {v, n} = {v} \cup {n}
        OBVIOUS
      <4>3. IsFiniteSet({v} \cup {n})
        BY <4>1, FS_Union
      <4> QED BY <2>6, <4>2, <4>3
    <3> QED BY <3>1, MaxIs
  <2>8. n \in UNION {0 .. m : m \in Throttles \cup {0}}
    <3>1. n \in 0 .. n
      BY <2>2
    <3> QED BY <3>1
  <2>9. Max({v, n}) \in UNION {0 .. m : m \in Throttles \cup {0}}
    BY <2>4, <2>6, <2>7, <2>8
  <2> QED BY <2>1, <2>3, <2>9 DEF Typed
<1>5. /\ call' \in [Callers -> Calling]
      /\ \A d \in Callers : permit[d] # NoPermit => call'[d].step \in {"granted", "calls", "answered"}
  <2>1. CASE call' = call
    BY <2>1 DEF Typed, PermitsOut
  <2>2. CASE At(c, "limited") /\ Goto(c, "idle")
    <3>1. permit[c] = NoPermit
      BY <2>2 DEF At, PermitsOut
    <3>2. call' \in [Callers -> Calling] /\ \A d \in Callers : d # c => call'[d] = call[d]
      BY <2>2, GotoIs
    <3> QED BY <3>1, <3>2 DEF PermitsOut
  <2> QED BY <2>1, <2>2 DEF Throttle
<1>6. Typed'
  BY <1>1, <1>3, <1>5 DEF Typed
<1> QED BY <1>1, <1>5, <1>6, RoomStays

\* A ticket dropped leaves its permits to be released.
LEMMA RoomDrop ==
    ASSUME RoomInv, NEW t \in Tickets, DropTicket(t)
    PROVE  RoomInv'
<1> USE DEF RoomInv
<1>1. /\ window' = window /\ granted' = granted /\ held' = held /\ permit' = permit /\ throttle' = throttle
      /\ atDoor' = atDoor /\ open' = open \ {t}
      /\ call' = [c \in Callers |->
             IF Ticket[c] = t /\ At(c, "calls") THEN [step |-> "answered", woken |-> FALSE, wait |-> 0] ELSE call[c]]
  BY DEF DropTicket, limiterVars
<1>2. \A c \in Callers : call[c] \in Calling /\ [step |-> "answered", woken |-> FALSE, wait |-> 0] \in Calling
  BY CallsAre
<1>3. call' \in [Callers -> Calling] /\ \A c \in Callers : call'[c] = call[c] \/ call'[c].step = "answered"
  BY <1>1, <1>2
<1>4. Typed'
  BY <1>1, <1>3 DEF Typed
<1>5. \A c \in Callers : permit[c] # NoPermit => call'[c].step \in {"granted", "calls", "answered"}
  BY <1>3 DEF PermitsOut
<1> QED BY <1>1, <1>4, <1>5, RoomStays

LEMMA RoomTick ==
    ASSUME RoomInv, Tick
    PROVE  RoomInv'
<1> USE DEF RoomInv
<1>1. WindowsAre' /\ Counted'
  BY WindowsTick
<1>2. PlacesAre' /\ \A c \in Callers : permit'[c] # NoPermit <=> permit[c] # NoPermit
  BY PlacesTick
<1>3. /\ throttle' = [k \in Keys |-> Down(throttle[k])]
      /\ call' = [c \in Callers |-> [call[c] EXCEPT !.wait = Down(@)]]
      /\ atDoor' = atDoor /\ open' = open
  BY DEF Tick
<1>4. throttle' \in [Keys -> UNION {0 .. n : n \in Throttles \cup {0}}]
  <2>1. ASSUME NEW k \in Keys PROVE Down(throttle[k]) \in UNION {0 .. n : n \in Throttles \cup {0}}
    <3>1. PICK n \in Throttles \cup {0} : throttle[k] \in 0 .. n
      BY <2>1 DEF Typed
    <3>2. Down(throttle[k]) \in 0 .. n
      BY <3>1, LimiterAssumption DEF Down
    <3> QED BY <3>2
  <2> QED BY <1>3, <2>1
<1>5. \A c \in Callers : /\ [call[c] EXCEPT !.wait = Down(@)] \in Calling
                         /\ [call[c] EXCEPT !.wait = Down(@)].step = call[c].step
  <2> SUFFICES ASSUME NEW c \in Callers
               PROVE  [call[c] EXCEPT !.wait = Down(@)] \in Calling /\ [call[c] EXCEPT !.wait = Down(@)].step = call[c].step
    OBVIOUS
  <2>1. PICK n \in Nat : n = Down(call[c].wait)
    <3>1. PICK m : m = call[c].wait
      OBVIOUS
    <3>2. m \in Nat
      BY <3>1, CallsAre
    <3>3. Down(m) \in Nat
      BY <3>2 DEF Down
    <3> QED BY <3>1, <3>3
  <2>2. [call[c] EXCEPT !.wait = n] \in Calling /\ call[c] \in Calling
    BY CallsAre
  <2> QED BY <2>1, <2>2 DEF Calling
<1>6. call' \in [Callers -> Calling] /\ \A c \in Callers : call'[c].step = call[c].step
  BY <1>3, <1>5
<1>7. Typed'
  BY <1>3, <1>4, <1>6 DEF Typed
<1>8. PermitsOut'
  BY <1>2, <1>6 DEF PermitsOut
<1> QED BY <1>1, <1>2, <1>7, <1>8

LEMMA RoomStep == RoomInv /\ [Next]_vars => RoomInv'
<1> SUFFICES ASSUME RoomInv, [Next]_vars PROVE RoomInv'
  OBVIOUS
<1>1. CASE Tick
  BY <1>1, RoomTick
<1>2. ASSUME NEW c \in Callers, Ask(c) \/ Sleep(c) \/ Wake(c) PROVE RoomInv'
  BY <1>2, RoomAsks
<1>3. ASSUME NEW c \in Callers, Refuse(c) PROVE RoomInv'
  BY <1>3, RoomRefuse
<1>4. ASSUME NEW c \in Callers, Grant(c) PROVE RoomInv'
  BY <1>4, RoomGrant
<1>5. ASSUME NEW c \in Callers, Note(c) \/ Answer(c) PROVE RoomInv'
  BY <1>5, RoomAnswers
<1>6. ASSUME NEW c \in Callers, Throttle(c) PROVE RoomInv'
  BY <1>6, RoomThrottle
<1>7. ASSUME NEW t \in Tickets, DropTicket(t) PROVE RoomInv'
  BY <1>7, RoomDrop
<1>8. ASSUME NEW c \in Callers, Release(c) PROVE RoomInv'
  BY <1>8, RoomRelease
<1>9. ASSUME NEW c \in Callers, Notify(c) PROVE RoomInv'
  BY <1>9, RoomNotify
<1>10. CASE UNCHANGED vars
  <2>1. window' = window /\ granted' = granted /\ held' = held /\ permit' = permit /\ throttle' = throttle
        /\ atDoor' = atDoor /\ open' = open /\ call' = call
    BY <1>10 DEF vars
  <2>2. Typed'
    BY <2>1 DEF Typed, RoomInv
  <2> QED BY <2>1, <2>2, RoomStays DEF PermitsOut, RoomInv
<1> QED BY <1>1, <1>2, <1>3, <1>4, <1>5, <1>6, <1>7, <1>8, <1>9, <1>10 DEF Next, Steps

-----------------------------------------------------------------------------
(* The theorems. *)

\* Every state has its type: no bucket's count goes below zero or past its
\* callers, and no call is counted for more than its window.
THEOREM LimiterTypes == Spec => []TypeOK
<1>1. RoomInv => TypeOK
  <2> SUFFICES ASSUME RoomInv PROVE TypeOK
    OBVIOUS
  <2> USE DEF RoomInv
  <2>1. \A b \in Buckets : {window[b], granted[b]} \subseteq Seq([age : 0 .. Limit[b].per, cost : 1 .. Limit[b].calls])
    BY BucketIs DEF CallIn
  <2>2. \A b \in Buckets : held[b] \in 0 .. Cardinality(Callers)
    <3> SUFFICES ASSUME NEW b \in Buckets PROVE held[b] \in 0 .. Cardinality(Callers)
      OBVIOUS
    <3>1. held[b] = Cardinality(Holders(permit, b))
      BY DEF PlacesAre
    <3> QED BY <3>1, HoldersFinite
  <2>3. held \in [Buckets -> 0 .. Cardinality(Callers)]
    BY <2>2 DEF PlacesAre
  <2> QED BY <2>1, <2>3 DEF TypeOK, Typed, Calling, PlacesAre
<1> QED BY <1>1, RoomInit, RoomStep, PTL DEF Spec

\* No limit is ever passed, and no place taken but by a call not
\* yet released, whichever permits lapse, come back late or outlive their ticket.
THEOREM LimitsAreKept == Spec => []LimitsHold
<1>1. RoomInv => LimitsHold
  <2> SUFFICES ASSUME RoomInv, NEW b \in Buckets
               PROVE  LET permits == {c \in Callers : permit[c] # NoPermit /\ b \in Places(c)} IN
                      /\ Spent(granted[b]) <= Limit[b].calls
                      /\ held[b] = Cardinality(permits) /\ held[b] <= Limit[b].concurrent
                      /\ \A c \in permits : call[c].step \in {"granted", "calls", "answered"}
    BY DEF LimitsHold
  <2> QED BY DEF RoomInv, Counted, PlacesAre, PermitsOut, Holders
<1> QED BY <1>1, RoomInit, RoomStep, PTL DEF Spec

-----------------------------------------------------------------------------
(* Who sleeps. *)

\* For n ticks more, the calls from some one on take more of window g than c
\* would leave them.
Blocks(g, b, c, n) ==
    \E i \in 1 .. Len(g) :
        /\ g[i].age + n <= Limit[b].per
        /\ Spent(SubSeq(g, i, Len(g))) + WindowCost(c, b) > Limit[b].calls

\* Whose permits p last.
Lasting(p, b) == {d \in Callers : p[d] > 0 /\ b \in Places(d)}

\* For as long as c is to wait, something keeps it out.
IsBarred(c) ==
    \/ throttle[Key[c]] >= call[c].wait
    \/ \E b \in Windows(c) : Blocks(granted[b], b, c, call[c].wait)
    \/ \E b \in Places(c) :
         /\ Cardinality(Lasting(permit, b)) >= Limit[b].concurrent
         /\ \A d \in Callers : permit[d] > 0 => call[c].wait <= permit[d]

Sleeps(c) == ~atDoor /\ call[c].step \in {"refused", "waits"} /\ ~call[c].woken /\ call[c].wait > 0

BarredInv ==
    /\ RoomInv
    /\ ~atDoor => open = {}
    /\ \A c \in Callers : Sleeps(c) => IsBarred(c)

\* A permit was freed, and those who wait are not told yet.
Freeing == \E d \in Callers : At(d, "frees")

SleepInv ==
    /\ RoomInv
    /\ ~atDoor => open = {}
    /\ Freeing \/ BarredInv

\* A call of window g and what it and the later ones cost.
LEMMA RestCosts ==
    ASSUME NEW b \in Buckets, NEW g \in Seq(CallIn(b)), NEW i \in 1 .. Len(g)
    PROVE  \E r \in Seq(Costed) :
             /\ r = SubSeq(g, i, Len(g)) /\ Len(r) = Len(g) - (i - 1) /\ Spent(r) \in Nat
             /\ \A j \in 1 .. Len(r) : r[j] = g[j + (i - 1)]
<1>1. i \in 1 .. Len(g) + 1
  OBVIOUS
<1>2. PICK r \in Seq(CallIn(b)) : r = SubSeq(g, i, Len(g)) /\ Len(r) = Len(g) - (i - 1) /\ \A j \in 1 .. Len(r) : r[j] = g[j + (i - 1)]
  BY <1>1, RestOf
<1>3. r \in Seq(Costed)
  BY LimitIs
<1>4. Spent(r) \in Nat
  BY <1>3, SpentType
<1> QED BY <1>2, <1>3, <1>4

\* A blocked window has no room.
LEMMA BlocksNow ==
    ASSUME NEW c \in Callers, NEW b \in Windows(c), NEW g \in Seq(CallIn(b)), NEW n \in Nat, Blocks(g, b, c, n)
    PROVE  Spent(g) + WindowCost(c, b) > Limit[b].calls
<1>1. b \in Buckets /\ WindowCost(c, b) \in Nat /\ Limit[b].calls \in Nat /\ g \in Seq(Costed) /\ Len(g) \in Nat
  BY RequestIs, LimitIs
<1>2. PICK i \in 1 .. Len(g) : Spent(SubSeq(g, i, Len(g))) + WindowCost(c, b) > Limit[b].calls
  BY DEF Blocks
<1>3. PICK r \in Seq(Costed) : /\ r = SubSeq(g, i, Len(g)) /\ Len(r) = Len(g) - (i - 1) /\ Spent(r) \in Nat
                               /\ \A j \in 1 .. Len(r) : r[j] = g[j + (i - 1)]
  BY <1>1, RestCosts
<1>4. EndsLike(r, g)
  BY <1>1, <1>3 DEF EndsLike
<1>5. Spent(r) <= Spent(g) /\ Spent(g) \in Nat
  BY <1>1, <1>4, SpentOfSuffix, SpentType
<1> QED BY <1>1, <1>2, <1>3, <1>5

\* It stays blocked when a call more is counted.
LEMMA BlocksCounted ==
    ASSUME NEW c \in Callers, NEW b \in Windows(c), NEW g \in Seq(CallIn(b)), NEW n \in Nat, Blocks(g, b, c, n),
           NEW e \in CallIn(b)
    PROVE  Blocks(Append(g, e), b, c, n)
<1>1. b \in Buckets /\ WindowCost(c, b) \in Nat /\ Limit[b].calls \in Nat /\ Len(g) \in Nat
  BY RequestIs, LimitIs
<1>2. PICK i \in 1 .. Len(g) : /\ g[i].age + n <= Limit[b].per
                               /\ Spent(SubSeq(g, i, Len(g))) + WindowCost(c, b) > Limit[b].calls
  BY DEF Blocks
<1>3. PICK r \in Seq(Costed) : /\ r = SubSeq(g, i, Len(g)) /\ Len(r) = Len(g) - (i - 1) /\ Spent(r) \in Nat
                               /\ \A j \in 1 .. Len(r) : r[j] = g[j + (i - 1)]
  BY <1>1, RestCosts
<1>4. PICK h \in Seq(CallIn(b)) : h = Append(g, e)
  <2>1. PICK S : S = CallIn(b)
    OBVIOUS
  <2>2. g \in Seq(S) /\ e \in S
    BY <2>1
  <2>3. Append(g, e) \in Seq(S)
    BY <2>2
  <2> QED BY <2>1, <2>3
<1>5. Len(h) = Len(g) + 1 /\ h[Len(g) + 1] = e /\ (\A j \in 1 .. Len(g) : h[j] = g[j]) /\ i \in 1 .. Len(h)
  BY <1>1, <1>4
<1>6. PICK q \in Seq(Costed) : /\ q = SubSeq(h, i, Len(h)) /\ Len(q) = Len(h) - (i - 1) /\ Spent(q) \in Nat
                               /\ \A j \in 1 .. Len(q) : q[j] = h[j + (i - 1)]
  BY <1>1, <1>5, RestCosts
<1>7. Len(q) = Len(r) + 1 /\ Len(r) \in Nat
  BY <1>1, <1>3, <1>5, <1>6
<1>8. \A j \in 1 .. Len(r) : q[j].cost = r[j].cost
  <2> SUFFICES ASSUME NEW j \in 1 .. Len(r) PROVE q[j] = r[j]
    OBVIOUS
  <2>1. j + (i - 1) \in 1 .. Len(g) /\ j \in 1 .. Len(q)
    BY <1>1, <1>3, <1>7
  <2> QED BY <2>1, <1>3, <1>5, <1>6
<1>9. Spent(q) = Spent(r) + q[Len(q)].cost
  BY <1>7, <1>8, SpentLast
<1>10. q[Len(q)].cost \in Nat
  <2>1. q[Len(q)] \in Costed
    BY <1>7
  <2> QED BY <2>1 DEF Costed
<1>11. Spent(SubSeq(h, i, Len(h))) + WindowCost(c, b) > Limit[b].calls
  <2>1. Spent(r) + WindowCost(c, b) > Limit[b].calls
    BY <1>2, <1>3
  <2>2. Spent(q) + WindowCost(c, b) > Limit[b].calls
    <3>1. PICK z \in Nat : z = q[Len(q)].cost
      BY <1>10
    <3>2. Spent(r) \in Nat /\ Spent(q) = Spent(r) + z /\ WindowCost(c, b) \in Nat /\ Limit[b].calls \in Nat
      BY <1>1, <1>3, <1>9, <3>1
    <3> QED BY <2>1, <3>2
  <2> QED BY <1>6, <2>2
<1>12. h[i].age + n <= Limit[b].per
  BY <1>2, <1>5
<1> QED BY <1>4, <1>5, <1>11, <1>12 DEF Blocks

\* A tick later it is blocked for a tick less.
LEMMA BlocksTick ==
    ASSUME NEW c \in Callers, NEW b \in Windows(c), NEW g \in Seq(CallIn(b)), NEW n \in Nat, n > 1, Blocks(g, b, c, n)
    PROVE  Blocks(Kept(Older(g, b), b), b, c, n - 1)
<1>1. b \in Buckets /\ WindowCost(c, b) \in Nat /\ Limit[b].calls \in Nat /\ Limit[b].per \in Nat /\ Len(g) \in Nat
  BY RequestIs, LimitIs
<1>2. PICK i \in 1 .. Len(g) : /\ g[i].age + n <= Limit[b].per
                               /\ Spent(SubSeq(g, i, Len(g))) + WindowCost(c, b) > Limit[b].calls
  BY DEF Blocks
<1>3. PICK o \in Seq(CallIn(b)) : o = Older(g, b) /\ Len(o) = Len(g)
  BY <1>1, OlderIs
<1>4. \A j \in 1 .. Len(g) : o[j].cost = g[j].cost
  BY <1>1, <1>3, OlderIs, Zenon
<1>5. o[i].age = g[i].age + 1 /\ g[i].age \in Nat
  <2>1. o[i].age = IF g[i].age < Limit[b].per THEN g[i].age + 1 ELSE g[i].age
    BY <1>1, <1>3, OlderIs, Zenon
  <2>2. g[i] \in CallIn(b)
    OBVIOUS
  <2>3. g[i].age \in Nat
    BY <2>2, <1>1 DEF CallIn
  <2> QED BY <1>1, <1>2, <2>1, <2>3
<1>6. PICK m \in 0 .. Len(o) : \E k \in Seq(CallIn(b)) :
               /\ k = Kept(o, b) /\ Goes(m, o, b)
               /\ Len(k) = Len(o) - m
               /\ \A j \in 1 .. Len(k) : k[j] = o[j + m]
  BY <1>1, KeptOf
<1>7. PICK k \in Seq(CallIn(b)) :
               /\ k = Kept(o, b) /\ Goes(m, o, b)
               /\ Len(k) = Len(o) - m
               /\ \A j \in 1 .. Len(k) : k[j] = o[j + m]
  BY <1>6
<1>8. ~(i <= m)
  <2> SUFFICES ASSUME i <= m PROVE FALSE
    OBVIOUS
  <2>1. i \in 1 .. m
    BY <1>1, <1>3
  <2>2. ~(o[i].age < Limit[b].per)
    BY <2>1, <1>7 DEF Goes
  <2> QED BY <2>2, <1>1, <1>2, <1>5
<1>9. PICK x \in 1 .. Len(k) : x = i - m
  BY <1>1, <1>3, <1>7, <1>8
<1>10. x + m = i /\ k[x] = o[i]
  BY <1>1, <1>7, <1>9
<1>11. k[x].age + (n - 1) <= Limit[b].per
  BY <1>1, <1>2, <1>5, <1>10
<1>12. PICK r \in Seq(Costed) : /\ r = SubSeq(g, i, Len(g)) /\ Len(r) = Len(g) - (i - 1) /\ Spent(r) \in Nat
                                /\ \A j \in 1 .. Len(r) : r[j] = g[j + (i - 1)]
  BY <1>1, RestCosts
<1>13. PICK q \in Seq(Costed) : /\ q = SubSeq(k, x, Len(k)) /\ Len(q) = Len(k) - (x - 1) /\ Spent(q) \in Nat
                                /\ \A j \in 1 .. Len(q) : q[j] = k[j + (x - 1)]
  BY <1>1, RestCosts
<1>14. Len(q) = Len(r) /\ Len(r) \in Nat
  <2>1. m \in Nat /\ i \in Nat /\ x = i - m /\ Len(g) \in Nat
    BY <1>1, <1>3, <1>6, <1>9
  <2>2. Len(q) = (Len(g) - m) - (x - 1) /\ Len(r) = Len(g) - (i - 1)
    BY <1>3, <1>7, <1>12, <1>13
  <2>3. Len(r) \in Nat
    OBVIOUS
  <2> QED BY <2>1, <2>2, <2>3
<1>15. \A j \in 1 .. Len(r) : r[j].cost = q[j].cost
  <2> SUFFICES ASSUME NEW j \in 1 .. Len(r) PROVE r[j].cost = q[j].cost
    OBVIOUS
  <2>1. j + (i - 1) \in 1 .. Len(g) /\ j + (x - 1) \in 1 .. Len(k) /\ (j + (x - 1)) + m = j + (i - 1) /\ j \in 1 .. Len(q)
    BY <1>1, <1>3, <1>7, <1>9, <1>12, <1>14
  <2>2. r[j] = g[j + (i - 1)]
    BY <1>12
  <2>3. q[j] = k[j + (x - 1)]
    BY <2>1, <1>13
  <2>4. k[j + (x - 1)] = o[j + (i - 1)]
    BY <2>1, <1>7
  <2>5. o[j + (i - 1)].cost = g[j + (i - 1)].cost
    BY <2>1, <1>4
  <2> QED BY <2>2, <2>3, <2>4, <2>5
<1>16. Spent(q) = Spent(r)
  BY <1>14, <1>15, SpentAgrees
<1>17. Spent(SubSeq(k, x, Len(k))) + WindowCost(c, b) > Limit[b].calls
  BY <1>2, <1>12, <1>13, <1>16
<1>18. Blocks(k, b, c, n - 1)
  BY <1>11, <1>17 DEF Blocks
<1> QED BY <1>3, <1>7, <1>18

LEMMA LastingFinite ==
    ASSUME NEW p, NEW b
    PROVE  IsFiniteSet(Lasting(p, b)) /\ Cardinality(Lasting(p, b)) \in Nat
BY ConstantsAre, FS_Subset, FS_CardinalityType DEF Lasting, HoldIs

\* Those that last are those that hold a place once the lapsed gave theirs back.
LEMMA LastingHold ==
    ASSUME PlacesAre, NEW b
    PROVE  Lasting(permit, b) = Holders(Unlapsed, b)
<1>1. \A c \in Callers : permit[c] \in NoPermit .. Hold /\ Unlapsed[c] = IF c \in Lapsed THEN NoPermit ELSE permit[c]
  BY UnlapsedIs DEF PlacesAre
<1>2. \A c \in Callers : permit[c] > 0 <=> Unlapsed[c] # NoPermit
  BY <1>1, ConstantsAre DEF Lapsed, NoPermit, HoldIs
<1> QED BY <1>2 DEF Lasting, Holders

\* What keeps c out is still there after a step that wakes nobody: no throttle
\* ends, no call leaves a window and no permit that lasts is given back.
LEMMA BarredStays ==
    ASSUME RoomInv, NEW c \in Callers, IsBarred(c), call[c].wait > 0, call'[c].wait = call[c].wait,
           throttle'[Key[c]] \in Nat, throttle'[Key[c]] >= throttle[Key[c]],
           \A b \in Windows(c) : granted'[b] = granted[b] \/ \E e \in CallIn(b) : granted'[b] = Append(granted[b], e),
           \A b \in Places(c) : Lasting(permit, b) \subseteq Lasting(permit', b),
           \A d \in Callers : permit'[d] > 0 => permit'[d] = permit[d] \/ permit'[d] = Hold
    PROVE  IsBarred(c)'
<1>1. call[c].wait \in Nat /\ throttle[Key[c]] \in Nat
  <2>1. Key[c] \in Keys /\ \A k \in Keys : throttle[k] \in Nat
    BY RequestIs, LimiterAssumption DEF Typed, RoomInv
  <2> QED BY <2>1, CallsAre DEF RoomInv
<1>2. CASE throttle[Key[c]] >= call[c].wait
  <2>1. throttle'[Key[c]] >= call'[c].wait
    BY <1>1, <1>2
  <2> QED BY <2>1 DEF IsBarred
<1>3. CASE \E b \in Windows(c) : Blocks(granted[b], b, c, call[c].wait)
  <2>1. PICK b \in Windows(c) : Blocks(granted[b], b, c, call[c].wait)
    BY <1>3
  <2>2. b \in Buckets
    BY RequestIs
  <2>3. PICK g \in Seq(CallIn(b)) : g = granted[b]
    BY <2>2, BucketIs DEF RoomInv
  <2>4. PICK h : h = granted'[b]
    OBVIOUS
  <2>5. Blocks(h, b, c, call[c].wait)
    <3>1. CASE h = g
      BY <2>1, <2>3, <3>1
    <3>2. CASE \E e \in CallIn(b) : h = Append(g, e)
      BY <2>1, <2>3, <3>2, <1>1, BlocksCounted
    <3> QED BY <2>3, <2>4, <3>1, <3>2
  <2>6. \E d \in Windows(c) : Blocks(granted'[d], d, c, call'[c].wait)
    BY <2>4, <2>5
  <2>7. (\E d \in Windows(c) : Blocks(granted[d], d, c, call[c].wait))'
    BY <2>6 DEF Blocks, Windows, WindowCost, Spent
  <2> QED BY <2>7 DEF IsBarred
<1>4. CASE \E b \in Places(c) :
             /\ Cardinality(Lasting(permit, b)) >= Limit[b].concurrent
             /\ \A d \in Callers : permit[d] > 0 => call[c].wait <= permit[d]
  <2>1. PICK b \in Places(c) :
             /\ Cardinality(Lasting(permit, b)) >= Limit[b].concurrent
             /\ \A d \in Callers : permit[d] > 0 => call[c].wait <= permit[d]
    BY <1>4
  <2>2. b \in Buckets /\ Limit[b].concurrent > 0 /\ Limit[b].concurrent \in Nat
    BY RequestIs, LimitIs
  <2>3. IsFiniteSet(Lasting(permit', b)) /\ Cardinality(Lasting(permit', b)) \in Nat /\ Cardinality(Lasting(permit, b)) \in Nat
    BY LastingFinite
  <2>4. Cardinality(Lasting(permit, b)) <= Cardinality(Lasting(permit', b))
    BY <2>3, FS_Subset
  <2>5. Cardinality(Lasting(permit', b)) >= Limit[b].concurrent
    BY <2>1, <2>2, <2>3, <2>4
  <2>6. call[c].wait <= Hold
    <3>1. Lasting(permit, b) # {}
      <4>1. Cardinality(Lasting(permit, b)) # 0
        BY <2>1, <2>2, <2>3
      <4> QED BY <4>1, FS_EmptySet
    <3>2. PICK d \in Callers : permit[d] > 0
      BY <3>1 DEF Lasting
    <3>3. permit[d] \in Int /\ permit[d] <= Hold /\ Hold \in Nat
      BY ConstantsAre DEF RoomInv, PlacesAre, NoPermit, HoldIs
    <3> QED BY <1>1, <2>1, <3>2, <3>3
  <2>7. \A d \in Callers : permit'[d] > 0 => call'[c].wait <= permit'[d]
    BY <2>1, <2>6
  <2> QED BY <2>5, <2>7 DEF IsBarred, Lasting, Places
<1> QED BY <1>2, <1>3, <1>4 DEF IsBarred

\* Time passes for what keeps c out as it does for c.
LEMMA BarredTick ==
    ASSUME RoomInv, NEW c \in Callers, IsBarred(c), Tick, call'[c].wait > 0
    PROVE  IsBarred(c)'
<1>1. call[c].wait \in Nat /\ throttle[Key[c]] \in Nat /\ Key[c] \in Keys
  <2>1. Key[c] \in Keys /\ \A k \in Keys : throttle[k] \in Nat
    BY RequestIs, LimiterAssumption DEF Typed, RoomInv
  <2> QED BY <2>1, CallsAre DEF RoomInv
<1>2. /\ call' = [d \in Callers |-> [call[d] EXCEPT !.wait = Down(@)]]
      /\ throttle' = [k \in Keys |-> Down(throttle[k])]
      /\ permit' = [d \in Callers |-> Down(permit[d])]
      /\ granted' = [b \in Buckets |-> Kept(Older(granted[b], b), b)]
  BY DEF Tick
<1>3. call'[c].wait = Down(call[c].wait)
  <2>1. call[c] \in Calling
    BY CallsAre DEF RoomInv
  <2> QED BY <1>2, <2>1 DEF Calling
<1>4. call[c].wait > 1 /\ call'[c].wait = call[c].wait - 1
  BY <1>1, <1>3 DEF Down
<1>5. CASE throttle[Key[c]] >= call[c].wait
  <2>1. throttle'[Key[c]] = throttle[Key[c]] - 1
    BY <1>1, <1>2, <1>4, <1>5 DEF Down
  <2>2. throttle'[Key[c]] >= call'[c].wait
    BY <1>1, <1>4, <1>5, <2>1
  <2> QED BY <2>2 DEF IsBarred
<1>6. CASE \E b \in Windows(c) : Blocks(granted[b], b, c, call[c].wait)
  <2>1. PICK b \in Windows(c) : Blocks(granted[b], b, c, call[c].wait)
    BY <1>6
  <2>2. b \in Buckets
    BY RequestIs
  <2>3. granted[b] \in Seq(CallIn(b))
    BY <2>2, BucketIs DEF RoomInv
  <2>4. Blocks(Kept(Older(granted[b], b), b), b, c, call[c].wait - 1)
    BY <1>1, <1>4, <2>1, <2>3, BlocksTick
  <2>5. \E d \in Windows(c) : Blocks(granted'[d], d, c, call'[c].wait)
    BY <1>2, <1>4, <2>2, <2>4
  <2>6. (\E d \in Windows(c) : Blocks(granted[d], d, c, call[c].wait))'
    BY <2>5 DEF Blocks, Windows, WindowCost, Spent
  <2> QED BY <2>6 DEF IsBarred
<1>7. CASE \E b \in Places(c) :
             /\ Cardinality(Lasting(permit, b)) >= Limit[b].concurrent
             /\ \A d \in Callers : permit[d] > 0 => call[c].wait <= permit[d]
  <2>1. PICK b \in Places(c) :
             /\ Cardinality(Lasting(permit, b)) >= Limit[b].concurrent
             /\ \A d \in Callers : permit[d] > 0 => call[c].wait <= permit[d]
    BY <1>7
  <2>2. ASSUME NEW d \in Callers
        PROVE  (permit'[d] > 0 <=> permit[d] > 0) /\ (permit'[d] > 0 => call'[c].wait <= permit'[d])
    <3>1. permit[d] \in NoPermit .. Hold /\ Hold \in Nat
      BY ConstantsAre DEF RoomInv, PlacesAre, HoldIs
    <3>2. permit'[d] = Down(permit[d])
      BY <1>2
    <3> QED BY <1>1, <1>4, <2>1, <3>1, <3>2 DEF Down, NoPermit
  <2>3. Lasting(permit', b) = Lasting(permit, b)
    BY <2>2 DEF Lasting
  <2> QED BY <2>1, <2>2, <2>3 DEF IsBarred, Lasting, Places
<1> QED BY <1>5, <1>6, <1>7 DEF IsBarred

\* Where the limiter's state stays, or only a throttle is raised.
LEMMA BarredSame ==
    ASSUME BarredInv, NEW c \in Callers, Sleeps(c), call'[c].wait = call[c].wait,
           granted' = granted, permit' = permit, throttle'[Key[c]] \in Nat, throttle'[Key[c]] >= throttle[Key[c]]
    PROVE  IsBarred(c)'
<1>1. IsBarred(c) /\ call[c].wait > 0 /\ RoomInv
  BY DEF BarredInv, Sleeps
<1>2. \A b \in Places(c) : Lasting(permit, b) \subseteq Lasting(permit', b)
  OBVIOUS
<1> QED BY <1>1, <1>2, BarredStays

LEMMA ThrottleIs ==
    ASSUME Typed
    PROVE  \A k \in Keys : throttle[k] \in Nat
BY LimiterAssumption DEF Typed

\* A step of c, its own or another's, that leaves the limiter's state alone.
LEMMA SleepsAsk ==
    ASSUME BarredInv, NEW d \in Callers, Ask(d) \/ Sleep(d) \/ Wake(d), NEW c \in Callers, Sleeps(c)'
    PROVE  IsBarred(c)'
<1>1. granted' = granted /\ permit' = permit /\ throttle' = throttle /\ atDoor' = atDoor
  BY DEF Ask, Sleep, Wake, limiterVars
<1>2. Typed /\ Key[c] \in Keys /\ throttle[Key[c]] \in Nat
  BY ThrottleIs, RequestIs DEF BarredInv, RoomInv
<1>3. Sleeps(c) /\ call'[c].wait = call[c].wait
  <2>1. CASE Ask(d) \/ Wake(d)
    <3>1. Goto(d, "idle") \/ Goto(d, "asks")
      BY <2>1 DEF Ask, Wake
    <3>2. call'[d].step \in {"idle", "asks"} /\ \A x \in Callers : x # d => call'[x] = call[x]
      BY <1>2, <3>1, GotoIs
    <3>3. c # d
      BY <3>2 DEF Sleeps
    <3> QED BY <1>1, <3>2, <3>3 DEF Sleeps
  <2>2. CASE Sleep(d)
    <3>1. call' = [call EXCEPT ![d].step = "waits"] /\ call[d].step = "refused"
      BY <2>2 DEF Sleep, At
    <3>2. call[c] \in Calling /\ call \in [Callers -> Calling]
      BY <1>2 DEF Typed
    <3>3. call'[c].wait = call[c].wait /\ call'[c].woken = call[c].woken /\ (call'[c].step = call[c].step \/ c = d)
      BY <3>1, <3>2 DEF Calling
    <3> QED BY <1>1, <3>1, <3>3 DEF Sleeps
  <2> QED BY <2>1, <2>2
<1> QED BY <1>1, <1>2, <1>3, BarredSame

\* A refusal says how long to wait for what keeps the call out.
LEMMA SleepsRefuse ==
    ASSUME BarredInv, NEW d \in Callers, Refuse(d), NEW c \in Callers, Sleeps(c)'
    PROVE  IsBarred(c)'
<1> USE DEF BarredInv
<1>1. /\ call' = [call EXCEPT ![d].step = "refused", ![d].wait = Retry(d)]
      /\ permit' = Unlapsed /\ granted' = granted /\ throttle' = throttle /\ atDoor' = atDoor /\ Retry(d) > 0
  BY DEF Refuse
<1>2. Typed /\ Key[c] \in Keys /\ throttle[Key[c]] \in Nat /\ WindowsAre /\ PlacesAre /\ Counted
      /\ \A k \in Keys : throttle[k] \in Nat
  BY ThrottleIs, RequestIs DEF RoomInv
<1>3. call \in [Callers -> Calling] /\ call[c] \in Calling
  BY <1>2 DEF Typed
<1>4. \A x \in Callers : permit[x] \in NoPermit .. Hold /\ permit'[x] = IF x \in Lapsed THEN NoPermit ELSE permit[x]
  BY <1>1, <1>2, UnlapsedIs DEF PlacesAre
<1>5. \A x \in Callers : (permit'[x] > 0 <=> permit[x] > 0) /\ (permit'[x] > 0 => permit'[x] = permit[x])
  BY <1>4, ConstantsAre DEF Lapsed, NoPermit, HoldIs
<1>6. \A b : Lasting(permit', b) = Lasting(permit, b)
  BY <1>5 DEF Lasting
<1>7. CASE c # d
  <2>1. call'[c] = call[c]
    BY <1>1, <1>3, <1>7
  <2>2. Sleeps(c)
    BY <1>1, <2>1 DEF Sleeps
  <2>3. IsBarred(c) /\ call[c].wait > 0
    BY <2>2 DEF Sleeps
  <2>4. \A b \in Windows(c) : granted'[b] = granted[b]
    BY <1>1
  <2>5. throttle'[Key[c]] \in Nat /\ throttle'[Key[c]] >= throttle[Key[c]] /\ call'[c].wait = call[c].wait
    <3>1. throttle'[Key[c]] \in Nat /\ throttle'[Key[c]] >= throttle[Key[c]]
      BY <1>1, <1>2
    <3> QED BY <2>1, <3>1
  <2> QED BY <1>5, <1>6, <2>3, <2>4, <2>5, BarredStays
<1>8. CASE c = d
  <2>1. call'[c].wait = Retry(c)
    BY <1>1, <1>3, <1>8 DEF Calling
  <2>2. Retry(c) \in Nat /\ Retry(c) > 0
    BY <1>1, <1>2, <1>8, RetryIs
  <2>3. CASE throttle[Key[c]] > 0
    <3>1. Retry(c) = throttle[Key[c]]
      BY <1>2, <2>3, RetryIs
    <3>2. throttle'[Key[c]] >= call'[c].wait
      BY <1>1, <1>2, <2>1, <3>1
    <3> QED BY <3>2 DEF IsBarred
  <2>4. CASE throttle[Key[c]] = 0
    <3>1. \/ \E b \in Windows(c) : Retry(c) = WindowRetry(c, b)
          \/ \E b \in Places(c) : Retry(c) = ConcurrencyRetry(c, b)
      <4>1. \/ Retry(c) = 0
            \/ \E b \in Windows(c) : Retry(c) = WindowRetry(c, b)
            \/ \E b \in Places(c) : Retry(c) = ConcurrencyRetry(c, b)
        BY <1>2, <2>4, RetryIs
      <4> QED BY <2>2, <4>1
    <3>2. CASE \E b \in Windows(c) : Retry(c) = WindowRetry(c, b)
      <4>1. PICK b \in Windows(c) : Retry(c) = WindowRetry(c, b)
        BY <3>2
      <4>2. b \in Buckets /\ Limit[b].per \in Nat
        BY RequestIs, LimitIs
      <4>3. PICK g \in Seq(CallIn(b)) : g = granted[b] /\ g = InWindow(b)
        BY <1>2, <4>2, BucketIs
      <4>4. PICK n \in 1 .. Len(g) :
                /\ WindowRetry(c, b) = Limit[b].per - g[n].age
                /\ Spent(SubSeq(g, n, Len(g))) + WindowCost(c, b) > Limit[b].calls
        BY <1>2, <2>2, <4>1, <4>3, WindowRetryIs
      <4>5. g[n].age + Retry(c) <= Limit[b].per
        <5>1. g[n] \in CallIn(b)
          OBVIOUS
        <5>2. g[n].age \in Nat
          BY <4>2, <5>1 DEF CallIn
        <5> QED BY <4>1, <4>2, <4>4, <5>2
      <4>6. Blocks(g, b, c, Retry(c))
        BY <4>4, <4>5 DEF Blocks
      <4>7. granted'[b] = g
        BY <1>1, <4>3
      <4>8. \E x \in Windows(c) : Blocks(granted'[x], x, c, call'[c].wait)
        BY <2>1, <4>6, <4>7
      <4>9. (\E x \in Windows(c) : Blocks(granted[x], x, c, call[c].wait))'
        BY <4>8 DEF Blocks, Windows, WindowCost, Spent
      <4> QED BY <4>9 DEF IsBarred
    <3>3. CASE \E b \in Places(c) : Retry(c) = ConcurrencyRetry(c, b)
      <4>1. PICK b \in Places(c) : Retry(c) = ConcurrencyRetry(c, b)
        BY <3>3
      <4>2. b \in Buckets /\ Limit[b].concurrent \in Nat
        BY RequestIs, LimitIs
      <4>3. /\ ~(HeldWithout(Lapsed)[b] < Limit[b].concurrent)
            /\ \A x \in Callers : permit[x] > 0 => ConcurrencyRetry(c, b) <= permit[x]
        BY <1>2, <2>2, <4>1, ConcurrencyRetryIs
      <4>4. HeldWithout(Lapsed)[b] = Cardinality(Lasting(permit, b)) /\ HeldWithout(Lapsed)[b] \in Nat
        <5>1. HeldWithout(Lapsed)[b] = Cardinality(Holders(Unlapsed, b)) /\ HeldWithout(Lapsed)[b] \in Nat
          BY <1>2, <4>2, UnlapsedIs, HeldWithoutIs
        <5> QED BY <1>2, <5>1, LastingHold
      <4>5. Cardinality(Lasting(permit', b)) >= Limit[b].concurrent
        BY <1>6, <4>2, <4>3, <4>4
      <4>6. \A x \in Callers : permit'[x] > 0 => call'[c].wait <= permit'[x]
        BY <1>5, <2>1, <4>1, <4>3
      <4> QED BY <4>5, <4>6 DEF IsBarred, Lasting, Places
    <3> QED BY <3>1, <3>2, <3>3
  <2> QED BY <1>2, <2>3, <2>4
<1> QED BY <1>7, <1>8

\* Another's call granted takes room, and its permit lasts.
LEMMA SleepsGrant ==
    ASSUME BarredInv, NEW d \in Callers, Grant(d), NEW c \in Callers, Sleeps(c)'
    PROVE  IsBarred(c)'
<1> USE DEF BarredInv
<1>1. /\ Goto(d, "granted") \/ Goto(d, "calls")
      /\ throttle' = throttle /\ atDoor' = atDoor
      /\ permit' = [Unlapsed EXCEPT ![d] = IF Places(d) # {} THEN Hold ELSE @]
  BY DEF Grant
<1>2. Typed /\ Key[c] \in Keys /\ throttle[Key[c]] \in Nat /\ WindowsAre /\ PlacesAre /\ PermitsOut
  BY ThrottleIs, RequestIs DEF RoomInv
<1>3. call'[d].step \in {"granted", "calls", "answered"} /\ \A x \in Callers : x # d => call'[x] = call[x]
  BY <1>1, <1>2, GotoIs
<1>4. c # d /\ call'[c] = call[c]
  BY <1>3 DEF Sleeps
<1>5. Sleeps(c)
  BY <1>1, <1>4 DEF Sleeps
<1>6. IsBarred(c) /\ call[c].wait > 0 /\ call'[c].wait = call[c].wait
  BY <1>4, <1>5 DEF Sleeps
<1>7. /\ \A x \in Callers : permit[x] \in NoPermit .. Hold /\ Unlapsed[x] = IF x \in Lapsed THEN NoPermit ELSE permit[x]
      /\ Unlapsed \in [Callers -> NoPermit .. Hold]
  BY <1>2, UnlapsedIs DEF PlacesAre
<1>8. permit[d] = NoPermit
  BY <1>2 DEF Grant, At, PermitsOut
<1>9. \A x \in Callers : x # d => permit'[x] = IF x \in Lapsed THEN NoPermit ELSE permit[x]
  BY <1>1, <1>7
<1>10. permit'[d] = Hold \/ permit'[d] = NoPermit
  BY <1>1, <1>7, <1>8
<1>11. \A x \in Callers : permit'[x] > 0 => permit'[x] = permit[x] \/ permit'[x] = Hold
  BY <1>7, <1>9, <1>10 DEF NoPermit
<1>12. \A b \in Places(c) : Lasting(permit, b) \subseteq Lasting(permit', b)
  <2> SUFFICES ASSUME NEW x \in Callers, permit[x] > 0 PROVE permit'[x] > 0
    BY DEF Lasting
  <2>1. x # d /\ x \notin Lapsed
    BY <1>8 DEF NoPermit, Lapsed
  <2> QED BY <1>9, <2>1
<1>13. \A b \in Windows(c) : granted'[b] = granted[b] \/ \E e \in CallIn(b) : granted'[b] = Append(granted[b], e)
  <2> SUFFICES ASSUME NEW b \in Windows(c) PROVE granted'[b] = granted[b] \/ \E e \in CallIn(b) : granted'[b] = Append(granted[b], e)
    OBVIOUS
  <2>1. b \in Buckets /\ Limit[b].per \in Nat
    BY RequestIs, LimitIs
  <2>2. CASE b \in Windows(d)
    <3>1. WindowCost(d, b) \in 1 .. Limit[b].calls
      BY <2>2, RequestIs
    <3>2. PICK e : e = [age |-> 0, cost |-> WindowCost(d, b)]
      OBVIOUS
    <3>3. e \in CallIn(b)
      BY <2>1, <3>1, <3>2 DEF CallIn
    <3>4. granted'[b] = Append(granted[b], e)
      BY <2>1, <2>2, <3>2 DEF Grant
    <3> QED BY <3>3, <3>4
  <2>3. CASE b \notin Windows(d)
    BY <2>1, <2>3 DEF Grant
  <2> QED BY <2>2, <2>3
<1>14. throttle'[Key[c]] \in Nat /\ throttle'[Key[c]] >= throttle[Key[c]]
  BY <1>1, <1>2
<1> QED BY <1>6, <1>11, <1>12, <1>13, <1>14, BarredStays

\* A permit given back that lapsed frees nothing.
LEMMA SleepsRelease ==
    ASSUME BarredInv, NEW d \in Callers, Release(d), NEW c \in Callers, Sleeps(c)', ~Freeing'
    PROVE  IsBarred(c)'
<1> USE DEF BarredInv
<1>1. Freed(d) /\ throttle' = throttle /\ atDoor' = atDoor /\ granted' = granted
  BY DEF Release
<1>2. Typed /\ Key[c] \in Keys /\ throttle[Key[c]] \in Nat /\ PlacesAre
  BY ThrottleIs, RequestIs DEF RoomInv
<1>3. permit[d] = NoPermit /\ (Goto(d, "idle") \/ Goto(d, "limited"))
  <2>1. CASE Goto(d, "frees")
    <3>1. call'[d].step = "frees"
      BY <1>2, <2>1, GotoIs
    <3> QED BY <3>1 DEF Freeing, At
  <2>2. CASE permit[d] = NoPermit /\ Done(d)
    BY <2>2, DoneIs
  <2> QED BY <2>1, <2>2 DEF Release
<1>4. permit' = permit
  <2>1. permit' = [permit EXCEPT ![d] = NoPermit]
    BY <1>1, <1>2, FreedPlaces
  <2> QED BY <1>3, <2>1, <1>2 DEF PlacesAre
<1>5. call'[d].step \in {"idle", "limited"} /\ \A x \in Callers : x # d => call'[x] = call[x]
  BY <1>2, <1>3, GotoIs
<1>6. Sleeps(c) /\ call'[c].wait = call[c].wait
  BY <1>1, <1>5 DEF Sleeps
<1>7. throttle'[Key[c]] \in Nat /\ throttle'[Key[c]] >= throttle[Key[c]]
  BY <1>1, <1>2
<1> QED BY <1>1, <1>4, <1>6, <1>7, BarredSame

LEMMA SleepsAnswer ==
    ASSUME BarredInv, NEW d \in Callers, Note(d) \/ Answer(d), NEW c \in Callers, Sleeps(c)'
    PROVE  IsBarred(c)'
<1>1. /\ granted' = granted /\ permit' = permit /\ throttle' = throttle /\ atDoor' = atDoor
      /\ Goto(d, "calls") \/ Goto(d, "answered")
  BY DEF Note, Answer, limiterVars
<1>2. Typed /\ Key[c] \in Keys /\ throttle[Key[c]] \in Nat
  BY ThrottleIs, RequestIs DEF BarredInv, RoomInv
<1>3. call'[d].step \in {"calls", "answered"} /\ \A x \in Callers : x # d => call'[x] = call[x]
  BY <1>1, <1>2, GotoIs
<1>4. Sleeps(c) /\ call'[c].wait = call[c].wait
  BY <1>1, <1>3 DEF Sleeps
<1>5. throttle'[Key[c]] \in Nat /\ throttle'[Key[c]] >= throttle[Key[c]]
  BY <1>1, <1>2
<1> QED BY <1>1, <1>4, <1>5, BarredSame

\* A throttle only closes a key for longer.
LEMMA SleepsThrottle ==
    ASSUME BarredInv, NEW d \in Callers, Throttle(d), NEW c \in Callers, Sleeps(c)'
    PROVE  IsBarred(c)'
<1>1. granted' = granted /\ permit' = permit /\ atDoor' = atDoor
  BY DEF Throttle
<1>2. Typed /\ Key[c] \in Keys /\ Key[d] \in Keys /\ \A k \in Keys : throttle[k] \in Nat
  BY ThrottleIs, RequestIs DEF BarredInv, RoomInv
<1>3. Sleeps(c) /\ call'[c].wait = call[c].wait
  <2>1. CASE call' = call
    BY <1>1, <2>1 DEF Sleeps
  <2>2. CASE Goto(d, "idle")
    <3>1. call'[d].step = "idle" /\ \A x \in Callers : x # d => call'[x] = call[x]
      BY <1>2, <2>2, GotoIs
    <3> QED BY <1>1, <3>1 DEF Sleeps
  <2> QED BY <2>1, <2>2 DEF Throttle
<1>4. throttle'[Key[c]] \in Nat /\ throttle'[Key[c]] >= throttle[Key[c]]
  <2>1. PICK n \in Throttles : throttle' = [throttle EXCEPT ![Key[d]] = Max({throttle[Key[d]], n})]
    BY <1>2 DEF Throttle, Throttled, Typed
  <2>2. PICK v \in Nat : v = throttle[Key[d]]
    BY <1>2
  <2>3. n \in Nat
    BY LimiterAssumption
  <2>4. PICK U \in SUBSET Nat : U = {v, n}
    BY <2>3
  <2>5. IsFiniteSet(U) /\ U # {}
    <3>1. IsFiniteSet({v}) /\ IsFiniteSet({n})
      BY FS_Singleton
    <3>2. {v, n} = {v} \cup {n}
      OBVIOUS
    <3>3. IsFiniteSet({v} \cup {n})
      BY <3>1, FS_Union
    <3> QED BY <2>4, <3>2, <3>3
  <2>6. Max(U) \in U /\ \A k \in U : k <= Max(U)
    BY <2>5, MaxIs
  <2>7. PICK m \in Nat : m = Max(U) /\ v <= m
    BY <2>4, <2>6
  <2>8. throttle' = [throttle EXCEPT ![Key[d]] = m]
    BY <2>1, <2>2, <2>4, <2>7
  <2>9. CASE Key[c] = Key[d]
    BY <1>2, <2>2, <2>7, <2>8, <2>9 DEF Typed
  <2>10. CASE Key[c] # Key[d]
    BY <1>2, <2>8, <2>10 DEF Typed
  <2> QED BY <2>9, <2>10
<1> QED BY <1>1, <1>3, <1>4, BarredSame

LEMMA SleepsTick ==
    ASSUME BarredInv, Tick, NEW c \in Callers, Sleeps(c)'
    PROVE  IsBarred(c)'
<1>1. call[c] \in Calling /\ call[c].wait \in Nat
  BY CallsAre DEF BarredInv, RoomInv
<1>2. call'[c] = [call[c] EXCEPT !.wait = Down(@)] /\ atDoor' = atDoor
  BY DEF Tick
<1>3. call'[c].step = call[c].step /\ call'[c].woken = call[c].woken /\ call'[c].wait = Down(call[c].wait)
  BY <1>1, <1>2 DEF Calling
<1>4. call'[c].wait > 0
  BY DEF Sleeps
<1>5. call[c].wait > 0
  BY <1>1, <1>3, <1>4 DEF Down
<1>6. Sleeps(c)
  BY <1>2, <1>3, <1>5 DEF Sleeps
<1>7. IsBarred(c) /\ RoomInv
  BY <1>6 DEF BarredInv
<1> QED BY <1>4, <1>7, BarredTick

\* Until those who wait are told, the one to tell them is there; once they are,
\* nobody sleeps.
LEMMA FreesStay ==
    ASSUME RoomInv, [Next]_vars, NEW d \in Callers, At(d, "frees"), ~Notify(d)
    PROVE  At(d, "frees")'
<1>1. Typed /\ call[d].step = "frees"
  BY DEF RoomInv, At
<1>2. ASSUME NEW c \in Callers, c # d, \A x \in Callers : x # c => call'[x] = call[x] PROVE At(d, "frees")'
  BY <1>1, <1>2 DEF At
<1>3. ASSUME NEW c \in Callers, NEW s \in {"idle", "asks", "granted", "calls", "answered", "frees", "limited"},
             c # d, Goto(c, s)
      PROVE  At(d, "frees")'
  BY <1>1, <1>2, <1>3, GotoIs
<1>4. CASE Tick
  <2>1. call'[d] = [call[d] EXCEPT !.wait = Down(@)] /\ call[d] \in Calling
    BY <1>1, <1>4, CallsAre DEF Tick
  <2> QED BY <1>1, <2>1 DEF At, Calling
<1>5. ASSUME NEW c \in Callers, Ask(c) \/ Wake(c) \/ Grant(c) PROVE At(d, "frees")'
  <2>1. c # d
    BY <1>1, <1>5 DEF Ask, Wake, Grant, At
  <2>2. Goto(c, "idle") \/ Goto(c, "asks") \/ Goto(c, "granted") \/ Goto(c, "calls")
    BY <1>5 DEF Ask, Wake, Grant
  <2> QED BY <1>3, <2>1, <2>2
<1>6. ASSUME NEW c \in Callers, Refuse(c) \/ Sleep(c) PROVE At(d, "frees")'
  <2>1. c # d
    BY <1>1, <1>6 DEF Refuse, Sleep, At
  <2>2. \A x \in Callers : x # c => call'[x] = call[x]
    BY <1>1, <1>6 DEF Refuse, Sleep, Typed
  <2> QED BY <1>2, <2>1, <2>2
<1>7. ASSUME NEW c \in Callers, Note(c) \/ Answer(c) \/ Release(c) PROVE At(d, "frees")'
  <2>1. c # d
    BY <1>1, <1>7 DEF Note, Answer, Release, At
  <2>2. Goto(c, "calls") \/ Goto(c, "answered") \/ Goto(c, "frees") \/ Goto(c, "idle") \/ Goto(c, "limited")
    BY <1>7, DoneIs DEF Note, Answer, Release
  <2> QED BY <1>3, <2>1, <2>2
<1>8. ASSUME NEW c \in Callers, Notify(c) PROVE At(d, "frees")'
  <2>1. c # d
    BY <1>8
  <2> QED BY <1>1, <1>8, <2>1, NotifyIs DEF At
<1>9. ASSUME NEW c \in Callers, Throttle(c) PROVE At(d, "frees")'
  <2>1. CASE call' = call
    BY <1>1, <2>1 DEF At
  <2>2. CASE At(c, "limited") /\ Goto(c, "idle")
    <3>1. c # d
      BY <1>1, <2>2 DEF At
    <3> QED BY <1>3, <2>2, <3>1
  <2> QED BY <1>9, <2>1, <2>2 DEF Throttle
<1>10. ASSUME NEW t \in Tickets, DropTicket(t) PROVE At(d, "frees")'
  BY <1>1, <1>10 DEF DropTicket, At
<1>11. CASE UNCHANGED vars
  BY <1>1, <1>11 DEF vars, At
<1> QED BY <1>4, <1>5, <1>6, <1>7, <1>8, <1>9, <1>10, <1>11 DEF Next, Steps

LEMMA SleepsNotify ==
    ASSUME RoomInv, NEW d \in Callers, Notify(d), NEW c \in Callers
    PROVE  ~Sleeps(c)'
<1>1. Typed /\ atDoor' = atDoor
  BY DEF RoomInv, Notify, limiterVars
<1>2. CASE c = d
  BY <1>1, <1>2, NotifyIs DEF Sleeps
<1>3. CASE c # d
  <2>1. call'[c].step = call[c].step /\ (c \in Listeners => call'[c].woken)
    BY <1>1, <1>3, NotifyIs
  <2> QED BY <1>1, <2>1 DEF Sleeps, Listeners
<1> QED BY <1>2, <1>3

LEMMA SleepInit == Init => SleepInv
<1> SUFFICES ASSUME Init PROVE SleepInv
  OBVIOUS
<1>1. \A c \in Callers : call[c].step = "idle"
  BY DEF Init
<1>2. ~atDoor => open = {}
  BY DEF Init
<1> QED BY <1>1, <1>2, RoomInit DEF SleepInv, BarredInv, Sleeps

LEMMA SleepStep == SleepInv /\ [Next]_vars => SleepInv'
<1> SUFFICES ASSUME SleepInv, [Next]_vars PROVE SleepInv'
  OBVIOUS
<1>1. RoomInv'
  BY RoomStep DEF SleepInv
<1>2. atDoor' = atDoor /\ open' \subseteq open
  <2>1. CASE Tick
    BY <2>1 DEF Tick
  <2>2. ASSUME NEW c \in Callers, Ask(c) \/ Steps(c) PROVE atDoor' = atDoor /\ open' \subseteq open
    BY <2>2 DEF Ask, Steps, Refuse, Grant, Sleep, Wake, Note, Release, Notify, limiterVars
  <2>3. ASSUME NEW c \in Callers, Answer(c) \/ Throttle(c) PROVE atDoor' = atDoor /\ open' \subseteq open
    BY <2>3 DEF Answer, Throttle, limiterVars
  <2>4. ASSUME NEW t \in Tickets, DropTicket(t) PROVE atDoor' = atDoor /\ open' \subseteq open
    BY <2>4 DEF DropTicket, limiterVars
  <2>5. CASE UNCHANGED vars
    BY <2>5 DEF vars
  <2> QED BY <2>1, <2>2, <2>3, <2>4, <2>5 DEF Next
<1>3. ASSUME NEW c \in Callers, Sleeps(c)', ~Freeing' PROVE IsBarred(c)'
  <2> BarredInv /\ \A d \in Callers : ~Notify(d)
    <3>1. \A d \in Callers : ~Notify(d)
      BY <1>3, SleepsNotify DEF SleepInv
    <3>2. ~Freeing
      BY <1>3, <3>1, FreesStay DEF Freeing, SleepInv
    <3> QED BY <3>1, <3>2 DEF SleepInv
  <2>1. CASE Tick
    BY <1>3, <2>1, SleepsTick
  <2>2. ASSUME NEW d \in Callers, Ask(d) \/ Sleep(d) \/ Wake(d) PROVE IsBarred(c)'
    BY <1>3, <2>2, SleepsAsk
  <2>3. ASSUME NEW d \in Callers, Refuse(d) PROVE IsBarred(c)'
    BY <1>3, <2>3, SleepsRefuse
  <2>4. ASSUME NEW d \in Callers, Grant(d) PROVE IsBarred(c)'
    BY <1>3, <2>4, SleepsGrant
  <2>5. ASSUME NEW d \in Callers, Note(d) \/ Answer(d) PROVE IsBarred(c)'
    BY <1>3, <2>5, SleepsAnswer
  <2>6. ASSUME NEW d \in Callers, Throttle(d) PROVE IsBarred(c)'
    BY <1>3, <2>6, SleepsThrottle
  <2>7. ASSUME NEW d \in Callers, Release(d) PROVE IsBarred(c)'
    BY <1>3, <2>7, SleepsRelease
  <2>8. ASSUME NEW t \in Tickets, DropTicket(t) PROVE IsBarred(c)'
    BY <1>2, <1>3, <2>8 DEF DropTicket, Sleeps, SleepInv
  <2>9. CASE UNCHANGED vars
    <3>1. granted' = granted /\ permit' = permit /\ throttle' = throttle /\ atDoor' = atDoor /\ call' = call
      BY <2>9 DEF vars
    <3>2. Sleeps(c) /\ call'[c].wait = call[c].wait
      BY <1>3, <3>1 DEF Sleeps
    <3>3. throttle[Key[c]] \in Nat
      BY ThrottleIs, RequestIs DEF BarredInv, RoomInv
    <3> QED BY <3>1, <3>2, <3>3, BarredSame
  <2> QED BY <2>1, <2>2, <2>3, <2>4, <2>5, <2>6, <2>7, <2>8, <2>9 DEF Next, Steps
<1>4. ~atDoor' => open' = {}
  BY <1>2 DEF SleepInv
<1> QED BY <1>1, <1>3, <1>4 DEF SleepInv, BarredInv

\* No caller sleeps on when its call would be granted, unless one who freed a
\* permit is about to wake it: a release between its refusal and its wait is
\* heard, and it was told the instant anything else makes room.
THEOREM NobodySleepsPastRoom == Spec => []NoSleepPastRoom
<1>1. SleepInv => NoSleepPastRoom
  <2> SUFFICES ASSUME SleepInv, ~Freeing, NEW c \in Callers, At(c, "waits"), ~atDoor, ~call[c].woken, call[c].wait > 0
               PROVE  Retry(c) > 0
    BY DEF NoSleepPastRoom, Freeing
  <2>1. WindowsAre /\ PlacesAre /\ Counted /\ Typed /\ IsBarred(c)
    BY DEF SleepInv, BarredInv, RoomInv, Sleeps, At
  <2>2. call[c].wait \in Nat /\ Key[c] \in Keys /\ \A k \in Keys : throttle[k] \in Nat
    BY <2>1, CallsAre, ThrottleIs, RequestIs
  <2>3. Retry(c) \in Nat
    BY <2>1, <2>2, RetryIs
  <2>4. CASE throttle[Key[c]] > 0
    <3>1. Retry(c) = throttle[Key[c]]
      BY <2>1, <2>2, <2>4, RetryIs
    <3> QED BY <2>4, <3>1
  <2>5. CASE throttle[Key[c]] = 0
    <3>1. /\ \A b \in Windows(c) : WindowRetry(c, b) <= Retry(c)
          /\ \A b \in Places(c) : ConcurrencyRetry(c, b) <= Retry(c)
      BY <2>1, <2>2, <2>5, RetryIs
    <3>2. ~(throttle[Key[c]] >= call[c].wait)
      BY <2>2, <2>5
    <3>3. CASE \E b \in Windows(c) : Blocks(granted[b], b, c, call[c].wait)
      <4>1. PICK b \in Windows(c) : Blocks(granted[b], b, c, call[c].wait)
        BY <3>3
      <4>2. granted[b] \in Seq(CallIn(b)) /\ InWindow(b) = granted[b]
        BY <2>1, <4>1, RequestIs, BucketIs
      <4>3. Spent(InWindow(b)) + WindowCost(c, b) > Limit[b].calls
        BY <2>2, <4>1, <4>2, BlocksNow
      <4>4. WindowRetry(c, b) > 0 /\ WindowRetry(c, b) \in Nat
        BY <2>1, <4>3, WindowRetryIs
      <4> QED BY <2>3, <3>1, <4>4
    <3>4. CASE \E b \in Places(c) : Cardinality(Lasting(permit, b)) >= Limit[b].concurrent
      <4>1. PICK b \in Places(c) : Cardinality(Lasting(permit, b)) >= Limit[b].concurrent
        BY <3>4
      <4>2. b \in Buckets /\ Limit[b].concurrent \in Nat
        BY RequestIs, LimitIs
      <4>3. HeldWithout(Lapsed)[b] = Cardinality(Holders(Unlapsed, b)) /\ HeldWithout(Lapsed)[b] \in Nat
        BY <2>1, <4>2, UnlapsedIs, HeldWithoutIs
      <4>4. HeldWithout(Lapsed)[b] >= Limit[b].concurrent
        BY <2>1, <4>1, <4>3, LastingHold
      <4>5. ConcurrencyRetry(c, b) # 0 /\ ConcurrencyRetry(c, b) \in Nat
        BY <2>1, <4>2, <4>3, <4>4, ConcurrencyRetryIs
      <4> QED BY <2>3, <3>1, <4>5
    <3> QED BY <2>1, <3>2, <3>3, <3>4 DEF IsBarred
  <2> QED BY <2>2, <2>4, <2>5
<1> QED BY <1>1, SleepInit, SleepStep, PTL DEF Spec
=============================================================================
