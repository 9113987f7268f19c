------------------------- MODULE Joins_waits_proofs -------------------------
(***************************************************************************)
(* What a run of Joins waits for: each `all` for exactly the arms with     *)
(* something to go on from, and a completed run for none. Where no race is *)
(* in an arm of a race, no lease lapses under a process that goes on, and  *)
(* a race settled again goes on the same way.                              *)
(***************************************************************************)
EXTENDS Joins_proofs

(* What a run waits for. *)

\* A race settled again goes on the same way.
SettlesAlike == "settle" \notin Diverges

\* Each frame from x up to q is x, or x closed it.
ClosedTo(x, q) == \A p \in Frames : Under(x, p) /\ Under(p, q) => p = x \/ join[p].closedBy = x

\* A segment's way is planned at each statement it went on from; the race it
\* settles holds no frame once its losers are withdrawn.
Going(w) ==
    /\ InSegment(w) =>
         /\ status = "parked"
         /\ \A q \in job[w].passed \cup {job[w].of} :
              plan[q] # {} /\ \A v \in plan[q] : v.parks = IF q = job[w].at THEN job[w].way.parks ELSE {}
         /\ job[w].of \in Races /\ job[w].losers = {} => \A f \in Frames : In(f, Arms[job[w].of]) => ~Recd(f)
         /\ job[w].step = "decrement" => export[Body(w)] # NoExport
    /\ ~InSegment(w) => job[w].passed = {}

\* What a segment that ended has left to the run.
JobEnd(w) ==
    job[w].step \in {"judge", "commit"} =>
        /\ job[w].way.parks = {} /\ HomeOf(job[w].at) # Top =>
             IF LeavesToRun(w, FrameOf(HomeOf(job[w].at))) THEN job[w].owes = {FrameOf(HomeOf(job[w].at))}
             ELSE /\ FrameOf(HomeOf(job[w].at)) \in Alls /\ join[FrameOf(HomeOf(job[w].at))].closedBy # job[w].of
                  /\ export[HomeOf(job[w].at)] = "decremented"
        /\ job[w].step = "judge" => job[w].way.parks = {}
        /\ job[w].step = "commit" => ~Diverged(w)
        /\ job[w].step = "commit" /\ job[w].settle = "completed" =>
             ~HoldsProgress(w) /\ job[w].owes = {} /\ NothingLeft(job[w].of)

\* What goes on in an arm decremented has only closed `all`s around it there.
Spent ==
    \A x \in Points : \A g \in Frames : \A b \in Arms[g] : \A h \in Frames :
        Live(x) /\ In(x, {b}) /\ export[b] = "decremented" /\ Under(x, h) /\ In(h, {b}) /\ h # x
            => h \in Alls /\ join[h].pending = 0

\* A race owed in such an arm goes on as it did when the arm was decremented: to its end.
RaceEnd ==
    \A x \in owed : \A g \in Frames : \A b \in Arms[g] : \A q \in Frames :
        export[b] = "decremented" /\ Under(x, q) /\ In(q, {b}) /\ ClosedTo(x, q)
            => plan[q] # {} /\ \A v \in plan[q] : v.parks = {}

\* c closed f, and goes on until it has gone past it, or owes it.
ClosedIt(c, f) ==
    /\ Under(c, f) /\ c # f
    /\ past[f] = 0 /\ ~Doomed(f) => Live(c) \/ f \in owed
    /\ Live(c) =>
         /\ \A b \in Arms[f] : In(c, {b}) => export[b] = "decremented"
         /\ \A g \in Frames : Under(c, g) /\ g # c /\ Under(g, f) /\ g # f => g \in Alls /\ join[g].closedBy = c

\* Who closed a frame is known, and goes on until the run has gone past it.
Closers == \A f \in Frames : Recd(f) /\ join[f].pending = 0 => \E c \in Points : join[f].closedBy = c /\ ClosedIt(c, f)

\* x goes on in b, past no `all` of it yet.
RealIn(x, b) == Live(x) /\ In(x, {b}) /\ \A g \in Alls : Under(x, g) /\ In(g, {b}) => past[g] = 0

\* An arm waited for has something that goes on and will end it.
Real == \A f \in Alls : Recd(f) /\ ~Doomed(f) => \A b \in Waiting(f) : \E x \in Points : RealIn(x, b)

\* An `all` waits for exactly its arms that something goes on in.
WaitsCounted == \A f \in Alls : Recd(f) /\ ~Doomed(f) => join[f].pending = Cardinality(Waiting(f))

\* A frame not gone past has a row while the run is parked, and none is left when it completed.
OpenIs ==
    /\ status = "parked" => \A f \in open : Recd(f) /\ past[f] = 0
    /\ status = "completed" => open = {} /\ \A x \in Points : ~Live(x)
    /\ status = "failed" => AllIdle

\* What the rows hold.
RowsInv == Spent /\ RaceEnd /\ Closers /\ Real /\ WaitsCounted

\* The inductive invariant under PendingIsWaiting and CompletedPassedAll.
EndInv == RowsInv /\ OpenIs /\ \A w \in Workers : Going(w) /\ JobEnd(w)

\* The arms an `all` waits for: not decremented, and something goes on in them.
LEMMA WaitingIs ==
    ASSUME NEW f
    PROVE  \A b : b \in Waiting(f) <=> b \in Arms[f] /\ export[b] # "decremented" /\ \E x : Live(x) /\ In(x, {b})
BY DEF Waiting, Live

\* The same, after a step.
LEMMA WaitingIsNext ==
    ASSUME NEW f
    PROVE  \A b : b \in Waiting(f)' <=> b \in Arms[f] /\ export'[b] # "decremented" /\ \E x : Live(x)' /\ In(x, {b})
BY DEF Waiting, Live

\* A step that changes no row and no decrement keeps what is said of the rows, but for the plans of RaceEnd.
LEMMA RowsBut ==
    ASSUME RowsInv, \A x : Live(x)' <=> Live(x), owed' = owed, past' = past, \A f \in Frames : join'[f] = join[f],
           \A f \in Frames : \A b \in Arms[f] : export'[b] = "decremented" <=> export[b] = "decremented", RaceEnd'
    PROVE  RowsInv'
<1>1. Spent'
  BY DEF RowsInv, Spent
<1>3. \A f \in Frames : Recd(f)' <=> Recd(f)
  BY DEF Recd
<1>4. \A f : Doomed(f)' <=> Doomed(f)
  BY DEF Doomed
<1>5. Closers'
  <2> SUFFICES ASSUME NEW f \in Frames, Recd(f)', join'[f].pending = 0
               PROVE  \E c \in Points : join'[f].closedBy = c /\ ClosedIt(c, f)'
    BY DEF Closers
  <2>1. PICK c \in Points : join[f].closedBy = c /\ ClosedIt(c, f)
    BY <1>3 DEF RowsInv, Closers
  <2>2. ClosedIt(c, f)'
    BY <1>4, <2>1 DEF ClosedIt
  <2>3. join'[f].closedBy = c
    BY <2>1
  <2> QED BY <2>2, <2>3
<1>6. ASSUME NEW f \in Alls PROVE Waiting(f)' = Waiting(f)
  <2>1. \A b \in Arms[f] : export'[b] = "decremented" <=> export[b] = "decremented"
    BY PointsAre
  <2>2. \A b : b \in Waiting(f) <=> b \in Arms[f] /\ export[b] # "decremented" /\ \E x : Live(x) /\ In(x, {b})
    BY WaitingIs
  <2>3. \A b : b \in Waiting(f)' <=> b \in Arms[f] /\ export'[b] # "decremented" /\ \E x : Live(x)' /\ In(x, {b})
    BY WaitingIsNext
  <2>4. \A b : b \in Waiting(f)' <=> b \in Waiting(f)
    BY <2>1, <2>2, <2>3, Zenon
  <2> QED BY <2>4
<1>7. Real'
  <2>1. \A x, b : RealIn(x, b)' <=> RealIn(x, b)
    BY DEF RealIn
  <2> QED BY <1>3, <1>4, <1>6, <2>1, PointsAre DEF RowsInv, Real
<1>8. WaitsCounted'
  BY <1>3, <1>4, <1>6, PointsAre DEF RowsInv, WaitsCounted
<1> QED BY <1>1, <1>5, <1>7, <1>8 DEF RowsInv

\* A step that changes no row, no plan, and no decrement keeps what is said of the rows.
LEMMA RowsSame ==
    ASSUME RowsInv, \A x : Live(x)' <=> Live(x), owed' = owed, past' = past, \A f \in Frames : join'[f] = join[f],
           \A f \in Frames : \A b \in Arms[f] : export'[b] = "decremented" <=> export[b] = "decremented",
           \A q \in Frames : plan[q] # {} => plan'[q] # {} /\ plan'[q] \subseteq plan[q]
    PROVE  RowsInv'
<1>1. RaceEnd'
  <2> SUFFICES ASSUME NEW x \in owed, NEW g \in Frames, NEW b \in Arms[g], NEW q \in Frames, export'[b] = "decremented",
                      Under(x, q), In(q, {b}), ClosedTo(x, q)'
               PROVE  plan'[q] # {} /\ \A v \in plan'[q] : v.parks = {}
    BY DEF RaceEnd
  <2>1. ClosedTo(x, q) /\ export[b] = "decremented"
    BY DEF ClosedTo
  <2>2. plan[q] # {} /\ \A v \in plan[q] : v.parks = {}
    BY <2>1 DEF RowsInv, RaceEnd
  <2> QED BY <2>2
<1> QED BY <1>1, RowsBut

\* A step of the process that holds the run, or takes it, leaves the others where they are.
LEMMA EndOthers ==
    ASSUME NEW w \in Workers, Only(w), Alone, ~At(w, "idle") \/ lease = Nobody, \A u \in Workers : Going(u), Going(w)', JobEnd(w)'
    PROVE  \A u \in Workers : Going(u)' /\ JobEnd(u)'
<1> SUFFICES ASSUME NEW u \in Workers \ {w} PROVE Going(u)' /\ JobEnd(u)'
  OBVIOUS
<1>1. job[u].step = "idle"
  BY NobodyIs DEF Alone, At, Holds
<1>2. job'[u] = job[u]
  BY DEF Only
<1>3. ~InSegment(u) /\ ~InSegment(u)'
  BY <1>1, <1>2 DEF InSegment
<1>4. Going(u)'
  BY <1>2, <1>3 DEF Going
<1>5. JobEnd(u)'
  BY <1>1, <1>2 DEF JobEnd
<1> QED BY <1>4, <1>5

\* A step that changes no row but withdraws keeps what is said of the frames not gone past.
LEMMA OpenSame ==
    ASSUME OpenIs, status' = status, status # "failed", open' = open, past' = past, \A f \in Frames : join'[f] = join[f],
           \A x \in Points : Live(x)' => Live(x), open \subseteq Frames
    PROVE  OpenIs'
BY DEF OpenIs, Recd

\* A step between segments, or in one, of the process that holds the run, or takes it.
LEMMA EndKept ==
    ASSUME TypeOK, EndInv, RowsInv', Alone, NEW w \in Workers, Only(w), ~At(w, "idle") \/ lease = Nobody,
           status' = status, status # "failed", open' = open, past' = past, \A f \in Frames : join'[f] = join[f],
           \A x \in Points : Live(x)' => Live(x), Going(w)', JobEnd(w)'
    PROVE  EndInv'
<1>1. OpenIs'
  BY OpenSame, StateIs DEF EndInv
<1>2. \A u \in Workers : Going(u)' /\ JobEnd(u)'
  BY EndOthers DEF EndInv
<1> QED BY <1>1, <1>2 DEF EndInv

\* Who is not idle is so while the run has not failed.
LEMMA NotFailed == ASSUME OpenIs, NEW w \in Workers, ~At(w, "idle") PROVE status # "failed"
BY DEF OpenIs, AllIdle

\* Drain keeps what a run waits for.
LEMMA DrainEnd ==
    ASSUME PassInv, LeftInv, EndInv, NEW w \in Workers, NEW todo \in SUBSET Leaves, Drain(w, todo)
    PROVE  EndInv'
<1>0. TypeOK /\ RowsInv /\ Alone
  BY DEF PassInv, TypeInv, EndInv, LeftInv
<1>1. /\ Only(w) /\ lease = Nobody /\ status = "parked" /\ job'[w].step = "next"
      /\ leaf' \in [Leaves -> {"none", "parked", "resuming"}] /\ leaf \in [Leaves -> {"none", "parked", "resuming"}]
      /\ \A l \in Leaves : leaf'[l] = IF leaf[l] = "resuming" THEN "parked" ELSE leaf[l]
      /\ UNCHANGED <<status, join, export, owed, plan, past, open, left>>
  BY <1>0, DrainDoes, StateIs
<1>2. \A x : Live(x)' <=> Live(x)
  BY <1>1 DEF Live, Drainable
<1>3. RowsInv'
  BY <1>0, <1>1, <1>2, RowsSame
<1>4. job'[w].passed = {}
  <2>1. job \in [Workers -> Job] /\ job' = [job EXCEPT ![w] = [Idle EXCEPT !.step = "next", !.todo = todo]]
    BY <1>0, StateIs DEF Drain
  <2> QED BY <2>1 DEF Idle
<1>5. Going(w)' /\ JobEnd(w)'
  BY <1>1, <1>4 DEF Going, JobEnd, InSegment
<1> QED BY <1>0, <1>1, <1>2, <1>3, <1>5, EndKept

\* So does ClaimLeaf.
LEMMA ClaimEnd ==
    ASSUME PassInv, LeftInv, EndInv, NEW w \in Workers, ClaimLeaf(w)
    PROVE  EndInv'
<1>0. TypeOK /\ PlansGo /\ RowsInv /\ Alone /\ OpenIs /\ Going(w)
  BY DEF PassInv, TypeInv, EndInv, LeftInv
<1>1. Only(w) /\ At(w, "next") /\ Holds(w) /\ UNCHANGED <<status, join, export, owed, lease, past, open>>
  BY <1>0, ClaimDoes
<1>2. ~At(w, "idle") /\ status # "failed" /\ ~InSegment(w)
  BY <1>0, <1>1, NotFailed DEF At, InSegment
<1>3. CASE \E l \in Leaves : \E way \in Way :
              /\ leaf[l] = "parked" /\ leaf' \in [Leaves -> {"none", "parked", "resuming"}]
              /\ leaf'[l] = "resuming" /\ \A m \in Leaves \ {l} : leaf'[m] = leaf[m]
              /\ GoesOn(l, way) /\ KeepsRest(way) /\ Planned(l, way) /\ (plan[l] # {} => way \in plan[l])
              /\ job'[w].step = "run" /\ job'[w].of = l /\ job'[w].at = l /\ job'[w].way = way /\ job'[w].passed = {}
  <2>1. PICK l \in Leaves, way \in Way :
              /\ leaf[l] = "parked" /\ leaf' \in [Leaves -> {"none", "parked", "resuming"}]
              /\ leaf'[l] = "resuming" /\ \A m \in Leaves \ {l} : leaf'[m] = leaf[m]
              /\ GoesOn(l, way) /\ KeepsRest(way) /\ Planned(l, way)
              /\ job'[w].step = "run" /\ job'[w].of = l /\ job'[w].at = l /\ job'[w].way = way /\ job'[w].passed = {}
    BY <1>3
  <2>2. \A x : Live(x)' <=> Live(x)
    BY <1>1, <2>1 DEF Live, Drainable
  <2>3. l \in Points /\ l \notin Frames /\ l \notin Races
    BY PointsAre, NobodyIs
  <2>4. plan'[l] = {way} /\ \A y \in Points \ {l} : plan'[y] = plan[y]
    BY <1>0, <2>1, <2>3, PlannedIs
  <2>5. RowsInv'
    BY <1>0, <1>1, <2>2, <2>3, <2>4, PointsAre, RowsSame
  <2>6. status = "parked"
    <3>1. Live(l)
      BY <2>1 DEF Live, Drainable
    <3> QED BY <1>0, <1>2, <2>3, <3>1 DEF OpenIs, TypeOK
  <2>7. Going(w)' /\ JobEnd(w)'
    BY <1>1, <2>1, <2>3, <2>4, <2>6 DEF Going, JobEnd, InSegment
  <2> QED BY <1>0, <1>1, <1>2, <2>2, <2>5, <2>7, EndKept
<1>4. CASE UNCHANGED <<leaf, plan, left>> /\ job'[w] = [job[w] EXCEPT !.todo = job'[w].todo]
  <2>1. RowsInv'
    BY <1>0, <1>1, <1>4, RowsSame DEF Live, Drainable
  <2>2. job[w] \in Job
    BY <1>0, StateIs
  <2>3. job'[w].step = job[w].step /\ job'[w].passed = job[w].passed
    BY <1>4, <2>2 DEF Job
  <2>4. Going(w)' /\ JobEnd(w)'
    BY <1>0, <1>1, <1>2, <2>3 DEF Going, JobEnd, InSegment, At
  <2> QED BY <1>0, <1>1, <1>2, <1>4, <2>1, <2>4, EndKept DEF Live, Drainable
<1> QED
  <2>1. PICK l \in job[w].todo :
         IF l \in Parked
         THEN \E way \in WaysFromLeaf(l) :
                /\ leaf' = [leaf EXCEPT ![l] = "resuming"]
                /\ Planned(l, way)
                /\ IF l \in way.parks /\ plan[l] = {} THEN Spend("reparks") ELSE UNCHANGED left
                /\ job' = [job EXCEPT ![w] = [Idle EXCEPT !.step = "run", !.todo = job[w].todo \ {l}, !.of = l, !.at = l, !.way = way]]
         ELSE /\ job' = [job EXCEPT ![w].todo = @ \ {l}]
              /\ UNCHANGED <<leaf, plan, left>>
    BY DEF ClaimLeaf
  <2>2. job[w] \in Job /\ job \in [Workers -> Job]
    BY <1>0, StateIs
  <2>3. CASE l \notin Parked
    <3>1. job'[w] = [job[w] EXCEPT !.todo = job[w].todo \ {l}]
      BY <2>1, <2>2, <2>3
    <3>2. job'[w] = [job[w] EXCEPT !.todo = job'[w].todo]
      BY <2>2, <3>1 DEF Job
    <3> QED BY <1>4, <2>1, <2>3, <3>2
  <2>4. CASE l \in Parked
    <3>1. PICK way \in WaysFromLeaf(l) :
                /\ leaf' = [leaf EXCEPT ![l] = "resuming"]
                /\ job' = [job EXCEPT ![w] = [Idle EXCEPT !.step = "run", !.todo = job[w].todo \ {l}, !.of = l, !.at = l, !.way = way]]
                /\ Planned(l, way)
      BY <2>1, <2>4
    <3>2. job'[w].step = "run"
      BY <2>2, <3>1 DEF Idle
    <3>3. job'[w].step # job[w].step
      BY <1>1, <3>2 DEF At
    <3>4. CASE UNCHANGED <<leaf, plan, left>> /\ job'[w].step = job[w].step
      BY <3>3, <3>4
    <3> QED BY <1>0, <1>3, <3>3, ClaimDoes
  <2> QED BY <2>3, <2>4

\* So does SettleRace.
LEMMA SettleEnd ==
    ASSUME PassInv, LeftInv, EndInv, NEW w \in Workers, SettleRace(w)
    PROVE  EndInv'
<1>0. TypeOK /\ PlansGo /\ RowsInv /\ Alone /\ OpenIs
  BY DEF PassInv, TypeInv, EndInv, LeftInv
<1>1. Only(w) /\ At(w, "next") /\ UNCHANGED <<status, leaf, join, export, owed, lease, past, open, left>>
  BY <1>0, SettleDoes
<1>2. ~At(w, "idle") /\ status # "failed"
  BY <1>0, <1>1, NotFailed DEF At
<1>3. PICK f \in owed, way \in Way :
              /\ f \in Races /\ GoesOn(f, way) /\ KeepsRest(way) /\ Planned(f, way) /\ (plan[f] # {} => way \in plan[f])
              /\ job'[w].step = "run" /\ job'[w].of = f /\ job'[w].at = f /\ job'[w].way = way
              /\ job'[w].losers = Arms[f] /\ job'[w].passed = {f}
  BY <1>0, SettleDoes
<1>4. f \in Points /\ f \in Frames /\ Live(f)
  BY PointsAre, <1>3 DEF Live
<1>5. plan'[f] = {way} /\ \A y \in Points \ {f} : plan'[y] = plan[y]
  BY <1>0, <1>3, <1>4, PlannedIs
<1>6. \A q \in Frames : plan[q] # {} => plan'[q] # {} /\ plan'[q] \subseteq plan[q]
  BY <1>3, <1>5, PointsAre
<1>7. RowsInv'
  BY <1>0, <1>1, <1>6, RowsSame DEF Live, Drainable
<1>8. status = "parked"
  BY <1>0, <1>2, <1>4 DEF OpenIs, TypeOK
<1>9. Going(w)'
  <2>1. Arms[f] = {} => \A g : ~In(g, Arms[f])
    BY DEF In
  <2> QED BY <1>1, <1>3, <1>5, <1>8, <2>1 DEF Going, InSegment
<1>10. JobEnd(w)'
  BY <1>3 DEF JobEnd
<1> QED BY <1>0, <1>1, <1>2, <1>7, <1>9, <1>10, EndKept DEF Live, Drainable

\* Keep keeps what a run waits for.
LEMMA KeepEnd ==
    ASSUME PassInv, LeftInv, EndInv, NEW w \in Workers, Keep(w)
    PROVE  EndInv'
<1>0. TypeOK /\ RowsInv /\ Alone /\ OpenIs /\ Going(w)
  BY DEF PassInv, TypeInv, EndInv, LeftInv
<1>1. /\ Only(w) /\ At(w, "run") /\ job[w].losers = {} /\ UNCHANGED <<status, leaf, join, owed, lease, plan, past, open, left>>
      /\ job'[w].step = "run" /\ job'[w].losers = {} /\ job'[w].of = job[w].of
      /\ job'[w].at = job[w].at /\ job'[w].passed = job[w].passed /\ job'[w].way.parks = job[w].way.parks
  BY <1>0, KeepDoes
<1>2. PICK b \in Bodies : export' = Kept(b)
  BY <1>0, KeepDoes
<1>3. \A c \in Bodies : export'[c] = "decremented" <=> export[c] = "decremented"
  BY <1>0, <1>2, KeptIs
<1>4. ~At(w, "idle") /\ status # "failed" /\ InSegment(w)
  BY <1>0, <1>1, NotFailed DEF At, InSegment
<1>5. \A x : Live(x)' <=> Live(x)
  BY <1>1 DEF Live, Drainable
<1>6. RowsInv'
  BY <1>0, <1>1, <1>3, <1>5, ArmsIn, RowsSame
<1>7. Going(w)' /\ JobEnd(w)'
  BY <1>0, <1>1, <1>4 DEF Going, JobEnd, InSegment, Recd
<1> QED BY <1>0, <1>1, <1>4, <1>5, <1>6, <1>7, EndKept

\* So does Export.
LEMMA ExportEnd ==
    ASSUME PassInv, LeftInv, EndInv, NEW w \in Workers, Export(w)
    PROVE  EndInv'
<1>0. TypeOK /\ RowsInv /\ Alone /\ OpenIs /\ Going(w) /\ TypeInv
  BY DEF PassInv, TypeInv, EndInv, LeftInv
<1>1. /\ Only(w) /\ At(w, "run") /\ UNCHANGED <<status, leaf, join, owed, lease, plan, past, open, left>>
      /\ export' = Kept(Body(w)) /\ job'[w].losers = job[w].losers
      /\ job'[w].step = "decrement" /\ job'[w].of = job[w].of
      /\ job'[w].at = job[w].at /\ job'[w].passed = job[w].passed /\ job'[w].way = job[w].way
  BY <1>0, ExportDoes DEF Ran
<1>2. Body(w) \in Bodies /\ Body(w)' = Body(w)
  <2>1. job[w].at \in Points
    BY <1>0, <1>1 DEF TypeInv, JobIs, InSegment, At
  <2> QED BY <1>1, <2>1, HomeIn DEF Body
<1>3. (\A c \in Bodies : export'[c] = "decremented" <=> export[c] = "decremented") /\ export'[Body(w)] # NoExport
  BY <1>0, <1>1, <1>2, KeptIs DEF NoExport
<1>4. ~At(w, "idle") /\ status # "failed" /\ InSegment(w)
  BY <1>0, <1>1, NotFailed DEF At, InSegment
<1>5. \A x : Live(x)' <=> Live(x)
  BY <1>1 DEF Live, Drainable
<1>6. RowsInv'
  BY <1>0, <1>1, <1>3, <1>5, ArmsIn, RowsSame
<1>7. Going(w)' /\ JobEnd(w)'
  BY <1>0, <1>1, <1>2, <1>3, <1>4 DEF Going, JobEnd, InSegment, Recd
<1> QED BY <1>0, <1>1, <1>4, <1>5, <1>6, <1>7, EndKept

\* So does Judge, which leaves the run completed only where nothing is left of it.
LEMMA JudgeEnd ==
    ASSUME PassInv, LeftInv, EndInv, NEW w \in Workers, Judge(w)
    PROVE  EndInv'
<1>0. TypeOK /\ RowsInv /\ Alone /\ OpenIs /\ Going(w) /\ JobEnd(w)
  BY DEF PassInv, TypeInv, EndInv, LeftInv
<1>1. /\ Only(w) /\ (At(w, "judge") \/ (Ran(w) /\ Parks(w)))
      /\ UNCHANGED <<status, leaf, join, export, owed, lease, plan, past, open, left>>
      /\ job'[w].step = IF Diverged(w) THEN "fail" ELSE "commit"
      /\ job'[w].settle = IF ~HoldsProgress(w) /\ job[w].owes = {} /\ NothingLeft(job[w].of) THEN "completed" ELSE "parked"
      /\ job'[w].of = job[w].of /\ job'[w].at = job[w].at /\ job'[w].way = job[w].way
      /\ job'[w].losers = job[w].losers /\ job'[w].passed = job[w].passed /\ job'[w].owes = job[w].owes
  BY <1>0, JudgeDoes
<1>2. ~At(w, "idle") /\ status # "failed" /\ InSegment(w)
  BY <1>0, <1>1, NotFailed DEF At, InSegment, Ran
<1>3. \A x : Live(x)' <=> Live(x)
  BY <1>1 DEF Live, Drainable
<1>4. RowsInv'
  BY <1>0, <1>1, <1>3, RowsSame
<1>5. Going(w)'
  BY <1>0, <1>1, <1>2 DEF Going, InSegment, Recd
<1>6. Recorded' = Recorded /\ Pending' = Pending /\ Parked' = Parked
  BY <1>1 DEF Pending, Parked, Recorded
<1>7. Diverged(w)' <=> Diverged(w)
  BY <1>1, <1>6 DEF Diverged
<1>8. (HoldsProgress(w)' <=> HoldsProgress(w)) /\ (NothingLeft(job[w].of)' <=> NothingLeft(job[w].of))
  BY <1>1, <1>6 DEF HoldsProgress, NothingLeft
<1>9. job[w].way.parks = {} /\ HomeOf(job[w].at) # Top => At(w, "judge")
  BY <1>1 DEF Parks, Body
<1>10. job[w].way.parks = {} /\ HomeOf(job[w].at) # Top =>
             IF LeavesToRun(w, FrameOf(HomeOf(job[w].at))) THEN job[w].owes = {FrameOf(HomeOf(job[w].at))}
             ELSE /\ FrameOf(HomeOf(job[w].at)) \in Alls /\ join[FrameOf(HomeOf(job[w].at))].closedBy # job[w].of
                  /\ export[HomeOf(job[w].at)] = "decremented"
  BY <1>0, <1>9 DEF JobEnd, At
<1>11. JobEnd(w)'
  <2>1. job'[w].step = "commit" => ~Diverged(w)'
    BY <1>1, <1>7
  <2>2. job'[w].step = "commit" /\ job'[w].settle = "completed" =>
             ~HoldsProgress(w)' /\ job'[w].owes = {} /\ NothingLeft(job[w].of)'
    BY <1>1, <1>8
  <2>3. job'[w].step # "judge"
    BY <1>1
  <2>4. LeavesToRun(w, FrameOf(HomeOf(job[w].at)))' <=> LeavesToRun(w, FrameOf(HomeOf(job[w].at)))
    BY <1>1 DEF LeavesToRun
  <2> QED BY <1>1, <1>10, <2>1, <2>2, <2>3, <2>4 DEF JobEnd
<1> QED BY <1>0, <1>1, <1>2, <1>3, <1>4, <1>5, <1>11, EndKept

\* What is withdrawn of the arms of r, a race owed, leaves what is said of the rest.
Thins(r) ==
    /\ r \in Races /\ r \in owed /\ owed' = owed /\ past' = past /\ plan' = plan
    /\ \A x \in Points : (Live(x)' => Live(x)) /\ (Live(x) => Live(x)' \/ In(x, Arms[r]))
    /\ \A f \in Frames : join'[f] = join[f] \/ (join'[f] = NoJoin /\ In(f, Arms[r]))
    /\ \A f \in Frames : \A b \in Arms[f] :
         /\ export'[b] = "decremented" => export[b] = "decremented"
         /\ join'[f] # NoJoin \/ ~In(f, Arms[r]) => export'[b] = export[b]

\* What goes on in an arm of r goes on under what r is under, past no `all` that r is past.
LEMMA ThinsReal ==
    ASSUME TypeOK, NEW r, Thins(r), NEW f \in Alls, ~Doomed(f), NEW b \in Arms[f], NEW x \in Points, RealIn(x, b)
    PROVE  \E y \in Points : RealIn(y, b)'
<1>1. r \in Points /\ f \in Points /\ f \in Frames /\ r \in Frames /\ f # r /\ ~In(f, Arms[r]) /\ b \in Bodies
  BY PointsAre, NobodyIs, ArmsIn DEF Thins, Doomed
<1>2. CASE Live(x)'
  BY <1>2 DEF RealIn, Thins
<1>3. CASE ~Live(x)'
  <2>1. In(x, Arms[r]) /\ Under(x, r) /\ In(x, {b})
    BY <1>1, <1>3 DEF Thins, RealIn, Under
  <2>2. In(x, Arms[f])
    BY <2>1, InOne
  <2>3. Under(x, f)
    BY <1>1, <2>2 DEF Under
  <2>4. Under(r, f)
    <3>1. ~Under(f, r)
      BY <1>1 DEF Under
    <3> QED BY <1>1, <2>1, <2>3, <3>1, UnderLinear
  <2>5. In(r, Arms[f])
    BY <1>1, <2>4 DEF Under
  <2>6. PICK a \in Arms[f] : In(r, {a})
    BY <2>5, InOne
  <2>7. In(x, {a})
    BY <1>1, <2>1, <2>6, UnderIn
  <2>8. a = b
    BY <1>1, <2>1, <2>7, OneArm
  <2>9. Live(r)'
    BY DEF Thins, Live
  <2>10. ASSUME NEW g \in Alls, Under(r, g), In(g, {b}) PROVE past'[g] = 0
    <3>1. Under(x, g)
      BY <1>1, <2>1, <2>10, UnderTrans, PointsAre
    <3> QED BY <2>10, <3>1 DEF RealIn, Thins
  <2>11. RealIn(r, b)'
    BY <2>6, <2>8, <2>9, <2>10 DEF RealIn
  <2> QED BY <1>1, <2>11
<1> QED BY <1>2, <1>3

\* Withdrawing rows under a race the run owes keeps what is said of the others.
LEMMA RowsThin ==
    ASSUME TypeOK, TypeOK', RowsInv, LiveRecorded', NEW r, Thins(r)
    PROVE  RowsInv'
<1>0. r \in Points /\ r \in Frames /\ r \in Races /\ r \in owed /\ (\A y : Live(y)' => y \in Points)
  BY PointsAre, LiveInNext DEF Thins
<1>1. \A f \in Frames : Recd(f)' => join'[f] = join[f] /\ Recd(f) /\ \A b \in Arms[f] : export'[b] = export[b]
  BY DEF Thins, Recd
<1>2. \A x \in Points, f \in Frames : Live(x)' /\ Under(x, f) => Recd(f)'
  BY DEF LiveRecorded
<1>3. Spent'
  <2> SUFFICES ASSUME NEW x \in Points, NEW g \in Frames, NEW b \in Arms[g], NEW h \in Frames,
                      Live(x)', In(x, {b}), export'[b] = "decremented", Under(x, h), In(h, {b}), h # x
               PROVE  h \in Alls /\ join'[h].pending = 0
    BY DEF Spent
  <2>1. Live(x) /\ export[b] = "decremented" /\ join'[h] = join[h]
    BY <1>1, <1>2 DEF Thins
  <2>2. h \in Alls /\ join[h].pending = 0
    BY <2>1 DEF RowsInv, Spent
  <2> QED BY <2>1, <2>2
<1>4. RaceEnd'
  <2> SUFFICES ASSUME NEW x \in owed, NEW g \in Frames, NEW b \in Arms[g], NEW q \in Frames,
                      export'[b] = "decremented", Under(x, q), In(q, {b}), ClosedTo(x, q)'
               PROVE  plan'[q] # {} /\ \A v \in plan'[q] : v.parks = {}
    BY DEF RaceEnd, Thins
  <2>1. x # Nobody
    BY NobodyIs, StateIs
  <2>2. ASSUME NEW p \in Frames, Under(x, p), Under(p, q), p # x PROVE join[p].closedBy = x
    <3>1. join'[p].closedBy = x
      BY <2>2 DEF ClosedTo
    <3>2. join'[p] = join[p] \/ join'[p] = NoJoin
      BY DEF Thins
    <3> QED BY <2>1, <3>1, <3>2 DEF NoJoin
  <2>3. ClosedTo(x, q) /\ export[b] = "decremented" /\ plan' = plan
    BY <2>2 DEF ClosedTo, Thins
  <2>4. plan[q] # {} /\ \A v \in plan[q] : v.parks = {}
    BY <2>3 DEF RowsInv, RaceEnd
  <2> QED BY <2>3, <2>4
<1>5. \A f : Doomed(f)' <=> Doomed(f)
  BY DEF Doomed, Thins
<1>6. Closers'
  <2> SUFFICES ASSUME NEW f \in Frames, Recd(f)', join'[f].pending = 0
               PROVE  \E c \in Points : join'[f].closedBy = c /\ ClosedIt(c, f)'
    BY DEF Closers
  <2>1. Recd(f) /\ join'[f] = join[f] /\ \A b \in Arms[f] : export'[b] = export[b]
    BY <1>1
  <2>2. PICK c \in Points : join[f].closedBy = c /\ ClosedIt(c, f)
    BY <2>1 DEF RowsInv, Closers
  <2>3. f \in Points
    BY PointsAre
  <2>4. ASSUME past'[f] = 0, ~Doomed(f)' PROVE Live(c)' \/ f \in owed'
    <3> SUFFICES ASSUME f \notin owed, ~Live(c)' PROVE FALSE
      BY DEF Thins
    <3>1. past[f] = 0 /\ ~Doomed(f)
      BY <1>5, <2>4 DEF Thins
    <3>2. Live(c)
      BY <2>2, <3>1 DEF ClosedIt
    <3>3. In(c, Arms[r]) /\ Under(c, r) /\ c # r
      BY <1>0, <3>2, NotInSelf DEF Thins, Under
    <3>4. f # r /\ ~In(f, Arms[r])
      BY <1>0, <3>1 DEF Doomed
    <3>5. ~Under(f, r)
      BY <3>4 DEF Under
    <3>6. Under(c, f)
      BY <2>2 DEF ClosedIt
    <3>7. Under(r, f)
      BY <1>0, <2>3, <3>3, <3>5, <3>6, UnderLinear
    <3>8. r \in Alls
      BY <1>0, <2>2, <3>2, <3>3, <3>4, <3>7 DEF ClosedIt
    <3> QED BY <1>0, <3>8, NobodyIs
  <2>5. ASSUME Live(c)' PROVE Live(c) /\ \A g \in Frames : Under(c, g) => join'[g] = join[g]
    BY <1>1, <1>2, <2>5 DEF Thins
  <2>6. ASSUME Live(c)', NEW b \in Arms[f], In(c, {b}) PROVE export'[b] = "decremented"
    BY <2>1, <2>2, <2>5, <2>6 DEF ClosedIt
  <2>7. ASSUME Live(c)', NEW g \in Frames, Under(c, g), g # c, Under(g, f), g # f PROVE g \in Alls /\ join'[g].closedBy = c
    BY <2>2, <2>5, <2>7 DEF ClosedIt
  <2>8. ClosedIt(c, f)'
    <3>1. Under(c, f) /\ c # f
      BY <2>2 DEF ClosedIt
    <3> QED BY <2>4, <2>6, <2>7, <3>1 DEF ClosedIt
  <2> QED BY <2>1, <2>2, <2>8
<1>7. ASSUME NEW f \in Alls, Recd(f)', ~Doomed(f)'
      PROVE  /\ Recd(f) /\ ~Doomed(f) /\ join'[f] = join[f] /\ Waiting(f)' = Waiting(f)
             /\ \A b \in Waiting(f) : \E x \in Points : RealIn(x, b)'
  <2>1. f \in Frames /\ Recd(f) /\ ~Doomed(f) /\ join'[f] = join[f] /\ \A b \in Arms[f] : export'[b] = export[b]
    BY <1>1, <1>5, <1>7, PointsAre
  <2>2. ASSUME NEW b \in Waiting(f) PROVE \E x \in Points : RealIn(x, b)'
    <3>1. b \in Arms[f]
      BY WaitingIs
    <3>2. PICK x \in Points : RealIn(x, b)
      BY <2>1 DEF RowsInv, Real
    <3> QED BY <2>1, <3>1, <3>2, ThinsReal
  <2>3. \A b : b \in Waiting(f)' <=> b \in Arms[f] /\ export'[b] # "decremented" /\ \E x : Live(x)' /\ In(x, {b})
    BY WaitingIsNext
  <2>4. \A b : b \in Waiting(f) <=> b \in Arms[f] /\ export[b] # "decremented" /\ \E x : Live(x) /\ In(x, {b})
    BY WaitingIs
  <2>5. ASSUME NEW b, b \in Waiting(f)' PROVE b \in Waiting(f)
    <3>1. \A x : Live(x)' => Live(x)
      BY <1>0 DEF Thins
    <3> QED BY <2>1, <2>3, <2>4, <2>5, <3>1
  <2>6. ASSUME NEW b, b \in Waiting(f) PROVE b \in Waiting(f)'
    <3>1. PICK x \in Points : RealIn(x, b)'
      BY <2>2, <2>6
    <3>2. Live(x)' /\ In(x, {b})
      BY <3>1 DEF RealIn
    <3>3. b \in Arms[f] /\ export'[b] # "decremented"
      BY <2>1, <2>4, <2>6
    <3> QED BY <2>3, <3>2, <3>3
  <2>7. Waiting(f)' = Waiting(f)
    BY <2>5, <2>6
  <2> QED BY <2>1, <2>2, <2>7
<1>8. Real'
  BY <1>7 DEF Real
<1>9. WaitsCounted'
  BY <1>7 DEF RowsInv, WaitsCounted
<1> QED BY <1>3, <1>4, <1>6, <1>8, <1>9 DEF RowsInv

\* WithdrawLeaves keeps what a run waits for.
LEMMA WithdrawLeavesEnd ==
    ASSUME PassInv, LeftInv, EndInv, TypeOK', LiveRecorded', NEW w \in Workers, WithdrawLeaves(w)
    PROVE  EndInv'
<1>0. TypeOK /\ RowsInv /\ Alone /\ OpenIs /\ Going(w) /\ Holding(w) /\ Lessens(w)
  BY WithdrawLeavesPass DEF PassInv, TypeInv, EndInv, LeftInv
<1>1. /\ Only(w) /\ At(w, "run") /\ UNCHANGED <<status, join, export, owed, lease, plan, past, open, left>>
      /\ \A l \in Leaves : leaf'[l] = IF leaf[l] = "parked" /\ In(l, Losers(w)) THEN "none" ELSE leaf[l]
      /\ job'[w].step = "frames" /\ job'[w].of = job[w].of /\ job'[w].losers = job[w].losers
      /\ job'[w].at = job[w].at /\ job'[w].way = job[w].way /\ job'[w].passed = job[w].passed
  BY <1>0, WithdrawLeavesDoes
<1>2. Holds(w) /\ InSegment(w) /\ ~At(w, "idle") /\ status # "failed"
  BY <1>0, <1>1, NotFailed DEF Alone, At, InSegment
<1>3. \A x \in Points : Live(x)' => Live(x)
  BY <1>0 DEF Lessens
<1>4. RowsInv'
  <2>1. CASE \E l \in Leaves : leaf[l] = "parked" /\ In(l, Losers(w))
    <3>1. PICK l \in Leaves : leaf[l] = "parked" /\ In(l, Losers(w))
      BY <2>1
    <3>2. l \in Points /\ Touched(l)
      BY <3>1, PointsAre DEF Touched, Live, Drainable
    <3>3. job[w].of \in Races /\ Losers(w) = Arms[job[w].of]
      BY <1>2, <3>1, <3>2, LosersOf
    <3>4. job[w].of \in owed
      BY <1>2, <1>0, <3>3, NobodyIs DEF Holding, Live, Drainable
    <3>5. \A x \in Points : Live(x) => Live(x)' \/ In(x, Arms[job[w].of])
      BY <1>1, <3>3 DEF Live, Drainable
    <3>6. Thins(job[w].of)
      BY <1>1, <1>3, <3>3, <3>4, <3>5 DEF Thins
    <3> QED BY <1>0, <3>6, RowsThin
  <2>2. CASE ~\E l \in Leaves : leaf[l] = "parked" /\ In(l, Losers(w))
    <3>1. \A x : Live(x)' <=> Live(x)
      BY <1>1, <2>2 DEF Live, Drainable
    <3> QED BY <1>0, <1>1, <3>1, RowsSame
  <2> QED BY <2>1, <2>2
<1>5. Going(w)' /\ JobEnd(w)'
  BY <1>0, <1>1, <1>2 DEF Going, JobEnd, InSegment, Recd
<1> QED BY <1>0, <1>1, <1>2, <1>3, <1>4, <1>5, EndKept

\* So does WithdrawFrames, where no race is in an arm of a race.
LEMMA WithdrawFramesEnd ==
    ASSUME NoRaceInRace, PassInv, LeftInv, EndInv, TypeOK', LiveRecorded', NEW w \in Workers, WithdrawFrames(w)
    PROVE  EndInv'
<1>0. TypeOK /\ TypeInv /\ RowsInv /\ Alone /\ OpenIs /\ Going(w) /\ Holding(w) /\ JobOf(w) /\ Lessens(w)
  BY WithdrawFramesPass DEF PassInv, TypeInv, EndInv, LeftInv
<1>1. /\ Only(w) /\ At(w, "frames") /\ UNCHANGED <<status, leaf, lease, plan, past, left>>
      /\ \A f \in Frames : join'[f] = IF f \in Dead(w) THEN NoJoin ELSE join[f]
      /\ \A f \in Frames : \A b \in Arms[f] : export'[b] = IF f \in Dead(w) THEN NoExport ELSE export[b]
      /\ owed' = owed \ Dead(w) /\ open' = open \ Dead(w)
      /\ job'[w].step = "run" /\ job'[w].losers = {} /\ job'[w].of = job[w].of
      /\ job'[w].at = job[w].at /\ job'[w].passed = job[w].passed /\ job'[w].way.parks = job[w].way.parks
  BY <1>0, WithdrawFramesDoes
<1>2. Holds(w) /\ InSegment(w) /\ ~At(w, "idle") /\ status # "failed"
  BY <1>0, <1>1, NotFailed DEF Alone, At, InSegment
<1>3. owed' = owed
  BY <1>0, <1>1, <1>2, DeadOwed
<1>4. \A x : Live(x)' <=> Live(x)
  BY <1>1, <1>3 DEF Live, Drainable
<1>5. ASSUME NEW f \in Dead(w)
      PROVE  f \in Frames /\ job[w].of \in Races /\ In(f, Arms[job[w].of])
  <2>1. f \in Frames /\ f \in Points /\ In(f, Losers(w)) /\ Touched(f)
    BY PointsAre DEF Dead, Recorded, Touched
  <2> QED BY <1>2, <2>1, LosersOf
<1>6. RowsInv'
  <2>1. CASE \E f \in Frames : f \in Dead(w)
    <3>1. job[w].of \in Races /\ \A f \in Dead(w) : In(f, Arms[job[w].of])
      BY <1>5, <2>1
    <3>2. job[w].of \in owed
      BY <1>0, <1>2, <3>1, NobodyIs DEF Holding, Live, Drainable
    <3>3. \A f \in Frames : join'[f] = join[f] \/ (join'[f] = NoJoin /\ In(f, Arms[job[w].of]))
      BY <1>1, <3>1
    <3>4. \A f \in Frames : \A b \in Arms[f] : export'[b] = "decremented" => export[b] = "decremented"
      BY <1>1 DEF NoExport
    <3>5. \A f \in Frames : \A b \in Arms[f] : join'[f] # NoJoin \/ ~In(f, Arms[job[w].of]) => export'[b] = export[b]
      BY <1>1, <3>1
    <3>6. Thins(job[w].of)
      BY <1>1, <1>3, <1>4, <3>1, <3>2, <3>3, <3>4, <3>5, Zenon DEF Thins
    <3> QED BY <1>0, <3>6, RowsThin
  <2>2. CASE ~\E f \in Frames : f \in Dead(w)
    <3>1. (\A f \in Frames : join'[f] = join[f]) /\ \A f \in Frames : \A b \in Arms[f] : export'[b] = export[b]
      BY <1>1, <2>2
    <3> QED BY <1>0, <1>1, <1>3, <1>4, <3>1, RowsSame
  <2> QED BY <2>1, <2>2
<1>7. ASSUME job[w].of \in Races, NEW f \in Frames, In(f, Arms[job[w].of]) PROVE join'[f] = NoJoin
  <2>1. CASE job[w].losers = {}
    <3>1. join[f] = NoJoin
      BY <1>0, <1>2, <1>7, <2>1 DEF Going, Recd
    <3> QED BY <1>1, <3>1
  <2>2. CASE job[w].losers # {}
    <3>1. Losers(w) = Arms[job[w].of]
      BY <1>0, <1>2, <2>2, LosersAre
    <3>2. f # job[w].of
      BY <1>7, NotInSelf, PointsAre
    <3>3. join[f] # NoJoin => f \in Dead(w)
      BY <1>7, <3>1, <3>2 DEF Dead, Recorded
    <3> QED BY <1>1, <3>3
  <2> QED BY <2>1, <2>2
<1>8. Going(w)'
  <2>1. InSegment(w)' /\ status' = "parked"
    BY <1>0, <1>1, <1>2 DEF Going, InSegment
  <2>2. \A q \in job'[w].passed \cup {job'[w].of} :
              plan'[q] # {} /\ \A v \in plan'[q] : v.parks = IF q = job'[w].at THEN job'[w].way.parks ELSE {}
    BY <1>0, <1>1, <1>2 DEF Going
  <2>3. job'[w].of \in Races => \A f \in Frames : In(f, Arms[job'[w].of]) => ~Recd(f)'
    BY <1>1, <1>7 DEF Recd
  <2> QED BY <1>1, <2>1, <2>2, <2>3 DEF Going
<1>9. JobEnd(w)'
  BY <1>1 DEF JobEnd
<1>10. OpenIs'
  <2>1. \A f \in open' : f \in open /\ f \notin Dead(w) /\ f \in Frames
    BY <1>0, <1>1, StateIs
  <2> QED BY <1>0, <1>1, <1>2, <1>4, <2>1 DEF OpenIs, Recd
<1> QED BY <1>0, <1>1, <1>2, <1>6, <1>8, <1>9, <1>10, EndOthers DEF EndInv

\* A frame of an arm that x is under is under the arm's statement that x is under.
LEMMA UnderStatement ==
    ASSUME NEW f \in Frames, NEW b \in Arms[f], NEW s \in Points, HomeOf(s) = b, NEW x \in Points, Under(x, s),
           NEW h \in Points, Under(x, h), In(h, {b})
    PROVE  Under(h, s)
<1>1. b \in Bodies /\ b # Top /\ FrameOf(b) = f /\ f \in Points
  BY ArmsIn
<1>2. ASSUME Under(s, h), s # h PROVE FALSE
  <2>1. h \in Frames /\ In(s, Arms[h])
    BY <1>2 DEF Under
  <2>2. Under(f, h)
    BY <1>1, <2>1, UnderParent
  <2>3. In(f, {b})
    BY <1>1, <2>2, UnderIn
  <2>4. In(f, Arms[f])
    BY <2>3, InOne
  <2> QED BY <2>4, NotInSelf
<1>3. s = h => Under(h, s)
  BY DEF Under
<1> QED BY <1>2, <1>3, UnderLinear

\* The statement of an arm that x is under.
LEMMA StatementOf ==
    ASSUME NEW b \in Bodies, NEW x \in Points, In(x, {b})
    PROVE  \E s \in Points : HomeOf(s) = b /\ Under(x, s)
BY ArmFollows DEF Follows

\* What goes on in an `all` with all its arms in is in an arm decremented.
LEMMA ClosedArm ==
    ASSUME TypeOK, LeftCounted, NEW s \in Alls, Recd(s), join[s].pending <= 0, NEW x \in Points, Live(x), Under(x, s)
    PROVE  \E a \in Arms[s] : In(x, {a}) /\ export[a] = "decremented" /\ \A q \in Points : Under(x, q) /\ Under(q, s) => q = s \/ In(q, {a})
<1>1. s \in Points /\ s \in Frames /\ x # s
  BY LiveIn, PointsAre, NobodyIs
<1>2. In(x, Arms[s])
  BY <1>1 DEF Under
<1>3. PICK a \in Arms[s] : In(x, {a})
  BY <1>2, InOne
<1>4. export[a] = "decremented"
  BY <1>1, <1>3, NoneLeft
<1>5. ASSUME NEW q \in Points, Under(x, q), Under(q, s), q # s PROVE In(q, {a})
  <2>1. In(q, Arms[s])
    BY <1>1, <1>5 DEF Under
  <2>2. PICK c \in Arms[s] : In(q, {c})
    BY <2>1, InOne
  <2>3. In(x, {c})
    BY <1>5, <2>2, UnderIn
  <2>4. c = a
    BY <1>1, <1>3, <2>3, OneArm
  <2> QED BY <2>2, <2>4
<1> QED BY <1>3, <1>4, <1>5

\* Where w decrements, what goes on in its arm is the resumed itself; or is in
\* an `all`, a statement of the arm, whose arms are in: that w is at, or one gone past.
LEMMA DecrementLive ==
    ASSUME NoRaceInRace, PassInv, LeftInv, NEW w \in Workers, At(w, "decrement"), NEW x \in Points, Live(x), In(x, {Body(w)}),
           NEW s \in Points, HomeOf(s) = Body(w), Under(x, s)
    PROVE  \/ x = job[w].of /\ s = x /\ s = job[w].at
           \/ /\ s \in Alls /\ Recd(s) /\ join[s].pending = 0
              /\ (s = job[w].at /\ join[s].closedBy = job[w].of) \/ ~Live(join[s].closedBy)
<1>0. TypeOK /\ TypeInv /\ JobOf(w) /\ Holding(w) /\ Chain(w) /\ Holds(w) /\ InSegment(w)
  BY DEF PassInv, TypeInv, LeftInv, Alone, At, InSegment
<1>1. /\ job[w].of \in Points /\ job[w].at \in Points /\ job[w].of \in Leaves \cup Races /\ Live(job[w].of)
      /\ Under(job[w].of, job[w].at) /\ HomeOf(job[w].at) = Body(w)
  BY <1>0, ArmIs, OfInArm DEF JobOf, Holding
<1>2. s = job[w].at \/ After(s, job[w].at) \/ After(job[w].at, s)
  <2>1. PlaceOf(s) \in Nat /\ PlaceOf(job[w].at) \in Nat
    BY <1>1, PlacesIn
  <2>2. Statements[HomeOf(s)][PlaceOf(s)] = s /\ Statements[HomeOf(job[w].at)][PlaceOf(job[w].at)] = job[w].at
    BY <1>1, Places
  <2>3. PlaceOf(s) = PlaceOf(job[w].at) => s = job[w].at
    BY <1>1, <2>2
  <2>4. PlaceOf(s) < PlaceOf(job[w].at) => After(s, job[w].at)
    BY <1>1, UnderSelf DEF After, Follows
  <2>5. PlaceOf(job[w].at) < PlaceOf(s) => After(job[w].at, s)
    BY <1>1, UnderSelf DEF After, Follows
  <2> QED BY <2>1, <2>3, <2>4, <2>5
<1>3. CASE After(job[w].at, s)
  <2>1. After(job[w].at, x)
    BY <1>1, <1>3, AfterUnder
  <2> QED BY <1>0, <2>1, NothingAfter DEF Touched
<1>4. job[w].at \in Races => job[w].at = job[w].of
  BY <1>0 DEF JobOf
<1>5. job[w].at \in Alls => job[w].at \in job[w].passed
  BY <1>0, <1>1, NobodyIs, PointsAre DEF JobOf
<1>6. CASE s = job[w].at
  <2>1. CASE job[w].at \in Leaves
    <3>1. x = s /\ job[w].of = job[w].at
      BY <1>1, <1>6, <2>1, NobodyIs DEF Under
    <3> QED BY <1>6, <3>1
  <2>2. CASE job[w].at \in Races
    <3>1. job[w].losers = {} /\ s = job[w].of /\ s \in Races
      BY <1>0, <1>4, <1>6, <2>2 DEF JobOf, At
    <3>2. ASSUME In(x, Arms[s]) PROVE FALSE
      <4>1. x \notin Races
        BY <3>1, <3>2 DEF NoRaceInRace
      <4>2. x \in Leaves /\ leaf[x] # "none"
        BY <1>0, <4>1, LiveIn DEF Live, Drainable, TypeOK
      <4> QED BY <1>0, <3>1, <3>2, <4>2 DEF Holding
    <3>3. x = s
      BY <3>2 DEF Under
    <3> QED BY <1>6, <3>1, <3>3
  <2>3. CASE job[w].at \in Alls
    <3>1. Recd(s) /\ join[s].closedBy = job[w].of /\ s \in Frames
      BY <1>0, <1>5, <1>6, <2>3, PointsAre DEF Chain
    <3>2. job[w].of # Nobody
      BY <1>1, NobodyIs
    <3>3. join[s].pending = 0
      BY <3>1, <3>2 DEF PassInv, Closed
    <3> QED BY <1>6, <2>3, <3>1, <3>3
  <2> QED BY <1>1, <2>1, <2>2, <2>3, PointsAre
<1>7. CASE After(s, job[w].at)
  <2>1. Touched(job[w].at)
    <3>1. job[w].at \in Alls => Recd(job[w].at)
      BY <1>0, <1>5 DEF Chain
    <3>2. job[w].at \in Leaves => job[w].at = job[w].of
      BY <1>1, NobodyIs DEF Under
    <3> QED BY <1>1, <1>4, <3>1, <3>2, PointsAre DEF Touched, Recd
  <2>2. s \in Frames /\ past[s] # 0
    BY <1>1, <1>7, <2>1 DEF PassInv, Fresh, Ahead
  <2>3. past[s] > 0
    BY <1>0, <2>2, StateIs
  <2>4. s \in Alls
    BY <2>2, <2>3, PointsAre DEF PassInv, RacesPast
  <2>5. join[s].pending <= 0 /\ ~Live(join[s].closedBy)
    BY <2>3, <2>4 DEF PassInv, AllsPast
  <2>6. Recd(s)
    BY <2>2 DEF LeftInv, LiveRecorded
  <2>7. join[s].pending = 0
    <3>1. join[s].pending \in Nat \cup {-1}
      BY <1>0, <2>2, StateIs
    <3>2. join[s].pending # -1
      BY <2>2, <2>6 DEF PassInv, Closed, Recd
    <3> QED BY <2>5, <3>1, <3>2
  <2> QED BY <2>4, <2>5, <2>6, <2>7
<1> QED BY <1>2, <1>3, <1>6, <1>7

\* So every frame around what goes on there, in the arm, is an `all` with its arms in.
LEMMA DecrementSpent ==
    ASSUME NoRaceInRace, PassInv, LeftInv, RowsInv, NEW w \in Workers, At(w, "decrement"), NEW x \in Points, Live(x), In(x, {Body(w)}),
           NEW h \in Frames, Under(x, h), In(h, {Body(w)}), h # x
    PROVE  h \in Alls /\ join[h].pending = 0
<1>0. TypeOK /\ TypeInv /\ JobOf(w) /\ LeftCounted
  BY DEF PassInv, TypeInv, LeftInv
<1>1. h \in Points /\ Body(w) \in Bodies /\ FrameOf(Body(w)) \in Frames /\ Body(w) \in Arms[FrameOf(Body(w))]
  BY <1>0, ArmIs, PointsAre
<1>2. PICK s \in Points : HomeOf(s) = Body(w) /\ Under(x, s)
  BY <1>1, StatementOf
<1>3. Under(h, s)
  BY <1>1, <1>2, UnderStatement
<1>4. CASE s = x
  BY <1>1, <1>3, <1>4, UnderAntisym
<1>5. CASE s \in Alls /\ Recd(s) /\ join[s].pending = 0
  <2>0. s \in Alls /\ Recd(s) /\ join[s].pending <= 0
    BY <1>5
  <2>1. PICK a \in Arms[s] : In(x, {a}) /\ export[a] = "decremented" /\ \A q \in Points : Under(x, q) /\ Under(q, s) => q = s \/ In(q, {a})
    BY <1>0, <1>2, <2>0, ClosedArm, Zenon
  <2>2. h = s \/ In(h, {a})
    BY <1>1, <1>3, <2>1
  <2>3. In(h, {a}) => h \in Alls /\ join[h].pending = 0
    BY <1>5, <2>1, PointsAre DEF RowsInv, Spent
  <2> QED BY <1>5, <2>2, <2>3
<1> QED BY <1>2, <1>4, <1>5, DecrementLive

\* And a race owed there goes on to its end as it did, past what it closed.
LEMMA DecrementRace ==
    ASSUME NoRaceInRace, PassInv, LeftInv, RowsInv, NEW w \in Workers, Going(w), At(w, "decrement"), NEW x \in owed, In(x, {Body(w)}),
           NEW q \in Frames, Under(x, q), In(q, {Body(w)}), ClosedTo(x, q)
    PROVE  plan[q] # {} /\ \A v \in plan[q] : v.parks = {}
<1>0. TypeOK /\ TypeInv /\ JobOf(w) /\ LeftCounted /\ Chain(w) /\ InSegment(w)
  BY DEF PassInv, TypeInv, LeftInv, InSegment, At
<1>1. x \in Points /\ Live(x) /\ x \in Races /\ q \in Points /\ Body(w) \in Bodies /\ FrameOf(Body(w)) \in Frames
      /\ Body(w) \in Arms[FrameOf(Body(w))] /\ job[w].way.parks = {} /\ job[w].at \in Points
  BY <1>0, ArmIs, PointsAre, StateIs DEF Live
<1>2. PICK s \in Points : HomeOf(s) = Body(w) /\ Under(x, s)
  BY <1>1, StatementOf
<1>3. Under(q, s)
  BY <1>1, <1>2, UnderStatement
<1>4. \A p \in job[w].passed \cup {job[w].of} : plan[p] # {} /\ \A v \in plan[p] : v.parks = {}
  BY <1>0, <1>1 DEF Going
<1>5. CASE x = job[w].of /\ s = job[w].at
  <2>1. q \in job[w].passed
    BY <1>0, <1>3, <1>5 DEF Chain
  <2> QED BY <1>4, <2>1
<1>6. CASE s \in Alls /\ Recd(s) /\ join[s].pending = 0 /\ ((s = job[w].at /\ join[s].closedBy = job[w].of) \/ ~Live(join[s].closedBy))
  <2>0. TypeOK /\ LeftCounted /\ x \in Points /\ Live(x) /\ Under(x, s) /\ s \in Alls /\ Recd(s) /\ join[s].pending <= 0
    BY <1>0, <1>1, <1>2, <1>6
  <2>1. PICK a \in Arms[s] : In(x, {a}) /\ export[a] = "decremented" /\ \A p \in Points : Under(x, p) /\ Under(p, s) => p = s \/ In(p, {a})
    BY <2>0, ClosedArm
  <2>2. CASE q = s
    <3>1. join[s].closedBy = x
      BY <1>1, <1>6, <2>2, UnderSelf, NobodyIs DEF ClosedTo
    <3>2. s = job[w].at /\ x = job[w].of
      BY <1>1, <1>6, <3>1
    <3> QED BY <1>5, <3>2
  <2>3. CASE In(q, {a})
    <3>1. s \in Frames
      BY <1>6, PointsAre
    <3> QED BY <2>1, <2>3, <3>1 DEF RowsInv, RaceEnd
  <2> QED BY <1>1, <1>3, <2>1, <2>2, <2>3
<1> QED BY <1>1, <1>2, <1>5, <1>6, DecrementLive

\* What Decrement does, where its process holds the run.
DecrementIs(w, b, f) ==
    /\ b \in Bodies /\ b \in Arms[f] /\ f \in Frames /\ f \in Points /\ job[w].of \in Points /\ job[w].at \in Points
    /\ job[w].of \in Leaves \cup Races /\ HomeOf(job[w].at) = b /\ Live(job[w].of) /\ In(job[w].of, {b}) /\ Under(job[w].of, f)
    /\ job[w].of # f /\ Under(job[w].of, job[w].at) /\ Under(job[w].at, f) /\ job[w].at # f
    /\ export[b] # NoExport /\ Recd(f)
    /\ (f \in Alls => (Claims(b) <=> export[b] = "kept"))
    /\ export'[b] = "decremented" /\ \A c \in Bodies \ {b} : export'[c] = export[c]
    /\ \A g \in Frames \ {f} : join'[g] = join[g]
    /\ ~Claims(b) => join'[f] = join[f]
    /\ Claims(b) => /\ export[b] = "kept" /\ join[f].pending \in Nat \ {0} /\ join[f].closedBy = Nobody
                    /\ join'[f].pending = join[f].pending - 1
                    /\ join'[f].closedBy = IF join[f].pending = 1 THEN job[w].of ELSE Nobody
    /\ \A g \in Frames : Recd(g)' <=> Recd(g)
    /\ \A x : Live(x)' <=> Live(x)
    /\ owed' = owed /\ past' = past

\* The facts of a decrement, in one.
LEMMA DecrementFacts ==
    ASSUME PassInv, LeftInv, NEW w \in Workers, Going(w), Decrement(w), NEW b, b = Body(w), NEW f, f = FrameOf(b)
    PROVE  DecrementIs(w, b, f)
<1>0. TypeOK /\ TypeInv /\ JobOf(w) /\ Holding(w) /\ LeftCounted /\ Holds(w) /\ InSegment(w) /\ At(w, "decrement")
  BY DEF PassInv, TypeInv, LeftInv, Alone, At, InSegment, Decrement
<1>1. b \in Bodies /\ b \in Arms[f] /\ f \in Frames /\ f \in Points /\ job[w].of \in Points /\ job[w].at \in Points
      /\ job[w].of \in Leaves \cup Races /\ HomeOf(job[w].at) = b
  BY <1>0, ArmIs, OfInArm
<1>2. In(job[w].of, {b}) /\ Under(job[w].of, f) /\ job[w].of # f /\ Under(job[w].at, f) /\ job[w].at # f
  BY <1>0, OfInArm
<1>3. Live(job[w].of) /\ Under(job[w].of, job[w].at)
  BY <1>0 DEF Holding, JobOf
<1>4. Recd(f) /\ export[b] # NoExport
  BY <1>0, <1>1, <1>2, <1>3 DEF LeftInv, LiveRecorded, Going, At
<1>5. join[f].pending \in Nat \cup {-1} /\ export[b] \in {NoExport, "kept", "decremented"}
  BY <1>0, <1>1, StateIs
<1>6. f \in Alls => (Claims(b) <=> export[b] = "kept")
  <2> SUFFICES ASSUME f \in Alls, export[b] = "kept" PROVE join[f].pending > 0
    BY <1>1, ArmsIn DEF Claims
  <2>1. b \in Left(f)
    <3>1. "kept" # "decremented"
      OBVIOUS
    <3> QED BY <1>1, <1>2, <1>3, <3>1, LeftIs
  <2>2. Cardinality(Left(f)) <= join[f].pending
    BY <1>0, <1>4 DEF LeftCounted
  <2>3. Left(f) \in SUBSET Bodies
    BY <1>1, LeftIn
  <2>4. Cardinality(Left(f)) \in Nat /\ Cardinality(Left(f)) # 0
    BY <2>1, <2>3, CardLess
  <2> QED BY <1>5, <2>2, <2>4
<1>7. /\ export'[b] = (IF export[b] = "kept" THEN "decremented" ELSE export[b])
      /\ \A c \in Bodies \ {b} : export'[c] = export[c]
      /\ \A g \in Frames \ {f} : join'[g] = join[g]
      /\ ~Claims(b) => join'[f] = join[f]
      /\ Claims(b) => join'[f] = [pending |-> join[f].pending - 1, closedBy |-> IF join[f].pending = 1 THEN job[w].of ELSE join[f].closedBy]
  BY <1>0, DecrementCounts
<1>8. Claims(b) => export[b] = "kept" /\ join[f].pending \in Nat \ {0} /\ join[f].closedBy = Nobody
  <2>1. Claims(b) => export[b] = "kept" /\ join[f].pending > 0
    BY <1>1, ArmsIn DEF Claims
  <2> QED BY <1>1, <1>5, <2>1 DEF PassInv, Closed
<1>9. Claims(b) => join'[f].pending = join[f].pending - 1 /\ join'[f].closedBy = IF join[f].pending = 1 THEN job[w].of ELSE Nobody
  BY <1>7, <1>8
<1>10. \A g \in Frames : Recd(g)' <=> Recd(g)
  <2>1. Claims(b) => join'[f] # NoJoin
    BY <1>8, <1>9 DEF NoJoin
  <2> QED BY <1>4, <1>7, <2>1 DEF Recd
<1>11. UNCHANGED <<leaf, owed, past>>
  BY DEF Decrement
<1>12. \A x : Live(x)' <=> Live(x)
  BY <1>11 DEF Live, Drainable
<1>13. export'[b] = "decremented"
  BY <1>4, <1>5, <1>7
<1> QED BY <1>1, <1>2, <1>3, <1>4, <1>6, <1>7, <1>8, <1>9, <1>10, <1>11, <1>12, <1>13 DEF DecrementIs

\* Spent, RaceEnd after it.
LEMMA DecrementEnds ==
    ASSUME NoRaceInRace, PassInv, LeftInv, RowsInv, NEW w \in Workers, Going(w), Decrement(w)
    PROVE  Spent' /\ RaceEnd'
<1> DEFINE b == Body(w)  f == FrameOf(Body(w))  of == job[w].of
<1>0. DecrementIs(w, b, f) /\ At(w, "decrement") /\ TypeInv /\ TypeOK
  BY DecrementFacts DEF Decrement, PassInv, TypeInv
<1>1. UNCHANGED plan \/ WentOn(w, f)
  BY <1>0, DecrementDoes
<1>a. b = Body(w) /\ of = job[w].of
  OBVIOUS
<1> HIDE DEF b, f, of
<1>2. \A q \in Points : ~In(q, {b}) \/ q # f
  <2> SUFFICES ASSUME In(f, {b}) PROVE FALSE
    OBVIOUS
  <2>1. In(f, Arms[f])
    BY <1>0, InOne DEF DecrementIs
  <2> QED BY <1>0, <2>1, NotInSelf DEF DecrementIs
<1>3. \A g \in Frames : \A c \in Arms[g] : c \in Bodies
  BY ArmsIn
<1>4. Spent'
  <2> SUFFICES ASSUME NEW x \in Points, NEW g \in Frames, NEW c \in Arms[g], NEW h \in Frames,
                      Live(x), In(x, {c}), export'[c] = "decremented", Under(x, h), In(h, {c}), h # x
               PROVE  h \in Alls /\ join'[h].pending = 0
    BY <1>0 DEF Spent, DecrementIs
  <2>1. CASE export[c] = "decremented"
    <3>1. h \in Alls /\ join[h].pending = 0
      BY <2>1 DEF RowsInv, Spent
    <3>2. join'[h] = join[h]
      BY <1>0, <3>1 DEF DecrementIs
    <3> QED BY <3>1, <3>2
  <2>2. CASE export[c] # "decremented"
    <3>1. c = b
      BY <1>0, <1>3, <2>2 DEF DecrementIs
    <3>2. h \in Alls /\ join[h].pending = 0
      BY <1>0, <1>a, <3>1, DecrementSpent
    <3>3. h # f
      BY <1>2, <3>1, PointsAre
    <3> QED BY <1>0, <3>2, <3>3 DEF DecrementIs
  <2> QED BY <2>1, <2>2
<1>5. ASSUME NEW q \in Frames, plan[q] # {}, \A v \in plan[q] : v.parks = {}
      PROVE  plan'[q] # {} /\ \A v \in plan'[q] : v.parks = {}
  <2>1. CASE UNCHANGED plan
    BY <1>5, <2>1
  <2>2. CASE WentOn(w, f)
    <3>1. PICK way \in Way : GoesOn(f, way) /\ KeepsRest(way) /\ Planned(f, way) /\ (plan[f] # {} => way \in plan[f])
      BY <2>2 DEF WentOn
    <3>2. plan'[f] = {way} /\ \A y \in Points \ {f} : plan'[y] = plan[y]
      BY <1>0, <3>1, PlannedIs DEF TypeInv, DecrementIs
    <3> QED BY <1>5, <3>1, <3>2, PointsAre
  <2> QED BY <1>1, <2>1, <2>2
<1>b. owed' = owed
  BY <1>0 DEF DecrementIs
<1>6. RaceEnd'
  <2> SUFFICES ASSUME NEW x \in owed, NEW g \in Frames, NEW c \in Arms[g], NEW q \in Frames,
                      export'[c] = "decremented", Under(x, q), In(q, {c}), ClosedTo(x, q)'
               PROVE  plan[q] # {} /\ \A v \in plan[q] : v.parks = {}
    BY <1>5, <1>b DEF RaceEnd
  <2>1. x \in Points /\ x \in Frames /\ Live(x) /\ q \in Points
    BY <1>0, StateIs, PointsAre DEF Live
  <2>2. In(x, {c})
    BY <2>1, UnderIn
  <2>3. ClosedTo(x, q)
    <3> SUFFICES ASSUME NEW p \in Frames, Under(x, p), Under(p, q), p # x, join[p].closedBy # x PROVE FALSE
      BY DEF ClosedTo
    <3>1. join'[p].closedBy = x
      BY DEF ClosedTo
    <3>2. p = f /\ Claims(b)
      BY <1>0, <3>1 DEF DecrementIs
    <3>3. In(p, {c})
      BY <2>1, UnderIn, PointsAre
    <3>4. c # b
      BY <1>2, <3>2, <3>3, PointsAre
    <3>5. export[c] = "decremented"
      BY <1>0, <1>3, <3>4 DEF DecrementIs
    <3>6. join[p].pending = 0
      BY <2>1, <2>2, <3>3, <3>5 DEF RowsInv, Spent
    <3> QED BY <1>0, <3>2, <3>6 DEF DecrementIs
  <2>4. CASE export[c] = "decremented"
    BY <2>3, <2>4 DEF RowsInv, RaceEnd
  <2>5. CASE export[c] # "decremented"
    <3>1. c = b
      BY <1>0, <1>3, <2>5 DEF DecrementIs
    <3> QED BY <1>0, <1>a, <2>2, <2>3, <3>1, DecrementRace
  <2> QED BY <2>4, <2>5
<1> QED BY <1>4, <1>6

\* Closers, after it: f's, if its arm was the last in, is what w resumed.
LEMMA DecrementClosers ==
    ASSUME NoRaceInRace, PassInv, LeftInv, RowsInv, NEW w \in Workers, Going(w), Decrement(w)
    PROVE  Closers'
<1>a. PICK b, f, of : b = Body(w) /\ f = FrameOf(b) /\ of = job[w].of
  OBVIOUS
<1>0. DecrementIs(w, b, f) /\ TypeInv /\ JobOf(w) /\ Chain(w) /\ InSegment(w) /\ At(w, "decrement")
  BY <1>a, DecrementFacts DEF Decrement, PassInv, TypeInv, LeftInv, InSegment, At
<1>1. (\A x : Live(x)' <=> Live(x)) /\ past' = past /\ owed' = owed /\ (\A g : Doomed(g)' <=> Doomed(g))
  BY <1>0 DEF DecrementIs, Doomed
<1>2. \A c \in Bodies : export[c] = "decremented" => export'[c] = "decremented"
  BY <1>0 DEF DecrementIs
<1>3. \A p \in Points : p # Nobody
  BY NobodyIs
<1> SUFFICES ASSUME NEW g \in Frames, Recd(g)', join'[g].pending = 0
             PROVE  \E c \in Points : join'[g].closedBy = c /\ ClosedIt(c, g)'
  BY DEF Closers
<1>4. CASE g = f /\ Claims(b)
  <2>1. join[f].pending = 1 /\ join'[f].closedBy = of /\ of \in Points
    BY <1>0, <1>a, <1>4 DEF DecrementIs
  <2>2. ASSUME NEW c \in Arms[f], In(of, {c}) PROVE export'[c] = "decremented"
    <3>1. c = b
      BY <1>0, <1>a, <2>2, OneArm DEF DecrementIs
    <3> QED BY <1>0, <3>1 DEF DecrementIs
  <2>3. ASSUME NEW h \in Frames, Under(of, h), h # of, Under(h, f), h # f PROVE h \in Alls /\ join'[h].closedBy = of
    <3>1. h \in Points
      BY PointsAre
    <3>2. ASSUME Under(job[w].at, h), job[w].at # h PROVE FALSE
      <4>1. In(job[w].at, Arms[h])
        BY <3>2 DEF Under
      <4>2. Under(f, h)
        BY <1>0, <1>a, <4>1, UnderParent DEF DecrementIs
      <4> QED BY <1>0, <2>3, <3>1, <4>2, UnderAntisym DEF DecrementIs
    <3>3. Under(h, job[w].at)
      <4>1. Under(h, h)
        BY UnderSelf
      <4> QED BY <1>0, <1>a, <2>3, <3>1, <3>2, <4>1, UnderLinear DEF DecrementIs
    <3>4. h \in job[w].passed
      BY <1>0, <1>a, <2>3, <3>3 DEF Chain
    <3>5. h \in Alls
      BY <1>0, <1>a, <2>3, <3>4, PointsAre DEF JobOf
    <3>6. join[h].closedBy = of
      BY <1>0, <1>a, <3>4, <3>5 DEF Chain
    <3>7. join'[h] = join[h]
      BY <1>0, <2>3 DEF DecrementIs
    <3> QED BY <3>5, <3>6, <3>7
  <2>4. Live(of)' /\ Under(of, f) /\ of # f
    BY <1>0, <1>a, <1>1 DEF DecrementIs
  <2>5. ClosedIt(of, f)'
    BY <2>1, <2>2, <2>3, <2>4 DEF ClosedIt
  <2> QED BY <1>4, <2>1, <2>5
<1>5. CASE ~(g = f /\ Claims(b))
  <2>1. join'[g] = join[g] /\ Recd(g)
    BY <1>0, <1>5 DEF DecrementIs
  <2>2. PICK c \in Points : join[g].closedBy = c /\ ClosedIt(c, g)
    BY <2>1 DEF RowsInv, Closers
  <2>3. Under(c, g) /\ c # g /\ (past'[g] = 0 /\ ~Doomed(g)' => Live(c)' \/ g \in owed')
    BY <1>1, <2>2 DEF ClosedIt
  <2>4. Live(c)' => \A a \in Arms[g] : In(c, {a}) => export'[a] = "decremented"
    BY <1>1, <1>2, <2>2, ArmsIn DEF ClosedIt
  <2>5. ASSUME Live(c)', NEW h \in Frames, Under(c, h), h # c, Under(h, g), h # g PROVE h \in Alls /\ join'[h].closedBy = c
    <3>1. h \in Alls /\ join[h].closedBy = c
      BY <1>1, <2>2, <2>5 DEF ClosedIt
    <3>2. join'[h] = join[h]
      BY <1>0, <1>3, <3>1 DEF DecrementIs
    <3> QED BY <3>1, <3>2
  <2>6. ClosedIt(c, g)'
    BY <2>3, <2>4, <2>5 DEF ClosedIt
  <2> QED BY <2>1, <2>2, <2>6
<1> QED BY <1>4, <1>5

\* What it waits for, after it: one arm less, where it counts.
LEMMA DecrementWaits ==
    ASSUME PassInv, LeftInv, RowsInv, NEW w \in Workers, Going(w), Decrement(w)
    PROVE  Real' /\ WaitsCounted'
<1>a. PICK b, f : b = Body(w) /\ f = FrameOf(b)
  OBVIOUS
<1>0. DecrementIs(w, b, f) /\ TypeOK
  BY <1>a, DecrementFacts DEF PassInv, TypeInv
<1>1. (\A x : Live(x)' <=> Live(x)) /\ past' = past /\ owed' = owed /\ (\A g : Doomed(g)' <=> Doomed(g)) /\ \A g \in Frames : Recd(g)' <=> Recd(g)
  BY <1>0 DEF DecrementIs, Doomed
<1>2. ASSUME NEW g \in Alls PROVE \A c : c \in Waiting(g)' <=> c \in Waiting(g) /\ (c # b \/ export[b] = "decremented")
  <2> SUFFICES ASSUME NEW c, c \in Arms[g] PROVE c \in Waiting(g)' <=> c \in Waiting(g) /\ (c # b \/ export[b] = "decremented")
    BY WaitingIs, WaitingIsNext
  <2>1. c \in Bodies
    BY ArmsIn, PointsAre
  <2>2. c \in Waiting(g) <=> export[c] # "decremented" /\ \E x : Live(x) /\ In(x, {c})
    BY WaitingIs
  <2>3. c \in Waiting(g)' <=> export'[c] # "decremented" /\ \E x : Live(x) /\ In(x, {c})
    BY <1>1, WaitingIsNext
  <2>4. export'[c] # "decremented" <=> export[c] # "decremented" /\ c # b
    BY <1>0, <2>1 DEF DecrementIs
  <2> QED BY <2>2, <2>3, <2>4
<1>3. Real'
  <2>1. \A x, c : RealIn(x, c)' <=> RealIn(x, c)
    BY <1>1 DEF RealIn
  <2> SUFFICES ASSUME NEW g \in Alls, Recd(g)', ~Doomed(g)', NEW c \in Waiting(g)' PROVE \E x \in Points : RealIn(x, c)
    BY <2>1 DEF Real
  <2>2. c \in Waiting(g) /\ Recd(g) /\ ~Doomed(g)
    BY <1>1, <1>2, PointsAre
  <2> QED BY <2>2 DEF RowsInv, Real
<1>4. WaitsCounted'
  <2> SUFFICES ASSUME NEW g \in Alls, Recd(g)', ~Doomed(g)' PROVE join'[g].pending = Cardinality(Waiting(g)')
    BY DEF WaitsCounted
  <2>1. g \in Frames /\ join[g].pending = Cardinality(Waiting(g))
    BY <1>1, PointsAre DEF RowsInv, WaitsCounted
  <2>2. Waiting(g) \in SUBSET Bodies
    BY <2>1, WaitingIs, ArmsIn
  <2>3. CASE g = f /\ Claims(b)
    <3>1. export[b] = "kept" /\ join'[f].pending = join[f].pending - 1
      BY <1>0, <2>3 DEF DecrementIs
    <3>2. b \in Waiting(f)
      BY <1>0, <3>1, WaitingIs DEF DecrementIs
    <3>3. Waiting(f)' = Waiting(f) \ {b}
      BY <1>2, <2>3, <3>1
    <3>4. IsFiniteSet(Waiting(f))
      BY <2>2, <2>3, CardLess
    <3>5. Cardinality(Waiting(f) \ {b}) = Cardinality(Waiting(f)) - 1
      BY <3>2, <3>4, FS_RemoveElement
    <3> QED BY <2>1, <2>3, <3>1, <3>3, <3>5
  <2>4. CASE ~(g = f /\ Claims(b))
    <3>1. join'[g] = join[g]
      BY <1>0, <2>1, <2>4 DEF DecrementIs
    <3>2. b \in Waiting(g) => export[b] = "decremented"
      <4> SUFFICES ASSUME b \in Waiting(g), export[b] = "kept" PROVE FALSE
        BY <1>0, StateIs DEF DecrementIs
      <4>1. b \in Arms[g]
        BY WaitingIs
      <4>2. g = f
        BY <1>0, <2>1, <4>1, ArmsIn DEF DecrementIs
      <4> QED BY <1>0, <2>4, <4>2 DEF DecrementIs
    <3>3. Waiting(g)' = Waiting(g)
      BY <1>2, <3>2
    <3> QED BY <2>1, <3>1, <3>3
  <2> QED BY <2>3, <2>4
<1> QED BY <1>3, <1>4

\* Decrement keeps what a run waits for.
LEMMA DecrementEnd ==
    ASSUME NoRaceInRace, PassInv, LeftInv, EndInv, NEW w \in Workers, Decrement(w)
    PROVE  EndInv'
<1>a. PICK b, f, of : b = Body(w) /\ f = FrameOf(b) /\ of = job[w].of
  OBVIOUS
<1>0. TypeOK /\ TypeInv /\ RowsInv /\ Alone /\ OpenIs /\ Going(w) /\ JobOf(w) /\ At(w, "decrement") /\ InSegment(w) /\ ~At(w, "idle") /\ Holds(w)
  BY DEF PassInv, TypeInv, EndInv, LeftInv, Decrement, At, InSegment, Alone
<1>1. DecrementIs(w, b, f) /\ job[w].way.parks = {}
  BY <1>a, <1>0, DecrementFacts, ArmIs
<1>2. /\ Only(w) /\ UNCHANGED <<status, leaf, owed, lease, past, open, left>>
      /\ \/ Closes(b, of) /\ ~LeavesToRun(w, f) /\ WentOn(w, f)
         \/ ~(Closes(b, of) /\ ~LeavesToRun(w, f)) /\ Ended(w, f) /\ UNCHANGED plan
  BY <1>0, <1>a, DecrementDoes
<1>3. RowsInv'
  BY <1>0, DecrementEnds, DecrementClosers, DecrementWaits DEF RowsInv
<1>4. \A g \in Frames : Recd(g)' <=> Recd(g)
  BY <1>1 DEF DecrementIs
<1>5. OpenIs'
  <2>1. open \subseteq Frames /\ \A x : Live(x)' <=> Live(x)
    BY <1>0, <1>1, StateIs DEF DecrementIs
  <2>2. status # "failed"
    BY <1>0, NotFailed
  <2> QED BY <1>0, <1>2, <1>4, <2>1, <2>2 DEF OpenIs
<1>6. of \in Races => f \in Alls
  <2> SUFFICES ASSUME of \in Races, f \in Races PROVE FALSE
    BY <1>1, PointsAre DEF DecrementIs
  <2>1. In(of, Arms[f])
    BY <1>1, <1>a DEF DecrementIs, Under
  <2> QED BY <2>1 DEF NoRaceInRace
<1>7. status = "parked" /\ \A q \in job[w].passed \cup {of} : plan[q] # {} /\ \A v \in plan[q] : v.parks = {}
  BY <1>0, <1>1, <1>a DEF Going
<1>8. CASE WentOn(w, f)
  <2>1. PICK way \in Way :
        /\ GoesOn(f, way) /\ KeepsRest(way) /\ Planned(f, way) /\ (plan[f] # {} => way \in plan[f])
        /\ job'[w].step = "run" /\ job'[w].of = job[w].of /\ job'[w].at = f /\ job'[w].way = way
        /\ job'[w].passed = job[w].passed \cup {f}
        /\ job'[w].losers = IF f \in Races THEN Arms[f] ELSE {}
    BY <1>8 DEF WentOn
  <2>2. plan'[f] = {way} /\ \A y \in Points \ {f} : plan'[y] = plan[y]
    BY <1>0, <1>1, <2>1, PlannedIs DEF TypeInv, DecrementIs
  <2>3. ASSUME NEW q \in job[w].passed \cup {f} \cup {of}
        PROVE  plan'[q] # {} /\ \A v \in plan'[q] : v.parks = IF q = f THEN way.parks ELSE {}
    <3>1. CASE q = f
      BY <2>2, <3>1
    <3>2. CASE q # f
      <4>1. q \in Points
        <5>1. job[w] \in Job
          BY <1>0, StateIs
        <5>2. job[w].passed \subseteq Frames
          BY <5>1, JobFields
        <5> QED BY <1>1, <1>a, <2>3, <3>2, <5>2, PointsAre DEF DecrementIs
      <4> QED BY <1>7, <2>2, <2>3, <3>2, <4>1
    <3> QED BY <3>1, <3>2
  <2>4. ASSUME of \in Races, NEW g \in Frames, In(g, Arms[of]) PROVE ~Recd(g)'
    <3>1. job[w].losers = {}
      BY <1>0 DEF JobOf, At
    <3>2. ~Recd(g)
      BY <1>0, <1>a, <2>4, <3>1 DEF Going
    <3> QED BY <1>4, <3>2
  <2>5. InSegment(w)' /\ status' = "parked"
    BY <1>2, <1>7, <2>1 DEF InSegment
  <2>6. Going(w)'
    <3>1. \A q \in job'[w].passed \cup {job'[w].of} :
              plan'[q] # {} /\ \A v \in plan'[q] : v.parks = IF q = job'[w].at THEN job'[w].way.parks ELSE {}
      BY <1>a, <2>1, <2>3
    <3>2. job'[w].of \in Races => \A g \in Frames : In(g, Arms[job'[w].of]) => ~Recd(g)'
      BY <1>a, <2>1, <2>4
    <3> QED BY <2>1, <2>5, <3>1, <3>2 DEF Going
  <2>7. JobEnd(w)'
    BY <2>1 DEF JobEnd
  <2> QED BY <1>0, <1>2, <1>3, <1>5, <2>6, <2>7, EndOthers DEF EndInv
<1>9. CASE ~(Closes(b, of) /\ ~LeavesToRun(w, f)) /\ Ended(w, f) /\ UNCHANGED plan
  <2>1. /\ job'[w].step = "judge" /\ job'[w].of = job[w].of /\ job'[w].at = job[w].at /\ job'[w].way = job[w].way
        /\ job'[w].passed = job[w].passed /\ job'[w].losers = job[w].losers
        /\ job'[w].owes = IF LeavesToRun(w, f) THEN {f} ELSE {}
    BY <1>9 DEF Ended
  <2>2. Going(w)'
    <3>1. InSegment(w)'
      BY <2>1 DEF InSegment
    <3> QED BY <1>0, <1>2, <1>4, <1>9, <2>1, <3>1 DEF Going
  <2>3. (LeavesToRun(w, f)' <=> LeavesToRun(w, f)) /\ HomeOf(job'[w].at) = b /\ FrameOf(b) = f
    <3>1. \A g : LeavesToRun(w, g)' <=> LeavesToRun(w, g)
      BY <2>1 DEF LeavesToRun
    <3> QED BY <1>1, <1>a, <2>1, <3>1 DEF DecrementIs
  <2>4. ASSUME ~LeavesToRun(w, f) PROVE f \in Alls /\ join'[f].closedBy # of /\ export'[b] = "decremented"
    <3>1. f \in Alls
      BY <1>a, <1>1, <1>6, <2>4, PointsAre DEF LeavesToRun, DecrementIs
    <3>2. ~Closes(b, of)
      BY <1>9, <2>4
    <3>3. of # Nobody
      BY <1>1, <1>a, NobodyIs DEF DecrementIs
    <3>4. CASE Claims(b)
      <4>1. join[f].pending # 1
        BY <1>a, <3>2, <3>4 DEF Closes
      <4> QED BY <1>1, <3>1, <3>3, <3>4, <4>1 DEF DecrementIs
    <3>5. CASE ~Claims(b)
      <4>1. join[f].closedBy # of
        BY <1>1, <1>a, <3>2, <3>5 DEF Closes, DecrementIs, Recd
      <4> QED BY <1>1, <3>1, <3>5, <4>1 DEF DecrementIs
    <3> QED BY <3>4, <3>5
  <2>5. JobEnd(w)'
    <3>1. ~LeavesToRun(w, FrameOf(HomeOf(job[w].at)))' => f \in Alls /\ join'[f].closedBy # job'[w].of /\ export'[b] = "decremented"
      BY <1>a, <2>1, <2>3, <2>4
    <3>2. LeavesToRun(w, FrameOf(HomeOf(job[w].at)))' => job'[w].owes = {f}
      BY <2>1, <2>3
    <3>3. job'[w].step = "judge" /\ job'[w].way.parks = {}
      BY <1>1, <2>1
    <3> QED BY <2>3, <3>1, <3>2, <3>3 DEF JobEnd
  <2> QED BY <1>0, <1>2, <1>3, <1>5, <2>2, <2>5, EndOthers DEF EndInv
<1> QED BY <1>2, <1>8, <1>9

\* A segment at its end: of goes on from at by the way v, past `passed`, and owes `owes`.
Ends(of, at, v, passed, owes) ==
    /\ of \in Points /\ at \in Points /\ Live(of) /\ of \in Leaves \cup Races /\ Under(of, at)
    /\ \A f \in passed : /\ f \in Frames /\ Under(of, f) /\ Under(f, at) /\ past[f] = 0 /\ (f \in Races => f = of)
                         /\ f \in Alls => Recd(f) /\ join[f].closedBy = of /\ join[f].pending = 0
    /\ (of \in Races => of \in passed) /\ (at # of => at \in passed)
    /\ \A f \in Frames : Under(of, f) /\ Under(f, at) => f \in passed
    /\ \A y \in Points : After(at, y) => ~Touched(y)
    /\ \A l \in v.parks : l \in Leaves /\ l \in Points /\ After(at, l)
    /\ \A k \in v.joins : k[1] \in Frames /\ After(at, k[1])
    /\ v.parks = {} => v.joins = {}
    /\ \A x \in owes : x \in Races /\ of \in Leaves /\ Under(of, x) /\ v.parks = {}
    /\ of \in Races => \A f \in Frames : In(f, Arms[of]) => ~Recd(f)
    /\ plan[at] # {} /\ \A u \in plan[at] : u.parks = v.parks
    /\ of \in Leaves => \A f \in Frames : Recd(f) => \A b \in Arms[f] : export[b] # NoExport => \A l \in v.parks : ~In(l, {b})
    /\ v.parks = {} /\ HomeOf(at) # Top =>
         IF FrameOf(HomeOf(at)) \in Races /\ of \in Leaves THEN owes = {FrameOf(HomeOf(at))}
         ELSE /\ FrameOf(HomeOf(at)) \in Alls /\ join[FrameOf(HomeOf(at))].closedBy # of
              /\ export[HomeOf(at)] = "decremented"

\* What keeping it changes.
Keeps(of, v, passed, owes) ==
    /\ export' = export /\ owed' = (owed \ {of}) \cup owes
    /\ \A x \in Points : Live(x)' <=> (Live(x) /\ x # of) \/ x \in v.parks \/ x \in owes
    /\ \A f \in Frames : past'[f] = past[f] + IF f \in passed THEN 1 ELSE 0
    /\ \A q \in Points : q \notin passed /\ q # of => plan'[q] = plan[q]
    /\ \A f \in Frames : join'[f].closedBy = join[f].closedBy
    /\ \A f \in Frames : (~\E k \in v.joins : k[1] = f) => join'[f] = join[f]
    /\ \A f \in Frames : (\E k \in v.joins : k[1] = f) =>
         join[f] = NoJoin /\ join'[f].pending \in Nat \ {0} /\ (f \in Alls => join'[f].pending = Cardinality(ArmsLeft(v, f)))

\* Every commit but of a leaf parked again is such an end, and keeps it.
LEMMA CommitEnds ==
    ASSUME PassInv, LeftInv, EndInv, NEW w \in Workers, Commit(w), ~Again(job[w].at, job[w].way)
    PROVE  /\ Ends(job[w].of, job[w].at, job[w].way, job[w].passed, job[w].owes)
           /\ Keeps(job[w].of, job[w].way, job[w].passed, job[w].owes)
<1> DEFINE of == job[w].of
           at == job[w].at
           v == job[w].way
           passed == job[w].passed
           owes == job[w].owes
<1>1. /\ TypeInv /\ TypeOK /\ v \in Way /\ v.parks \subseteq Leaves /\ passed \cap Races = {of} \ Leaves /\ passed \subseteq Frames
      /\ of \in Points /\ at \in Points /\ Live(of) /\ Under(of, at) /\ of \in Leaves \cup Races /\ (of \in Races => of \in passed)
      /\ \A g \in passed : g \in Points /\ Under(of, g) /\ Under(g, at) /\ past[g] = 0
      /\ at # of => at \in passed
      /\ \A g \in owes : g \in Races /\ g \in Points /\ of \in Leaves /\ Under(of, g) /\ v.parks = {}
  BY CommitFacts
<1>2. /\ Goes(HomeOf(at), PlaceOf(at), v)
      /\ \A l \in v.parks : l \in Points /\ After(at, l)
      /\ \A k \in v.joins : k[1] \in Points /\ k[1] \in Frames /\ After(at, k[1])
  BY CommitFacts
<1>3. \A x \in Points : Live(x)' => x # of /\ (Live(x) \/ x \in v.parks \/ x \in owes)
  BY CommitLive
<1>4. /\ At(w, "commit") /\ Holds(w) /\ UNCHANGED <<export, lease, left>>
      /\ \A l \in Leaves : leaf'[l] = IF l \in v.parks THEN "parked" ELSE IF l = of /\ leaf[l] = "resuming" THEN "none" ELSE leaf[l]
      /\ \A x \in Points \ (passed \cup {of}) : plan'[x] = plan[x]
      /\ owed' = (owed \ {of}) \cup owes
      /\ \A f \in Frames : past'[f] = past[f] + IF f \in passed THEN 1 ELSE 0
  BY <1>1, CommitDoes
<1>5. InSegment(w) /\ Chain(w) /\ Going(w) /\ JobEnd(w) /\ JobOf(w)
  BY <1>4 DEF InSegment, At, LeftInv, EndInv, PassInv
<1>6. \A f \in Frames : Under(of, f) /\ Under(f, at) => f \in passed
  BY <1>5 DEF Chain
<1>7. \A f \in passed \cap Alls : Recd(f) /\ join[f].closedBy = of
  BY <1>5 DEF Chain
<1>8. \A f \in Frames :
           /\ (~\E k \in v.joins : k[1] = f) => join'[f] = join[f]
           /\ (\E k \in v.joins : k[1] = f) =>
                /\ join[f] = NoJoin
                /\ join'[f].pending = IF f \in Races THEN 1 ELSE Cardinality(ArmsLeft(v, f))
                /\ join'[f].pending \in Nat \ {0}
           /\ join'[f].closedBy = join[f].closedBy
  BY CommitJoins
<1>9. \A y \in Points : After(at, y) => ~Touched(y)
  BY <1>4, <1>5, NothingAfter
<1>10. of \in Races => \A f \in Frames : In(f, Arms[of]) => ~Recd(f)
  <2>1. job[w].losers = {}
    BY <1>4, <1>5 DEF JobOf, At
  <2> QED BY <1>5, <2>1 DEF Going
<1>11. plan[at] # {} /\ \A u \in plan[at] : u.parks = v.parks
  <2>1. at \in passed \cup {of}
    BY <1>1
  <2> QED BY <1>5, <2>1 DEF Going
<1>12. of \in Leaves => \A f \in Frames : Recd(f) => \A b \in Arms[f] : export[b] # NoExport => \A l \in v.parks : ~In(l, {b})
  <2>1. ~Diverged(w)
    BY <1>4, <1>5 DEF JobEnd, At
  <2> QED BY <2>1 DEF Diverged, Recorded, Recd
<1>13. v.parks = {} /\ HomeOf(at) # Top =>
         IF FrameOf(HomeOf(at)) \in Races /\ of \in Leaves THEN owes = {FrameOf(HomeOf(at))}
         ELSE /\ FrameOf(HomeOf(at)) \in Alls /\ join[FrameOf(HomeOf(at))].closedBy # of
              /\ export[HomeOf(at)] = "decremented"
  BY <1>4, <1>5 DEF JobEnd, At, LeavesToRun
<1> HIDE DEF of, at, v, passed, owes
<1>14. \A f \in passed \cap Alls : join[f].pending = 0
  BY <1>1, <1>7, NobodyIs DEF PassInv, Closed
<1>15. v.parks = {} => v.joins = {}
  BY <1>2 DEF Goes
<1>16. Ends(of, at, v, passed, owes)
  BY <1>1, <1>2, <1>6, <1>7, <1>9, <1>10, <1>11, <1>12, <1>13, <1>14, <1>15 DEF Ends
<1>17. ASSUME NEW x \in Points PROVE Live(x)' <=> (Live(x) /\ x # of) \/ x \in v.parks \/ x \in owes
  <2>1. CASE x \in v.parks
    BY <1>1, <1>4, <2>1 DEF Live, Drainable
  <2>2. CASE x \in owes
    BY <1>4, <2>2 DEF Live
  <2>3. CASE Live(x) /\ x # of /\ x \notin v.parks
    BY <1>4, <2>3 DEF Live, Drainable
  <2> QED BY <1>3, <2>1, <2>2, <2>3
<1>18. \A q \in Points : q \notin passed /\ q # of => plan'[q] = plan[q]
  BY <1>4
<1>19. \A f \in Frames : (\E k \in v.joins : k[1] = f) =>
         join[f] = NoJoin /\ join'[f].pending \in Nat \ {0} /\ (f \in Alls => join'[f].pending = Cardinality(ArmsLeft(v, f)))
  BY <1>8, NobodyIs
<1>20. Keeps(of, v, passed, owes)
  BY <1>4, <1>8, <1>17, <1>18, <1>19, Zenon DEF Keeps
<1> QED BY <1>16, <1>20 DEF of, at, v, passed, owes

\* What is around where a segment went on last is around what it resumed, and not gone past.
LEMMA EndsAround ==
    ASSUME NEW of, NEW at, NEW v, NEW passed, NEW owes, Ends(of, at, v, passed, owes),
           NEW h \in Points, Under(at, h), at # h
    PROVE  Under(of, h) /\ h \notin passed
<1>1. of \in Points /\ at \in Points /\ Under(of, at) /\ \A f \in passed : Under(f, at)
  BY DEF Ends
<1>2. Under(of, h)
  BY <1>1, UnderTrans
<1>3. ASSUME h \in passed PROVE FALSE
  BY <1>1, <1>3, UnderAntisym
<1> QED BY <1>2, <1>3

\* A statement past where it went on is not in what it went past.
LEMMA EndsAfter ==
    ASSUME NEW of, NEW at, NEW v, NEW passed, NEW owes, Ends(of, at, v, passed, owes), PassInv,
           NEW h \in Frames, After(at, h)
    PROVE  h \notin passed /\ past[h] = 0 /\ ~Recd(h) /\ \A a \in Arms[h] : export[a] # "decremented"
<1>1. of \in Points /\ at \in Points /\ (\A f \in passed : Under(f, at)) /\ h \in Points /\ ~Touched(h)
  BY PointsAre DEF Ends
<1>2. h \notin passed
  BY <1>1, AfterApart
<1>3. past[h] \in Nat
  BY StateIs DEF PassInv, TypeInv
<1> QED BY <1>1, <1>2, <1>3 DEF Touched, Recd

\* No leaf is parked in an arm decremented: of a leaf resumed, the replay is
\* looked at; a race settled again goes on as it did when the arm was.
LEMMA EndsPark ==
    ASSUME PassInv, LeftInv, RowsInv, NEW of, NEW at, NEW v, NEW passed, NEW owes, Ends(of, at, v, passed, owes),
           NEW l \in v.parks, NEW g \in Frames, NEW b \in Arms[g], In(l, {b})
    PROVE  export[b] # "decremented" /\ (In(at, Arms[g]) \/ After(at, g)) /\ (In(at, Arms[g]) => In(at, {b}) /\ In(of, {b}))
<1>1. /\ of \in Points /\ at \in Points /\ Live(of) /\ of \in Leaves \cup Races /\ Under(of, at)
      /\ l \in Leaves /\ l \in Points /\ After(at, l)
  BY DEF Ends
<1>2. g \in Points
  BY PointsAre
<1>3. Under(l, g)
  <2>1. In(l, Arms[g])
    BY InOne
  <2> QED BY <2>1 DEF Under
<1>4. In(at, Arms[g]) \/ After(at, g)
  BY <1>1, <1>2, <1>3, AfterOut
<1>5. ASSUME In(at, Arms[g]) PROVE In(at, {b}) /\ In(of, {b})
  <2>1. PICK a \in Arms[g] : In(at, {a})
    BY <1>5, InOne
  <2>2. In(l, {a})
    BY <1>1, <2>1, AfterIn
  <2>3. a = b
    BY <1>1, <2>2, OneArm
  <2> QED BY <1>1, <2>1, <2>3, UnderIn
<1>6. ASSUME export[b] = "decremented" PROVE FALSE
  <2>1. In(at, {b}) /\ In(of, {b})
    BY <1>4, <1>5, <1>6, EndsAfter
  <2>2. CASE of \in Leaves
    <3>1. In(of, Arms[g])
      BY <2>1, InOne
    <3>2. Recd(g)
      BY <1>1, <3>1 DEF LeftInv, LiveRecorded, Under
    <3>3. export[b] # NoExport
      BY <1>6 DEF NoExport
    <3> QED BY <2>2, <3>2, <3>3 DEF Ends
  <2>3. CASE of \in Races
    <3>1. at \in Frames /\ of \in owed
      BY <1>1, <2>3, PointsAre, NobodyIs DEF Ends, Live, Drainable
    <3>2. ClosedTo(of, at)
      BY PointsAre DEF Ends, ClosedTo
    <3>3. \A u \in plan[at] : u.parks = {}
      BY <1>1, <1>6, <2>1, <3>1, <3>2 DEF RowsInv, RaceEnd
    <3> QED BY <3>3 DEF Ends
  <2> QED BY <1>1, <2>2, <2>3
<1> QED BY <1>4, <1>5, <1>6

\* A frame that what is resumed closed is gone past, or owed.
LEMMA EndsCloses ==
    ASSUME PassInv, LeftInv, RowsInv, NEW of, NEW at, NEW v, NEW passed, NEW owes, Ends(of, at, v, passed, owes),
           NEW g \in Frames, join[g].closedBy = of, ClosedIt(of, g), g \notin passed
    PROVE  g \in owes
<1>1. /\ of \in Points /\ at \in Points /\ Live(of) /\ of \in Leaves \cup Races /\ Under(of, at) /\ g \in Points
      /\ Under(of, g) /\ of # g
  BY PointsAre DEF Ends, ClosedIt
<1>2. Under(at, g) /\ at # g
  <2>1. ~Under(g, at)
    BY <1>1 DEF Ends
  <2> QED BY <1>1, <2>1, UnderLinear, UnderSelf
<1>3. In(at, Arms[g])
  BY <1>2 DEF Under
<1>4. PICK b \in Arms[g] : In(at, {b})
  BY <1>3, InOne
<1>5. export[b] = "decremented"
  <2>1. In(of, {b})
    BY <1>1, <1>4, UnderIn
  <2> QED BY <1>1, <2>1 DEF ClosedIt
<1>6. v.parks = {}
  <2> SUFFICES ASSUME NEW l \in v.parks PROVE FALSE
    OBVIOUS
  <2>1. After(at, l) /\ l \in Points
    BY DEF Ends
  <2>2. In(l, {b})
    BY <1>1, <1>4, <2>1, AfterIn
  <2> QED BY <1>5, <2>2, EndsPark
<1>7. PICK f : f = FrameOf(HomeOf(at))
  OBVIOUS
<1>8. HomeOf(at) # Top /\ f \in Frames /\ f \in Points /\ Under(f, g) /\ Under(at, f) /\ In(at, Arms[f])
  BY <1>1, <1>3, <1>7, UnderParent, HomeIn, PointsAre
<1>9. at # f
  BY <1>8, NotInSelf
<1>10. Under(of, f) /\ of # f
  <2>1. Under(of, f)
    BY <1>8, <1>9, EndsAround
  <2>2. of = f => Under(f, at)
    BY <1>1
  <2> QED BY <1>1, <1>8, <1>9, <2>1, <2>2, UnderAntisym
<1>11. CASE f = g
  BY <1>6, <1>7, <1>8, <1>11 DEF Ends
<1>12. CASE f # g
  <2>1. f \in Alls /\ join[f].closedBy = of
    BY <1>1, <1>8, <1>10, <1>12 DEF ClosedIt
  <2> QED BY <1>6, <1>7, <1>8, <2>1, NobodyIs DEF Ends
<1> QED BY <1>11, <1>12

\* x goes on in b once the end is kept, past no `all` of it that is, or is now, past.
StillIn(x, b, of, v, passed, owes) ==
    /\ x \in Points /\ In(x, {b}) /\ ((Live(x) /\ x # of) \/ x \in v.parks \/ x \in owes)
    /\ \A g \in Alls : Under(x, g) /\ In(g, {b}) => past[g] = 0 /\ g \notin passed

\* What still goes on in an arm makes it a real one, after the commit.
LEMMA EndsRealIn ==
    ASSUME NEW of, NEW v, NEW passed, NEW owes, Keeps(of, v, passed, owes), NEW b, NEW x, StillIn(x, b, of, v, passed, owes)
    PROVE  \E y \in Points : RealIn(y, b)'
<1>1. x \in Points /\ Live(x)'
  BY DEF Keeps, StillIn
<1>2. \A f \in Frames : past'[f] = past[f] + IF f \in passed THEN 1 ELSE 0
  BY DEF Keeps
<1>3. \A g \in Alls : Under(x, g) /\ In(g, {b}) => past'[g] = 0
  BY <1>2, PointsAre DEF StillIn
<1>4. RealIn(x, b)'
  BY <1>1, <1>3 DEF RealIn, StillIn
<1> QED BY <1>1, <1>4

\* Where what is resumed is what will end the arm, something still does once its end is kept.
LEMMA EndsRealOf ==
    ASSUME PassInv, LeftInv, RowsInv, NEW of, NEW at, NEW v, NEW passed, NEW owes, Ends(of, at, v, passed, owes), Keeps(of, v, passed, owes),
           NEW f \in Alls, Recd(f), ~Doomed(f), NEW b \in Waiting(f), RealIn(of, b)
    PROVE  \E x \in Points : RealIn(x, b)'
<1>0. TypeOK /\ LeftCounted /\ LiveRecorded
  BY DEF PassInv, TypeInv, LeftInv
<1>1. /\ of \in Points /\ at \in Points /\ Live(of) /\ of \in Leaves \cup Races /\ Under(of, at) /\ f \in Points /\ f \in Frames /\ f \notin Races
      /\ b \in Arms[f] /\ export[b] # "decremented" /\ In(of, {b}) /\ b \in Bodies
      /\ \A g \in Alls : g \in Frames /\ g \in Points
  BY PointsAre, NobodyIs, WaitingIs, ArmsIn DEF Ends, RealIn
<1>2. In(of, Arms[f]) /\ Under(of, f) /\ of # f
  <2>1. In(of, Arms[f])
    BY <1>1, InOne
  <2>2. of # f
    BY <1>1, <2>1, NotInSelf
  <2> QED BY <1>1, <2>1, <2>2 DEF Under
<1>3. In(at, Arms[f]) /\ In(at, {b}) /\ Under(at, f) /\ at # f
  <2>1. ~Under(f, at)
    <3> SUFFICES ASSUME Under(f, at) PROVE FALSE
      OBVIOUS
    <3>1. f \in passed
      BY <1>1, <1>2 DEF Ends
    <3>2. join[f].pending = 0
      BY <3>1 DEF Ends
    <3> QED BY <1>0, <1>1, <3>2, NoneLeft
  <2>2. Under(at, f) /\ at # f
    BY <1>1, <1>2, <2>1, UnderLinear, UnderSelf
  <2>3. In(at, Arms[f])
    BY <2>2 DEF Under
  <2>4. PICK a \in Arms[f] : In(at, {a})
    BY <2>3, InOne
  <2>5. In(of, {a})
    BY <1>1, <2>4, UnderIn
  <2>6. a = b
    BY <1>1, <2>5, OneArm
  <2> QED BY <2>2, <2>3, <2>4, <2>6
\* What is around `at` in the arm is not past, nor gone past now.
<1>4. ASSUME NEW g \in Alls, Under(at, g), at # g, In(g, {b}) PROVE past[g] = 0 /\ g \notin passed
  <2>1. Under(of, g) /\ g \notin passed
    BY <1>1, <1>4, EndsAround
  <2> QED BY <1>4, <2>1 DEF RealIn
<1>5. CASE v.parks # {}
  <2>1. PICK l \in v.parks : TRUE
    BY <1>5
  <2>2. l \in Points /\ After(at, l)
    BY <2>1 DEF Ends
  <2>3. In(l, {b})
    BY <1>1, <1>3, <2>2, AfterIn
  <2>4. ASSUME NEW g \in Alls, Under(l, g), In(g, {b}) PROVE past[g] = 0 /\ g \notin passed
    <3>1. In(at, Arms[g]) \/ After(at, g)
      BY <1>1, <2>2, <2>4, AfterOut
    <3>2. CASE In(at, Arms[g])
      <4>1. Under(at, g) /\ at # g
        BY <1>1, <3>2, NotInSelf DEF Under
      <4> QED BY <1>4, <2>4, <4>1
    <3>3. CASE After(at, g)
      BY <1>1, <3>3, EndsAfter
    <3> QED BY <3>1, <3>2, <3>3
  <2>5. StillIn(l, b, of, v, passed, owes)
    BY <2>1, <2>2, <2>3, <2>4 DEF StillIn
  <2> QED BY <2>5, EndsRealIn
<1>6. CASE v.parks = {}
  <2>1. PICK h : h = FrameOf(HomeOf(at))
    OBVIOUS
  <2>2. HomeOf(at) # Top /\ h \in Frames /\ h \in Points /\ Under(h, f) /\ Under(at, h) /\ In(at, Arms[h]) /\ HomeOf(at) \in Arms[h] /\ In(at, {HomeOf(at)})
    BY <1>1, <1>3, <2>1, UnderParent, HomeIn, PointsAre
  <2>3. at # h /\ Under(of, h) /\ of # h
    <3>1. at # h
      BY <2>2, NotInSelf
    <3>2. Under(of, h)
      BY <2>2, <3>1, EndsAround
    <3>3. of = h => Under(h, at)
      BY <1>1
    <3> QED BY <1>1, <2>2, <3>1, <3>2, <3>3, UnderAntisym
  <2>4. h # f => In(h, {b})
    <3> SUFFICES ASSUME h # f PROVE In(h, {b})
      OBVIOUS
    <3>1. In(h, Arms[f])
      BY <2>2 DEF Under
    <3>2. PICK a \in Arms[f] : In(h, {a})
      BY <3>1, InOne
    <3>3. In(of, {a})
      BY <1>1, <2>2, <2>3, <3>2, UnderIn
    <3>4. a = b
      BY <1>1, <3>3, OneArm
    <3> QED BY <3>2, <3>4
  \* What is around h in the arm is around `at`.
  <2>5. ASSUME NEW g \in Alls, Under(h, g), In(g, {b}) PROVE past[g] = 0 /\ g \notin passed
    <3>1. Under(at, g)
      BY <1>1, <2>2, <2>5, UnderTrans
    <3>2. at # g
      BY <1>1, <2>2, <2>3, <2>5, UnderAntisym
    <3> QED BY <1>4, <2>5, <3>1, <3>2
  <2>6. CASE h \in Races /\ of \in Leaves
    <3>1. h \in owes
      BY <1>6, <2>1, <2>2, <2>6 DEF Ends
    <3>2. In(h, {b})
      BY <1>1, <2>4, <2>6
    <3>3. StillIn(h, b, of, v, passed, owes)
      BY <2>2, <2>5, <3>1, <3>2 DEF StillIn
    <3> QED BY <3>3, EndsRealIn
  <2>7. CASE ~(h \in Races /\ of \in Leaves)
    <3>1. h \in Alls /\ join[h].closedBy # of /\ export[HomeOf(at)] = "decremented"
      BY <1>6, <2>1, <2>2, <2>7 DEF Ends
    <3>2. h # f
      <4>1. h = f => HomeOf(at) = b
        BY <1>1, <1>3, <2>2, OneArm
      <4> QED BY <1>1, <3>1, <4>1
    <3>3. In(h, {b}) /\ h \notin Races
      BY <2>4, <3>1, <3>2, NobodyIs
    <3>4. past[h] = 0 /\ h \notin passed
      BY <1>4, <2>2, <2>3, <3>1, <3>3
    <3>5. Recd(h)
      BY <1>0, <1>1, <2>2, <2>3 DEF LiveRecorded
    <3>6. CASE Doomed(h)
      <4>1. PICK r \in owed : In(h, Arms[r])
        BY <3>6 DEF Doomed
      <4>2. r \in Races /\ r \in Frames /\ r \in Points /\ Under(h, r) /\ h # r /\ ~In(f, Arms[r])
        BY <1>0, <2>2, <4>1, StateIs, PointsAre, NotInSelf DEF Under, Doomed
      <4>3. Under(r, f) /\ r # f
        <5>1. ~Under(f, r)
          BY <1>1, <4>2 DEF Under
        <5> QED BY <1>1, <2>2, <4>2, <5>1, UnderLinear
      <4>4. Under(of, r)
        BY <1>1, <2>2, <2>3, <4>2, UnderTrans
      <4>5. In(r, {b})
        <5>1. In(r, Arms[f])
          BY <4>3 DEF Under
        <5>2. PICK a \in Arms[f] : In(r, {a})
          BY <5>1, InOne
        <5>3. In(of, {a})
          BY <1>1, <4>2, <4>4, <5>2, UnderIn
        <5>4. a = b
          BY <1>1, <5>3, OneArm
        <5> QED BY <5>2, <5>4
      <4>6. Live(r) /\ r # of
        BY <1>1, <2>2, <2>3, <4>1, <4>2, UnderAntisym DEF Live
      <4>7. ASSUME NEW g \in Alls, Under(r, g), In(g, {b}) PROVE past[g] = 0 /\ g \notin passed
        <5>1. Under(h, g)
          BY <1>1, <2>2, <4>2, <4>7, UnderTrans
        <5> QED BY <2>5, <4>7, <5>1
      <4>8. StillIn(r, b, of, v, passed, owes)
        BY <4>2, <4>5, <4>6, <4>7 DEF StillIn
      <4> QED BY <4>8, EndsRealIn
    <3>7. CASE ~Doomed(h) /\ join[h].pending = 0
      <4>1. PICK c \in Points : join[h].closedBy = c /\ ClosedIt(c, h)
        BY <2>2, <3>5, <3>7 DEF RowsInv, Closers
      <4>2. Live(c) /\ Under(c, h) /\ c # h /\ c # of
        BY <1>0, <3>1, <3>3, <3>4, <3>7, <4>1, StateIs DEF ClosedIt
      <4>3. In(c, {b})
        BY <2>2, <3>3, <4>1, <4>2, UnderIn
      <4>4. ASSUME NEW g \in Alls, Under(c, g), In(g, {b}) PROVE past[g] = 0 /\ g \notin passed
        <5>1. CASE Under(h, g)
          BY <2>5, <4>4, <5>1
        <5>2. CASE ~Under(h, g)
          <6>1. Under(g, h) /\ g # h
            BY <1>1, <2>2, <4>1, <4>2, <4>4, <5>2, UnderLinear, UnderSelf
          <6>2. c # g
            BY <1>0, <4>2, <4>4, LiveIn, NobodyIs, PointsAre
          <6>3. join[g].closedBy = c
            BY <1>1, <4>1, <4>2, <4>4, <6>1, <6>2 DEF ClosedIt
          <6>4. past[g] \in Nat
            BY <1>0, <1>1, StateIs
          <6>5. ~(past[g] > 0)
            BY <4>2, <4>4, <6>3 DEF PassInv, AllsPast
          <6>6. g \notin passed
            BY <4>2, <4>4, <6>3 DEF Ends
          <6> QED BY <6>4, <6>5, <6>6
        <5> QED BY <5>1, <5>2
      <4>5. StillIn(c, b, of, v, passed, owes)
        BY <4>2, <4>3, <4>4 DEF StillIn
      <4> QED BY <4>5, EndsRealIn
    <3>8. CASE ~Doomed(h) /\ join[h].pending # 0
      <4>1. join[h].pending = Cardinality(Waiting(h))
        BY <3>1, <3>5, <3>8 DEF RowsInv, WaitsCounted
      <4>2. Waiting(h) # {}
        BY <3>8, <4>1, FS_EmptySet
      <4>3. PICK a \in Waiting(h) : TRUE
        BY <4>2
      <4>4. a \in Arms[h] /\ export[a] # "decremented"
        BY <4>3, WaitingIs
      <4>5. PICK z \in Points : RealIn(z, a)
        BY <3>1, <3>5, <3>8, <4>3 DEF RowsInv, Real
      <4>6. In(z, {a}) /\ Live(z)
        BY <4>5 DEF RealIn
      <4>7. ~In(of, {a})
        <5> SUFFICES ASSUME In(of, {a}) PROVE FALSE
          OBVIOUS
        <5>1. In(of, {HomeOf(at)})
          BY <1>1, <2>2, UnderIn
        <5>2. a = HomeOf(at)
          BY <1>1, <2>2, <4>4, <5>1, OneArm
        <5> QED BY <3>1, <4>4, <5>2
      <4>8. In(z, Arms[h]) /\ Under(z, h) /\ In(z, {b}) /\ z # of
        <5>1. In(z, Arms[h])
          BY <4>4, <4>6, InOne
        <5>2. Under(z, h)
          BY <2>2, <5>1 DEF Under
        <5> QED BY <2>2, <3>3, <4>6, <4>7, <5>1, <5>2, UnderIn
      <4>9. ASSUME NEW g \in Alls, Under(z, g), In(g, {b}) PROVE past[g] = 0 /\ g \notin passed
        <5>1. CASE Under(h, g)
          BY <2>5, <4>9, <5>1
        <5>2. CASE ~Under(h, g)
          <6>1. Under(g, h) /\ g # h
            BY <1>1, <2>2, <4>8, <4>9, <5>2, UnderLinear, UnderSelf
          <6>2. In(g, Arms[h])
            BY <6>1 DEF Under
          <6>3. PICK d \in Arms[h] : In(g, {d})
            BY <6>2, InOne
          <6>4. In(z, {d})
            BY <1>1, <4>9, <6>3, UnderIn
          <6>5. d = a
            BY <2>2, <4>4, <4>6, <6>4, OneArm
          <6>6. past[g] = 0
            BY <4>5, <4>9, <6>3, <6>5 DEF RealIn
          <6>7. g \notin passed
            <7> SUFFICES ASSUME g \in passed PROVE FALSE
              OBVIOUS
            <7>1. Under(of, g)
              BY DEF Ends
            <7>2. In(of, {a})
              BY <1>1, <6>3, <6>5, <7>1, UnderIn
            <7> QED BY <4>7, <7>2
          <6> QED BY <6>6, <6>7
        <5> QED BY <5>1, <5>2
      <4>10. StillIn(z, b, of, v, passed, owes)
        BY <4>6, <4>8, <4>9 DEF StillIn
      <4> QED BY <4>10, EndsRealIn
    <3> QED BY <3>6, <3>7, <3>8
  <2> QED BY <2>6, <2>7
<1> QED BY <1>5, <1>6

\* An arm waited for still has what will end it.
LEMMA EndsReal ==
    ASSUME PassInv, LeftInv, RowsInv, NEW of, NEW at, NEW v, NEW passed, NEW owes, Ends(of, at, v, passed, owes), Keeps(of, v, passed, owes),
           NEW f \in Alls, Recd(f), ~Doomed(f), NEW b \in Waiting(f)
    PROVE  \E x \in Points : RealIn(x, b)'
<1>1. PICK x \in Points : RealIn(x, b)
  BY PointsAre DEF RowsInv, Real
<1>2. /\ of \in Points /\ at \in Points /\ Live(of) /\ \A g \in passed : g \in Frames /\ g \in Points /\ Under(of, g) /\ Under(g, at) /\ past[g] = 0
      /\ \A g \in Alls : g \in Frames /\ g \in Points
  BY PointsAre DEF Ends
<1>3. CASE x # of /\ \A g \in Alls : Under(x, g) /\ In(g, {b}) => g \notin passed
  <2>1. StillIn(x, b, of, v, passed, owes)
    BY <1>1, <1>3 DEF StillIn, RealIn
  <2> QED BY <2>1, EndsRealIn
<1>4. CASE x = of
  BY <1>1, <1>4, EndsRealOf
<1>5. CASE \E g \in Alls : Under(x, g) /\ In(g, {b}) /\ g \in passed
  <2>1. PICK g \in Alls : Under(x, g) /\ In(g, {b}) /\ g \in passed
    BY <1>5
  <2>2. In(of, {b})
    BY <1>2, <2>1, UnderIn
  <2>3. ASSUME NEW h \in Alls, Under(of, h), In(h, {b}) PROVE past[h] = 0
    <3>1. CASE Under(h, g)
      <4>1. Under(h, at)
        BY <1>2, <2>1, <3>1, UnderTrans
      <4>2. h \in passed
        BY <1>2, <2>3, <4>1 DEF Ends
      <4> QED BY <1>2, <4>2
    <3>2. CASE Under(g, h)
      <4>1. Under(x, h)
        BY <1>2, <2>1, <3>2, UnderTrans
      <4> QED BY <1>1, <2>3, <4>1 DEF RealIn
    <3> QED BY <1>2, <2>1, <2>3, <3>1, <3>2, UnderLinear
  <2>4. RealIn(of, b)
    BY <1>2, <2>2, <2>3 DEF RealIn
  <2> QED BY <2>4, EndsRealOf
<1> QED BY <1>3, <1>4, <1>5

\* No frame with a row is in an arm of a race settled as the end is kept.
LEMMA EndsDoomed ==
    ASSUME NEW of, NEW at, NEW v, NEW passed, NEW owes, Ends(of, at, v, passed, owes), Keeps(of, v, passed, owes), owed \subseteq Races,
           NEW f \in Frames, Recd(f), ~Doomed(f)'
    PROVE  ~Doomed(f)
<1>1. \A g \in owed : g # of => g \in owed'
  BY DEF Keeps
<1>2. \A g \in owed : In(f, Arms[g]) => g # of
  BY DEF Ends
<1> QED BY <1>1, <1>2 DEF Doomed

\* Spent and RaceEnd, the end kept.
LEMMA KeepsEnds ==
    ASSUME NoRaceInRace, PassInv, LeftInv, RowsInv, NEW of, NEW at, NEW v, NEW passed, NEW owes, Ends(of, at, v, passed, owes), Keeps(of, v, passed, owes)
    PROVE  Spent' /\ RaceEnd'
<1>0. of \in Points /\ at \in Points /\ Live(of) /\ owed \subseteq Races /\ of \in Leaves \cup Races
  BY StateIs DEF Ends, PassInv, TypeInv
\* A race newly owed is in no arm decremented: what it is owed of would be.
<1>1. ASSUME NEW x \in owes, NEW g \in Frames, NEW b \in Arms[g], In(x, {b}), export[b] = "decremented" PROVE FALSE
  <2>1. x \in Races /\ x \in Frames /\ x \in Points /\ of \in Leaves /\ Under(of, x) /\ of # x
    BY PointsAre, NobodyIs DEF Ends
  <2>2. In(of, {b})
    BY <1>0, <1>1, <2>1, UnderIn
  <2>3. x \in Alls
    BY <1>0, <1>1, <2>1, <2>2 DEF RowsInv, Spent
  <2> QED BY <2>1, <2>3, NobodyIs
<1>2. Spent'
  <2> SUFFICES ASSUME NEW x \in Points, NEW g \in Frames, NEW b \in Arms[g], NEW h \in Frames,
                      Live(x)', In(x, {b}), export[b] = "decremented", Under(x, h), In(h, {b}), h # x
               PROVE  h \in Alls /\ join'[h].pending = 0
    BY DEF Spent, Keeps
  <2>1. x \in v.parks \/ x \in owes \/ Live(x)
    BY DEF Keeps
  <2>2. Live(x)
    BY <1>1, <2>1, EndsPark
  <2>3. h \in Alls /\ join[h].pending = 0
    BY <2>2 DEF RowsInv, Spent
  <2>4. join'[h] = join[h]
    BY <2>3 DEF Keeps, NoJoin
  <2> QED BY <2>3, <2>4
<1>3. RaceEnd'
  <2> SUFFICES ASSUME NEW x \in owed', NEW g \in Frames, NEW b \in Arms[g], NEW q \in Frames,
                      export[b] = "decremented", Under(x, q), In(q, {b}), ClosedTo(x, q)'
               PROVE  plan'[q] # {} /\ \A u \in plan'[q] : u.parks = {}
    BY DEF RaceEnd, Keeps
  <2>1. (x \in owed /\ x # of) \/ x \in owes
    BY DEF Keeps
  <2>2. x \in Points /\ q \in Points /\ x \in Races
    BY <1>0, <2>1, PointsAre DEF Ends
  <2>3. In(x, {b})
    BY <2>2, UnderIn
  <2>4. x \in owed /\ x # of
    BY <1>1, <2>1, <2>3
  <2>5. ClosedTo(x, q)
    BY DEF ClosedTo, Keeps
  <2>6. plan[q] # {} /\ \A u \in plan[q] : u.parks = {}
    BY <2>4, <2>5 DEF RowsInv, RaceEnd
  <2>7. q # of
    <3> SUFFICES ASSUME q = of PROVE FALSE
      OBVIOUS
    <3>1. of \in Races
      BY <1>0, NobodyIs
    <3>2. In(x, Arms[of])
      BY <2>4 DEF Under
    <3> QED BY <2>2, <3>1, <3>2 DEF NoRaceInRace
  <2>8. q \notin passed
    <3> SUFFICES ASSUME q \in passed PROVE FALSE
      OBVIOUS
    <3>1. q \in Alls /\ join[q].closedBy = of
      BY <2>7, PointsAre DEF Ends
    <3>2. q # x
      BY <2>2, <3>1, NobodyIs
    <3>3. join[q].closedBy = x
      BY <2>2, <2>5, <3>2, UnderSelf DEF ClosedTo
    <3> QED BY <2>4, <3>1, <3>3
  <2>9. plan'[q] = plan[q]
    BY <2>2, <2>7, <2>8 DEF Keeps
  <2> QED BY <2>6, <2>9
<1> QED BY <1>2, <1>3

\* Closers, the end kept.
LEMMA KeepsClosers ==
    ASSUME NoRaceInRace, PassInv, LeftInv, RowsInv, NEW of, NEW at, NEW v, NEW passed, NEW owes, Ends(of, at, v, passed, owes), Keeps(of, v, passed, owes)
    PROVE  Closers'
<1> SUFFICES ASSUME NEW g \in Frames, Recd(g)', join'[g].pending = 0
             PROVE  \E c \in Points : join'[g].closedBy = c /\ ClosedIt(c, g)'
  BY DEF Closers
<1>0. of \in Points /\ at \in Points /\ Live(of) /\ owed \subseteq Races /\ of \in Leaves \cup Races /\ g \in Points /\ past[g] \in Nat
  BY StateIs, PointsAre DEF Ends, PassInv, TypeInv
<1>1. join'[g] = join[g] /\ Recd(g)
  BY DEF Keeps, Recd
<1>2. PICK c \in Points : join[g].closedBy = c /\ ClosedIt(c, g)
  BY <1>1 DEF RowsInv, Closers
<1>3. Under(c, g) /\ c # g
  BY <1>2 DEF ClosedIt
<1>4. ASSUME past'[g] = 0, ~Doomed(g)' PROVE Live(c)' \/ g \in owed'
  <2>1. past'[g] = past[g] + IF g \in passed THEN 1 ELSE 0
    BY DEF Keeps
  <2>2. past[g] = 0 /\ g \notin passed
    BY <1>0, <1>4, <2>1
  <2>3. ~Doomed(g)
    BY <1>0, <1>1, <1>4, EndsDoomed
  <2>4. Live(c) \/ g \in owed
    BY <1>2, <2>2, <2>3 DEF ClosedIt
  <2>5. CASE g \in owed
    <3>1. g # of
      BY <1>0, <2>2, <2>5 DEF Ends
    <3> QED BY <2>5, <3>1 DEF Keeps
  <2>6. CASE Live(c) /\ c # of
    BY <2>6 DEF Keeps
  <2>7. CASE c = of
    <3>1. g \in owes
      BY <1>2, <2>2, <2>7, EndsCloses
    <3> QED BY <3>1 DEF Keeps
  <2> QED BY <2>4, <2>5, <2>6, <2>7
<1>5. ASSUME Live(c)' PROVE Live(c)
  <2>1. (Live(c) /\ c # of) \/ c \in v.parks \/ c \in owes
    BY <1>5 DEF Keeps
  <2>2. CASE c \in v.parks
    <3>1. After(at, c)
      BY <2>2 DEF Ends
    <3>2. ~Touched(c)
      BY <3>1 DEF Ends
    <3> QED BY <1>2, <3>2 DEF Touched
  <2>3. CASE c \in owes /\ ~Live(c)
    <3>1. c \in Races /\ c \in Frames /\ Under(of, c)
      BY <2>3, PointsAre DEF Ends
    <3>2. g \notin Races
      BY <1>3, <3>1 DEF Under, NoRaceInRace
    <3>3. g \in Alls /\ g \notin owed
      BY <1>0, <3>2, PointsAre
    <3>4. ~Doomed(g)
      <4> SUFFICES ASSUME NEW r \in owed, In(g, Arms[r]) PROVE FALSE
        BY DEF Doomed
      <4>1. r \in Races /\ r \in Frames
        BY <1>0, PointsAre
      <4>2. In(c, Arms[r])
        BY <1>0, <1>3, UnderIn
      <4> QED BY <3>1, <4>1, <4>2 DEF NoRaceInRace
    <3>5. past[g] > 0
      BY <1>0, <1>2, <2>3, <3>3, <3>4 DEF ClosedIt
    <3>6. past[c] > 0
      BY <1>2, <3>1, <3>3, <3>5 DEF PassInv, AllsPast
    <3>7. ~Live(of)
      BY <1>0, <3>1, <3>6 DEF PassInv, RacesPast
    <3> QED BY <1>0, <3>7
  <2> QED BY <2>1, <2>2, <2>3
<1>6. Live(c)' => \A b \in Arms[g] : In(c, {b}) => export'[b] = "decremented"
  BY <1>2, <1>5 DEF ClosedIt, Keeps
<1>7. Live(c)' => \A h \in Frames : Under(c, h) /\ h # c /\ Under(h, g) /\ h # g => h \in Alls /\ join'[h].closedBy = c
  BY <1>2, <1>5 DEF ClosedIt, Keeps
<1>8. ClosedIt(c, g)'
  BY <1>3, <1>4, <1>6, <1>7 DEF ClosedIt
<1> QED BY <1>1, <1>2, <1>8

\* What a frame already kept waits for, the end kept: as before.
LEMMA KeepsWaitsOld ==
    ASSUME PassInv, LeftInv, RowsInv, NEW of, NEW at, NEW v, NEW passed, NEW owes, Ends(of, at, v, passed, owes), Keeps(of, v, passed, owes),
           TypeOK', NEW f \in Alls, ~(\E k \in v.joins : k[1] = f), Recd(f)', ~Doomed(f)'
    PROVE  /\ join'[f].pending = Cardinality(Waiting(f)')
           /\ \A b \in Waiting(f)' : \E x \in Points : RealIn(x, b)'
<1>0. of \in Points /\ at \in Points /\ Live(of) /\ owed \subseteq Races /\ f \in Frames /\ f \in Points
  BY StateIs, PointsAre DEF Ends, PassInv, TypeInv
<1>1. join'[f] = join[f] /\ Recd(f)
  BY <1>0 DEF Keeps, Recd
<1>2. ~Doomed(f)
  BY <1>0, <1>1, EndsDoomed
<1>3. \A b \in Waiting(f) : \E x \in Points : RealIn(x, b)'
  BY <1>1, <1>2, EndsReal
<1>4. \A b : b \in Waiting(f) <=> b \in Arms[f] /\ export[b] # "decremented" /\ \E x : Live(x) /\ In(x, {b})
  BY WaitingIs
<1>5. \A b : b \in Waiting(f)' <=> b \in Arms[f] /\ export[b] # "decremented" /\ \E x : Live(x)' /\ In(x, {b})
  BY WaitingIsNext DEF Keeps
<1>6. ASSUME NEW b, b \in Waiting(f) PROVE b \in Waiting(f)'
  <2>1. PICK x \in Points : RealIn(x, b)'
    BY <1>3, <1>6
  <2>2. Live(x)' /\ In(x, {b})
    BY <2>1 DEF RealIn
  <2> QED BY <1>4, <1>5, <1>6, <2>2
<1>7. ASSUME NEW b, b \in Waiting(f)' PROVE b \in Waiting(f)
  <2>1. b \in Arms[f] /\ export[b] # "decremented"
    BY <1>5, <1>7
  <2>2. PICK x : Live(x)' /\ In(x, {b})
    BY <1>5, <1>7
  <2>3. x \in Points
    BY <2>2, LiveInNext
  <2>4. Live(x) \/ x \in v.parks \/ x \in owes
    BY <2>2, <2>3 DEF Keeps
  <2>5. In(x, Arms[f])
    BY <2>1, <2>2, InOne
  <2>6. CASE Live(x)
    BY <1>4, <2>1, <2>2, <2>6
  <2>7. CASE x \in owes
    <3>1. Under(of, x)
      BY <2>7 DEF Ends
    <3>2. In(of, {b})
      BY <1>0, <2>2, <2>3, <3>1, UnderIn
    <3> QED BY <1>0, <1>4, <2>1, <3>2
  <2>8. CASE x \in v.parks
    <3>1. In(at, Arms[f]) \/ After(at, f)
      BY <1>0, <2>1, <2>2, <2>8, EndsPark
    <3>2. ~After(at, f)
      BY <1>0, <1>1, EndsAfter
    <3>3. In(of, {b})
      BY <1>0, <2>1, <2>2, <2>8, <3>1, <3>2, EndsPark
    <3> QED BY <1>0, <1>4, <2>1, <3>3
  <2> QED BY <2>4, <2>6, <2>7, <2>8
<1>8. Waiting(f)' = Waiting(f)
  BY <1>6, <1>7
<1>9. join[f].pending = Cardinality(Waiting(f))
  BY <1>1, <1>2 DEF RowsInv, WaitsCounted
<1> QED BY <1>1, <1>3, <1>8, <1>9

\* What a frame the segment parks in waits for: the arms it parks in.
LEMMA KeepsWaitsNew ==
    ASSUME PassInv, LeftInv, RowsInv, NEW of, NEW at, NEW v, NEW passed, NEW owes, Ends(of, at, v, passed, owes), Keeps(of, v, passed, owes),
           TypeOK', NEW f \in Alls, NEW k \in v.joins, k[1] = f
    PROVE  /\ join'[f].pending = Cardinality(Waiting(f)')
           /\ \A b \in Waiting(f)' : \E x \in Points : RealIn(x, b)'
<1>0. of \in Points /\ at \in Points /\ Live(of) /\ f \in Frames /\ f \in Points /\ After(at, f) /\ v.parks # {} /\ \A g \in Alls : g \in Frames /\ g \in Points
  BY PointsAre DEF Ends
<1>1. join'[f].pending = Cardinality(ArmsLeft(v, f))
  BY <1>0 DEF Keeps
<1>2. \A b \in Arms[f] : export[b] # "decremented"
  BY <1>0, EndsAfter
<1>3. \A b : b \in Waiting(f)' <=> b \in Arms[f] /\ export[b] # "decremented" /\ \E x : Live(x)' /\ In(x, {b})
  BY WaitingIsNext DEF Keeps
<1>4. ASSUME NEW b, b \in Waiting(f)' PROVE b \in ArmsLeft(v, f)
  <2>1. b \in Arms[f]
    BY <1>3, <1>4
  <2>2. PICK x : Live(x)' /\ In(x, {b})
    BY <1>3, <1>4
  <2>3. x \in Points
    BY <2>2, LiveInNext
  <2>4. Live(x) \/ x \in v.parks \/ x \in owes
    BY <2>2, <2>3 DEF Keeps
  <2>5. ~Live(x)
    <3>1. In(x, Arms[f])
      BY <2>1, <2>2, InOne
    <3>2. Under(x, f)
      BY <1>0, <3>1 DEF Under
    <3>3. After(at, x)
      BY <1>0, <2>3, <3>2, AfterUnder
    <3>4. ~Touched(x)
      BY <2>3, <3>3 DEF Ends
    <3> QED BY <3>4 DEF Touched
  <2>6. x \notin owes
    BY <1>0 DEF Ends
  <2> QED BY <2>1, <2>2, <2>4, <2>5, <2>6 DEF ArmsLeft
<1>5. ASSUME NEW b, b \in ArmsLeft(v, f) PROVE b \in Waiting(f)' /\ \E x \in Points : RealIn(x, b)'
  <2>1. b \in Arms[f]
    BY <1>5 DEF ArmsLeft
  <2>2. PICK l \in v.parks : In(l, {b})
    BY <1>5 DEF ArmsLeft
  <2>3. l \in Points
    BY DEF Ends
  <2>4. ASSUME NEW g \in Alls, In(g, {b}) PROVE past[g] = 0 /\ g \notin passed
    <3>1. In(g, Arms[f])
      BY <2>1, <2>4, InOne
    <3>2. Under(g, f)
      BY <1>0, <3>1 DEF Under
    <3>3. After(at, g)
      BY <1>0, <3>2, AfterUnder
    <3> QED BY <1>0, <3>3, EndsAfter
  <2>5. StillIn(l, b, of, v, passed, owes)
    BY <2>2, <2>3, <2>4 DEF StillIn
  <2>6. \E x \in Points : RealIn(x, b)'
    BY <2>5, EndsRealIn
  <2>7. Live(l)'
    BY <2>3 DEF Keeps
  <2> QED BY <1>2, <1>3, <2>1, <2>2, <2>6, <2>7
<1>6. Waiting(f)' = ArmsLeft(v, f)
  BY <1>4, <1>5
<1> QED BY <1>1, <1>5, <1>6

\* Each `all` waits for exactly the arms something goes on in, after the
\* commit.
LEMMA KeepsWaits ==
    ASSUME PassInv, LeftInv, RowsInv, TypeOK', NEW of, NEW at, NEW v, NEW passed, NEW owes, Ends(of, at, v, passed, owes), Keeps(of, v, passed, owes)
    PROVE  Real' /\ WaitsCounted'
<1> SUFFICES ASSUME NEW f \in Alls, Recd(f)', ~Doomed(f)'
             PROVE  /\ join'[f].pending = Cardinality(Waiting(f)')
                    /\ \A b \in Waiting(f)' : \E x \in Points : RealIn(x, b)'
  BY DEF Real, WaitsCounted
<1>1. CASE \E k \in v.joins : k[1] = f
  BY <1>1, KeepsWaitsNew
<1>2. CASE ~\E k \in v.joins : k[1] = f
  BY <1>2, KeepsWaitsOld
<1> QED BY <1>1, <1>2

\* A run whose last segment found nothing left has gone past every frame.
LEMMA CommitCompletes ==
    ASSUME PassInv, LeftInv, RowsInv, OpenIs, TypeOK', status = "parked", NEW w \in Workers, Holding(w), InSegment(w), Holds(w),
           NEW of, NEW v, NEW passed, NEW at, of = job[w].of, Ends(of, at, v, passed, {}), Keeps(of, v, passed, {}),
           v.parks = {}, NothingLeft(of)
    PROVE  open \subseteq passed /\ \A x \in Points : ~Live(x)'
<1>0. of \in Points /\ at \in Points /\ Live(of) /\ owed \subseteq Races /\ TypeOK /\ open \subseteq Frames
  BY StateIs DEF Ends, PassInv, TypeInv
<1>1. Pending = {} /\ Parked \subseteq {of} /\ owed \subseteq {of}
  BY DEF NothingLeft
<1>2. ASSUME NEW x \in Points, Live(x) PROVE x = of
  <2>1. CASE x \in Leaves
    <3>1. x \in owed => x = of
      BY <1>1
    <3>2. x \in Drainable => leaf[x] = "parked" \/ leaf[x] = "resuming"
      BY <1>0, <2>1, StateIs DEF Drainable
    <3>3. leaf[x] = "parked" => x = of
      BY <1>1, <2>1 DEF Parked
    <3>4. leaf[x] = "resuming" => x = of
      BY <2>1 DEF Holding
    <3> QED BY <1>2, <3>1, <3>2, <3>3, <3>4 DEF Live
  <2>2. CASE x \notin Leaves
    BY <1>1, <1>2, <2>2 DEF Live, Drainable
  <2> QED BY <2>1, <2>2
<1>3. \A x \in Points : ~Live(x)'
  BY <1>2 DEF Keeps
<1>4. ASSUME NEW f \in open, f \notin passed PROVE FALSE
  <2>1. f \in Frames /\ Recd(f) /\ past[f] = 0 /\ f \in Points
    BY <1>0, <1>4, PointsAre DEF OpenIs
  <2>2. join[f].pending = 0
    <3>1. join[f].pending \in Nat \cup {-1}
      BY <1>0, <2>1, StateIs
    <3>2. join[f].pending # -1
      BY <2>1 DEF PassInv, Closed, Recd
    <3>3. ~(join[f].pending > 0)
      BY <1>1, <2>1 DEF Pending
    <3> QED BY <3>1, <3>2, <3>3
  <2>3. PICK c \in Points : join[f].closedBy = c /\ ClosedIt(c, f)
    BY <2>1, <2>2 DEF RowsInv, Closers
  <2>4. ~Doomed(f)
    <3> SUFFICES ASSUME of \in owed, In(f, Arms[of]) PROVE FALSE
      BY <1>1 DEF Doomed
    <3> QED BY <1>0, <2>1 DEF Ends
  <2>5. f \notin owed
    <3> SUFFICES ASSUME f \in owed PROVE FALSE
      OBVIOUS
    <3>1. f = of /\ of \in Races
      BY <1>0, <1>1
    <3> QED BY <1>4, <3>1 DEF Ends
  <2>6. c = of
    BY <1>2, <2>1, <2>3, <2>4, <2>5 DEF ClosedIt
  <2>7. f \in {}
    BY <1>4, <2>1, <2>3, <2>6, EndsCloses
  <2> QED BY <2>7
<1> QED BY <1>3, <1>4

\* A leaf that parks where it resumed leaves all as it was.
LEMMA CommitAgain ==
    ASSUME PassInv, LeftInv, EndInv, NEW w \in Workers, Commit(w), Again(job[w].at, job[w].way), Going(w)', JobEnd(w)'
    PROVE  EndInv'
<1> DEFINE of == job[w].of
           at == job[w].at
           v == job[w].way
<1>1. TypeInv /\ TypeOK /\ at = of /\ job[w].passed = {} /\ of \in Leaves /\ of \in Points /\ Live(of)
  BY CommitFacts
<1>2. v.parks = {of} /\ v.joins = {}
  BY <1>1 DEF Again
<1>3. /\ Only(w) /\ At(w, "commit") /\ Holds(w) /\ UNCHANGED <<export, lease, left>>
      /\ \A l \in Leaves : leaf'[l] = IF l \in v.parks THEN "parked" ELSE IF l = of /\ leaf[l] = "resuming" THEN "none" ELSE leaf[l]
      /\ \A x \in Points \ (job[w].passed \cup {of}) : plan'[x] = plan[x]
      /\ owed' = (owed \ {of}) \cup job[w].owes
      /\ status' = job[w].settle /\ status' \in {"parked", "completed"}
      /\ past' \in [Frames -> Nat] /\ \A f \in Frames : past'[f] = past[f] + IF f \in job[w].passed THEN 1 ELSE 0
      /\ open' = (open \ job[w].passed) \cup {k[1] : k \in v.joins}
  BY <1>1, CommitDoes
<1>4. InSegment(w) /\ Going(w) /\ JobEnd(w) /\ JobOf(w) /\ RowsInv /\ OpenIs /\ Alone
  BY <1>3 DEF InSegment, At, LeftInv, EndInv, PassInv
<1>5. job[w].owes = {}
  BY <1>2, <1>4 DEF JobOf
<1>6. owed' = owed
  BY <1>1, <1>3, <1>5, StateIs, NobodyIs
<1>7. \A x : Live(x)' <=> Live(x)
  BY <1>1, <1>2, <1>3, <1>6, NobodyIs DEF Live, Drainable
<1>8. past' = past
  <2>1. past \in [Frames -> Nat]
    BY <1>1, StateIs
  <2>2. \A f \in Frames : past'[f] = past[f]
    BY <1>1, <1>3, <2>1
  <2> QED BY <1>3, <2>1, <2>2
<1>9. open' = open
  BY <1>1, <1>2, <1>3
<1>10. \A f \in Frames : join'[f] = join[f]
  BY <1>2, CommitJoins
<1>11. status = "parked" /\ status' = "parked"
  BY <1>2, <1>3, <1>4 DEF Going, JobEnd, HoldsProgress, At
<1>12. \A q \in Frames : plan'[q] = plan[q]
  BY <1>1, <1>3, NobodyIs, PointsAre
<1>13. RowsInv'
  BY <1>3, <1>4, <1>6, <1>7, <1>8, <1>10, <1>12, RowsSame
<1>14. ~At(w, "idle")
  BY <1>3 DEF At
<1> QED BY <1>1, <1>3, <1>4, <1>7, <1>8, <1>9, <1>10, <1>11, <1>13, <1>14, EndKept

\* Commit keeps what a run waits for.
LEMMA CommitEnd ==
    ASSUME NoRaceInRace, PassInv, LeftInv, EndInv, TypeOK', NEW w \in Workers, Commit(w)
    PROVE  EndInv'
<1>0. TypeOK /\ TypeInv /\ RowsInv /\ OpenIs /\ Alone /\ owed \subseteq Races
  BY StateIs DEF PassInv, TypeInv, EndInv, LeftInv
<1>1. Only(w) /\ At(w, "commit") /\ Holds(w) /\ status' = job[w].settle /\ status' \in {"parked", "completed"}
      /\ open' = (open \ job[w].passed) \cup {k[1] : k \in job[w].way.joins} /\ open' \subseteq Frames
  BY <1>0, CommitDoes
<1>2. InSegment(w) /\ Going(w) /\ JobEnd(w) /\ ~At(w, "idle") /\ Holding(w)
  BY <1>1 DEF InSegment, At, EndInv, PassInv
<1>3. Going(w)' /\ JobEnd(w)'
  <2>1. job \in [Workers -> Job] /\ job' = [job EXCEPT ![w] = [Idle EXCEPT !.step = "next", !.todo = job[w].todo, !.settled = job[w].settled]]
    BY <1>0, StateIs DEF Commit
  <2>2. job'[w].step = "next" /\ job'[w].passed = {}
    BY <2>1 DEF Idle
  <2> QED BY <2>2 DEF Going, JobEnd, InSegment
<1>4. CASE Again(job[w].at, job[w].way)
  BY <1>3, <1>4, CommitAgain
<1>5. CASE ~Again(job[w].at, job[w].way)
  <2>1. PICK of, at, v, passed, owes : of = job[w].of /\ at = job[w].at /\ v = job[w].way /\ passed = job[w].passed /\ owes = job[w].owes
    OBVIOUS
  <2>2. Ends(of, at, v, passed, owes) /\ Keeps(of, v, passed, owes)
    BY <1>5, <2>1, CommitEnds
  <2>3. RowsInv'
    BY <1>0, <2>2, KeepsEnds, KeepsClosers, KeepsWaits DEF RowsInv
  <2>4. status = "parked"
    BY <1>2 DEF Going
  <2>5. ASSUME NEW f \in open' PROVE join'[f] # NoJoin /\ past'[f] = 0
    <3>1. past'[f] = past[f] + IF f \in passed THEN 1 ELSE 0
      BY <1>1, <2>2 DEF Keeps
    <3>2. CASE \E k \in v.joins : k[1] = f
      <4>1. f \in Frames /\ After(at, f)
        BY <2>2, <3>2 DEF Ends
      <4>2. past[f] = 0 /\ f \notin passed
        BY <2>2, <4>1, EndsAfter
      <4>3. join'[f].pending \in Nat \ {0}
        BY <2>2, <3>2, <4>1 DEF Keeps
      <4> QED BY <3>1, <4>2, <4>3 DEF NoJoin
    <3>3. CASE ~\E k \in v.joins : k[1] = f
      <4>1. f \in open /\ f \notin passed
        BY <1>1, <2>1, <3>3
      <4>2. f \in Frames /\ join[f] # NoJoin /\ past[f] = 0
        BY <1>0, <1>1, <2>4, <4>1 DEF OpenIs, Recd
      <4>3. join'[f] = join[f]
        BY <2>2, <3>3, <4>2 DEF Keeps
      <4> QED BY <3>1, <4>1, <4>2, <4>3
    <3> QED BY <3>2, <3>3
  <2>6. ASSUME status' = "completed" PROVE open' = {} /\ \A x \in Points : ~Live(x)'
    <3>1. v.parks = {} /\ v.joins = {} /\ owes = {} /\ NothingLeft(of)
      BY <1>1, <1>2, <2>1, <2>6 DEF JobEnd, HoldsProgress, At
    <3>2. Ends(of, at, v, passed, {}) /\ Keeps(of, v, passed, {})
      BY <2>2, <3>1
    <3>3. open \subseteq passed /\ \A x \in Points : ~Live(x)'
      BY <1>0, <1>1, <1>2, <2>1, <2>4, <3>1, <3>2, CommitCompletes
    <3> QED BY <1>1, <2>1, <3>1, <3>3
  <2>7. OpenIs'
    BY <1>1, <2>5, <2>6 DEF OpenIs, Recd
  <2> QED BY <1>0, <1>1, <1>2, <1>3, <2>3, <2>7, EndOthers DEF EndInv
<1> QED BY <1>4, <1>5

\* Where what the run kept is dropped, nothing waits.
LEMMA GoneRows == ASSUME Gone PROVE RowsInv'
<1>1. \A x : ~Live(x)'
  BY DEF Gone, Live, Drainable
<1>2. \A f \in Frames : ~Recd(f)'
  BY DEF Gone, Recd
<1>3. owed' = {}
  BY DEF Gone
<1>4. Spent' /\ RaceEnd'
  BY <1>1, <1>3 DEF Spent, RaceEnd
<1>5. Closers' /\ Real' /\ WaitsCounted'
  BY <1>2, PointsAre DEF Closers, Real, WaitsCounted
<1> QED BY <1>4, <1>5 DEF RowsInv

\* The movement fails, or its replay diverges: nothing is left to wait for.
LEMMA FailEnd ==
    ASSUME PassInv, LeftInv, EndInv, NEW w \in Workers, FailRun(w)
    PROVE  EndInv'
<1>0. TypeOK /\ Alone /\ Going(w)
  BY DEF PassInv, TypeInv, LeftInv, EndInv
<1>1. /\ Only(w) /\ job'[w] = Idle /\ (At(w, "run") \/ At(w, "fail"))
      /\ status' = (IF status = "parked" THEN "failed" ELSE status)
      /\ (Holds(w) /\ Gone) \/ (~Holds(w) /\ UNCHANGED <<leaf, join, export, owed>>)
  BY <1>0, FailDoes
<1>2. InSegment(w) /\ ~At(w, "idle")
  BY <1>1 DEF InSegment, At
<1>3. Holds(w) /\ Gone /\ status' = "failed"
  BY <1>0, <1>1, <1>2 DEF Alone, Going
<1>4. \A u \in Workers : job'[u].step = "idle" /\ job'[u].passed = {}
  <2> SUFFICES ASSUME NEW u \in Workers \ {w} PROVE job'[u].step = "idle" /\ job'[u].passed = {}
    BY <1>1, IdleIs
  <2>1. job'[u] = job[u] /\ job[u].step = "idle"
    BY <1>0, <1>1, <1>3 DEF Only, Alone, At, Holds
  <2> QED BY <2>1 DEF EndInv, Going, InSegment
<1>5. \A u \in Workers : Going(u)' /\ JobEnd(u)'
  BY <1>4 DEF Going, JobEnd, InSegment
<1>6. OpenIs'
  BY <1>3, <1>4 DEF OpenIs, AllIdle, At
<1>7. RowsInv'
  BY <1>3, GoneRows
<1> QED BY <1>5, <1>6, <1>7 DEF EndInv

\* Nothing a quiescent run kept was still to be gone past.
LEMMA NoneOpen ==
    ASSUME PassInv, RowsInv, OpenIs, status = "parked", Pending = {}, owed = {}, \A x \in Points : ~Live(x)
    PROVE  open = {}
<1>0. TypeOK /\ open \subseteq Frames
  BY StateIs DEF PassInv, TypeInv
<1> SUFFICES ASSUME NEW f \in open PROVE FALSE
  OBVIOUS
<1>1. f \in Frames /\ Recd(f) /\ past[f] = 0
  BY <1>0 DEF OpenIs
<1>2. join[f].pending = 0
  <2>1. join[f].pending \in Nat \cup {-1} /\ join[f].pending # -1
    BY <1>0, <1>1, StateIs DEF PassInv, Closed, Recd
  <2>2. ~(join[f].pending > 0)
    BY <1>1 DEF Pending
  <2> QED BY <2>1, <2>2
<1>3. PICK c \in Points : join[f].closedBy = c /\ ClosedIt(c, f)
  BY <1>1, <1>2 DEF RowsInv, Closers
<1>4. ~Doomed(f) /\ f \notin owed
  BY DEF Doomed
<1> QED BY <1>1, <1>3, <1>4 DEF ClosedIt

\* A drain ends.
LEMMA EndDrainEnd ==
    ASSUME PassInv, LeftInv, EndInv, NEW w \in Workers, EndDrain(w)
    PROVE  EndInv'
<1>0. TypeOK /\ RowsInv /\ OpenIs /\ Alone /\ JobOf(w) /\ Holding(w)
  BY DEF PassInv, TypeInv, LeftInv, EndInv
<1>1. /\ Only(w) /\ job'[w] = Idle /\ UNCHANGED <<status, plan, past, open>> /\ At(w, "next") /\ Holds(w)
      /\ (Pending = {} /\ Parked = {} /\ owed = {} /\ Gone) \/ UNCHANGED <<leaf, join, export, owed>>
  BY <1>0, EndDrainDoes
<1>2. ~InSegment(w) /\ ~At(w, "idle") /\ status # "failed"
  BY <1>0, <1>1, NotFailed DEF InSegment, At
<1>3. Going(w)' /\ JobEnd(w)'
  BY <1>1, IdleIs DEF Going, JobEnd, InSegment
<1>4. CASE UNCHANGED <<leaf, join, export, owed>>
  <2>1. \A x : Live(x)' <=> Live(x)
    BY <1>4 DEF Live, Drainable
  <2>2. RowsInv'
    BY <1>0, <1>1, <1>4, <2>1, RowsSame
  <2> QED BY <1>0, <1>1, <1>2, <1>3, <1>4, <2>1, <2>2, EndKept
<1>5. CASE Pending = {} /\ Parked = {} /\ owed = {} /\ Gone
  <2>1. ASSUME NEW x \in Points PROVE ~Live(x)
    <3>1. job[w].of = Nobody
      BY <1>0, <1>2 DEF JobOf
    <3>2. ASSUME x \in Leaves PROVE leaf[x] = "none"
      <4>1. leaf[x] # "resuming"
        BY <1>0, <1>1, <3>1, <3>2, NobodyIs DEF Holding
      <4>2. leaf[x] # "parked"
        BY <1>5, <3>2 DEF Parked
      <4> QED BY <1>0, <3>2, <4>1, <4>2, StateIs
    <3> QED BY <1>5, <3>2 DEF Live, Drainable
  <2>2. status = "parked" => open = {}
    BY <1>0, <1>5, <2>1, NoneOpen
  <2>3. \A x : ~Live(x)'
    BY <1>5 DEF Gone, Live, Drainable
  <2>4. OpenIs'
    <3>1. status' = "parked" => open' = {}
      BY <1>1, <2>2
    <3>2. status' = "completed" => open' = {}
      BY <1>0, <1>1 DEF OpenIs
    <3> QED BY <1>1, <1>2, <2>3, <3>1, <3>2 DEF OpenIs
  <2>5. RowsInv'
    BY <1>5, GoneRows
  <2>6. \A u \in Workers : Going(u)' /\ JobEnd(u)'
    BY <1>0, <1>1, <1>2, <1>3, EndOthers DEF EndInv
  <2> QED BY <2>4, <2>5, <2>6 DEF EndInv
<1> QED BY <1>1, <1>4, <1>5

\* A process that lost the run leaves; where no lease lapses under one that goes on, there is none.
LEMMA LeaveEnd ==
    ASSUME PassInv, LeftInv, NEW w \in Workers, CommitRefused(w) \/ LoseRun(w)
    PROVE  EndInv'
<1>1. ~Holds(w) /\ ~At(w, "idle")
  BY DEF CommitRefused, LoseRun, Fenced, At
<1> QED BY <1>1 DEF LeftInv, Alone

\* A process dies: a leaf's segment run again may go another way, a race's goes the same.
LEMMA CrashEnd ==
    ASSUME SettlesAlike, PassInv, LeftInv, EndInv, NEW w \in Workers, Crash(w)
    PROVE  EndInv'
<1>0. TypeOK /\ RowsInv /\ OpenIs /\ Alone /\ JobOf(w) /\ Chain(w) /\ Going(w) /\ owed \subseteq Races
  BY StateIs DEF PassInv, TypeInv, LeftInv, EndInv
<1>1. /\ Only(w) /\ job'[w] = Idle /\ ~At(w, "idle") /\ UNCHANGED <<status, leaf, join, export, owed, past, open>>
      /\ ~Reconsiders(w) => plan' = plan
      /\ \A x \in Points \ (job[w].passed \cup {job[w].of}) : plan'[x] = plan[x]
  BY <1>0, CrashDoes
<1>2. status # "failed"
  BY <1>0, <1>1, NotFailed
<1>3. Going(w)' /\ JobEnd(w)'
  BY <1>1, IdleIs DEF Going, JobEnd, InSegment
<1>4. \A x : Live(x)' <=> Live(x)
  BY <1>1 DEF Live, Drainable
<1>5. ASSUME Reconsiders(w), NEW x \in owed, NEW q \in Frames, Under(x, q), ClosedTo(x, q)
      PROVE  plan'[q] = plan[q]
  <2> SUFFICES ASSUME q \in job[w].passed \cup {job[w].of} PROVE FALSE
    BY <1>1, PointsAre
  <2>1. job[w].of \notin Races
    BY <1>5 DEF Reconsiders, Attempt, SettlesAlike
  <2>2. InSegment(w)
    BY <1>0, NobodyIs DEF JobOf, Going
  <2>3. job[w].of \in Leaves
    BY <2>1, <2>2 DEF PassInv, TypeInv, JobIs
  <2>4. q \in job[w].passed /\ q \in Alls
    BY <1>0, <2>2, <2>3, NobodyIs, PointsAre DEF JobOf
  <2>5. join[q].closedBy = job[w].of
    BY <1>0, <2>2, <2>4 DEF Chain
  <2>6. q = x \/ join[q].closedBy = x
    BY <1>5, UnderSelf DEF ClosedTo
  <2> QED BY <1>0, <2>3, <2>4, <2>5, <2>6, NobodyIs
<1>6. RaceEnd'
  <2> SUFFICES ASSUME NEW x \in owed, NEW g \in Frames, NEW b \in Arms[g], NEW q \in Frames, export[b] = "decremented",
                      Under(x, q), In(q, {b}), ClosedTo(x, q)'
               PROVE  plan'[q] # {} /\ \A v \in plan'[q] : v.parks = {}
    BY <1>1 DEF RaceEnd
  <2>1. ClosedTo(x, q)
    BY <1>1 DEF ClosedTo
  <2>2. plan[q] # {} /\ \A v \in plan[q] : v.parks = {}
    BY <1>0, <2>1 DEF RowsInv, RaceEnd
  <2>3. plan'[q] = plan[q]
    BY <1>1, <1>5, <2>1
  <2> QED BY <2>2, <2>3
<1>7. RowsInv'
  BY <1>0, <1>1, <1>4, <1>6, RowsBut
<1> QED BY <1>0, <1>1, <1>2, <1>3, <1>4, <1>7, EndKept

\* At the start: the ways planned keep no decrement, and each `all` counts the arms parked.
LEMMA InitEnd == ASSUME Init PROVE EndInv
<1>0. TypeInv /\ TypeOK
  BY InitTypes DEF TypeInv
<1>1. PICK way \in Ways[Top][0] :
             /\ WayOf(Top, 0, way) /\ open = {j[1] : j \in way.joins}
             /\ leaf \in [Leaves -> {"none", "parked", "resuming"}]
             /\ \A l \in Leaves : leaf[l] = IF l \in way.parks THEN "parked" ELSE "none"
             /\ \A f \in Frames :
                  /\ (~\E j \in way.joins : j[1] = f) => join[f] = NoJoin
                  /\ (\E j \in way.joins : j[1] = f) =>
                       /\ ArmsLeft(way, f) # {} /\ join[f].closedBy = Nobody
                       /\ join[f].pending = IF f \in Races THEN 1 ELSE Cardinality(ArmsLeft(way, f))
             /\ export = [b \in Bodies |-> IF b \in way.keeps THEN "kept" ELSE NoExport]
  BY InitIs
<1>2. job = [w \in Workers |-> Idle] /\ owed = {} /\ status = "parked" /\ past = [f \in Frames |-> 0]
  BY DEF Init
<1>3. \A x : Live(x) <=> x \in way.parks
  BY <1>1, <1>2, WayFields DEF Live, Drainable, WayOf
<1>4. \A f \in Frames : \A b \in Arms[f] : export[b] # "decremented"
  BY <1>1, ArmsIn DEF NoExport
<1>5. ASSUME NEW f \in Frames, \E j \in way.joins : j[1] = f PROVE join[f].pending \in Nat \ {0} /\ Recd(f)
  <2>1. ArmsLeft(way, f) \in SUBSET Bodies /\ ArmsLeft(way, f) # {}
    BY <1>1, <1>5, TreeAssumption DEF ArmsLeft
  <2>2. Cardinality(ArmsLeft(way, f)) \in Nat \ {0}
    BY <2>1, CardLess
  <2>3. join[f].pending \in Nat \ {0}
    BY <1>1, <1>5, <2>2
  <2> QED BY <2>3 DEF Recd, NoJoin
<1>6. \A f \in Frames : Recd(f) => \E j \in way.joins : j[1] = f
  BY <1>1 DEF Recd
<1>7. ASSUME NEW f \in Frames PROVE Waiting(f) = ArmsLeft(way, f)
  <2>1. \A b : b \in Waiting(f) <=> b \in Arms[f] /\ export[b] # "decremented" /\ \E x : Live(x) /\ In(x, {b})
    BY WaitingIs
  <2>2. \A b : b \in ArmsLeft(way, f) <=> b \in Arms[f] /\ \E l \in way.parks : In(l, {b})
    BY DEF ArmsLeft
  <2>3. \A b : b \in Waiting(f) <=> b \in ArmsLeft(way, f)
    BY <1>3, <1>4, <2>1, <2>2
  <2> QED BY <2>3
<1>8. Spent /\ RaceEnd
  BY <1>2, <1>4 DEF Spent, RaceEnd
<1>9. Closers
  BY <1>5, <1>6 DEF Closers
<1>10. Real
  <2> SUFFICES ASSUME NEW f \in Alls, NEW b \in Waiting(f) PROVE \E x \in Points : RealIn(x, b)
    BY DEF Real
  <2>1. PICK l \in way.parks : In(l, {b})
    BY <1>7, PointsAre DEF ArmsLeft
  <2>2. l \in Points /\ Live(l)
    BY <1>1, <1>3, <2>1, WayFields, PointsAre DEF WayOf
  <2>3. \A g \in Alls : past[g] = 0
    BY <1>2, PointsAre
  <2> QED BY <2>1, <2>2, <2>3 DEF RealIn
<1>11. WaitsCounted
  <2> SUFFICES ASSUME NEW f \in Alls, Recd(f) PROVE join[f].pending = Cardinality(Waiting(f))
    BY DEF WaitsCounted
  <2>1. f \in Frames /\ f \notin Races
    BY PointsAre, NobodyIs
  <2> QED BY <1>1, <1>6, <1>7, <2>1
<1>12. OpenIs
  <2>1. \A f \in open : f \in Frames /\ \E j \in way.joins : j[1] = f
    BY <1>0, <1>1, StateIs
  <2> QED BY <1>2, <1>5, <2>1 DEF OpenIs
<1>13. \A w \in Workers : Going(w) /\ JobEnd(w)
  BY <1>2, IdleIs DEF Going, JobEnd, InSegment
<1> QED BY <1>8, <1>9, <1>10, <1>11, <1>12, <1>13 DEF EndInv, RowsInv

\* Each step keeps what a run waits for.
LEMMA EndStep ==
    ASSUME NoRaceInRace, NoStalls, SettlesAlike, PassInv, LeftInv, EndInv, PassInv', LeftInv', [Next]_vars
    PROVE  EndInv'
<1>0. TypeOK /\ TypeOK' /\ LiveRecorded'
  BY DEF PassInv, TypeInv, LeftInv
<1>1. ASSUME NEW w \in Workers, Stall(w) PROVE EndInv'
  BY <1>0, <1>1, StallDoes DEF NoStalls
<1>2. CASE UNCHANGED vars
  <2>1. UNCHANGED <<status, leaf, join, export, owed, job, plan, past, open>>
    BY <1>2 DEF vars
  <2>2. RowsInv'
    BY <2>1, RowsSame DEF EndInv, Live, Drainable
  <2>3. OpenIs'
    BY <2>1 DEF EndInv, OpenIs, Recd, AllIdle, At, Live, Drainable
  <2>4. ASSUME NEW w \in Workers PROVE Going(w)'
    <3>1. Going(w)
      BY DEF EndInv
    <3> QED BY <2>1, <3>1 DEF Going, InSegment, Recd, Body
  <2>5. ASSUME NEW w \in Workers PROVE JobEnd(w)'
    <3>1. JobEnd(w)
      BY DEF EndInv
    <3>2. Diverged(w)' <=> Diverged(w)
      BY <2>1 DEF Diverged, Recorded
    <3>3. NothingLeft(job[w].of)' <=> NothingLeft(job[w].of)
      BY <2>1 DEF NothingLeft, Pending, Parked
    <3>4. \A f : LeavesToRun(w, f)' <=> LeavesToRun(w, f)
      BY <2>1 DEF LeavesToRun
    <3>5. HoldsProgress(w)' <=> HoldsProgress(w)
      BY <2>1 DEF HoldsProgress
    <3> QED BY <2>1, <3>1, <3>2, <3>3, <3>4, <3>5 DEF JobEnd
  <2> QED BY <2>2, <2>3, <2>4, <2>5 DEF EndInv
<1> QED BY <1>0, <1>1, <1>2, StepsAre, DrainEnd, ClaimEnd, SettleEnd, WithdrawLeavesEnd, WithdrawFramesEnd,
           KeepEnd, ExportEnd, DecrementEnd, JudgeEnd, CommitEnd, LeaveEnd, FailEnd, EndDrainEnd, CrashEnd, Zenon

\* What a run waits for is as said in every state.
LEMMA EndHolds == ASSUME NoRaceInRace, NoStalls, SettlesAlike PROVE Spec => [](PassInv /\ LeftInv /\ EndInv)
<1>1. Init => EndInv
  BY InitEnd
<1>2. PassInv /\ LeftInv /\ EndInv /\ (PassInv /\ LeftInv)' /\ [Next]_vars => EndInv'
  BY EndStep
<1> QED BY <1>1, <1>2, LeftHolds, PTL DEF Spec

\* Where it is, an `all` waits for what is left of it, and a completed run left
\* nothing.
LEMMA WaitsHold == ASSUME PassInv, EndInv PROVE PendingIsWaiting /\ CompletedPassedAll
<1>1. PendingIsWaiting
  <2> SUFFICES ASSUME status = "parked", NEW f \in Alls \cap open, ~Doomed(f) PROVE join[f].pending = Cardinality(Waiting(f))
    BY DEF PendingIsWaiting
  <2>1. Recd(f)
    BY DEF EndInv, OpenIs
  <2> QED BY <2>1 DEF EndInv, RowsInv, WaitsCounted
<1>2. CompletedPassedAll
  BY DEF CompletedPassedAll, EndInv, OpenIs
<1> QED BY <1>1, <1>2

\* Where besides a race settled again goes on alike, an `all` waits for exactly
\* its arms that still have a leaf or an owed race: no count is lost or doubled.
THEOREM WaitsForTheRest == ASSUME NoRaceInRace, NoStalls, SettlesAlike PROVE Spec => []PendingIsWaiting
BY EndHolds, WaitsHold, PTL

\* There, a run that completed went on past every frame it parked at, or withdrew it.
THEOREM CompletedPasses == ASSUME NoRaceInRace, NoStalls, SettlesAlike PROVE Spec => []CompletedPassedAll
BY EndHolds, WaitsHold, PTL
=============================================================================
