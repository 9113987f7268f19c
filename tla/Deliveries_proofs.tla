--------------------------- MODULE Deliveries_proofs ---------------------------
(***************************************************************************)
(* Theorems about Deliveries, for every set of listens, arrivals and       *)
(* processes, every feed and every bound.                                  *)
(***************************************************************************)
EXTENDS Deliveries, TLAPS, FiniteSetTheorems, SequenceTheorems

(* The parts of the inductive invariant. *)

FireSteps == {"fire", "start", "held", "loops", "pause", "count", "tail", "drop"}

Taking == {"start", "held", "loops"}

\* What the arrivals of a delivery fire.
Owed(d) == {f \in Fires : f[2] \in kept[d].arrivals}

MintedFor(d, f) == <<d, f[1], f[2]>>

\* A busy process is at a delivery that was kept, and at what it fires.
Fits(j) ==
    /\ j \in Job
    /\ j.step \in FireSteps \cup {"forget"} => j.of \in Deliveries
    /\ j.step \in {"idle", "page"} => j.by = "row"
    /\ j.step \in FireSteps => j.todo \subseteq Owed(j.of)
    /\ j.step \in Taking \cup {"pause", "count"} => j.at \in Owed(j.of)
    /\ j.step \in {"tail", "drop"} => j.todo = {} /\ j.drops \subseteq Minted(j.of)
    /\ j.step = "drop" => j.at \in Minted(j.of)

\* A page read has room kept for its delivery.
Pages == {w \in Workers : At(w, "page")}

RoomKept == IsFiniteSet(Pages) /\ Len(kept) + Cardinality(Pages) <= MaxKept

RowShape == \A d \in Deliveries : row[d].by = Nobody <=> row[d].state # "claimed"

IdsAreTheirs == \A d \in Deliveries : kept[d].id # Nobody => kept[d].arrivals = {kept[d].id}

ShapeInv == TypeOK /\ (\A w \in Workers : Fits(job[w])) /\ RoomKept /\ RowShape /\ IdsAreTheirs

RunsOf(f) == {run \in runs : Pair(run) = f}

RunsAreTaken ==
    \A f \in Fires : IF receipt[f] = "run" THEN \E run \in runs : RunsOf(f) = {run} ELSE RunsOf(f) = {}

\* What an attempt has gone past is taken.
PassedIsTaken ==
    \A w \in Workers : InFire(w) =>
        \A f \in Owed(job[w].of) : receipt[f] # "none" \/ f \in job[w].todo \/ (job[w].step \in Taking /\ job[w].at = f)

DoneIsTaken ==
    \A d \in Deliveries : row[d].state = "done" => \A f \in Owed(d) : receipt[f] # "none"

\* What is not taken yet has the waits of its run, unless its row gave up.
UntakenWaits ==
    \A d \in Deliveries : row[d].state # "dead" =>
        \A f \in Owed(d) : receipt[f] = "none" => MintedFor(d, f) \in waits

DropsUnstarted == \A w \in Workers : At(w, "drop") => job[w].at \notin runs

TakenInv == ShapeInv /\ RunsAreTaken /\ PassedIsTaken /\ DoneIsTaken /\ UntakenWaits /\ DropsUnstarted

CoveredTo(i) == \A j \in armedAt + 1 .. i : \E d \in Deliveries : Items[j] \in kept[d].arrivals

\* The items up to the cursor, and up to where a page was read from, are kept.
CursorInv ==
    /\ armedAt = NoCursor <=> cursor = NoCursor
    /\ feed = "pulled" => cursor # NoCursor
    /\ cursor # NoCursor => CoveredTo(cursor)
    /\ \A w \in Workers : At(w, "page") =>
         IF job[w].since = NoCursor THEN feed = "polled" /\ cursor = NoCursor
         ELSE cursor # NoCursor /\ CoveredTo(job[w].since)
    /\ feed = "polled" => \A v, w \in Workers : At(v, "page") /\ At(w, "page") => v = w

AcceptedIsKept == \A a \in Pushed : sent[a] = "accepted" => \E d \in Deliveries : a \in kept[d].arrivals

\* The arrivals a listen took and held, and the processes that have yet to
\* count one.
HeldOf(l) == {f \in Fires : f[1] = l /\ receipt[f] = "held"}

Counting(l) == {w \in Workers : job[w].step \in {"pause", "count"} /\ job[w].at[1] = l}

HeldCounted ==
    \A l \in Listens :
        /\ IsFiniteSet(HeldOf(l)) /\ IsFiniteSet(Counting(l))
        /\ held[l] + Cardinality(Counting(l)) <= Cardinality(HeldOf(l))

-----------------------------------------------------------------------------
(* Shapes: rows, deliveries and jobs. *)

DeliveryType == [arrivals : SUBSET Arrivals, id : Pushed \cup {Nobody}]

RowType == [state : {"queued", "claimed", "done", "dead"}, by : Workers \cup {Nobody}, attempts : 0 .. left.cap]

\* Deliveries only come, and keep what they carry.
Grown ==
    /\ Len(kept') >= Len(kept)
    /\ \A d \in Deliveries : d \in Deliveries' /\ kept'[d].arrivals = kept[d].arrivals

\* What the constants are.
LEMMA ConstantTypes ==
    /\ \A f \in Fires : f[1] \in Listens /\ f[2] \in Arrivals /\ f = <<f[1], f[2]>>
    /\ Pushed \subseteq Arrivals /\ Nobody \notin Pushed /\ Nobody \notin Workers
    /\ Items \in Seq(Arrivals) /\ \A i \in 1 .. Len(Items) : Items[i] \in Arrivals
    /\ MaxKept \in Nat /\ Caps \subseteq Nat /\ Len(Items) \in Nat
BY DeliveriesAssumption DEF Arrivals

\* What the variables are.
LEMMA StateTypes ==
    ASSUME TypeOK
    PROVE  /\ kept \in Seq(DeliveryType) /\ row \in Seq(RowType)
           /\ Len(kept) \in Nat /\ Len(kept) <= MaxKept /\ Len(row) = Len(kept)
           /\ Deliveries = 1 .. Len(kept) /\ DOMAIN row = 1 .. Len(kept)
           /\ \A d \in Deliveries : kept[d] \in DeliveryType /\ row[d] \in RowType
           /\ left.cap \in Nat /\ left.cap \in Caps
           /\ job \in [Workers -> Job] /\ receipt \in [Fires -> {"none", "run", "held"}]
<1>1. /\ kept \in Seq(DeliveryType) /\ row \in Seq(RowType)
      /\ Len(kept) <= MaxKept /\ Len(row) = Len(kept)
      /\ left.cap \in Caps
      /\ job \in [Workers -> Job] /\ receipt \in [Fires -> {"none", "run", "held"}]
  BY DEF TypeOK, DeliveryType, RowType
<1>2. DOMAIN kept = 1 .. Len(kept) /\ DOMAIN row = 1 .. Len(row) /\ Len(kept) \in Nat
  BY <1>1, LenProperties
<1>3. \A d \in 1 .. Len(kept) : kept[d] \in DeliveryType /\ row[d] \in RowType
  BY <1>1, ElementOfSeq
<1> QED
  BY <1>1, <1>2, <1>3, ConstantTypes DEF Deliveries

\* The runs a delivery mints are runs, one for each arrival of it a listen fires.
LEMMA MintedTypes ==
    ASSUME TypeOK, NEW d \in Deliveries
    PROVE  /\ Minted(d) \subseteq Run
           /\ \A f \in Owed(d) : MintedFor(d, f) \in Minted(d) /\ Pair(MintedFor(d, f)) = f
           /\ \A run \in Minted(d) : Pair(run) \in Owed(d) /\ run = MintedFor(d, Pair(run)) /\ run[1] = d
<1>1. d \in 1 .. MaxKept
  BY StateTypes, ConstantTypes
<1>2. \A f \in Fires : f[1] \in Listens /\ f[2] \in Arrivals /\ f = <<f[1], f[2]>>
  BY ConstantTypes
<1> QED
  BY <1>1, <1>2 DEF Minted, Owed, MintedFor, Pair, Run

\* A job that fits goes on fitting as deliveries come.
LEMMA FitsOn ==
    ASSUME Grown, NEW j, Fits(j)
    PROVE  Fits(j)'
BY DEF Grown, Fits, FireSteps, Owed, Minted, Taking

\* A delivery kept: one more row, not claimed yet.
LEMMA KeepShape ==
    ASSUME ShapeInv, NEW as \in SUBSET Arrivals, NEW id \in Pushed \cup {Nobody}, id # Nobody => as = {id},
           KeepDelivery(as, id), left'.cap = left.cap
    PROVE  /\ kept' \in Seq(DeliveryType) /\ row' \in Seq(RowType)'
           /\ Len(kept') = Len(kept) + 1 /\ Len(row') = Len(row) + 1
           /\ kept'[Len(kept) + 1] = [arrivals |-> as, id |-> id] /\ row'[Len(kept) + 1] = NewRow
           /\ \A d \in Deliveries : kept'[d] = kept[d] /\ row'[d] = row[d]
           /\ Deliveries' = 1 .. Len(kept) + 1
           /\ Grown /\ RowShape' /\ IdsAreTheirs'
<1>0. TypeOK /\ kept \in Seq(DeliveryType) /\ row \in Seq(RowType) /\ Len(row) = Len(kept) /\ Len(kept) \in Nat /\ Deliveries = 1 .. Len(kept)
  BY StateTypes DEF ShapeInv
<1>1. [arrivals |-> as, id |-> id] \in DeliveryType
  BY DEF DeliveryType
<1>2. NewRow \in RowType
  BY StateTypes, ConstantTypes, <1>0 DEF NewRow, RowType
<1>3. /\ kept' \in Seq(DeliveryType) /\ Len(kept') = Len(kept) + 1
      /\ \A i \in 1 .. Len(kept) : kept'[i] = kept[i]
      /\ kept'[Len(kept) + 1] = [arrivals |-> as, id |-> id]
  BY <1>0, <1>1, AppendProperties DEF KeepDelivery
<1>4. /\ row' \in Seq(RowType) /\ Len(row') = Len(row) + 1
      /\ \A i \in 1 .. Len(kept) : row'[i] = row[i]
      /\ row'[Len(kept) + 1] = NewRow
  BY <1>0, <1>2, AppendProperties DEF KeepDelivery
<1>5. row' \in Seq(RowType)'
  BY <1>4 DEF RowType
<1>6. Deliveries' = 1 .. Len(kept) + 1
  BY <1>3, LenProperties DEF Deliveries
<1>7. Grown
  BY <1>0, <1>3, <1>6 DEF Grown
<1>8. RowShape'
  <2> SUFFICES ASSUME NEW d \in Deliveries'
               PROVE  row'[d].by = Nobody <=> row'[d].state # "claimed"
    BY DEF RowShape
  <2>1. CASE d \in Deliveries
    BY <1>0, <1>4, <2>1 DEF ShapeInv, RowShape
  <2>2. CASE d = Len(kept) + 1
    BY <1>4, <2>2 DEF NewRow
  <2> QED
    BY <1>0, <1>6, <2>1, <2>2
<1>9. IdsAreTheirs'
  <2> SUFFICES ASSUME NEW d \in Deliveries', kept'[d].id # Nobody
               PROVE  kept'[d].arrivals = {kept'[d].id}
    BY DEF IdsAreTheirs
  <2>1. CASE d \in Deliveries
    BY <1>0, <1>3, <2>1 DEF ShapeInv, IdsAreTheirs
  <2>2. CASE d = Len(kept) + 1
    <3>1. kept'[d] = [arrivals |-> as, id |-> id]
      BY <1>3, <2>2
    <3>2. kept'[d].arrivals = as /\ kept'[d].id = id
      BY <3>1
    <3> QED
      BY <3>2
  <2> QED
    BY <1>0, <1>6, <2>1, <2>2
<1> QED
  BY <1>0, <1>3, <1>4, <1>5, <1>6, <1>7, <1>8, <1>9

\* A row written: the others are as they were.
LEMMA RowWritten ==
    ASSUME ShapeInv, NEW d \in Deliveries, NEW r \in RowType, r.by = Nobody <=> r.state # "claimed",
           row' = [row EXCEPT ![d] = r], kept' = kept, left'.cap = left.cap
    PROVE  /\ row' \in Seq(RowType)' /\ Len(row') = Len(row) /\ RowShape'
           /\ row'[d] = r /\ \A e \in Deliveries : e # d => row'[e] = row[e]
<1>0. TypeOK /\ row \in Seq(RowType) /\ Len(row) = Len(kept) /\ Deliveries = 1 .. Len(kept)
  BY StateTypes DEF ShapeInv
<1>1. /\ row' \in Seq(RowType) /\ Len(row') = Len(row)
      /\ \A e \in 1 .. Len(row) : row'[e] = IF e = d THEN r ELSE row[e]
  BY <1>0, ExceptSeq
<1>2. row' \in Seq(RowType)'
  BY <1>1 DEF RowType
<1>3. RowShape'
  BY <1>0, <1>1 DEF RowShape, ShapeInv, Deliveries
<1> QED
  BY <1>0, <1>1, <1>2, <1>3

\* The jobs a process goes on to, each from the one it had.
LEMMA IdleFits == Fits(Idle)
<1>1. Idle \in Job
  BY ConstantTypes DEF Idle, Job, NoCursor
<1> QED
  BY <1>1 DEF Fits, Idle, FireSteps, Taking

LEMMA PageFits ==
    ASSUME TypeOK, NEW since \in {NoCursor} \cup 0 .. Len(Items), NEW page \in 0 .. Len(Items)
    PROVE  Fits([Idle EXCEPT !.step = "page", !.since = since, !.page = page])
<1>1. Idle \in Job /\ Idle.by = "row"
  BY IdleFits DEF Fits, Idle
<1> QED
  BY <1>1 DEF Fits, FireSteps, Taking, Job

LEMMA FiringFits ==
    ASSUME TypeOK, NEW d \in Deliveries, NEW by \in {"row", "request"}
    PROVE  Fits(Firing(d, kept[d].arrivals, by))
<1>1. Idle \in Job
  BY IdleFits DEF Fits
<1>2. d \in 0 .. MaxKept
  BY StateTypes, ConstantTypes
<1> DEFINE j == Firing(d, kept[d].arrivals, by)
<1>3. j \in Job
  BY <1>1, <1>2 DEF Firing, Job
<1>4. j.step = "fire" /\ j.of = d /\ j.todo = Owed(d)
  BY <1>1 DEF Firing, Job, Owed
<1> HIDE DEF j
<1>5. Fits(j)
  BY <1>3, <1>4 DEF Fits, FireSteps, Taking
<1> QED
  BY <1>5 DEF j

LEMMA JudgeFits ==
    ASSUME NEW j, Fits(j), j.step = "fire", NEW f \in j.todo,
           NEW next \in Taking, NEW pause \in {"yes", "no"}
    PROVE  Fits([j EXCEPT !.step = next, !.todo = @ \ {f}, !.at = f, !.known[f[1]] = pause])
<1>1. j \in Job /\ j.of \in Deliveries /\ j.todo \subseteq Owed(j.of)
  BY DEF Fits, FireSteps
<1>2. f \in Fires /\ f \in Owed(j.of)
  BY <1>1 DEF Owed
<1>3. [j EXCEPT !.step = next, !.todo = @ \ {f}, !.at = f, !.known[f[1]] = pause] \in Job
  BY <1>1, <1>2, ConstantTypes DEF Job, Taking
<1> QED
  BY <1>1, <1>2, <1>3 DEF Fits, FireSteps, Taking, Job

LEMMA OnFits ==
    ASSUME NEW j, Fits(j), j.step \in FireSteps \ {"tail", "drop"}
    PROVE  Fits([j EXCEPT !.step = "fire", !.at = <<>>])
<1>1. j \in Job
  BY DEF Fits
<1>2. [j EXCEPT !.step = "fire", !.at = <<>>] \in Job
  BY <1>1 DEF Job
<1> QED
  BY <1>1, <1>2 DEF Fits, FireSteps, Taking, Job

LEMMA StartFits ==
    ASSUME TypeOK, NEW j, Fits(j), j.step = "start"
    PROVE  /\ Fits([j EXCEPT !.step = "fire", !.at = <<>>, !.started = @ \cup {<<j.of, j.at[1], j.at[2]>>}])
           /\ <<j.of, j.at[1], j.at[2]>> \in Minted(j.of)
<1>1. j \in Job /\ j.of \in Deliveries /\ j.at \in Owed(j.of)
  BY DEF Fits, FireSteps, Taking
<1>2. <<j.of, j.at[1], j.at[2]>> \in Run /\ <<j.of, j.at[1], j.at[2]>> \in Minted(j.of)
  BY <1>1, MintedTypes DEF MintedFor
<1>3. [j EXCEPT !.step = "fire", !.at = <<>>, !.started = @ \cup {<<j.of, j.at[1], j.at[2]>>}] \in Job
  BY <1>1, <1>2 DEF Job
<1> QED
  BY <1>1, <1>2, <1>3 DEF Fits, FireSteps, Taking, Job

LEMMA HeldFits ==
    ASSUME NEW j, Fits(j), j.step \in Taking, NEW next \in {"pause", "count"}
    PROVE  Fits([j EXCEPT !.step = next])
<1>1. j \in Job
  BY DEF Fits
<1>2. [j EXCEPT !.step = next] \in Job
  BY <1>1 DEF Job
<1> QED
  BY <1>1, <1>2 DEF Fits, FireSteps, Taking, Job

LEMMA PauseFits ==
    ASSUME NEW j, Fits(j), j.step = "pause"
    PROVE  Fits([j EXCEPT !.step = "count", !.known[j.at[1]] = "yes"])
<1>1. j \in Job /\ j.at \in Fires
  BY DEF Fits, FireSteps, Taking, Owed
<1>2. [j EXCEPT !.step = "count", !.known[j.at[1]] = "yes"] \in Job
  BY <1>1, ConstantTypes DEF Job
<1> QED
  BY <1>1, <1>2 DEF Fits, FireSteps, Taking, Job

LEMMA JudgedFits ==
    ASSUME TypeOK, NEW j, Fits(j), j.step = "fire", j.todo = {}
    PROVE  Fits([j EXCEPT !.step = "tail", !.drops = Minted(j.of) \ j.started, !.started = {}, !.known = Idle.known])
<1>1. j \in Job /\ j.of \in Deliveries
  BY DEF Fits, FireSteps
<1>2. Minted(j.of) \subseteq Run
  BY <1>1, MintedTypes
<1>3. Idle.known \in [Listens -> {"unread", "yes", "no"}]
  BY DEF Idle
<1>4. [j EXCEPT !.step = "tail", !.drops = Minted(j.of) \ j.started, !.started = {}, !.known = Idle.known] \in Job
  BY <1>1, <1>2, <1>3 DEF Job
<1> QED
  BY <1>1, <1>4 DEF Fits, FireSteps, Taking, Job

LEMMA LookFits ==
    ASSUME TypeOK, NEW j, Fits(j), j.step = "tail", NEW run \in j.drops
    PROVE  /\ Fits([j EXCEPT !.step = "drop", !.at = run, !.drops = @ \ {run}])
           /\ Fits([j EXCEPT !.drops = @ \ {run}])
<1>1. j \in Job /\ j.of \in Deliveries /\ j.drops \subseteq Minted(j.of) /\ j.todo = {} /\ run \in Run
  BY MintedTypes DEF Fits, FireSteps
<1>2. [j EXCEPT !.step = "drop", !.at = run, !.drops = @ \ {run}] \in Job /\ [j EXCEPT !.drops = @ \ {run}] \in Job
  BY <1>1 DEF Job
<1> QED
  BY <1>1, <1>2 DEF Fits, FireSteps, Taking, Job

LEMMA DropFits ==
    ASSUME NEW j, Fits(j), j.step = "drop"
    PROVE  Fits([j EXCEPT !.step = "tail", !.at = <<>>])
<1>1. j \in Job
  BY DEF Fits
<1>2. [j EXCEPT !.step = "tail", !.at = <<>>] \in Job
  BY <1>1 DEF Job
<1> QED
  BY <1>1, <1>2 DEF Fits, FireSteps, Taking, Job

LEMMA ForgetFits ==
    ASSUME NEW j, Fits(j), j.step \in FireSteps
    PROVE  Fits([j EXCEPT !.step = "forget"])
<1>1. j \in Job
  BY DEF Fits
<1>2. [j EXCEPT !.step = "forget"] \in Job
  BY <1>1 DEF Job
<1> QED
  BY <1>1, <1>2 DEF Fits, FireSteps, Taking, Job

Moved(w, j) == job' = [job EXCEPT ![w] = j]

\* A process at a delivery goes on to another job that fits, and to no page.
LEMMA WorkMoves ==
    ASSUME ShapeInv, NEW w \in Workers, Works(w) \/ Fail(w) \/ Crash(w) \/ \E d \in Deliveries : Claim(w, d)
    PROVE  (\E j : Fits(j) /\ Moved(w, j) /\ j.step # "page") \/ UNCHANGED job
<1> DEFINE j0 == job[w]
<1>0. TypeOK /\ Fits(j0) /\ j0 \in Job /\ job \in [Workers -> Job]
  BY StateTypes DEF ShapeInv
<1>1. CASE KeepPage(w) \/ Finish(w) \/ Forget(w) \/ Crash(w)
  <2>1. Moved(w, Idle) /\ Idle.step # "page"
    BY <1>1 DEF KeepPage, Finish, Forget, Crash, GoIdle, Moved, Idle
  <2> QED
    BY <2>1, IdleFits
<1>2. CASE Fail(w)
  <2>1. CASE job[w].by = "row"
    <3>1. Moved(w, Idle) /\ Idle.step # "page"
      BY <1>2, <2>1 DEF Fail, GoIdle, Moved, Idle
    <3> QED
      BY <3>1, IdleFits
  <2>2. CASE job[w].by # "row"
    <3>1. Moved(w, [j0 EXCEPT !.step = "forget"]) /\ j0.step \in FireSteps
      BY <1>0, <1>2, <2>2 DEF Fail, Goto, Moved, InFire, FireSteps
    <3>2. Fits([j0 EXCEPT !.step = "forget"]) /\ [j0 EXCEPT !.step = "forget"].step # "page"
      BY <1>0, <3>1, ForgetFits DEF Job
    <3> QED
      BY <3>1, <3>2
  <2> QED
    BY <2>1, <2>2
<1>3. CASE Judge(w)
  <2>1. PICK f \in j0.todo, next \in Taking, pause \in {"yes", "no"} :
            Moved(w, [j0 EXCEPT !.step = next, !.todo = @ \ {f}, !.at = f, !.known[f[1]] = pause])
    <3> DEFINE f == CHOOSE g \in job[w].todo : TRUE
               pause == IF job[w].known[f[1]] # "unread" THEN job[w].known[f[1]] ELSE IF paused[f[1]] THEN "yes" ELSE "no"
               next == IF pause = "yes" THEN "held" ELSE IF f \in Looping THEN "loops" ELSE "start"
    <3>1. f \in job[w].todo /\ f \in Fires
      BY <1>0, <1>3 DEF Judge, Job
    <3>2. pause \in {"yes", "no"}
      <4>1. f[1] \in Listens
        BY <3>1, ConstantTypes
      <4>2. job[w].known[f[1]] \in {"unread", "yes", "no"}
        BY <1>0, <4>1 DEF Job
      <4> QED
        BY <4>2
    <3>3. next \in Taking
      BY DEF Taking
    <3>4. job' = [job EXCEPT ![w].step = next, ![w].todo = @ \ {f}, ![w].at = f, ![w].known[f[1]] = pause]
      BY <1>3 DEF Judge
    <3> HIDE DEF f, pause, next
    <3>5. Moved(w, [j0 EXCEPT !.step = next, !.todo = @ \ {f}, !.at = f, !.known[f[1]] = pause])
      BY <1>0, <3>4 DEF Moved
    <3> QED
      BY <3>1, <3>2, <3>3, <3>5
  <2> DEFINE j == [j0 EXCEPT !.step = next, !.todo = @ \ {f}, !.at = f, !.known[f[1]] = pause]
  <2>2. Fits(j)
    BY <1>0, <1>3, JudgeFits DEF Judge, At
  <2>3. j.step # "page"
    BY <1>0 DEF Taking, Job
  <2> QED
    BY <2>1, <2>2, <2>3
<1>4. CASE TakenBefore(w) \/ Count(w)
  <2> DEFINE j == [j0 EXCEPT !.step = "fire", !.at = <<>>]
  <2>1. Moved(w, j) /\ j0.step \in FireSteps \ {"tail", "drop"}
    BY <1>0, <1>4 DEF TakenBefore, Count, GoOn, At, Moved, FireSteps
  <2>2. Fits(j) /\ j.step # "page"
    BY <1>0, <2>1, OnFits DEF Job
  <2> QED
    BY <2>1, <2>2
<1>5. CASE Start(w)
  <2> DEFINE j == [j0 EXCEPT !.step = "fire", !.at = <<>>, !.started = @ \cup {<<j0.of, j0.at[1], j0.at[2]>>}]
  <2>1. Moved(w, j) /\ j0.step = "start"
    BY <1>0, <1>5 DEF Start, Take, At, Moved
  <2>2. Fits(j) /\ j.step # "page"
    BY <1>0, <2>1, StartFits DEF Job
  <2> QED
    BY <2>1, <2>2
<1>6. CASE TakeHeld(w)
  <2>1. PICK next \in {"pause", "count"} : Moved(w, [j0 EXCEPT !.step = next])
    BY <1>0, <1>6 DEF TakeHeld, Goto, Moved
  <2>2. j0.step \in Taking
    BY <1>6 DEF TakeHeld, Taking
  <2>3. Fits([j0 EXCEPT !.step = next]) /\ [j0 EXCEPT !.step = next].step # "page"
    BY <1>0, <2>2, HeldFits DEF Job
  <2> QED
    BY <2>1, <2>3
<1>7. CASE Pause(w)
  <2> DEFINE j == [j0 EXCEPT !.step = "count", !.known[j0.at[1]] = "yes"]
  <2>1. Moved(w, j) /\ j0.step = "pause"
    BY <1>0, <1>7 DEF Pause, At, Moved, Listen
  <2>2. Fits(j) /\ j.step # "page"
    BY <1>0, <2>1, PauseFits DEF Job
  <2> QED
    BY <2>1, <2>2
<1>8. CASE Judged(w)
  <2> DEFINE j == [j0 EXCEPT !.step = "tail", !.drops = Minted(j0.of) \ j0.started, !.started = {}, !.known = Idle.known]
  <2>1. Moved(w, j) /\ j0.step = "fire" /\ j0.todo = {}
    BY <1>0, <1>8 DEF Judged, At, Moved
  <2>2. Fits(j) /\ j.step # "page"
    BY <1>0, <2>1, JudgedFits DEF Job
  <2> QED
    BY <2>1, <2>2
<1>9. CASE LookFor(w)
  <2> DEFINE run == CHOOSE r \in job[w].drops : TRUE
  <2>1. run \in j0.drops /\ j0.step = "tail"
    BY <1>9 DEF LookFor, At
  <2>2. Fits([j0 EXCEPT !.step = "drop", !.at = run, !.drops = @ \ {run}]) /\ Fits([j0 EXCEPT !.drops = @ \ {run}])
    BY <1>0, <2>1, LookFits
  <2>3. [j0 EXCEPT !.step = "drop", !.at = run, !.drops = @ \ {run}].step # "page" /\ [j0 EXCEPT !.drops = @ \ {run}].step # "page"
    BY <1>0, <2>1 DEF Job
  <2>4. Moved(w, [j0 EXCEPT !.step = "drop", !.at = run, !.drops = @ \ {run}]) \/ Moved(w, [j0 EXCEPT !.drops = @ \ {run}])
    BY <1>0, <1>9 DEF LookFor, Moved
  <2> QED
    BY <2>2, <2>3, <2>4
<1>10. CASE DropWaits(w)
  <2> DEFINE j == [j0 EXCEPT !.step = "tail", !.at = <<>>]
  <2>1. Moved(w, j) /\ j0.step = "drop"
    BY <1>0, <1>10 DEF DropWaits, At, Moved
  <2>2. Fits(j) /\ j.step # "page"
    BY <1>0, <2>1, DropFits DEF Job
  <2> QED
    BY <2>1, <2>2
<1>11. ASSUME NEW d \in Deliveries, Claim(w, d)
       PROVE  (\E j : Fits(j) /\ Moved(w, j) /\ j.step # "page") \/ UNCHANGED job
  <2>1. CASE ~GivesUp(d)
    <3>1. Moved(w, Firing(d, kept[d].arrivals, "row"))
      BY <1>11, <2>1 DEF Claim, Moved
    <3>2. Firing(d, kept[d].arrivals, "row").step # "page"
      BY DEF Firing, Idle
    <3> QED
      BY <1>0, <3>1, <3>2, FiringFits
  <2>2. CASE GivesUp(d)
    BY <1>11, <2>2 DEF Claim
  <2> QED
    BY <2>1, <2>2
<1> QED
  BY <1>1, <1>2, <1>3, <1>4, <1>5, <1>6, <1>7, <1>8, <1>9, <1>10, <1>11 DEF Works

\* The deliveries and their rows, after a step.
RowsFit ==
    /\ kept' \in Seq(DeliveryType) /\ row' \in Seq(RowType)' /\ Len(row') = Len(kept')
    /\ Grown /\ RowShape' /\ IdsAreTheirs'

\* A step that writes no delivery and, at most, one row.
LEMMA RowsOf ==
    ASSUME ShapeInv, kept' = kept, left'.cap = left.cap,
           \/ row' = row
           \/ \E d \in Deliveries : \E r \in RowType :
                (r.by = Nobody <=> r.state # "claimed") /\ row' = [row EXCEPT ![d] = r]
    PROVE  RowsFit /\ Len(kept') = Len(kept)
<1>0. TypeOK /\ kept \in Seq(DeliveryType) /\ row \in Seq(RowType) /\ Len(row) = Len(kept) /\ Len(kept) \in Nat
  BY StateTypes DEF ShapeInv
<1>1. Grown /\ IdsAreTheirs'
  BY <1>0 DEF Grown, Deliveries, ShapeInv, IdsAreTheirs
<1>2. CASE row' = row
  <2>1. row' \in Seq(RowType)' /\ RowShape'
    BY <1>0, <1>2 DEF RowType, RowShape, ShapeInv, Deliveries
  <2> QED
    BY <1>0, <1>1, <1>2, <2>1 DEF RowsFit
<1>3. ASSUME NEW d \in Deliveries, NEW r \in RowType, r.by = Nobody <=> r.state # "claimed",
             row' = [row EXCEPT ![d] = r]
      PROVE  RowsFit
  <2>1. row' \in Seq(RowType)' /\ Len(row') = Len(row) /\ RowShape'
    BY <1>3, RowWritten
  <2> QED
    BY <1>0, <1>1, <2>1 DEF RowsFit
<1> QED
  BY <1>0, <1>2, <1>3

\* A row given back, done or dead is nobody's.
LEMMA FreeRow ==
    ASSUME TypeOK, NEW d \in Deliveries, NEW state \in {"queued", "done", "dead"}
    PROVE  \E r \in RowType :
              /\ r.by = Nobody /\ r.state = state
              /\ [row EXCEPT ![d].state = state, ![d].by = Nobody] = [row EXCEPT ![d] = r]
<1> DEFINE r == [row[d] EXCEPT !.state = state, !.by = Nobody]
<1>1. row[d] \in RowType /\ row \in Seq(RowType) /\ d \in 1 .. Len(row) /\ DOMAIN row = 1 .. Len(row)
  BY StateTypes
<1>2. r \in RowType /\ r.by = Nobody /\ r.state = state
  BY <1>1 DEF RowType
<1>3. [row EXCEPT ![d].state = state, ![d].by = Nobody] = [row EXCEPT ![d] = r]
  BY <1>1, StateTypes
<1> QED
  BY <1>2, <1>3

\* A process that owns a row is at a delivery.
LEMMA OwnedRow ==
    ASSUME ShapeInv, NEW w \in Workers, InFire(w)
    PROVE  /\ job[w].of \in Deliveries
           /\ Owns(w) => row[job[w].of].state = "claimed" /\ row[job[w].of].by = w
<1>1. Fits(job[w]) /\ job[w].of \in Deliveries
  BY DEF ShapeInv, InFire, Fits, FireSteps
<1> QED
  BY <1>1, ConstantTypes DEF Owns, ShapeInv, RowShape

\* A finish, a failure and a death write their row, if at all, as nobody's.
LEMMA EndedRow ==
    ASSUME ShapeInv, NEW w \in Workers, Finish(w) \/ Fail(w) \/ Crash(w)
    PROVE  \/ row' = row
           \/ /\ InFire(w) /\ job[w].of \in Deliveries
              /\ \E state \in {"queued", "done", "dead"} :
                    row' = [row EXCEPT ![job[w].of].state = state, ![job[w].of].by = Nobody]
<1>1. InFire(w) => job[w].of \in Deliveries
  BY OwnedRow
<1>2. CASE Finish(w)
  BY <1>1, <1>2 DEF Finish, Done, InFire, At
<1>3. CASE Fail(w)
  BY <1>1, <1>3 DEF Fail, Failed
<1>4. CASE Crash(w)
  BY <1>1, <1>4 DEF Crash
<1> QED
  BY <1>2, <1>3, <1>4

\* Every step leaves deliveries and rows in shape; it adds a delivery only
\* where there is room for it.
LEMMA RowsStep ==
    ASSUME ShapeInv, Next, left'.cap = left.cap
    PROVE  /\ RowsFit
           /\ \/ Len(kept') = Len(kept)
              \/ /\ Len(kept') = Len(kept) + 1
                 /\ Room \/ \E w \in Workers : KeepPage(w)
<1>0. TypeOK
  BY DEF ShapeInv
<1>1. ASSUME NEW w \in Workers, NEW a \in Pushed, Receive(w, a)
      PROVE  RowsFit /\ (Len(kept') = Len(kept) \/ (Len(kept') = Len(kept) + 1 /\ Room))
  <2>1. CASE UNCHANGED <<kept, row>>
    <3>1. kept' = kept /\ row' = row
      BY <2>1
    <3>2. RowsFit
      BY <3>1, RowsOf
    <3>3. Len(kept') = Len(kept)
      BY <3>1
    <3> QED
      BY <3>2, <3>3
  <2>2. CASE KeepDelivery({a}, a) /\ Room
    <3>1. /\ kept' \in Seq(DeliveryType) /\ row' \in Seq(RowType)'
          /\ Len(kept') = Len(kept) + 1 /\ Len(row') = Len(row) + 1
          /\ Grown /\ RowShape' /\ IdsAreTheirs'
      BY <2>2, KeepShape, ConstantTypes
    <3> QED
      BY <1>0, <2>2, <3>1, StateTypes DEF RowsFit
  <2> QED
    BY <1>1, <2>1, <2>2 DEF Receive
<1>2. ASSUME NEW w \in Workers, KeepPage(w)
      PROVE  RowsFit /\ (Len(kept') = Len(kept) \/ Len(kept') = Len(kept) + 1)
  <2>1. CASE UNCHANGED <<kept, row>>
    <3>1. kept' = kept /\ row' = row
      BY <2>1
    <3>2. RowsFit /\ Len(kept') = Len(kept)
      BY <3>1, RowsOf
    <3> QED
      BY <3>2
  <2> DEFINE as == {Items[i] : i \in job[w].since + 1 .. job[w].page}
  <2>2. CASE KeepDelivery(as, Nobody) /\ job[w].since # NoCursor
    <3>1. job[w] \in Job
      BY <1>0, StateTypes
    <3>2. job[w].since \in 0 .. Len(Items) /\ job[w].page \in 0 .. Len(Items)
      BY <2>2, <3>1 DEF Job
    <3>3. as \in SUBSET Arrivals
      BY <3>2, ConstantTypes
    <3> HIDE DEF as
    <3>4. /\ kept' \in Seq(DeliveryType) /\ row' \in Seq(RowType)'
          /\ Len(kept') = Len(kept) + 1 /\ Len(row') = Len(row) + 1
          /\ Grown /\ RowShape' /\ IdsAreTheirs'
      BY <2>2, <3>3, KeepShape
    <3> QED
      BY <1>0, <3>4, StateTypes DEF RowsFit
  <2> QED
    BY <1>2, <2>1, <2>2 DEF KeepPage
<1>3. ASSUME NEW w \in Workers, NEW d \in Deliveries, Claim(w, d)
      PROVE  RowsFit /\ Len(kept') = Len(kept)
  <2>1. row[d] \in RowType /\ row \in Seq(RowType) /\ DOMAIN row = 1 .. Len(kept) /\ d \in 1 .. Len(kept) /\ left.cap \in Nat
    BY <1>0, StateTypes
  <2>2. CASE ~GivesUp(d)
    <3> DEFINE r == [state |-> "claimed", by |-> w, attempts |-> row[d].attempts + 1]
    <3>1. row' = [row EXCEPT ![d] = r]
      BY <1>3, <2>1, <2>2 DEF Claim
    <3>2. r \in RowType /\ r.by # Nobody
      BY <2>1, <2>2, ConstantTypes DEF GivesUp, RowType
    <3>3. r.state = "claimed"
      OBVIOUS
    <3> HIDE DEF r
    <3> QED
      BY <1>3, <3>1, <3>2, <3>3, RowsOf DEF Claim
  <2>3. CASE GivesUp(d)
    <3> DEFINE r == [row[d] EXCEPT !.state = "dead"]
    <3>1. row' = [row EXCEPT ![d] = r]
      BY <1>3, <2>1, <2>3 DEF Claim
    <3>2. r \in RowType /\ r.by = Nobody /\ r.state = "dead"
      <4>1. row[d].by = Nobody
        BY <1>3 DEF Claim, ShapeInv, RowShape
      <4> QED
        BY <2>1, <4>1 DEF RowType
    <3> HIDE DEF r
    <3> QED
      BY <1>3, <3>1, <3>2, RowsOf DEF Claim
  <2> QED
    BY <2>2, <2>3
<1>4. ASSUME NEW d \in Deliveries, Outrun(d)
      PROVE  RowsFit /\ Len(kept') = Len(kept)
  <2>1. kept' = kept /\ row' = [row EXCEPT ![d].state = "queued", ![d].by = Nobody]
    BY <1>4 DEF Outrun
  <2>2. \E r \in RowType : r.by = Nobody /\ r.state = "queued" /\ row' = [row EXCEPT ![d] = r]
    BY <1>0, <2>1, FreeRow
  <2> QED
    BY <2>1, <2>2, RowsOf
<1>5. ASSUME NEW w \in Workers, Finish(w) \/ Fail(w) \/ Crash(w)
      PROVE  RowsFit /\ Len(kept') = Len(kept)
  <2>1. kept' = kept
    BY <1>5 DEF Finish, Fail, Crash
  <2>2. CASE row' = row
    BY <2>1, <2>2, RowsOf
  <2>3. ASSUME NEW d \in Deliveries, NEW state \in {"queued", "done", "dead"},
               row' = [row EXCEPT ![d].state = state, ![d].by = Nobody]
        PROVE  RowsFit /\ Len(kept') = Len(kept)
    <3>1. PICK r \in RowType :
              /\ r.by = Nobody /\ r.state = state
              /\ [row EXCEPT ![d].state = state, ![d].by = Nobody] = [row EXCEPT ![d] = r]
      BY <1>0, FreeRow
    <3>2. row' = [row EXCEPT ![d] = r] /\ (r.by = Nobody <=> r.state # "claimed")
      BY <2>3, <3>1
    <3> QED
      BY <2>1, <3>2, RowsOf
  <2> QED
    BY <1>5, <2>2, <2>3, EndedRow
<1>6. ASSUME NEW w \in Workers, Forget(w)
      PROVE  RowsFit /\ Len(kept') = Len(kept)
  <2> DEFINE d == job[w].of
             e == [kept[d] EXCEPT !.id = Nobody]
  <2>1. d \in Deliveries /\ kept[d] \in DeliveryType /\ kept \in Seq(DeliveryType) /\ d \in 1 .. Len(kept) /\ Len(row) = Len(kept)
    <3>1. Fits(job[w]) /\ job[w].step = "forget"
      BY <1>6 DEF ShapeInv, Forget, At
    <3> QED
      BY <1>0, <3>1, StateTypes DEF Fits
  <2>2. e \in DeliveryType /\ e.arrivals = kept[d].arrivals /\ e.id = Nobody
    BY <2>1 DEF DeliveryType
  <2>3. row' = row /\ kept' = [kept EXCEPT ![d] = e]
    BY <1>6, <2>1, LenProperties DEF Forget
  <2> HIDE DEF d, e
  <2>4. /\ kept' \in Seq(DeliveryType) /\ Len(kept') = Len(kept)
        /\ \A i \in 1 .. Len(kept) : kept'[i] = IF i = d THEN e ELSE kept[i]
    BY <2>1, <2>2, <2>3, ExceptSeq
  <2>5. Deliveries' = Deliveries /\ Deliveries = 1 .. Len(kept)
    BY <2>1, <2>4, LenProperties DEF Deliveries
  <2>6. Grown
    BY <2>2, <2>4, <2>5, LenProperties DEF Grown
  <2>7. row' \in Seq(RowType)' /\ RowShape'
    BY <1>0, <2>3, <2>5, StateTypes DEF RowType, RowShape, ShapeInv
  <2>8. IdsAreTheirs'
    BY <2>2, <2>4, <2>5 DEF IdsAreTheirs, ShapeInv
  <2> QED
    BY <2>1, <2>3, <2>4, <2>6, <2>7, <2>8 DEF RowsFit
<1>7. ASSUME UNCHANGED <<kept, row>>
      PROVE  RowsFit /\ Len(kept') = Len(kept)
  BY <1>7, RowsOf
<1>8. ASSUME NEW w \in Workers, Works(w)
      PROVE  KeepPage(w) \/ Finish(w) \/ Forget(w) \/ UNCHANGED <<kept, row>>
  BY <1>8 DEF Works, Judge, TakenBefore, Start, TakeHeld, Pause, Count, Judged, LookFor, DropWaits
<1>9. ASSUME List \/ (\E l \in Listens : Resume(l)) \/ (\E w \in Workers : ReadPage(w))
      PROVE  UNCHANGED <<kept, row>>
  BY <1>9 DEF List, Resume, ReadPage
<1> QED
  BY <1>1, <1>2, <1>3, <1>4, <1>5, <1>6, <1>7, <1>8, <1>9 DEF Next

\* Where there is room, and where a page is at hand, one more delivery fits.
LEMMA RoomForOne ==
    ASSUME ShapeInv, Room \/ \E w \in Workers : At(w, "page")
    PROVE  Len(kept) + 1 <= MaxKept
<1>1. IsFiniteSet(Pages) /\ Len(kept) + Cardinality(Pages) <= MaxKept /\ Len(kept) \in Nat /\ MaxKept \in Nat
  BY StateTypes, ConstantTypes DEF ShapeInv, RoomKept
<1>2. Cardinality(Pages) \in Nat
  BY <1>1, FS_CardinalityType
<1>3. CASE Room
  BY <1>1, <1>2, <1>3 DEF Room, Pages
<1>4. CASE \E w \in Workers : At(w, "page")
  <2>1. Pages # {}
    BY <1>4 DEF Pages
  <2>2. Cardinality(Pages) # 0
    BY <1>1, <2>1, FS_EmptySet
  <2> QED
    BY <1>1, <1>2, <2>2
<1> QED
  BY <1>3, <1>4

\* The waits of a delivery kept are of runs.
LEMMA KeptWaits ==
    ASSUME ShapeInv, NEW as \in SUBSET Arrivals, NEW id, KeepDelivery(as, id), Len(kept) + 1 <= MaxKept
    PROVE  waits' \subseteq Run
<1>1. Len(kept) + 1 \in 1 .. MaxKept /\ waits \subseteq Run
  BY StateTypes, ConstantTypes DEF ShapeInv, TypeOK
<1>2. \A f \in Fires : f[1] \in Listens /\ f[2] \in Arrivals
  BY ConstantTypes
<1>3. \A f \in Fires : <<Len(kept) + 1, f[1], f[2]>> \in Run
  BY <1>1, <1>2 DEF Run
<1>4. {<<Len(kept) + 1, f[1], f[2]>> : f \in {g \in Fires : g[2] \in as}} \subseteq Run
  BY <1>3
<1> QED
  BY <1>1, <1>4 DEF KeepDelivery

OtherTypes ==
    /\ sent \in [Pushed -> {"unsent", "out", "accepted", "refused"}]
    /\ receipt \in [Fires -> {"none", "run", "held"}]
    /\ runs \subseteq Run /\ waits \subseteq Run
    /\ paused \in [Listens -> BOOLEAN] /\ held \in [Listens -> Nat]
    /\ feed \in {"pulled", "polled"} /\ listed \in 0 .. Len(Items)
    /\ {cursor, armedAt} \subseteq {NoCursor} \cup 0 .. Len(Items)
    /\ left \in [faults : Nat, resumes : Nat, cap : Caps]

\* A bound spent is spent by one, and the cap stays.
LEMMA Spent ==
    ASSUME OtherTypes, NEW bound \in {"faults", "resumes"}, Spend(bound) \/ UNCHANGED left
    PROVE  left' \in [faults : Nat, resumes : Nat, cap : Caps] /\ left'.cap = left.cap
<1>1. CASE UNCHANGED left
  BY <1>1 DEF OtherTypes
<1>2. CASE Spend(bound) /\ bound = "faults"
  <2>1. left' = [left EXCEPT !["faults"] = left["faults"] - 1] /\ left["faults"] \in Nat /\ left["faults"] > 0
    BY <1>2 DEF Spend, OtherTypes
  <2> QED
    BY <2>1 DEF OtherTypes
<1>3. CASE Spend(bound) /\ bound = "resumes"
  <2>1. left' = [left EXCEPT !["resumes"] = left["resumes"] - 1] /\ left["resumes"] \in Nat /\ left["resumes"] > 0
    BY <1>3 DEF Spend, OtherTypes
  <2> QED
    BY <2>1 DEF OtherTypes
<1> QED
  BY <1>1, <1>2, <1>3

\* A sender is answered, or knows what it knew.
LEMMA AnswerType ==
    ASSUME OtherTypes, NEW w \in Workers, NEW a \in {"accepted", "refused"}
    PROVE  Answer(w, a) \in [Pushed -> {"unsent", "out", "accepted", "refused"}]
BY DEF Answer, OtherTypes

\* Every step keeps the types of the rest.
LEMMA OtherStep ==
    ASSUME ShapeInv, Next
    PROVE  OtherTypes' /\ left'.cap = left.cap
<1>0. TypeOK /\ OtherTypes /\ job \in [Workers -> Job]
  BY DEF ShapeInv, TypeOK, OtherTypes
<1>1. ASSUME NEW w \in Workers, NEW a \in Pushed, Receive(w, a)
      PROVE  OtherTypes' /\ left'.cap = left.cap
  <2>1. sent' \in [Pushed -> {"unsent", "out", "accepted", "refused"}]
    BY <1>0, <1>1 DEF Receive, OtherTypes
  <2>2. waits' \subseteq Run
    <3>1. CASE waits' = waits
      BY <1>0, <3>1 DEF OtherTypes
    <3>2. CASE Room /\ KeepDelivery({a}, a)
      BY <3>2, RoomForOne, KeptWaits, ConstantTypes
    <3> QED
      BY <1>1, <3>1, <3>2 DEF Receive
  <2>3. left' \in [faults : Nat, resumes : Nat, cap : Caps] /\ left'.cap = left.cap
    BY <1>0, <1>1, Spent DEF Receive
  <2> QED
    BY <1>0, <1>1, <2>1, <2>2, <2>3 DEF Receive, OtherTypes
<1>2. ASSUME NEW w \in Workers, KeepPage(w)
      PROVE  OtherTypes' /\ left'.cap = left.cap
  <2>1. job[w] \in Job /\ job[w].page \in 0 .. Len(Items) /\ job[w].since \in {NoCursor} \cup 0 .. Len(Items)
    BY <1>0 DEF Job
  <2>2. waits' \subseteq Run
    <3>1. CASE job[w].since = NoCursor
      BY <1>0, <1>2, <3>1 DEF KeepPage, OtherTypes
    <3>2. CASE job[w].since # NoCursor
      <4>1. {Items[i] : i \in job[w].since + 1 .. job[w].page} \in SUBSET Arrivals
        <5>1. job[w].since \in 0 .. Len(Items)
          BY <2>1, <3>2
        <5> QED
          BY <2>1, <5>1, ConstantTypes
      <4>2. KeepDelivery({Items[i] : i \in job[w].since + 1 .. job[w].page}, Nobody)
        BY <1>2, <3>2 DEF KeepPage
      <4>3. Len(kept) + 1 <= MaxKept
        BY <1>2, RoomForOne DEF KeepPage
      <4> QED
        BY <4>1, <4>2, <4>3, KeptWaits
    <3> QED
      BY <3>1, <3>2
  <2>3. {cursor', armedAt'} \subseteq {NoCursor} \cup 0 .. Len(Items)
    BY <1>0, <1>2, <2>1 DEF KeepPage, PageCursor, OtherTypes
  <2> QED
    BY <1>0, <1>2, <2>2, <2>3 DEF KeepPage, OtherTypes
<1>3. ASSUME NEW w \in Workers, NEW d \in Deliveries, Claim(w, d)
      PROVE  OtherTypes' /\ left'.cap = left.cap
  <2>1. left' \in [faults : Nat, resumes : Nat, cap : Caps] /\ left'.cap = left.cap
    BY <1>0, <1>3, Spent DEF Claim
  <2> QED
    BY <1>0, <1>3, <2>1 DEF Claim, OtherTypes
<1>4. ASSUME NEW d \in Deliveries, Outrun(d)
      PROVE  OtherTypes' /\ left'.cap = left.cap
  <2>1. left' \in [faults : Nat, resumes : Nat, cap : Caps] /\ left'.cap = left.cap
    BY <1>0, <1>4, Spent DEF Outrun
  <2> QED
    BY <1>0, <1>4, <2>1 DEF Outrun, OtherTypes
<1>5. ASSUME NEW w \in Workers, Finish(w)
      PROVE  OtherTypes' /\ left'.cap = left.cap
  BY <1>0, <1>5, AnswerType DEF Finish, Done, OtherTypes
<1>6. ASSUME NEW w \in Workers, Fail(w)
      PROVE  OtherTypes' /\ left'.cap = left.cap
  <2>1. left' \in [faults : Nat, resumes : Nat, cap : Caps] /\ left'.cap = left.cap
    BY <1>0, <1>6, Spent DEF Fail
  <2> QED
    BY <1>0, <1>6, <2>1 DEF Fail, Failed, OtherTypes
<1>7. ASSUME NEW w \in Workers, Crash(w)
      PROVE  OtherTypes' /\ left'.cap = left.cap
  <2>1. left' \in [faults : Nat, resumes : Nat, cap : Caps] /\ left'.cap = left.cap
    BY <1>0, <1>7, Spent DEF Crash
  <2> QED
    BY <1>0, <1>7, <2>1, AnswerType DEF Crash, OtherTypes
<1>8. ASSUME NEW w \in Workers, Forget(w)
      PROVE  OtherTypes' /\ left'.cap = left.cap
  BY <1>0, <1>8, AnswerType DEF Forget, OtherTypes
<1>9. ASSUME NEW w \in Workers, Start(w)
      PROVE  OtherTypes' /\ left'.cap = left.cap
  <2>1. Fits(job[w]) /\ job[w].step = "start"
    BY <1>9 DEF ShapeInv, Start, At
  <2>2. job[w].at \in Fires /\ job[w].of \in Deliveries
    BY <2>1 DEF Fits, FireSteps, Taking, Owed
  <2>3. <<job[w].of, job[w].at[1], job[w].at[2]>> \in Run
    <3>1. <<job[w].of, job[w].at[1], job[w].at[2]>> \in Minted(job[w].of)
      BY <1>0, <2>1, StartFits
    <3> QED
      BY <1>0, <2>2, <3>1, MintedTypes
  <2> QED
    BY <1>0, <1>9, <2>2, <2>3 DEF Start, Taken, Take, OtherTypes
<1>10. ASSUME NEW w \in Workers, TakeHeld(w)
       PROVE  OtherTypes' /\ left'.cap = left.cap
  BY <1>0, <1>10 DEF TakeHeld, Taken, Take, OtherTypes
<1>11. ASSUME NEW w \in Workers, Pause(w) \/ Count(w)
       PROVE  OtherTypes' /\ left'.cap = left.cap
  <2>1. Fits(job[w]) /\ job[w].step \in {"pause", "count"}
    BY <1>11 DEF ShapeInv, Pause, Count, At
  <2>2. Listen(w) \in Listens
    BY <2>1, ConstantTypes DEF Fits, Owed, Listen
  <2>3. paused' \in [Listens -> BOOLEAN]
    BY <1>0, <1>11, <2>2 DEF Pause, Count, OtherTypes
  <2>4. held' \in [Listens -> Nat]
    BY <1>0, <1>11, <2>2 DEF Pause, Count, OtherTypes
  <2> QED
    BY <1>0, <1>11, <2>3, <2>4 DEF Pause, Count, OtherTypes
<1>12. ASSUME NEW w \in Workers, Judge(w) \/ TakenBefore(w) \/ Judged(w) \/ LookFor(w) \/ DropWaits(w) \/ ReadPage(w)
       PROVE  OtherTypes' /\ left'.cap = left.cap
  BY <1>0, <1>12 DEF Judge, TakenBefore, Judged, LookFor, DropWaits, ReadPage, OtherTypes
<1>13. ASSUME List \/ \E l \in Listens : Resume(l)
       PROVE  OtherTypes' /\ left'.cap = left.cap
  <2>1. left' \in [faults : Nat, resumes : Nat, cap : Caps] /\ left'.cap = left.cap
    BY <1>0, <1>13, Spent DEF List, Resume
  <2>2. listed' \in 0 .. Len(Items)
    BY <1>0, <1>13, ConstantTypes DEF List, Resume, OtherTypes
  <2>3. paused' \in [Listens -> BOOLEAN] /\ held' \in [Listens -> Nat]
    <3>1. CASE List
      BY <1>0, <3>1 DEF List, OtherTypes
    <3>2. ASSUME NEW l \in Listens, Resume(l)
          PROVE  paused' \in [Listens -> BOOLEAN] /\ held' \in [Listens -> Nat]
      BY <1>0, <3>2 DEF Resume, OtherTypes
    <3> QED
      BY <1>13, <3>1, <3>2
  <2> QED
    BY <1>0, <1>13, <2>1, <2>2, <2>3 DEF List, Resume, OtherTypes
<1> QED
  BY <1>1, <1>2, <1>3, <1>4, <1>5, <1>6, <1>7, <1>8, <1>9, <1>10, <1>11, <1>12, <1>13 DEF Next, Works

\* A job is what it is, wherever it is kept.
LEMMA FitsAs ==
    ASSUME NEW w, NEW j, job'[w] = j, Fits(j)'
    PROVE  Fits(job[w])'
BY DEF Fits, Owed, Minted

\* One process moves, to a job that fits: every process is at one that fits.
LEMMA MovedFits ==
    ASSUME ShapeInv, Grown, NEW w \in Workers, NEW j, Fits(j)', j \in Job, Moved(w, j)
    PROVE  (\A v \in Workers : Fits(job[v])') /\ job' \in [Workers -> Job]
<1>1. job \in [Workers -> Job]
  BY StateTypes DEF ShapeInv
<1>2. \A v \in Workers : job'[v] = IF v = w THEN j ELSE job[v]
  BY <1>1 DEF Moved
<1>3. ASSUME NEW v \in Workers
      PROVE  Fits(job[v])'
  <2>1. CASE v = w
    BY <1>2, <2>1, FitsAs
  <2>2. CASE v # w
    <3>1. PICK c : c = job[v]
      OBVIOUS
    <3>2. Fits(c)
      BY <3>1 DEF ShapeInv
    <3>3. Fits(c)'
      BY <3>2, FitsOn
    <3>4. job'[v] = c
      BY <1>2, <2>2, <3>1
    <3> QED
      BY <3>3, <3>4, FitsAs
  <2> QED
    BY <2>1, <2>2
<1> QED
  BY <1>1, <1>3 DEF Moved

\* No process moves.
LEMMA StillFits ==
    ASSUME ShapeInv, Grown, UNCHANGED job
    PROVE  (\A v \in Workers : Fits(job[v])') /\ job' \in [Workers -> Job]
<1>1. ASSUME NEW v \in Workers
      PROVE  Fits(job[v])'
  <2>1. PICK c : c = job[v]
    OBVIOUS
  <2>2. Fits(c)'
    BY <2>1, FitsOn DEF ShapeInv
  <2> QED
    BY <2>1, <2>2, FitsAs
<1> QED
  BY <1>1, StateTypes DEF ShapeInv

\* The processes that are at a page, once one has moved.
LEMMA PagesMoved ==
    ASSUME ShapeInv, NEW w \in Workers, NEW j, Moved(w, j)
    PROVE  Pages' = IF j.step = "page" THEN Pages \cup {w} ELSE Pages \ {w}
<1>1. job \in [Workers -> Job]
  BY StateTypes DEF ShapeInv
<1>2. \A v \in Workers : job'[v] = IF v = w THEN j ELSE job[v]
  BY <1>1 DEF Moved
<1> QED
  BY <1>2 DEF Pages, At

\* Room is kept while pages leave, and for what comes when there is room.
LEMMA RoomStays ==
    ASSUME ShapeInv,
           \/ Pages' \subseteq Pages /\ Len(kept') = Len(kept)
           \/ Pages' \subseteq Pages /\ Len(kept') = Len(kept) + 1 /\ Room
           \/ (\E w \in Pages : Pages' = Pages \ {w}) /\ Len(kept') = Len(kept) + 1
           \/ (\E w \in Workers \ Pages : Pages' = Pages \cup {w}) /\ Len(kept') = Len(kept) /\ Room
    PROVE  RoomKept'
<1>1. IsFiniteSet(Pages) /\ Len(kept) + Cardinality(Pages) <= MaxKept /\ Len(kept) \in Nat /\ MaxKept \in Nat
      /\ Cardinality(Pages) \in Nat
  BY StateTypes, ConstantTypes, FS_CardinalityType DEF ShapeInv, RoomKept
<1>2. Room => Len(kept) + Cardinality(Pages) < MaxKept
  BY DEF Room, Pages
<1>3. Pages' \subseteq Pages => IsFiniteSet(Pages') /\ Cardinality(Pages') <= Cardinality(Pages) /\ Cardinality(Pages') \in Nat
  BY <1>1, FS_Subset, FS_CardinalityType
<1>4. ASSUME NEW w \in Pages, Pages' = Pages \ {w}
      PROVE  IsFiniteSet(Pages') /\ Cardinality(Pages') = Cardinality(Pages) - 1
  BY <1>1, <1>4, FS_RemoveElement
<1>5. ASSUME NEW w \in Workers \ Pages, Pages' = Pages \cup {w}
      PROVE  IsFiniteSet(Pages') /\ Cardinality(Pages') = Cardinality(Pages) + 1
  BY <1>1, <1>5, FS_AddElement
<1> QED
  BY <1>1, <1>2, <1>3, <1>4, <1>5 DEF RoomKept

\* Every step leaves every process at a job that fits, and room for the pages.
LEMMA JobsStep ==
    ASSUME ShapeInv, Next, RowsFit
    PROVE  (\A v \in Workers : Fits(job[v])') /\ job' \in [Workers -> Job] /\ RoomKept'
<1> DEFINE Goal == (\A v \in Workers : Fits(job[v])') /\ job' \in [Workers -> Job] /\ RoomKept'
<1>0. Grown /\ TypeOK /\ (\A w \in Workers : Fits(job[w]) /\ job[w] \in Job)
  BY DEF RowsFit, ShapeInv, Fits
<1>1. ASSUME UNCHANGED job,
             Len(kept') = Len(kept) \/ (Len(kept') = Len(kept) + 1 /\ Room)
      PROVE  Goal
  <2>1. Pages' = Pages
    BY <1>1 DEF Pages, At
  <2>2. RoomKept'
    BY <1>1, <2>1, RoomStays
  <2> QED
    BY <1>0, <1>1, <2>2, StillFits
<1>2. ASSUME NEW w \in Workers, Works(w) \/ Fail(w) \/ Crash(w) \/ \E d \in Deliveries : Claim(w, d)
      PROVE  Goal
  <2>0. Len(kept') = Len(kept) \/ (KeepPage(w) /\ Len(kept') = Len(kept) + 1)
    <3>1. Works(w) => KeepPage(w) \/ Forget(w) \/ UNCHANGED kept
      BY DEF Works, Judge, TakenBefore, Start, TakeHeld, Pause, Count, Judged, LookFor, DropWaits, Finish
    <3>2. KeepPage(w) => Len(kept') = Len(kept) \/ Len(kept') = Len(kept) + 1
      BY <1>0, StateTypes, AppendProperties DEF KeepPage, KeepDelivery
    <3>3. Forget(w) => Len(kept') = Len(kept)
      <4> HAVE Forget(w)
      <4>1. kept' = [kept EXCEPT ![job[w].of].id = Nobody] /\ job[w].of \in Deliveries
        BY <1>0 DEF Forget, At, Fits
      <4>2. kept \in Seq(DeliveryType) /\ [kept[job[w].of] EXCEPT !.id = Nobody] \in DeliveryType /\ job[w].of \in 1 .. Len(kept)
        BY <1>0, <4>1, StateTypes DEF DeliveryType
      <4>3. kept' = [kept EXCEPT ![job[w].of] = [kept[job[w].of] EXCEPT !.id = Nobody]]
        BY <4>1, <4>2
      <4> QED
        BY <4>2, <4>3, ExceptSeq
    <3>4. Fail(w) \/ Crash(w) \/ (\E d \in Deliveries : Claim(w, d)) => UNCHANGED kept
      BY DEF Fail, Crash, Claim
    <3> QED
      BY <1>2, <3>1, <3>2, <3>3, <3>4
  <2>1. CASE UNCHANGED job
    <3>1. ~KeepPage(w)
      <4>1. KeepPage(w) => job[w].step = "page" /\ job'[w] = Idle
        BY <1>0 DEF KeepPage, At, GoIdle, TypeOK
      <4> QED
        BY <2>1, <4>1 DEF Idle
    <3> QED
      BY <1>1, <2>0, <2>1, <3>1
  <2>2. ASSUME NEW j, Fits(j), Moved(w, j), j.step # "page"
        PROVE  Goal
    <3>1. Fits(j)' /\ j \in Job
      BY <1>0, <2>2, FitsOn DEF Fits
    <3>2. Pages' = Pages \ {w}
      BY <2>2, PagesMoved
    <3>3. KeepPage(w) => w \in Pages
      BY DEF KeepPage, Pages
    <3>4. RoomKept'
      BY <2>0, <3>2, <3>3, RoomStays
    <3> QED
      BY <1>0, <2>2, <3>1, <3>4, MovedFits
  <2> QED
    BY <1>2, <2>1, <2>2, WorkMoves
<1>3. ASSUME NEW w \in Workers, NEW a \in Pushed, Receive(w, a)
      PROVE  Goal
  <2>1. CASE UNCHANGED job
    <3>1. kept' = kept \/ (Room /\ KeepDelivery({a}, a))
      BY <1>3 DEF Receive
    <3>2. kept' = kept \/ (Room /\ Len(kept') = Len(kept) + 1)
      BY <1>0, <3>1, StateTypes, AppendProperties DEF KeepDelivery
    <3> QED
      BY <1>1, <2>1, <3>2
  <2>2. CASE Room /\ KeepDelivery({a}, a) /\ Moved(w, Firing(Len(kept) + 1, {a}, "request"))
    <3>1. PICK j : j = Firing(Len(kept) + 1, {a}, "request")
      OBVIOUS
    <3>2. /\ Deliveries' = 1 .. Len(kept) + 1 /\ Len(kept') = Len(kept) + 1
          /\ kept'[Len(kept) + 1].arrivals = {a}
      <4>1. UNCHANGED left
        <5>1. \/ UNCHANGED job
              \/ UNCHANGED left
          BY <1>3 DEF Receive
        <5>2. job'[w] = Firing(Len(kept) + 1, {a}, "request") /\ job[w].step = "idle"
          BY <1>0, <1>3, <2>2 DEF Moved, TypeOK, Receive, At
        <5> QED
          BY <5>1, <5>2 DEF Firing, Idle
      <4>2. kept'[Len(kept) + 1] = [arrivals |-> {a}, id |-> a] /\ Deliveries' = 1 .. Len(kept) + 1 /\ Len(kept') = Len(kept) + 1
        BY <2>2, <4>1, KeepShape, ConstantTypes
      <4> QED
        BY <4>2
    <3>3. j.step = "fire" /\ j.of = Len(kept) + 1 /\ j.todo = {f \in Fires : f[2] \in {a}} /\ j.by = "request"
      BY <3>1 DEF Firing, Idle
    <3>4. j \in Job
      <4>1. Len(kept) + 1 \in 0 .. MaxKept
        BY <1>0, <2>2, RoomForOne, StateTypes, ConstantTypes
      <4>2. Idle \in Job
        BY IdleFits DEF Fits
      <4> QED
        BY <3>1, <4>1, <4>2 DEF Firing, Job
    <3>5. j.of \in Deliveries' /\ j.todo \subseteq {f \in Fires : f[2] \in kept'[j.of].arrivals}
      BY <1>0, <3>2, <3>3, StateTypes
    <3>6. Fits(j)'
      BY <3>3, <3>4, <3>5 DEF Fits, FireSteps, Taking, Owed
    <3>7. Pages' \subseteq Pages
      BY <2>2, <3>1, <3>3, PagesMoved
    <3>8. RoomKept'
      BY <2>2, <3>2, <3>7, RoomStays
    <3> QED
      BY <1>0, <2>2, <3>1, <3>4, <3>6, <3>8, MovedFits
  <2> QED
    BY <1>3, <2>1, <2>2 DEF Receive, Moved
<1>4. ASSUME NEW w \in Workers, ReadPage(w)
      PROVE  Goal
  <2>1. PICK j : j = [Idle EXCEPT !.step = "page", !.since = cursor, !.page = listed]
    OBVIOUS
  <2>2. Moved(w, j) /\ Room /\ kept' = kept /\ w \notin Pages
    BY <1>4, <2>1 DEF ReadPage, Moved, At, Pages
  <2>3. Fits(j) /\ j \in Job
    BY <1>0, <2>1, PageFits DEF TypeOK, Fits
  <2>4. j.step = "page"
    BY <2>1 DEF Idle
  <2>5. Fits(j)'
    BY <1>0, <2>3, FitsOn
  <2>6. RoomKept'
    BY <2>2, <2>4, PagesMoved, RoomStays
  <2> QED
    BY <1>0, <2>2, <2>3, <2>5, <2>6, MovedFits
<1>5. ASSUME List \/ (\E l \in Listens : Resume(l)) \/ (\E d \in Deliveries : Outrun(d))
      PROVE  Goal
  <2>1. UNCHANGED job /\ kept' = kept
    BY <1>5 DEF List, Resume, Outrun
  <2> QED
    BY <1>1, <2>1
<1> QED
  BY <1>2, <1>3, <1>4, <1>5 DEF Next

\* ShapeInv is inductive.
LEMMA ShapeStep ==
    ASSUME ShapeInv, [Next]_vars
    PROVE  ShapeInv'
<1>1. CASE Next
  <2>1. OtherTypes' /\ left'.cap = left.cap
    BY <1>1, OtherStep
  <2>2. RowsFit
    BY <1>1, <2>1, RowsStep
  <2>3. (\A v \in Workers : Fits(job[v])') /\ job' \in [Workers -> Job] /\ RoomKept'
    BY <1>1, <2>2, JobsStep
  <2>4. Len(kept') <= MaxKept
    <3>1. IsFiniteSet(Pages') /\ Len(kept') + Cardinality(Pages') <= MaxKept
      BY <2>3 DEF RoomKept
    <3>2. Cardinality(Pages') \in Nat /\ Len(kept') \in Nat
      BY <2>2, <3>1, FS_CardinalityType, LenProperties DEF RowsFit
    <3> QED
      BY <3>1, <3>2, ConstantTypes
  <2>5. TypeOK'
    BY <2>1, <2>2, <2>3, <2>4 DEF TypeOK, OtherTypes, RowsFit, DeliveryType, RowType
  <2> QED
    BY <2>2, <2>3, <2>5 DEF ShapeInv, RowsFit
<1>2. CASE UNCHANGED vars
  BY <1>2 DEF vars, ShapeInv, TypeOK, Fits, RoomKept, RowShape, IdsAreTheirs, Deliveries, Owed, Minted, Pages, At
<1> QED
  BY <1>1, <1>2

LEMMA ShapeInit ==
    ASSUME Init
    PROVE  ShapeInv
<1>1. Fits(Idle) /\ Idle \in Job
  BY IdleFits DEF Fits
<1>2. TypeOK
  <2>1. OtherTypes
    <3>1. PICK n \in Caps : left = [faults |-> MaxFaults, resumes |-> MaxResumes, cap |-> n]
      BY DEF Init
    <3>2. left \in [faults : Nat, resumes : Nat, cap : Caps]
      BY <3>1, DeliveriesAssumption
    <3> QED
      BY <3>2, ConstantTypes DEF Init, OtherTypes, NoCursor
  <2>2. job \in [Workers -> Job]
    BY <1>1 DEF Init
  <2>3. kept = <<>> /\ row = <<>> /\ Len(kept) = 0 /\ Len(row) = 0
    BY DEF Init
  <2> QED
    BY <2>1, <2>2, <2>3, ConstantTypes DEF TypeOK, OtherTypes
<1>3. \A w \in Workers : job[w] = Idle
  BY DEF Init
<1>4. RoomKept
  <2>1. Pages = {}
    BY <1>3 DEF Pages, At, Idle
  <2>2. IsFiniteSet(Pages) /\ Cardinality(Pages) = 0
    BY <2>1, FS_EmptySet
  <2> QED
    BY <2>2, ConstantTypes DEF Init, RoomKept
<1>5. RowShape /\ IdsAreTheirs
  BY DEF Init, RowShape, IdsAreTheirs, Deliveries
<1> QED
  BY <1>1, <1>2, <1>3, <1>4, <1>5 DEF ShapeInv

LEMMA ShapeHolds == Spec => []ShapeInv
BY ShapeInit, ShapeStep, PTL DEF Spec

\* Whatever is delivered, polled, claimed, fired, failed or outrun, and in
\* whatever order, the rows, the deliveries and what every process is at keep
\* their types.
THEOREM DeliveriesTypes == Spec => []TypeOK
<1>1. ShapeInv => TypeOK
  BY DEF ShapeInv
<1> QED
  BY <1>1, ShapeHolds, PTL

-----------------------------------------------------------------------------
(* What is taken. *)

\* Only a process that takes an arrival writes receipts or runs.
LEMMA TakingSteps ==
    ASSUME Next
    PROVE  \/ UNCHANGED <<receipt, runs>>
           \/ \E w \in Workers : Start(w) \/ TakeHeld(w)
<1>1. ASSUME NEW w \in Workers, Works(w)
      PROVE  UNCHANGED <<receipt, runs>> \/ Start(w) \/ TakeHeld(w)
  BY <1>1 DEF Works, KeepPage, Judge, TakenBefore, Pause, Count, Judged, LookFor, DropWaits, Finish, Forget
<1>2. ASSUME NEW w \in Workers, (\E a \in Pushed : Receive(w, a)) \/ ReadPage(w) \/ (\E d \in Deliveries : Claim(w, d)) \/ Fail(w) \/ Crash(w)
      PROVE  UNCHANGED <<receipt, runs>>
  BY <1>2 DEF Receive, ReadPage, Claim, Fail, Crash
<1>3. ASSUME List \/ (\E l \in Listens : Resume(l)) \/ (\E d \in Deliveries : Outrun(d))
      PROVE  UNCHANGED <<receipt, runs>>
  BY <1>3 DEF List, Resume, Outrun
<1> QED
  BY <1>1, <1>2, <1>3 DEF Next

\* A receipt is written once.
LEMMA TakenStays ==
    ASSUME ShapeInv, Next
    PROVE  \A f \in Fires : receipt[f] # "none" => receipt'[f] = receipt[f]
<1>1. receipt \in [Fires -> {"none", "run", "held"}]
  BY StateTypes DEF ShapeInv
<1>2. ASSUME NEW w \in Workers, Start(w) \/ TakeHeld(w)
      PROVE  \A f \in Fires : receipt[f] # "none" => receipt'[f] = receipt[f]
  BY <1>1, <1>2 DEF Start, TakeHeld, Taken
<1> QED
  BY <1>1, <1>2, TakingSteps

\* What a process starts: the run its delivery minted for an arrival no one took.
LEMMA StartTakes ==
    ASSUME ShapeInv, NEW w \in Workers, Start(w)
    PROVE  LET f == job[w].at
               run == MintedFor(job[w].of, f)
           IN  /\ job[w].of \in Deliveries /\ f \in Owed(job[w].of) /\ f \in Fires
               /\ run \in Minted(job[w].of) /\ Pair(run) = f /\ run[1] = job[w].of
               /\ receipt[f] = "none" /\ receipt' = [receipt EXCEPT ![f] = "run"]
               /\ runs' = runs \cup {run}
<1>1. Fits(job[w]) /\ job[w].step = "start"
  BY DEF ShapeInv, Start, At
<1>2. job[w].of \in Deliveries /\ job[w].at \in Owed(job[w].of)
  BY <1>1 DEF Fits, FireSteps, Taking
<1>3. /\ MintedFor(job[w].of, job[w].at) \in Minted(job[w].of) /\ Pair(MintedFor(job[w].of, job[w].at)) = job[w].at
      /\ MintedFor(job[w].of, job[w].at)[1] = job[w].of
  BY <1>2, MintedTypes DEF ShapeInv, MintedFor
<1> QED
  BY <1>2, <1>3 DEF Start, Taken, Take, MintedFor, Owed

\* What a process holds is an arrival no one took.
LEMMA HeldTakes ==
    ASSUME ShapeInv, NEW w \in Workers, TakeHeld(w)
    PROVE  /\ job[w].of \in Deliveries /\ job[w].at \in Owed(job[w].of) /\ job[w].at \in Fires
           /\ receipt[job[w].at] = "none" /\ receipt' = [receipt EXCEPT ![job[w].at] = "held"]
           /\ runs' = runs
<1>1. Fits(job[w]) /\ job[w].step \in Taking
  BY DEF ShapeInv, TakeHeld, Taking
<1>2. job[w].of \in Deliveries /\ job[w].at \in Owed(job[w].of)
  BY <1>1 DEF Fits, FireSteps, Taking
<1> QED
  BY <1>2 DEF TakeHeld, Taken, Take, Owed

\* A receipt that says run is of one run, any other of none.
LEMMA RunsAreTakenStep ==
    ASSUME ShapeInv, RunsAreTaken, Next
    PROVE  RunsAreTaken'
<1>0. receipt \in [Fires -> {"none", "run", "held"}]
  BY StateTypes DEF ShapeInv
<1>1. CASE UNCHANGED <<receipt, runs>>
  BY <1>1 DEF RunsAreTaken, RunsOf
<1>2. ASSUME NEW w \in Workers, Start(w)
      PROVE  RunsAreTaken'
  <2>1. PICK g, run : g = job[w].at /\ run = MintedFor(job[w].of, job[w].at)
    OBVIOUS
  <2>2. g \in Fires /\ receipt[g] = "none" /\ receipt' = [receipt EXCEPT ![g] = "run"] /\ runs' = runs \cup {run} /\ Pair(run) = g
    BY <1>2, <2>1, StartTakes
  <2>3. SUFFICES ASSUME NEW f \in Fires
                 PROVE  IF receipt'[f] = "run" THEN \E r \in runs' : RunsOf(f)' = {r} ELSE RunsOf(f)' = {}
    BY DEF RunsAreTaken
  <2>4. RunsOf(f)' = IF f = g THEN RunsOf(f) \cup {run} ELSE RunsOf(f)
    BY <2>2 DEF RunsOf
  <2>5. CASE f = g
    <3>1. RunsOf(f) = {}
      BY <2>2, <2>5 DEF RunsAreTaken
    <3>2. RunsOf(f)' = {run} /\ receipt'[f] = "run"
      BY <1>0, <2>2, <2>4, <2>5, <3>1
    <3> QED
      BY <2>2, <3>2
  <2>6. CASE f # g
    <3>1. receipt'[f] = receipt[f] /\ RunsOf(f)' = RunsOf(f)
      BY <1>0, <2>2, <2>4, <2>6
    <3> QED
      BY <2>2, <3>1 DEF RunsAreTaken
  <2> QED
    BY <2>5, <2>6
<1>3. ASSUME NEW w \in Workers, TakeHeld(w)
      PROVE  RunsAreTaken'
  <2>1. /\ job[w].at \in Fires /\ receipt[job[w].at] = "none" /\ receipt' = [receipt EXCEPT ![job[w].at] = "held"]
        /\ runs' = runs
    BY <1>3, HeldTakes
  <2> QED
    BY <1>0, <2>1 DEF RunsAreTaken, RunsOf
<1> QED
  BY <1>1, <1>2, <1>3, TakingSteps

\* A process's attempt, as a step leaves it: where it was with what it has yet
\* to go past, one arrival further, or at the start of a delivery.
AttemptOn(w) ==
    \/ job'[w] = job[w]
    \/ ~InFire(w)'
    \/ /\ job'[w].of \in Deliveries' /\ job'[w].todo = Owed(job[w].of)'
    \/ /\ InFire(w) /\ InFire(w)' /\ job'[w].of = job[w].of
       /\ \A f \in job[w].todo : f \in job'[w].todo \/ (job'[w].step \in Taking /\ job'[w].at = f)
       /\ job[w].step \in Taking => (job[w].at \in Fires => receipt'[job[w].at] # "none")

\* Every step takes every process's attempt on so.
LEMMA AttemptsGoOn ==
    ASSUME ShapeInv, Next, ShapeInv', NEW w \in Workers
    PROVE  AttemptOn(w)
<1>0. /\ job \in [Workers -> Job] /\ Fits(job[w]) /\ job[w] \in Job
      /\ receipt \in [Fires -> {"none", "run", "held"}]
  BY StateTypes DEF ShapeInv
<1>1. ASSUME NEW u \in Workers, NEW j, Moved(u, j), u # w
      PROVE  AttemptOn(w)
  BY <1>0, <1>1 DEF Moved, AttemptOn
<1>2. CASE UNCHANGED job
  BY <1>2 DEF AttemptOn
<1>3. ASSUME GoIdle(w) \/ Goto(w, "forget")
      PROVE  AttemptOn(w)
  <2>1. job'[w].step \in {"idle", "forget"}
    BY <1>0, <1>3 DEF GoIdle, Goto, Idle, Job
  <2> QED
    BY <2>1 DEF AttemptOn, InFire
<1>4. CASE Judge(w)
  <2> DEFINE f == CHOOSE g \in job[w].todo : TRUE
             pause == IF job[w].known[f[1]] # "unread" THEN job[w].known[f[1]] ELSE IF paused[f[1]] THEN "yes" ELSE "no"
             next == IF pause = "yes" THEN "held" ELSE IF f \in Looping THEN "loops" ELSE "start"
  <2>1. job' = [job EXCEPT ![w].step = next, ![w].todo = @ \ {f}, ![w].at = f, ![w].known[f[1]] = pause]
    BY <1>4 DEF Judge
  <2>2. next \in Taking
    BY DEF Taking
  <2> HIDE DEF f, pause, next
  <2>3. job'[w].step = next /\ job'[w].todo = job[w].todo \ {f} /\ job'[w].at = f /\ job'[w].of = job[w].of
    BY <1>0, <2>1 DEF Job
  <2>4. InFire(w) /\ InFire(w)' /\ job[w].step \notin Taking
    BY <1>4, <2>2, <2>3 DEF Judge, At, InFire, Taking
  <2> QED
    BY <2>2, <2>3, <2>4 DEF AttemptOn
<1>5. CASE TakenBefore(w)
  <2>1. job'[w].step = "fire" /\ job'[w].todo = job[w].todo /\ job'[w].of = job[w].of
    BY <1>0, <1>5 DEF TakenBefore, GoOn, Job
  <2>2. InFire(w) /\ InFire(w)' /\ job[w].step \in Taking /\ receipt'[job[w].at] # "none"
    BY <1>5, <2>1 DEF TakenBefore, InFire, Taking, Take
  <2> QED
    BY <2>1, <2>2 DEF AttemptOn
<1>6. CASE Start(w) \/ TakeHeld(w)
  <2>1. job'[w].todo = job[w].todo /\ job'[w].of = job[w].of /\ job'[w].step \in {"fire", "pause", "count"}
    BY <1>0, <1>6 DEF Start, TakeHeld, Goto, Job
  <2>2. InFire(w) /\ InFire(w)'
    BY <1>6, <2>1 DEF Start, TakeHeld, At, InFire
  <2>3. receipt'[job[w].at] # "none"
    BY <1>0, <1>6, StartTakes, HeldTakes
  <2> QED
    BY <2>1, <2>2, <2>3 DEF AttemptOn
<1>7. CASE Pause(w) \/ Count(w)
  <2>1. job'[w].todo = job[w].todo /\ job'[w].of = job[w].of /\ job'[w].step \in {"fire", "count"}
    BY <1>0, <1>7 DEF Pause, Count, GoOn, Job
  <2>2. InFire(w) /\ InFire(w)' /\ job[w].step \notin Taking
    BY <1>7, <2>1 DEF Pause, Count, At, InFire, Taking
  <2> QED
    BY <2>1, <2>2 DEF AttemptOn
<1>8. CASE Judged(w) \/ LookFor(w) \/ DropWaits(w)
  <2>1. job'[w].todo = job[w].todo /\ job'[w].of = job[w].of /\ job'[w].step \in {"tail", "drop"}
    <3>1. CASE Judged(w)
      BY <1>0, <3>1 DEF Judged, Job
    <3>2. CASE LookFor(w)
      BY <1>0, <3>2 DEF LookFor, Job, At
    <3>3. CASE DropWaits(w)
      BY <1>0, <3>3 DEF DropWaits, Job
    <3> QED
      BY <1>8, <3>1, <3>2, <3>3
  <2>2. InFire(w) /\ InFire(w)' /\ job[w].step \notin Taking
    BY <1>8, <2>1 DEF Judged, LookFor, DropWaits, At, InFire, Taking
  <2> QED
    BY <2>1, <2>2 DEF AttemptOn
<1>9. ASSUME NEW d \in Deliveries, Claim(w, d)
      PROVE  AttemptOn(w)
  <2>1. CASE job' = [job EXCEPT ![w] = Firing(d, kept[d].arrivals, "row")]
    <3>1. job'[w] = Firing(d, kept[d].arrivals, "row") /\ kept' = kept
      BY <1>0, <1>9, <2>1 DEF Claim
    <3>2. job'[w].of = d /\ job'[w].todo = {f \in Fires : f[2] \in kept'[d].arrivals}
      BY <3>1 DEF Firing, Idle
    <3> QED
      BY <3>1, <3>2 DEF AttemptOn, Owed, Deliveries
  <2> QED
    BY <1>2, <1>9, <2>1 DEF Claim
<1>10. ASSUME NEW a \in Pushed, Receive(w, a)
       PROVE  AttemptOn(w)
  <2>1. CASE job' = [job EXCEPT ![w] = Firing(Len(kept) + 1, {a}, "request")] /\ KeepDelivery({a}, a)
    <3>1. job'[w] = Firing(Len(kept) + 1, {a}, "request")
      BY <1>0, <2>1
    <3>2. job'[w].of = Len(kept) + 1 /\ job'[w].todo = {f \in Fires : f[2] \in {a}} /\ job'[w].step = "fire"
      BY <3>1 DEF Firing, Idle
    <3>3. kept'[Len(kept) + 1] = [arrivals |-> {a}, id |-> a]
      BY <2>1, StateTypes, AppendProperties DEF ShapeInv, KeepDelivery
    <3>4. job'[w].of \in Deliveries'
      BY <3>2 DEF ShapeInv, Fits, FireSteps
    <3> QED
      BY <3>2, <3>3, <3>4 DEF AttemptOn, Owed
  <2> QED
    BY <1>2, <1>10, <2>1 DEF Receive
<1>11. CASE ReadPage(w)
  <2>1. job'[w].step = "page"
    BY <1>0, <1>11 DEF ReadPage, Idle
  <2> QED
    BY <2>1 DEF AttemptOn, InFire
<1>12. ASSUME NEW u \in Workers, u # w,
              \/ \E a \in Pushed : Receive(u, a)
              \/ ReadPage(u)
              \/ \E d \in Deliveries : Claim(u, d)
              \/ Works(u) \/ Fail(u) \/ Crash(u)
       PROVE  AttemptOn(w)
  <2>1. (\E a \in Pushed : Receive(u, a)) \/ ReadPage(u) => UNCHANGED job \/ \E j : Moved(u, j)
    BY DEF Receive, ReadPage, Moved
  <2> QED
    BY <1>1, <1>2, <1>12, <2>1, WorkMoves
<1>13. ASSUME List \/ (\E l \in Listens : Resume(l)) \/ (\E d \in Deliveries : Outrun(d))
       PROVE  UNCHANGED job
  BY <1>13 DEF List, Resume, Outrun
<1>14. ASSUME KeepPage(w) \/ Finish(w) \/ Forget(w) \/ Fail(w) \/ Crash(w)
       PROVE  GoIdle(w) \/ Goto(w, "forget")
  BY <1>14 DEF KeepPage, Finish, Forget, Fail, Crash
<1> QED
  BY <1>2, <1>3, <1>4, <1>5, <1>6, <1>7, <1>8, <1>9, <1>10, <1>11, <1>12, <1>13, <1>14 DEF Next, Works

\* What an attempt has gone past is taken, still.
LEMMA PassedStep ==
    ASSUME ShapeInv, Next, ShapeInv', RowsFit, PassedIsTaken
    PROVE  PassedIsTaken'
<1> SUFFICES ASSUME NEW w \in Workers, InFire(w)', NEW f \in Owed(job[w].of)'
             PROVE  receipt'[f] # "none" \/ f \in job'[w].todo \/ (job'[w].step \in Taking /\ job'[w].at = f)
  BY DEF PassedIsTaken
<1>0. f \in Fires /\ AttemptOn(w) /\ Grown
  BY AttemptsGoOn DEF Owed, RowsFit
<1>1. ASSUME InFire(w), job'[w].of = job[w].of
      PROVE  f \in Owed(job[w].of) /\ (receipt[f] # "none" \/ f \in job[w].todo \/ (job[w].step \in Taking /\ job[w].at = f))
  <2>1. job[w].of \in Deliveries
    BY <1>1, OwnedRow
  <2>2. kept'[job[w].of].arrivals = kept[job[w].of].arrivals
    BY <1>0, <2>1 DEF Grown
  <2>3. f \in Owed(job[w].of)
    BY <1>1, <2>2 DEF Owed
  <2> QED
    BY <1>1, <2>3 DEF PassedIsTaken
<1>2. receipt[f] # "none" => receipt'[f] # "none"
  BY <1>0, TakenStays
<1>3. CASE job'[w] = job[w]
  <2>1. InFire(w)
    BY <1>3 DEF InFire
  <2> QED
    BY <1>1, <1>2, <1>3, <2>1
<1>4. CASE job'[w].todo = Owed(job[w].of)'
  BY <1>4
<1>5. CASE /\ InFire(w) /\ job'[w].of = job[w].of
           /\ \A g \in job[w].todo : g \in job'[w].todo \/ (job'[w].step \in Taking /\ job'[w].at = g)
           /\ job[w].step \in Taking => (job[w].at \in Fires => receipt'[job[w].at] # "none")
  BY <1>0, <1>1, <1>2, <1>5
<1> QED
  BY <1>0, <1>3, <1>4, <1>5 DEF AttemptOn

\* How a step leaves a delivery's row: dead for good, done only by who is
\* through with it.
RowOn(d) ==
    \/ d \notin Deliveries /\ row'[d].state = "queued"
    \/ d \in Deliveries /\ row'[d] = row[d]
    \/ d \in Deliveries /\ row[d].state # "dead" /\ row'[d].state \in {"queued", "claimed", "dead"}
    \/ d \in Deliveries /\ row[d].state # "dead" /\ row'[d].state = "done" /\ \E w \in Workers : Finish(w) /\ job[w].of = d

LEMMA RowsGoOn ==
    ASSUME ShapeInv, Next, NEW d \in Deliveries'
    PROVE  RowOn(d)
<1>0. /\ row \in Seq(RowType) /\ Deliveries = 1 .. Len(kept) /\ DOMAIN row = Deliveries /\ Len(kept) \in Nat
      /\ \A e \in Deliveries : row[e] \in RowType
      /\ left'.cap = left.cap
  BY StateTypes, OtherStep DEF ShapeInv
<1>1. CASE UNCHANGED <<kept, row>>
  BY <1>0, <1>1 DEF RowOn, Deliveries
<1>2. ASSUME NEW as \in SUBSET Arrivals, NEW id \in Pushed \cup {Nobody}, id # Nobody => as = {id}, KeepDelivery(as, id)
      PROVE  RowOn(d)
  <2>1. /\ Deliveries' = 1 .. Len(kept) + 1 /\ row'[Len(kept) + 1] = NewRow
        /\ \A e \in Deliveries : row'[e] = row[e]
    BY <1>0, <1>2, KeepShape
  <2> QED
    BY <1>0, <2>1 DEF RowOn, NewRow
<1>3. ASSUME NEW w \in Workers, NEW a \in Pushed, Receive(w, a)
      PROVE  RowOn(d)
  <2>1. UNCHANGED <<kept, row>> \/ KeepDelivery({a}, a)
    BY <1>3 DEF Receive
  <2>2. {a} \in SUBSET Arrivals
    BY ConstantTypes
  <2> QED
    BY <1>1, <1>2, <2>1, <2>2
<1>4. ASSUME NEW w \in Workers, KeepPage(w)
      PROVE  RowOn(d)
  <2>1. UNCHANGED <<kept, row>> \/ (job[w].since # NoCursor /\ KeepDelivery({Items[i] : i \in job[w].since + 1 .. job[w].page}, Nobody))
    BY <1>4 DEF KeepPage
  <2>2. job[w] \in Job
    BY StateTypes DEF ShapeInv
  <2>3. job[w].since # NoCursor => {Items[i] : i \in job[w].since + 1 .. job[w].page} \in SUBSET Arrivals
    <3> HAVE job[w].since # NoCursor
    <3>1. job[w].since \in 0 .. Len(Items) /\ job[w].page \in 0 .. Len(Items)
      BY <2>2 DEF Job
    <3> QED
      BY <3>1, ConstantTypes
  <2> QED
    BY <1>1, <1>2, <2>1, <2>3
<1>5. ASSUME NEW w \in Workers, NEW e \in Deliveries, Claim(w, e)
      PROVE  RowOn(d)
  <2>1. d \in Deliveries /\ row[e].state = "queued"
    BY <1>5 DEF Claim, Deliveries
  <2>2. row'[d] = row[d] \/ (d = e /\ row'[d].state \in {"claimed", "dead"})
    <3>1. CASE ~GivesUp(e)
      <4>1. row' = [row EXCEPT ![e] = [state |-> "claimed", by |-> w, attempts |-> row[e].attempts + 1]]
        BY <1>0, <1>5, <3>1 DEF Claim
      <4>2. row'[d] = IF d = e THEN [state |-> "claimed", by |-> w, attempts |-> row[e].attempts + 1] ELSE row[d]
        BY <1>0, <2>1, <4>1
      <4> QED
        BY <4>2
    <3>2. CASE GivesUp(e)
      <4>1. row' = [row EXCEPT ![e] = [row[e] EXCEPT !.state = "dead"]]
        BY <1>0, <1>5, <3>2 DEF Claim
      <4>2. row'[d] = IF d = e THEN [row[e] EXCEPT !.state = "dead"] ELSE row[d]
        BY <1>0, <2>1, <4>1
      <4> QED
        BY <1>0, <4>2 DEF RowType
    <3> QED
      BY <3>1, <3>2
  <2> QED
    BY <2>1, <2>2 DEF RowOn
<1>6. ASSUME NEW e \in Deliveries, Outrun(e)
      PROVE  RowOn(d)
  <2>1. d \in Deliveries /\ row[e].state = "claimed"
    BY <1>6 DEF Outrun, Deliveries
  <2>2. row'[d] = row[d] \/ (d = e /\ row'[d].state = "queued")
    BY <1>0, <1>6, <2>1 DEF Outrun, RowType
  <2> QED
    BY <2>1, <2>2 DEF RowOn
<1>7. ASSUME NEW w \in Workers, Finish(w)
      PROVE  RowOn(d)
  <2>1. d \in Deliveries /\ InFire(w)
    BY <1>7 DEF Finish, Deliveries, InFire, At
  <2>2. job[w].of \in Deliveries /\ (Owns(w) => row[job[w].of].state = "claimed")
    BY <2>1, OwnedRow
  <2>3. row'[d] = row[d] \/ (d = job[w].of /\ row'[d].state = "done" /\ row[d].state \in {"queued", "claimed"})
    BY <1>0, <1>7, <2>1, <2>2 DEF Finish, Done, RowType
  <2> QED
    BY <1>7, <2>1, <2>3 DEF RowOn
<1>8. ASSUME NEW w \in Workers, Fail(w) \/ Crash(w)
      PROVE  RowOn(d)
  <2>1. d \in Deliveries
    BY <1>8 DEF Fail, Crash, Deliveries
  <2>2. CASE row' = row
    BY <2>1, <2>2 DEF RowOn
  <2>3. ASSUME InFire(w), Owns(w), NEW state \in {"queued", "dead"},
               row' = [row EXCEPT ![job[w].of].state = state, ![job[w].of].by = Nobody]
        PROVE  RowOn(d)
    <3>1. job[w].of \in Deliveries /\ row[job[w].of].state = "claimed"
      BY <2>3, OwnedRow
    <3>2. row'[d] = row[d] \/ (d = job[w].of /\ row'[d].state = state)
      BY <1>0, <2>1, <2>3, <3>1 DEF RowType
    <3> QED
      BY <2>1, <3>1, <3>2 DEF RowOn
  <2> QED
    BY <1>8, <2>2, <2>3 DEF Fail, Failed, Crash
<1>9. ASSUME NEW w \in Workers, Forget(w)
      PROVE  RowOn(d)
  <2>1. Fits(job[w]) /\ job[w].of \in Deliveries
    BY <1>9 DEF Forget, At, ShapeInv, Fits
  <2>2. Deliveries' = Deliveries /\ row' = row
    BY <1>9 DEF Forget, Deliveries
  <2> QED
    BY <2>2 DEF RowOn
<1>10. ASSUME NEW w \in Workers, Works(w)
       PROVE  KeepPage(w) \/ Finish(w) \/ Forget(w) \/ UNCHANGED <<kept, row>>
  BY <1>10 DEF Works, Judge, TakenBefore, Start, TakeHeld, Pause, Count, Judged, LookFor, DropWaits
<1>11. ASSUME List \/ (\E l \in Listens : Resume(l)) \/ (\E w \in Workers : ReadPage(w))
       PROVE  UNCHANGED <<kept, row>>
  BY <1>11 DEF List, Resume, ReadPage
<1> QED
  BY <1>1, <1>3, <1>4, <1>5, <1>6, <1>7, <1>8, <1>9, <1>10, <1>11 DEF Next

\* A process through with its delivery leaves nothing of it untaken.
LEMMA AllTaken ==
    ASSUME ShapeInv, PassedIsTaken, NEW w \in Workers, job[w].step \in {"tail", "drop"}
    PROVE  job[w].of \in Deliveries /\ \A f \in Owed(job[w].of) : receipt[f] # "none"
<1>1. InFire(w) /\ job[w].of \in Deliveries /\ job[w].todo = {}
  BY OwnedRow DEF InFire, ShapeInv, Fits
<1> QED
  BY <1>1 DEF PassedIsTaken, Taking

LEMMA DoneStep ==
    ASSUME ShapeInv, Next, RowsFit, PassedIsTaken, DoneIsTaken
    PROVE  DoneIsTaken'
<1> SUFFICES ASSUME NEW d \in Deliveries', row'[d].state = "done", NEW f \in Owed(d)'
             PROVE  receipt'[f] # "none"
  BY DEF DoneIsTaken
<1>1. RowOn(d) /\ f \in Fires /\ (receipt[f] # "none" => receipt'[f] # "none")
  BY RowsGoOn, TakenStays DEF Owed
<1>2. d \in Deliveries /\ f \in Owed(d)
  BY <1>1 DEF RowOn, RowsFit, Grown, Owed
<1>3. CASE row'[d] = row[d]
  BY <1>1, <1>2, <1>3 DEF DoneIsTaken
<1>4. ASSUME NEW w \in Workers, Finish(w), job[w].of = d
      PROVE  receipt[f] # "none"
  BY <1>2, <1>4, AllTaken DEF Finish, At
<1> QED
  BY <1>1, <1>3, <1>4 DEF RowOn

\* How a step leaves the waits: they come with a delivery, and those that go
\* are of a delivery given up or gone through, and of no run.
WaitsOn ==
    /\ \A run \in waits \ waits' :
          /\ run \notin runs
          /\ \E d \in Deliveries :
                run \in Minted(d) /\ (row'[d].state = "dead" \/ \A f \in Owed(d) : receipt[f] # "none")
    /\ \A d \in Deliveries' \ Deliveries : \A f \in Owed(d)' : MintedFor(d, f) \in waits'

LEMMA WaitsGoOn ==
    ASSUME ShapeInv, Next, RowsFit, PassedIsTaken, DropsUnstarted
    PROVE  WaitsOn
<1>0. /\ row \in Seq(RowType) /\ Deliveries = 1 .. Len(kept) /\ DOMAIN row = Deliveries /\ Len(kept) \in Nat
      /\ kept \in Seq(DeliveryType) /\ \A e \in Deliveries : row[e] \in RowType
  BY StateTypes DEF ShapeInv
<1>1. CASE UNCHANGED <<kept, waits>>
  BY <1>1 DEF WaitsOn, Deliveries
<1>2. ASSUME NEW as, NEW id, KeepDelivery(as, id), as \subseteq Arrivals, id \in Pushed \cup {Nobody}
      PROVE  WaitsOn
  <2>1. [arrivals |-> as, id |-> id] \in DeliveryType
    BY <1>2 DEF DeliveryType
  <2>2. /\ kept' \in Seq(DeliveryType) /\ Len(kept') = Len(kept) + 1
        /\ kept'[Len(kept) + 1] = [arrivals |-> as, id |-> id]
    BY <1>0, <1>2, <2>1, AppendProperties DEF KeepDelivery
  <2>3. Deliveries' = 1 .. Len(kept) + 1
    BY <2>2, LenProperties DEF Deliveries
  <2>4. ASSUME NEW d \in Deliveries' \ Deliveries, NEW f \in Owed(d)'
        PROVE  MintedFor(d, f) \in waits'
    <3>1. d = Len(kept) + 1
      BY <1>0, <2>3
    <3>2. f \in Fires /\ f[2] \in as
      <4>1. kept'[d] = [arrivals |-> as, id |-> id]
        BY <2>2, <3>1
      <4>2. kept'[d].arrivals = as
        BY <4>1
      <4> QED
        BY <4>2 DEF Owed
    <3> QED
      BY <1>2, <3>1, <3>2 DEF MintedFor, KeepDelivery
  <2>5. waits \subseteq waits'
    BY <1>2 DEF KeepDelivery
  <2> QED
    BY <2>4, <2>5 DEF WaitsOn
<1>3. ASSUME NEW d \in Deliveries, kept' = kept, waits' = waits \ Unstarted(d),
             row'[d].state = "dead" \/ \A f \in Owed(d) : receipt[f] # "none"
      PROVE  WaitsOn
  BY <1>3 DEF WaitsOn, Unstarted, Deliveries
<1>4. ASSUME NEW w \in Workers, NEW a \in Pushed, Receive(w, a)
      PROVE  WaitsOn
  <2>1. UNCHANGED <<kept, waits>> \/ KeepDelivery({a}, a)
    BY <1>4 DEF Receive
  <2> QED
    BY <1>1, <1>2, <2>1, ConstantTypes
<1>5. ASSUME NEW w \in Workers, KeepPage(w)
      PROVE  WaitsOn
  <2>1. UNCHANGED <<kept, waits>> \/ (job[w].since # NoCursor /\ KeepDelivery({Items[i] : i \in job[w].since + 1 .. job[w].page}, Nobody))
    BY <1>5 DEF KeepPage
  <2>2. job[w] \in Job
    BY StateTypes DEF ShapeInv
  <2>3. job[w].since # NoCursor => {Items[i] : i \in job[w].since + 1 .. job[w].page} \subseteq Arrivals
    <3> HAVE job[w].since # NoCursor
    <3>1. job[w].since \in 0 .. Len(Items) /\ job[w].page \in 0 .. Len(Items)
      BY <2>2 DEF Job
    <3> QED
      BY <3>1, ConstantTypes
  <2> QED
    BY <1>1, <1>2, <2>1, <2>3
<1>6. ASSUME NEW w \in Workers, NEW d \in Deliveries, Claim(w, d)
      PROVE  WaitsOn
  <2>1. CASE ~GivesUp(d)
    BY <1>1, <1>6, <2>1 DEF Claim
  <2>2. CASE GivesUp(d)
    <3>1. kept' = kept /\ waits' = waits \ Unstarted(d) /\ row' = [row EXCEPT ![d].state = "dead"]
      BY <1>6, <2>2 DEF Claim
    <3>2. row'[d].state = "dead"
      BY <1>0, <3>1 DEF RowType
    <3> QED
      BY <1>3, <3>1, <3>2
  <2> QED
    BY <2>1, <2>2
<1>7. ASSUME NEW w \in Workers, Finish(w)
      PROVE  WaitsOn
  <2>1. kept' = kept /\ job[w].of \in Deliveries /\ \A f \in Owed(job[w].of) : receipt[f] # "none"
    BY <1>7, AllTaken DEF Finish, At
  <2>2. waits' = waits \/ waits' = waits \ Unstarted(job[w].of)
    BY <1>7 DEF Finish, Done
  <2> QED
    BY <1>1, <1>3, <2>1, <2>2
<1>8. ASSUME NEW w \in Workers, Fail(w)
      PROVE  WaitsOn
  <2>1. kept' = kept /\ job[w].of \in Deliveries
    BY <1>8, OwnedRow DEF Fail
  <2>2. CASE Owns(w) /\ GivesUp(job[w].of)
    <3>1. waits' = waits \ Unstarted(job[w].of) /\ row' = [row EXCEPT ![job[w].of].state = "dead", ![job[w].of].by = Nobody]
      BY <1>8, <2>2 DEF Fail, Failed
    <3>2. row'[job[w].of].state = "dead"
      BY <1>0, <2>1, <3>1 DEF RowType
    <3> QED
      BY <1>3, <2>1, <3>1, <3>2
  <2>3. CASE ~(Owns(w) /\ GivesUp(job[w].of))
    <3>1. waits' = waits
      BY <1>8, <2>3 DEF Fail, Failed
    <3> QED
      BY <1>1, <2>1, <3>1
  <2> QED
    BY <2>2, <2>3
<1>9. ASSUME NEW w \in Workers, DropWaits(w)
      PROVE  WaitsOn
  <2>1. kept' = kept /\ waits' = waits \ {job[w].at} /\ job[w].step = "drop"
    BY <1>9 DEF DropWaits, At
  <2>2. job[w].of \in Deliveries /\ \A f \in Owed(job[w].of) : receipt[f] # "none"
    BY <2>1, AllTaken
  <2>3. job[w].at \in Minted(job[w].of) /\ job[w].at \notin runs
    BY <2>1 DEF ShapeInv, Fits, DropsUnstarted, At
  <2> QED
    BY <2>1, <2>2, <2>3 DEF WaitsOn, Deliveries
<1>10. ASSUME NEW w \in Workers, Forget(w)
       PROVE  WaitsOn
  <2>1. Deliveries' = Deliveries /\ waits' = waits
    BY <1>10 DEF Forget, Deliveries
  <2> QED
    BY <2>1 DEF WaitsOn
<1>11. ASSUME NEW w \in Workers, Works(w)
       PROVE  KeepPage(w) \/ Finish(w) \/ DropWaits(w) \/ Forget(w) \/ UNCHANGED <<kept, waits>>
  BY <1>11 DEF Works, Judge, TakenBefore, Start, TakeHeld, Pause, Count, Judged, LookFor
<1>12. ASSUME List \/ (\E l \in Listens : Resume(l)) \/ (\E d \in Deliveries : Outrun(d)) \/ (\E w \in Workers : ReadPage(w) \/ Crash(w))
       PROVE  UNCHANGED <<kept, waits>>
  BY <1>12 DEF List, Resume, ReadPage, Outrun, Crash
<1> QED
  BY <1>1, <1>4, <1>5, <1>6, <1>7, <1>8, <1>9, <1>10, <1>11, <1>12 DEF Next

\* What is not taken keeps its waits.
LEMMA UntakenStep ==
    ASSUME ShapeInv, Next, RowsFit, PassedIsTaken, DropsUnstarted, UntakenWaits
    PROVE  UntakenWaits'
<1> SUFFICES ASSUME NEW d \in Deliveries', row'[d].state # "dead", NEW f \in Owed(d)', receipt'[f] = "none"
             PROVE  MintedFor(d, f) \in waits'
  BY DEF UntakenWaits
<1>1. RowOn(d) /\ WaitsOn /\ f \in Fires /\ receipt[f] = "none"
  BY RowsGoOn, WaitsGoOn, TakenStays DEF Owed
<1>2. CASE d \in Deliveries
  <2>1. f \in Owed(d) /\ row[d].state # "dead"
    BY <1>1, <1>2 DEF RowOn, RowsFit, Grown, Owed
  <2>2. MintedFor(d, f) \in waits
    BY <1>1, <1>2, <2>1 DEF UntakenWaits
  <2>3. ASSUME MintedFor(d, f) \notin waits'
        PROVE  FALSE
    <3>1. PICK e \in Deliveries : MintedFor(d, f) \in Minted(e) /\ (row'[e].state = "dead" \/ \A g \in Owed(e) : receipt[g] # "none")
      BY <1>1, <2>2, <2>3 DEF WaitsOn
    <3>2. MintedFor(d, f)[1] = e /\ MintedFor(d, f)[1] = d
      BY <3>1, MintedTypes DEF ShapeInv, MintedFor
    <3> QED
      BY <1>1, <2>1, <3>1, <3>2
  <2> QED
    BY <2>3
<1>3. CASE d \notin Deliveries
  BY <1>1, <1>3 DEF WaitsOn
<1> QED
  BY <1>2, <1>3

\* A run whose waits are dropped was not started, and is not started meanwhile.
LEMMA DropsStep ==
    ASSUME ShapeInv, Next, PassedIsTaken, DropsUnstarted
    PROVE  DropsUnstarted'
<1> SUFFICES ASSUME NEW w \in Workers, job'[w].step = "drop"
             PROVE  job'[w].at \notin runs'
  BY DEF DropsUnstarted, At
<1>0. job \in [Workers -> Job] /\ job[w] \in Job /\ TypeOK
  BY StateTypes DEF ShapeInv
<1>1. CASE job'[w] = job[w]
  <2>1. job[w].step = "drop" /\ job[w].at \notin runs
    BY <1>1 DEF DropsUnstarted, At
  <2>2. job[w].of \in Deliveries /\ job[w].at \in Minted(job[w].of) /\ \A f \in Owed(job[w].of) : receipt[f] # "none"
    BY <2>1, AllTaken DEF ShapeInv, Fits
  <2>3. ASSUME NEW u \in Workers, Start(u)
        PROVE  job[w].at \notin runs'
    <3>1. PICK run, g : run = MintedFor(job[u].of, g) /\ g = job[u].at
      OBVIOUS
    <3>2. receipt[g] = "none" /\ runs' = runs \cup {run} /\ Pair(run) = g
      BY <2>3, <3>1, StartTakes
    <3>3. Pair(job[w].at) \in Owed(job[w].of)
      BY <1>0, <2>2, MintedTypes
    <3> QED
      BY <2>1, <2>2, <3>2, <3>3
  <2> QED
    BY <1>1, <2>1, <2>3, TakingSteps, HeldTakes
<1>2. CASE LookFor(w)
  <2> DEFINE run == CHOOSE r \in job[w].drops : TRUE
  <2>1. job' = IF NeverStarted(run)
               THEN [job EXCEPT ![w].step = "drop", ![w].at = run, ![w].drops = @ \ {run}]
               ELSE [job EXCEPT ![w].drops = @ \ {run}]
    BY <1>2 DEF LookFor
  <2>2. job[w].step = "tail" /\ runs' = runs
    BY <1>2 DEF LookFor, At
  <2> HIDE DEF run
  <2>3. NeverStarted(run) /\ job'[w].at = run
    BY <1>0, <2>1, <2>2 DEF Job
  <2> QED
    BY <2>2, <2>3 DEF NeverStarted
<1>3. ASSUME job'[w].step \in {"idle", "page", "fire", "start", "held", "loops", "pause", "count", "tail", "forget"}
      PROVE  FALSE
  BY <1>3
<1>4. ASSUME Works(w), ~LookFor(w)
      PROVE  FALSE
  <2>1. CASE KeepPage(w) \/ Finish(w) \/ Forget(w)
    BY <1>0, <1>3, <2>1 DEF KeepPage, Finish, Forget, GoIdle, Idle
  <2>2. CASE Judge(w)
    <3> DEFINE f == CHOOSE g \in job[w].todo : TRUE
               pause == IF job[w].known[f[1]] # "unread" THEN job[w].known[f[1]] ELSE IF paused[f[1]] THEN "yes" ELSE "no"
               next == IF pause = "yes" THEN "held" ELSE IF f \in Looping THEN "loops" ELSE "start"
    <3>1. job' = [job EXCEPT ![w].step = next, ![w].todo = @ \ {f}, ![w].at = f, ![w].known[f[1]] = pause]
      BY <2>2 DEF Judge
    <3>2. next \in Taking
      BY DEF Taking
    <3> HIDE DEF f, pause, next
    <3>3. job'[w].step = next
      BY <1>0, <3>1 DEF Job
    <3> QED
      BY <1>3, <3>2, <3>3 DEF Taking
  <2>3. CASE TakenBefore(w) \/ Count(w)
    BY <1>0, <1>3, <2>3 DEF TakenBefore, Count, GoOn, Job
  <2>4. CASE Start(w) \/ TakeHeld(w) \/ Pause(w)
    BY <1>0, <1>3, <2>4 DEF Start, TakeHeld, Pause, Goto, Job
  <2>5. CASE Judged(w) \/ DropWaits(w)
    BY <1>0, <1>3, <2>5 DEF Judged, DropWaits, Job
  <2> QED
    BY <1>4, <2>1, <2>2, <2>3, <2>4, <2>5 DEF Works
<1>5. ASSUME Fail(w) \/ Crash(w) \/ ReadPage(w)
      PROVE  FALSE
  <2>1. GoIdle(w) \/ Goto(w, "forget") \/ job' = [job EXCEPT ![w] = [Idle EXCEPT !.step = "page", !.since = cursor, !.page = listed]]
    BY <1>5 DEF Fail, Crash, ReadPage
  <2>2. job'[w].step \in {"idle", "forget", "page"}
    <3>1. CASE GoIdle(w)
      BY <1>0, <3>1 DEF GoIdle, Idle
    <3>2. CASE Goto(w, "forget")
      BY <1>0, <3>2 DEF Goto, Job
    <3>3. CASE job' = [job EXCEPT ![w] = [Idle EXCEPT !.step = "page", !.since = cursor, !.page = listed]]
      <4>1. job'[w] = [Idle EXCEPT !.step = "page", !.since = cursor, !.page = listed]
        BY <1>0, <3>3
      <4> QED
        BY <4>1 DEF Idle
    <3> QED
      BY <2>1, <3>1, <3>2, <3>3
  <2> QED
    BY <1>3, <2>2
<1>6. ASSUME \E d \in Deliveries : Claim(w, d)
      PROVE  FALSE
  <2>1. PICK d \in Deliveries : Claim(w, d)
    BY <1>6
  <2>2. job[w].step = "idle"
    BY <2>1 DEF Claim, At
  <2>3. job' = job \/ job' = [job EXCEPT ![w] = Firing(d, kept[d].arrivals, "row")]
    BY <2>1 DEF Claim
  <2> QED
    BY <1>0, <1>3, <2>2, <2>3 DEF Firing, Idle
<1>7. ASSUME \E a \in Pushed : Receive(w, a)
      PROVE  FALSE
  <2>1. PICK a \in Pushed : Receive(w, a)
    BY <1>7
  <2>2. job[w].step = "idle"
    BY <2>1 DEF Receive, At
  <2>3. job' = job \/ job' = [job EXCEPT ![w] = Firing(Len(kept) + 1, {a}, "request")]
    BY <2>1 DEF Receive
  <2> QED
    BY <1>0, <1>3, <2>2, <2>3 DEF Firing, Idle
<1>8. ASSUME NEW u \in Workers, u # w,
             \/ \E a \in Pushed : Receive(u, a)
             \/ ReadPage(u)
             \/ \E d \in Deliveries : Claim(u, d)
             \/ Works(u) \/ Fail(u) \/ Crash(u)
      PROVE  job'[w] = job[w]
  <2>1. (\E a \in Pushed : Receive(u, a)) \/ ReadPage(u) => UNCHANGED job \/ \E j : Moved(u, j)
    BY DEF Receive, ReadPage, Moved
  <2>2. UNCHANGED job \/ \E j : Moved(u, j)
    BY <1>8, <2>1, WorkMoves
  <2> QED
    BY <1>0, <1>8, <2>2 DEF Moved
<1>9. ASSUME List \/ (\E l \in Listens : Resume(l)) \/ (\E d \in Deliveries : Outrun(d))
      PROVE  UNCHANGED job
  BY <1>9 DEF List, Resume, Outrun
<1> QED
  BY <1>1, <1>2, <1>4, <1>5, <1>6, <1>7, <1>8, <1>9 DEF Next

\* TakenInv is inductive.
LEMMA TakenStep ==
    ASSUME TakenInv, [Next]_vars
    PROVE  TakenInv'
<1>1. ShapeInv'
  BY ShapeStep DEF TakenInv
<1>2. CASE Next
  <2>1. RowsFit
    BY <1>2, OtherStep, RowsStep DEF TakenInv
  <2> QED
    BY <1>1, <1>2, <2>1, RunsAreTakenStep, PassedStep, DoneStep, UntakenStep, DropsStep DEF TakenInv
<1>3. CASE UNCHANGED vars
  BY <1>1, <1>3 DEF vars, TakenInv, RunsAreTaken, RunsOf, PassedIsTaken, InFire, Owed, DoneIsTaken, Deliveries,
                    UntakenWaits, DropsUnstarted, At
<1> QED
  BY <1>2, <1>3

LEMMA TakenInit ==
    ASSUME Init
    PROVE  TakenInv
<1>1. RunsAreTaken
  BY DEF Init, RunsAreTaken, RunsOf
<1>2. \A w \in Workers : job[w].step = "idle"
  BY DEF Init, Idle
<1>3. PassedIsTaken /\ DropsUnstarted
  BY <1>2 DEF PassedIsTaken, InFire, DropsUnstarted, At
<1>4. DoneIsTaken /\ UntakenWaits
  BY DEF Init, DoneIsTaken, UntakenWaits, Deliveries
<1> QED
  BY <1>1, <1>3, <1>4, ShapeInit DEF TakenInv

LEMMA TakenHolds == Spec => []TakenInv
BY TakenInit, TakenStep, PTL DEF Spec

\* A listen starts one run for an arrival, however often it is delivered,
\* pulled, retried or fired by two processes at once, and none for one it held.
THEOREM OneRunForEach == Spec => []OneRunEach
<1>1. TakenInv => OneRunEach
  <2> SUFFICES ASSUME TakenInv, NEW f \in Fires
               PROVE  Cardinality(RunsOf(f)) <= 1 /\ (receipt[f] = "run" <=> RunsOf(f) # {})
    BY DEF OneRunEach, RunsOf
  <2>1. CASE receipt[f] = "run"
    <3>1. PICK run \in runs : RunsOf(f) = {run}
      BY <2>1 DEF TakenInv, RunsAreTaken
    <3>2. Cardinality(RunsOf(f)) = 1
      BY <3>1, FS_Singleton
    <3> QED
      BY <2>1, <3>1, <3>2
  <2>2. CASE receipt[f] # "run"
    <3>1. RunsOf(f) = {}
      BY <2>2 DEF TakenInv, RunsAreTaken
    <3> QED
      BY <2>2, <3>1, FS_EmptySet
  <2> QED
    BY <2>1, <2>2
<1> QED
  BY <1>1, TakenHolds, PTL

\* A run is started with the waits its delivery opened, and no other attempt,
\* request or burial takes them from it, unless its row was buried before.
THEOREM RunsKeepTheirWaits == Spec => StartedKeepsWaits
<1> DEFINE Kept ==
      \A run \in runs' :
          \/ run \in waits'
          \/ run \in runs /\ run \notin waits
          \/ run \notin runs /\ row[run[1]].state = "dead"
<1>1. ASSUME TakenInv, [Next]_vars
      PROVE  [Kept]_vars
  <2> SUFFICES ASSUME Next, NEW run \in runs'
               PROVE  \/ run \in waits'
                      \/ run \in runs /\ run \notin waits
                      \/ run \notin runs /\ row[run[1]].state = "dead"
    BY <1>1
  <2>1. CASE run \in runs
    <3>1. WaitsOn
      BY <1>1, OtherStep, RowsStep, WaitsGoOn DEF TakenInv
    <3> QED
      BY <2>1, <3>1 DEF WaitsOn
  <2>2. CASE run \notin runs
    <3>1. PICK w \in Workers : Start(w)
      BY <1>1, <2>2, TakingSteps, HeldTakes DEF TakenInv
    <3>2. PICK d, f : d = job[w].of /\ f = job[w].at
      OBVIOUS
    <3>3. run = MintedFor(d, f) /\ run[1] = d /\ d \in Deliveries /\ f \in Owed(d) /\ receipt[f] = "none"
      BY <1>1, <2>2, <3>1, <3>2, StartTakes DEF TakenInv
    <3>4. waits' = waits
      BY <3>1 DEF Start
    <3> QED
      BY <1>1, <2>2, <3>3, <3>4 DEF TakenInv, UntakenWaits
  <2> QED
    BY <2>1, <2>2
<1> QED
  BY <1>1, TakenHolds, PTL DEF Spec, StartedKeepsWaits

-----------------------------------------------------------------------------
(* What is kept. *)

\* A sender told its delivery was accepted has it in a delivery.
LEMMA AcceptedStep ==
    ASSUME ShapeInv, Next, RowsFit, AcceptedIsKept
    PROVE  AcceptedIsKept'
<1> SUFFICES ASSUME NEW a \in Pushed, sent'[a] = "accepted"
             PROVE  \E d \in Deliveries' : a \in kept'[d].arrivals
  BY DEF AcceptedIsKept
<1>0. Grown /\ sent \in [Pushed -> {"unsent", "out", "accepted", "refused"}]
  BY DEF RowsFit, ShapeInv, TypeOK
<1>1. ASSUME \E d \in Deliveries : a \in kept[d].arrivals
      PROVE  \E d \in Deliveries' : a \in kept'[d].arrivals
  BY <1>0, <1>1 DEF Grown
<1>2. CASE sent'[a] = sent[a]
  BY <1>1, <1>2 DEF AcceptedIsKept
<1>3. ASSUME NEW w \in Workers, NEW b \in Pushed, Receive(w, b), sent'[a] # sent[a]
      PROVE  \E d \in Deliveries' : a \in kept'[d].arrivals
  <2>1. b = a
    BY <1>0, <1>3 DEF Receive
  <2>2. CASE KeptBefore(a)
    <3>1. PICK d \in Deliveries : kept[d].id = a
      BY <2>2 DEF KeptBefore
    <3>2. kept[d].arrivals = {a}
      BY <3>1, ConstantTypes DEF ShapeInv, IdsAreTheirs
    <3> QED
      BY <1>1, <3>2
  <2>3. CASE ~KeptBefore(a)
    <3>1. KeepDelivery({a}, a) /\ kept \in Seq(DeliveryType)
      BY <1>3, <2>1, <2>3, StateTypes DEF Receive, ShapeInv
    <3>2. kept'[Len(kept) + 1] = [arrivals |-> {a}, id |-> a] /\ Len(kept') = Len(kept) + 1
      BY <3>1, AppendProperties DEF KeepDelivery
    <3>3. Len(kept) + 1 \in Deliveries'
      BY <3>1, <3>2, LenProperties DEF RowsFit, Deliveries
    <3> QED
      BY <3>2, <3>3
  <2> QED
    BY <2>2, <2>3
<1>4. ASSUME NEW w \in Workers, NEW answer \in {"accepted", "refused"}, sent' = Answer(w, answer), sent'[a] # sent[a],
             answer = "accepted" => Finish(w)
      PROVE  \E d \in Deliveries' : a \in kept'[d].arrivals
  <2>1. sent'[a] = IF {a} = kept[job[w].of].arrivals THEN answer ELSE sent[a]
    BY <1>4 DEF Answer
  <2>2. answer = "accepted" /\ {a} = kept[job[w].of].arrivals
    BY <1>4, <2>1
  <2>3. job[w].of \in Deliveries
    BY <1>4, <2>2, OwnedRow DEF Finish, InFire, At
  <2> QED
    BY <1>1, <2>2, <2>3
<1>5. ASSUME NEW w \in Workers, Finish(w) \/ Forget(w) \/ Crash(w)
      PROVE  \E answer \in {"accepted", "refused"} : sent' = Answer(w, answer) /\ (answer = "accepted" => Finish(w))
  BY <1>5 DEF Finish, Forget, Crash
<1>6. ASSUME NEW w \in Workers, Works(w), ~Finish(w), ~Forget(w)
      PROVE  sent' = sent
  BY <1>6 DEF Works, KeepPage, Judge, TakenBefore, Start, TakeHeld, Pause, Count, Judged, LookFor, DropWaits
<1>7. ASSUME NEW w \in Workers, ReadPage(w) \/ (\E d \in Deliveries : Claim(w, d)) \/ Fail(w)
      PROVE  sent' = sent
  BY <1>7 DEF ReadPage, Claim, Fail
<1>8. ASSUME List \/ (\E l \in Listens : Resume(l)) \/ (\E d \in Deliveries : Outrun(d))
      PROVE  sent' = sent
  BY <1>8 DEF List, Resume, Outrun
<1> QED
  BY <1>2, <1>3, <1>4, <1>5, <1>6, <1>7, <1>8 DEF Next

\* A process is at a page because it was, or has just read it.
LEMMA PagesGoOn ==
    ASSUME ShapeInv, Next, NEW v \in Workers, job'[v].step = "page"
    PROVE  ReadPage(v) \/ (job'[v] = job[v] /\ job[v].step = "page" /\ ~KeepPage(v))
<1>0. job \in [Workers -> Job]
  BY StateTypes DEF ShapeInv
<1>1. CASE UNCHANGED job
  <2>1. KeepPage(v) => job'[v].step = "idle"
    BY <1>0 DEF KeepPage, GoIdle, Idle
  <2> QED
    BY <1>1, <2>1
<1>2. ASSUME NEW w \in Workers, NEW j, Moved(w, j), j.step # "page"
      PROVE  job'[v] = job[v] /\ job[v].step = "page" /\ ~KeepPage(v)
  <2>1. job'[v] = job[v]
    BY <1>0, <1>2 DEF Moved
  <2>2. KeepPage(v) => job'[v].step = "idle"
    BY <1>0 DEF KeepPage, GoIdle, Idle
  <2> QED
    BY <2>1, <2>2
<1>3. ASSUME NEW w \in Workers, NEW a \in Pushed, Receive(w, a)
      PROVE  UNCHANGED job \/ \E j : Moved(w, j) /\ j.step # "page"
  <2>1. UNCHANGED job \/ Moved(w, Firing(Len(kept) + 1, {a}, "request"))
    BY <1>3 DEF Receive, Moved
  <2>2. Firing(Len(kept) + 1, {a}, "request").step = "fire"
    BY DEF Firing, Idle
  <2> QED
    BY <2>1, <2>2
<1>4. ASSUME NEW w \in Workers, ReadPage(w)
      PROVE  w = v \/ (job'[v] = job[v] /\ ~KeepPage(v))
  <2>1. w = v \/ job'[v] = job[v]
    BY <1>0, <1>4 DEF ReadPage
  <2>2. KeepPage(v) => job'[v].step = "idle"
    BY <1>0 DEF KeepPage, GoIdle, Idle
  <2> QED
    BY <2>1, <2>2
<1>5. ASSUME List \/ (\E l \in Listens : Resume(l)) \/ (\E d \in Deliveries : Outrun(d))
      PROVE  UNCHANGED job
  BY <1>5 DEF List, Resume, Outrun
<1> QED
  BY <1>1, <1>2, <1>3, <1>4, <1>5, WorkMoves DEF Next

\* Only a page kept moves the cursor.
LEMMA CursorSteps ==
    ASSUME Next
    PROVE  UNCHANGED feed /\ (UNCHANGED <<cursor, armedAt>> \/ \E w \in Workers : KeepPage(w))
<1>1. ASSUME NEW w \in Workers, Works(w)
      PROVE  UNCHANGED feed /\ (UNCHANGED <<cursor, armedAt>> \/ KeepPage(w))
  BY <1>1 DEF Works, KeepPage, Judge, TakenBefore, Start, TakeHeld, Pause, Count, Judged, LookFor, DropWaits, Finish, Forget
<1>2. ASSUME NEW w \in Workers, (\E a \in Pushed : Receive(w, a)) \/ ReadPage(w) \/ (\E d \in Deliveries : Claim(w, d)) \/ Fail(w) \/ Crash(w)
      PROVE  UNCHANGED <<feed, cursor, armedAt>>
  BY <1>2 DEF Receive, ReadPage, Claim, Fail, Crash
<1>3. ASSUME List \/ (\E l \in Listens : Resume(l)) \/ (\E d \in Deliveries : Outrun(d))
      PROVE  UNCHANGED <<feed, cursor, armedAt>>
  BY <1>3 DEF List, Resume, Outrun
<1> QED
  BY <1>1, <1>2, <1>3 DEF Next

\* What the cursor has passed since it was armed is kept, wherever pages were
\* read from and in whatever order they are kept.
LEMMA CursorStep ==
    ASSUME ShapeInv, Next, RowsFit, CursorInv
    PROVE  CursorInv'
<1>0. /\ Grown /\ job \in [Workers -> Job] /\ UNCHANGED feed
      /\ feed \in {"pulled", "polled"} /\ {cursor, armedAt} \subseteq {NoCursor} \cup 0 .. Len(Items)
      /\ listed \in 0 .. Len(Items) /\ Len(Items) \in Nat
  BY CursorSteps, ConstantTypes DEF RowsFit, ShapeInv, TypeOK
<1>1. ASSUME UNCHANGED armedAt, NEW i, CoveredTo(i)
      PROVE  CoveredTo(i)'
  BY <1>0, <1>1 DEF CoveredTo, Grown
<1>2. CASE UNCHANGED <<cursor, armedAt>>
  <2>1. (armedAt' = NoCursor <=> cursor' = NoCursor) /\ (feed' = "pulled" => cursor' # NoCursor)
    BY <1>0, <1>2 DEF CursorInv
  <2>2. cursor' # NoCursor => CoveredTo(cursor)'
    <3>1. PICK i : i = cursor
      OBVIOUS
    <3>2. i # NoCursor => CoveredTo(i)'
      BY <1>1, <1>2, <3>1 DEF CursorInv
    <3> QED
      BY <1>2, <3>1, <3>2 DEF CoveredTo
  <2>3. ASSUME NEW w \in Workers, job'[w].step = "page"
        PROVE  IF job'[w].since = NoCursor THEN feed' = "polled" /\ cursor' = NoCursor
               ELSE cursor' # NoCursor /\ CoveredTo(job[w].since)'
    <3>1. PICK i : i = job'[w].since
      OBVIOUS
    <3>2. CASE ReadPage(w)
      <4>1. job'[w] = [Idle EXCEPT !.step = "page", !.since = cursor, !.page = listed]
        BY <1>0, <3>2 DEF ReadPage
      <4>2. i = cursor
        BY <3>1, <4>1 DEF Idle
      <4>3. IF i = NoCursor THEN feed = "polled" /\ cursor = NoCursor ELSE cursor # NoCursor /\ CoveredTo(i)
        BY <1>0, <4>2 DEF CursorInv
      <4>4. i # NoCursor => CoveredTo(i)'
        BY <1>1, <1>2, <4>3
      <4> QED
        BY <1>0, <1>2, <3>1, <4>3, <4>4 DEF CoveredTo
    <3>3. CASE job'[w] = job[w] /\ job[w].step = "page"
      <4>1. IF i = NoCursor THEN feed = "polled" /\ cursor = NoCursor ELSE cursor # NoCursor /\ CoveredTo(i)
        BY <3>1, <3>3 DEF CursorInv, At
      <4>2. i # NoCursor => CoveredTo(i)'
        BY <1>1, <1>2, <4>1
      <4> QED
        BY <1>0, <1>2, <3>1, <4>1, <4>2 DEF CoveredTo
    <3> QED
      BY <2>3, <3>2, <3>3, PagesGoOn
  <2>4. ASSUME feed' = "polled", NEW v \in Workers, NEW w \in Workers, job'[v].step = "page", job'[w].step = "page"
        PROVE  v = w
    <3>1. (ReadPage(v) \/ job[v].step = "page") /\ (ReadPage(w) \/ job[w].step = "page")
      BY <2>4, PagesGoOn
    <3>2. ASSUME NEW u \in Workers, ReadPage(u), NEW x \in Workers, x # u
          PROVE  job[x].step # "page" /\ ~ReadPage(x)
      <4>1. job[x].step # "page" /\ job'[x] = job[x] /\ job[u].step = "idle" /\ job'[u].step = "page"
        BY <1>0, <2>4, <3>2 DEF ReadPage, At, Idle
      <4>2. ReadPage(x) => job'[x].step = "page"
        BY <1>0 DEF ReadPage, Idle
      <4> QED
        BY <4>1, <4>2
    <3> QED
      BY <1>0, <2>4, <3>1, <3>2 DEF CursorInv, At
  <2> QED
    BY <2>1, <2>2, <2>3, <2>4 DEF CursorInv, At
<1>3. ASSUME NEW w \in Workers, KeepPage(w)
      PROVE  CursorInv'
  <2>1. job[w].step = "page" /\ cursor' = job[w].page /\ job[w].page \in 0 .. Len(Items)
        /\ job[w].since \in {NoCursor} \cup 0 .. Len(Items)
    BY <1>0, <1>3 DEF KeepPage, At, PageCursor, Job
  <2>2. cursor' # NoCursor /\ cursor' \in Int
    BY <1>0, <2>1 DEF NoCursor
  <2>3. ASSUME NEW v \in Workers, job'[v].step = "page"
        PROVE  v # w /\ job'[v] = job[v] /\ job[v].step = "page"
    <3>1. ~ReadPage(v)
      <4>1. ReadPage(v) => job[v].step = "idle" /\ job'[v].step = "page"
        BY <1>0 DEF ReadPage, At, Idle
      <4>2. job'[w].step = "idle" /\ \A x \in Workers : x # w => job'[x] = job[x]
        BY <1>0, <1>3 DEF KeepPage, GoIdle, Idle
      <4> QED
        BY <4>1, <4>2
    <3> QED
      BY <1>3, <2>3, <3>1, PagesGoOn
  <2>4. CASE job[w].since = NoCursor
    <3>1. feed = "polled" /\ cursor = NoCursor /\ armedAt = NoCursor
      BY <2>1, <2>4 DEF CursorInv, At
    <3>2. armedAt' = cursor'
      BY <1>3, <3>1 DEF KeepPage
    <3>3. CoveredTo(cursor)'
      <4>1. PICK c \in Int : c = cursor'
        BY <2>2
      <4>2. \A j \in c + 1 .. c : FALSE
        OBVIOUS
      <4> QED
        BY <3>2, <4>1, <4>2 DEF CoveredTo
    <3>4. \A v \in Workers : job'[v].step # "page"
      BY <2>1, <2>3, <3>1 DEF CursorInv, At
    <3> QED
      BY <2>2, <3>2, <3>3, <3>4 DEF CursorInv, At
  <2>5. CASE job[w].since # NoCursor
    <3>1. cursor # NoCursor /\ CoveredTo(job[w].since) /\ armedAt # NoCursor
      BY <2>1, <2>5 DEF CursorInv, At
    <3>2. armedAt' = armedAt
      BY <1>3, <3>1 DEF KeepPage
    <3>3. PICK since, page : since = job[w].since /\ page = job[w].page
      OBVIOUS
    <3>4. since \in 0 .. Len(Items) /\ page \in 0 .. Len(Items) /\ armedAt \in 0 .. Len(Items) /\ cursor' = page
      BY <1>0, <2>1, <2>5, <3>1, <3>3
    <3>5. KeepDelivery({Items[i] : i \in since + 1 .. page}, Nobody)
      BY <1>3, <2>5, <3>3 DEF KeepPage
    <3>6. /\ kept'[Len(kept) + 1] = [arrivals |-> {Items[i] : i \in since + 1 .. page}, id |-> Nobody]
          /\ Len(kept') = Len(kept) + 1 /\ Len(kept) + 1 \in Deliveries'
      BY <3>5, StateTypes, AppendProperties, LenProperties DEF KeepDelivery, RowsFit, Deliveries, ShapeInv
    <3>7. kept'[Len(kept) + 1].arrivals = {Items[i] : i \in since + 1 .. page}
      BY <3>6
    <3>8. CoveredTo(page)'
      <4> SUFFICES ASSUME NEW j \in armedAt' + 1 .. page
                   PROVE  \E d \in Deliveries' : Items[j] \in kept'[d].arrivals
        BY DEF CoveredTo
      <4>1. CASE j \in armedAt + 1 .. since
        <5>1. PICK d \in Deliveries : Items[j] \in kept[d].arrivals
          BY <3>1, <3>3, <4>1 DEF CoveredTo
        <5> QED
          BY <1>0, <5>1 DEF Grown
      <4>2. CASE j \in since + 1 .. page
        BY <3>6, <3>7, <4>2
      <4> QED
        BY <3>2, <3>4, <4>1, <4>2
    <3>9. CoveredTo(cursor)'
      BY <3>4, <3>8 DEF CoveredTo
    <3>10. ASSUME NEW v \in Workers, job'[v].step = "page"
           PROVE  job'[v].since # NoCursor /\ CoveredTo(job[v].since)'
      <4>1. PICK i : i = job'[v].since
        OBVIOUS
      <4>2. i # NoCursor /\ CoveredTo(i)
        BY <2>3, <3>1, <3>10, <4>1 DEF CursorInv, At
      <4>3. CoveredTo(i)'
        BY <1>1, <3>2, <4>2
      <4> QED
        BY <4>1, <4>2, <4>3 DEF CoveredTo
    <3>11. ASSUME feed' = "polled", NEW u \in Workers, NEW v \in Workers, job'[u].step = "page", job'[v].step = "page"
           PROVE  u = v
      BY <1>0, <2>3, <3>11 DEF CursorInv, At
    <3> QED
      BY <2>2, <3>1, <3>2, <3>9, <3>10, <3>11 DEF CursorInv, At
  <2> QED
    BY <2>4, <2>5
<1> QED
  BY <1>2, <1>3, CursorSteps

KeptInv == TakenInv /\ CursorInv /\ AcceptedIsKept

LEMMA KeptStep ==
    ASSUME KeptInv, [Next]_vars
    PROVE  KeptInv'
<1>1. TakenInv'
  BY TakenStep DEF KeptInv
<1>2. CASE Next
  <2>1. ShapeInv /\ RowsFit
    BY <1>2, OtherStep, RowsStep DEF KeptInv, TakenInv
  <2> QED
    BY <1>1, <1>2, <2>1, AcceptedStep, CursorStep DEF KeptInv
<1>3. CASE UNCHANGED vars
  BY <1>1, <1>3 DEF vars, KeptInv, CursorInv, CoveredTo, AcceptedIsKept, Deliveries, At
<1> QED
  BY <1>2, <1>3

LEMMA KeptInit ==
    ASSUME Init
    PROVE  KeptInv
<1>1. AcceptedIsKept
  BY DEF Init, AcceptedIsKept
<1>2. \A w \in Workers : job[w].step = "idle"
  BY DEF Init, Idle
<1>3. CursorInv
  <2>1. CASE feed = "pulled" /\ cursor = 0
    <3>1. armedAt = 0 /\ armedAt + 1 .. cursor = {}
      BY <2>1 DEF Init
    <3> QED
      BY <1>2, <2>1, <3>1 DEF CursorInv, CoveredTo, At, NoCursor
  <2>2. CASE feed = "polled" /\ cursor = NoCursor
    BY <1>2, <2>2 DEF Init, CursorInv, At
  <2> QED
    BY <2>1, <2>2 DEF Init
<1> QED
  BY <1>1, <1>3, TakenInit DEF KeptInv

LEMMA KeptHolds == Spec => []KeptInv
BY KeptInit, KeptStep, PTL DEF Spec

\* What was accepted from a sender, or passed by the feed's cursor since it was
\* armed, is in a delivery, and a delivery's row is done only when each of its
\* listens took each of its arrivals: whatever failed, died, was outrun, sent
\* again or read twice.
THEOREM NothingIsLost == Spec => []NothingLost
<1>1. KeptInv => NothingLost
  <2> SUFFICES ASSUME KeptInv
               PROVE  NothingLost
    OBVIOUS
  <2>1. ASSUME NEW d \in Deliveries, row[d].state = "done", NEW run \in Minted(d)
        PROVE  receipt[Pair(run)] # "none"
    <3>1. Pair(run) \in Owed(d)
      BY MintedTypes DEF KeptInv, TakenInv, ShapeInv
    <3> QED
      BY <2>1, <3>1 DEF KeptInv, TakenInv, DoneIsTaken
  <2> QED
    BY <2>1 DEF KeptInv, CursorInv, CoveredTo, AcceptedIsKept, NothingLost
<1> QED
  BY <1>1, KeptHolds, PTL

-----------------------------------------------------------------------------
(* What is held. *)

\* Who has yet to count an arrival has just taken it, or goes on to count it.
LEMMA CountersGoOn ==
    ASSUME ShapeInv, Next, NEW v \in Workers, job'[v].step \in {"pause", "count"}
    PROVE  \/ TakeHeld(v) /\ job'[v].at = job[v].at
           \/ job[v].step \in {"pause", "count"} /\ job'[v].at = job[v].at /\ ~Count(v)
<1> DEFINE Goal == \/ TakeHeld(v) /\ job'[v].at = job[v].at
                   \/ job[v].step \in {"pause", "count"} /\ job'[v].at = job[v].at /\ ~Count(v)
<1>0. job \in [Workers -> Job] /\ job[v] \in Job
  BY StateTypes DEF ShapeInv
<1>1. Count(v) => job'[v].step = "fire"
  BY <1>0 DEF Count, GoOn, Job
<1>2. job'[v] = job[v] => Goal
  BY <1>1
<1>3. ASSUME job'[v].step \in {"idle", "page", "fire", "start", "held", "loops", "tail", "drop", "forget"}
      PROVE  FALSE
  BY <1>3
<1>4. ASSUME Works(v)
      PROVE  Goal
  <2>1. CASE KeepPage(v) \/ Finish(v) \/ Forget(v)
    BY <1>0, <1>3, <2>1 DEF KeepPage, Finish, Forget, GoIdle, Idle
  <2>2. CASE Judge(v)
    <3> DEFINE f == CHOOSE g \in job[v].todo : TRUE
               pause == IF job[v].known[f[1]] # "unread" THEN job[v].known[f[1]] ELSE IF paused[f[1]] THEN "yes" ELSE "no"
               next == IF pause = "yes" THEN "held" ELSE IF f \in Looping THEN "loops" ELSE "start"
    <3>1. job' = [job EXCEPT ![v].step = next, ![v].todo = @ \ {f}, ![v].at = f, ![v].known[f[1]] = pause]
      BY <2>2 DEF Judge
    <3>2. next \in Taking
      BY DEF Taking
    <3> HIDE DEF f, pause, next
    <3>3. job'[v].step = next
      BY <1>0, <3>1 DEF Job
    <3> QED
      BY <1>3, <3>2, <3>3 DEF Taking
  <2>3. CASE TakenBefore(v) \/ Count(v) \/ Start(v)
    BY <1>0, <1>3, <2>3 DEF TakenBefore, Count, GoOn, Start, Job
  <2>4. CASE TakeHeld(v)
    BY <1>0, <2>4 DEF TakeHeld, Goto, Job
  <2>5. CASE Pause(v)
    <3>1. job[v].step = "pause" /\ job'[v].at = job[v].at /\ job'[v].step = "count"
      BY <1>0, <2>5 DEF Pause, At, Job
    <3> QED
      BY <1>1, <3>1
  <2>6. CASE Judged(v) \/ DropWaits(v)
    BY <1>0, <1>3, <2>6 DEF Judged, DropWaits, Job
  <2>7. CASE LookFor(v)
    <3>1. job'[v].step \in {"tail", "drop"}
      BY <1>0, <2>7 DEF LookFor, Job, At
    <3> QED
      BY <1>3, <3>1
  <2> QED
    BY <1>4, <2>1, <2>2, <2>3, <2>4, <2>5, <2>6, <2>7 DEF Works
<1>5. ASSUME Fail(v) \/ Crash(v)
      PROVE  FALSE
  <2>1. GoIdle(v) \/ Goto(v, "forget")
    BY <1>5 DEF Fail, Crash
  <2> QED
    BY <1>0, <1>3, <2>1 DEF GoIdle, Goto, Idle, Job
<1>6. ASSUME ReadPage(v)
      PROVE  FALSE
  <2>1. job'[v] = [Idle EXCEPT !.step = "page", !.since = cursor, !.page = listed]
    BY <1>0, <1>6 DEF ReadPage
  <2> QED
    BY <1>3, <2>1 DEF Idle
<1>7. ASSUME (\E d \in Deliveries : Claim(v, d)) \/ (\E a \in Pushed : Receive(v, a))
      PROVE  Goal
  <2>1. ASSUME NEW d, NEW as, NEW by, job' = [job EXCEPT ![v] = Firing(d, as, by)]
        PROVE  FALSE
    BY <1>0, <1>3, <2>1 DEF Firing, Idle
  <2>2. ASSUME NEW d \in Deliveries, Claim(v, d)
        PROVE  Goal
    <3>1. job' = job \/ job' = [job EXCEPT ![v] = Firing(d, kept[d].arrivals, "row")]
      BY <2>2 DEF Claim
    <3> QED
      BY <1>2, <2>1, <3>1
  <2>3. ASSUME NEW a \in Pushed, Receive(v, a)
        PROVE  Goal
    <3>1. job' = job \/ job' = [job EXCEPT ![v] = Firing(Len(kept) + 1, {a}, "request")]
      BY <2>3 DEF Receive
    <3> QED
      BY <1>2, <2>1, <3>1
  <2> QED
    BY <1>7, <2>2, <2>3
<1>8. ASSUME NEW u \in Workers, u # v,
             \/ \E a \in Pushed : Receive(u, a)
             \/ ReadPage(u)
             \/ \E d \in Deliveries : Claim(u, d)
             \/ Works(u) \/ Fail(u) \/ Crash(u)
      PROVE  job'[v] = job[v]
  <2>1. (\E a \in Pushed : Receive(u, a)) \/ ReadPage(u) => UNCHANGED job \/ \E j : Moved(u, j)
    BY DEF Receive, ReadPage, Moved
  <2>2. UNCHANGED job \/ \E j : Moved(u, j)
    BY <1>8, <2>1, WorkMoves
  <2> QED
    BY <1>0, <1>8, <2>2 DEF Moved
<1>9. ASSUME List \/ (\E l \in Listens : Resume(l)) \/ (\E d \in Deliveries : Outrun(d))
      PROVE  UNCHANGED job
  BY <1>9 DEF List, Resume, Outrun
<1> QED
  BY <1>2, <1>4, <1>5, <1>6, <1>7, <1>8, <1>9 DEF Next

\* Only a count adds to what a listen says it holds.
LEMMA HeldSteps ==
    ASSUME ShapeInv, Next, NEW l \in Listens
    PROVE  \/ held'[l] = held[l]
           \/ held'[l] = 0
           \/ held'[l] = held[l] + 1 /\ \E w \in Workers : Count(w) /\ job[w].at[1] = l
<1>0. held \in [Listens -> Nat]
  BY DEF ShapeInv, TypeOK
<1>1. ASSUME NEW w \in Workers, Count(w)
      PROVE  held'[l] = held[l] \/ (held'[l] = held[l] + 1 /\ job[w].at[1] = l)
  BY <1>0, <1>1 DEF Count, Listen
<1>2. ASSUME NEW k \in Listens, Resume(k)
      PROVE  held'[l] = held[l] \/ held'[l] = 0
  BY <1>0, <1>2 DEF Resume
<1>3. ASSUME NEW w \in Workers, Works(w)
      PROVE  Count(w) \/ UNCHANGED held
  BY <1>3 DEF Works, KeepPage, Judge, TakenBefore, Start, TakeHeld, Pause, Judged, LookFor, DropWaits, Finish, Forget
<1>4. ASSUME NEW w \in Workers, (\E a \in Pushed : Receive(w, a)) \/ ReadPage(w) \/ (\E d \in Deliveries : Claim(w, d)) \/ Fail(w) \/ Crash(w)
      PROVE  UNCHANGED held
  BY <1>4 DEF Receive, ReadPage, Claim, Fail, Crash
<1>5. ASSUME List \/ (\E d \in Deliveries : Outrun(d))
      PROVE  UNCHANGED held
  BY <1>5 DEF List, Outrun
<1> QED
  BY <1>1, <1>2, <1>3, <1>4, <1>5 DEF Next

\* No count is of an arrival another has counted: what a listen says it holds,
\* with what is yet to be counted, is within what it took and held.
LEMMA HeldCountedStep ==
    ASSUME ShapeInv, Next, HeldCounted
    PROVE  HeldCounted'
<1>0. /\ job \in [Workers -> Job] /\ held \in [Listens -> Nat]
      /\ receipt \in [Fires -> {"none", "run", "held"}]
  BY DEF ShapeInv, TypeOK
<1> SUFFICES ASSUME NEW l \in Listens
             PROVE  /\ IsFiniteSet(HeldOf(l)') /\ IsFiniteSet(Counting(l)')
                    /\ held'[l] + Cardinality(Counting(l)') <= Cardinality(HeldOf(l)')
  BY DEF HeldCounted
<1>1. /\ IsFiniteSet(HeldOf(l)) /\ IsFiniteSet(Counting(l))
      /\ held[l] + Cardinality(Counting(l)) <= Cardinality(HeldOf(l))
      /\ Cardinality(HeldOf(l)) \in Nat /\ Cardinality(Counting(l)) \in Nat /\ held[l] \in Nat
  BY <1>0, FS_CardinalityType DEF HeldCounted
<1>2. ASSUME NEW w \in Workers, TakeHeld(w), job[w].at[1] = l
      PROVE  /\ IsFiniteSet(HeldOf(l)') /\ IsFiniteSet(Counting(l)')
             /\ held'[l] + Cardinality(Counting(l)') <= Cardinality(HeldOf(l)')
  <2>1. job[w].at \in Fires /\ receipt[job[w].at] = "none" /\ receipt' = [receipt EXCEPT ![job[w].at] = "held"]
    BY <1>2, HeldTakes
  <2>2. HeldOf(l)' = HeldOf(l) \cup {job[w].at} /\ job[w].at \notin HeldOf(l)
    BY <1>0, <1>2, <2>1 DEF HeldOf
  <2>3. \A v \in Workers : v # w => job'[v] = job[v]
    BY <1>0, <1>2 DEF TakeHeld, Goto
  <2>4. Counting(l)' \subseteq Counting(l) \cup {w} /\ w \notin Counting(l)
    BY <1>2, <2>3 DEF Counting, TakeHeld
  <2>5. held'[l] = held[l]
    BY <1>2 DEF TakeHeld
  <2>6. IsFiniteSet(HeldOf(l)') /\ Cardinality(HeldOf(l)') = Cardinality(HeldOf(l)) + 1
    BY <1>1, <2>2, FS_AddElement
  <2>7. IsFiniteSet(Counting(l) \cup {w}) /\ Cardinality(Counting(l) \cup {w}) = Cardinality(Counting(l)) + 1
    BY <1>1, <2>4, FS_AddElement
  <2>8. IsFiniteSet(Counting(l)') /\ Cardinality(Counting(l)') <= Cardinality(Counting(l)) + 1 /\ Cardinality(Counting(l)') \in Nat
    BY <2>4, <2>7, FS_Subset, FS_CardinalityType
  <2> QED
    BY <1>1, <2>5, <2>6, <2>8
<1>3. ASSUME \A w \in Workers : ~(TakeHeld(w) /\ job[w].at[1] = l)
      PROVE  HeldOf(l)' = HeldOf(l) /\ Counting(l)' \subseteq Counting(l)
  <2>1. Counting(l)' \subseteq Counting(l)
    BY <1>3, CountersGoOn DEF Counting
  <2>2. CASE UNCHANGED <<receipt, runs>>
    BY <2>1, <2>2 DEF HeldOf
  <2>3. ASSUME NEW w \in Workers, Start(w)
        PROVE  HeldOf(l)' = HeldOf(l)
    <3>1. PICK g : g = job[w].at
      OBVIOUS
    <3>2. g \in Fires /\ receipt[g] = "none" /\ receipt' = [receipt EXCEPT ![g] = "run"]
      BY <2>3, <3>1, StartTakes
    <3> QED
      BY <1>0, <3>2 DEF HeldOf
  <2>4. ASSUME NEW w \in Workers, TakeHeld(w)
        PROVE  HeldOf(l)' = HeldOf(l)
    <3>1. receipt' = [receipt EXCEPT ![job[w].at] = "held"] /\ job[w].at[1] # l
      BY <1>3, <2>4, HeldTakes
    <3> QED
      BY <1>0, <3>1 DEF HeldOf
  <2> QED
    BY <2>1, <2>2, <2>3, <2>4, TakingSteps
<1>4. ASSUME \A w \in Workers : ~(TakeHeld(w) /\ job[w].at[1] = l)
      PROVE  /\ IsFiniteSet(HeldOf(l)') /\ IsFiniteSet(Counting(l)')
             /\ held'[l] + Cardinality(Counting(l)') <= Cardinality(HeldOf(l)')
  <2>1. HeldOf(l)' = HeldOf(l) /\ Counting(l)' \subseteq Counting(l)
    BY <1>3, <1>4
  <2>2. IsFiniteSet(Counting(l)') /\ Cardinality(Counting(l)') <= Cardinality(Counting(l)) /\ Cardinality(Counting(l)') \in Nat
    BY <1>1, <2>1, FS_Subset, FS_CardinalityType
  <2>3. CASE held'[l] = held[l] \/ held'[l] = 0
    BY <1>1, <2>1, <2>2, <2>3
  <2>4. ASSUME held'[l] = held[l] + 1, NEW w \in Workers, Count(w), job[w].at[1] = l
        PROVE  held'[l] + Cardinality(Counting(l)') <= Cardinality(HeldOf(l)')
    <3>1. w \in Counting(l)
      BY <2>4 DEF Count, At, Counting
    <3>2. job'[w].step = "fire"
      <4>1. job[w] \in Job
        BY <1>0
      <4> QED
        BY <1>0, <2>4, <4>1 DEF Count, GoOn, Job
    <3>3. Counting(l)' \subseteq Counting(l) \ {w}
      BY <2>1, <3>2 DEF Counting
    <3>4. IsFiniteSet(Counting(l) \ {w}) /\ Cardinality(Counting(l) \ {w}) = Cardinality(Counting(l)) - 1
      BY <1>1, <3>1, FS_RemoveElement
    <3>5. Cardinality(Counting(l)') <= Cardinality(Counting(l)) - 1
      BY <3>3, <3>4, FS_Subset
    <3> QED
      BY <1>1, <2>1, <2>2, <2>4, <3>5
  <2> QED
    BY <1>1, <2>1, <2>2, <2>3, <2>4, HeldSteps
<1> QED
  BY <1>2, <1>4

HeldInv == ShapeInv /\ HeldCounted

LEMMA HeldInit ==
    ASSUME Init
    PROVE  HeldInv
<1>1. ASSUME NEW l \in Listens
      PROVE  HeldOf(l) = {} /\ Counting(l) = {} /\ held[l] = 0
  BY DEF Init, HeldOf, Counting, Idle
<1> QED
  BY <1>1, ShapeInit, FS_EmptySet DEF HeldInv, HeldCounted

LEMMA HeldInvStep ==
    ASSUME HeldInv, [Next]_vars
    PROVE  HeldInv'
<1>1. ShapeInv'
  BY ShapeStep DEF HeldInv
<1>2. CASE Next
  BY <1>1, <1>2, HeldCountedStep DEF HeldInv
<1>3. CASE UNCHANGED vars
  BY <1>1, <1>3 DEF vars, HeldInv, HeldCounted, HeldOf, Counting
<1> QED
  BY <1>2, <1>3

\* What `listens resume` says a listen held is arrivals it took and did not
\* run, none counted twice, however often they were delivered.
THEOREM HeldIsCountedOnce == Spec => []HeldOnce
<1>1. HeldInv => HeldOnce
  <2> SUFFICES ASSUME HeldInv, NEW l \in Listens
               PROVE  held[l] <= Cardinality(HeldOf(l))
    BY DEF HeldOnce, HeldOf
  <2>1. /\ IsFiniteSet(HeldOf(l)) /\ IsFiniteSet(Counting(l))
        /\ held[l] + Cardinality(Counting(l)) <= Cardinality(HeldOf(l))
        /\ held[l] \in Nat
    BY DEF HeldInv, HeldCounted, ShapeInv, TypeOK
  <2>2. Cardinality(Counting(l)) \in Nat /\ Cardinality(HeldOf(l)) \in Nat
    BY <2>1, FS_CardinalityType
  <2> QED
    BY <2>1, <2>2
<1> QED
  BY <1>1, HeldInit, HeldInvStep, PTL DEF Spec
=============================================================================
