----------------------------- MODULE RunHost_proofs -----------------------------
(***************************************************************************)
(* Theorems about RunHost, for every set of timers, waits and processes,   *)
(* every bound and both kinds of fence.                                    *)
(***************************************************************************)
EXTENDS RunHost, TLAPS, FiniteSetTheorems, WellFoundedInduction

(* The parts of the inductive invariants. *)

\* A process's job: one woken is at the row of a wait.
Fits(j) == j \in Job /\ (j.kind = "wake" => j.row \in Awaits)

ShapeInv == TypeOK /\ \A w \in Workers : Fits(job[w])

-----------------------------------------------------------------------------
(* Least times. *)

LEMMA LeastNatural ==
    ASSUME NEW S \in SUBSET Nat, S # {}
    PROVE  \E x \in S : \A y \in S : x <= y
<1> DEFINE R == {ss \in Nat \X Nat : ss[1] < ss[2]}
<1>1. IsWellFoundedOn(R, Nat)
  BY NatLessThanWellFounded DEF OpToRel
<1> HIDE DEF R
<1>2. \E x \in S : \A y \in S : ~(<<y, x>> \in R)
  BY <1>1, WFMin
<1>3. \A x, y \in Nat : ~(<<y, x>> \in R) => x <= y
  BY DEF R
<1> QED
  BY <1>2, <1>3

\* The earliest of some times is one of them.
LEMMA Earliest ==
    ASSUME NEW S \in SUBSET Nat, S # {}
    PROVE  Min(S) \in S /\ Min(S) \in Nat /\ \A y \in S : Min(S) <= y
<1>1. Min(S) \in S /\ \A y \in S : Min(S) <= y
  BY LeastNatural DEF Min
<1> QED
  BY <1>1

-----------------------------------------------------------------------------
(* Shapes. *)

LEMMA ConstantTypes ==
    /\ Horizon \in Nat /\ Bounds \in [BoundNames -> Nat]
    /\ Nobody \notin Workers /\ Gone \notin Workers /\ Nobody # Gone
    /\ NoLeaf \notin Leaves /\ NoLeaf \notin LeafRow /\ NoRow \notin Rows /\ TimerRow \notin Awaits
    /\ Rows = {TimerRow} \cup Awaits /\ Leaves = Timers \cup Awaits
    /\ \A parks \in SUBSET Leaves : IsFiniteSet(parks) /\ Cardinality(parks) \in Nat
<1>1. \A parks \in SUBSET Leaves : IsFiniteSet(parks) /\ Cardinality(parks) \in Nat
  BY AddressesAssumption, FS_Subset, FS_CardinalityType
<1> QED
  BY <1>1, AddressesAssumption, HoldersAssumption, RunBoundsAssumption DEF Leaves, Rows

\* What a bound has left once it is spent.
LEMMA Spent ==
    ASSUME left \in [BoundNames -> Nat], NEW b \in BoundNames, NEW n \in Nat, Spend(b, n)
    PROVE  /\ left' \in [BoundNames -> Nat] /\ left'[b] = left[b] - n /\ left[b] >= n
           /\ \A c \in BoundNames : c # b => left'[c] = left[c]
BY DEF Spend

LEMMA IdleFits == Fits(Idle)
BY DEF Idle, Fits, Job, Kinds, Steps

\* A job that goes on to another step, or starts.
LEMMA GotoFits ==
    ASSUME NEW j, Fits(j), NEW step \in Steps
    PROVE  Fits([j EXCEPT !.step = step])
BY DEF Fits, Job

Moved(w, j) == job' = [job EXCEPT ![w] = j]

LEMMA MovedFits ==
    ASSUME ShapeInv, NEW w \in Workers, NEW j, Fits(j), Moved(w, j)
    PROVE  job' \in [Workers -> Job] /\ \A v \in Workers : Fits(job'[v])
<1>1. job \in [Workers -> Job] /\ j \in Job
  BY DEF ShapeInv, TypeOK, Fits
<1> QED
  BY <1>1 DEF ShapeInv, Moved

\* A process that starts on something.
LEMMA StartedMoves ==
    ASSUME NEW w \in Workers, NEW kind \in Kinds, NEW r \in Rows \cup {NoRow}, kind = "wake" => r \in Awaits,
           Started(w, kind, r)
    PROVE  \E j : Fits(j) /\ Moved(w, j)
<1> DEFINE j == [Idle EXCEPT !.kind = kind, !.step = "lease", !.row = r]
<1>1. Idle \in Job
  BY IdleFits DEF Fits
<1>2. j \in Job /\ j.kind = kind /\ j.row = r
  BY <1>1 DEF Job, Steps
<1>3. Fits(j) /\ Moved(w, j)
  BY <1>2 DEF Fits, Started, Moved
<1> QED
  BY <1>3

LEMMA GotoMoves ==
    ASSUME ShapeInv, NEW w \in Workers, NEW step \in Steps, Goto(w, step)
    PROVE  \E j : Fits(j) /\ Moved(w, j)
<1>1. job \in [Workers -> Job] /\ Fits(job[w])
  BY DEF ShapeInv, TypeOK
<1>2. Fits([job[w] EXCEPT !.step = step])
  BY <1>1, GotoFits
<1>3. Moved(w, [job[w] EXCEPT !.step = step])
  BY <1>1 DEF Goto, Moved
<1> QED
  BY <1>2, <1>3

LEMMA IdleMoves ==
    ASSUME NEW w \in Workers, GoIdle(w)
    PROVE  \E j : Fits(j) /\ Moved(w, j)
<1>1. Moved(w, Idle)
  BY DEF GoIdle, Moved
<1> QED
  BY <1>1, IdleFits

\* Every step leaves every process at a job of its kind.
LEMMA JobsMove ==
    ASSUME ShapeInv, NEW w \in Workers,
           \/ Asks(w) \/ SweepLostRun(w) \/ (\E r \in Rows : TakeRow(w, r))
           \/ Works(w) \/ Crash(w) \/ Stall(w)
    PROVE  UNCHANGED job \/ \E j : Fits(j) /\ Moved(w, j)
<1> DEFINE Goal == UNCHANGED job \/ \E j : Fits(j) /\ Moved(w, j)
           j0 == job[w]
<1>0. job \in [Workers -> Job] /\ Fits(j0) /\ j0 \in Job
  BY DEF ShapeInv, TypeOK
<1>1. CASE Asks(w) \/ SweepLostRun(w)
  <2>1. \E kind \in {"fired", "resume", "rerun", "cancel", "sweep"} : Started(w, kind, NoRow)
    BY <1>1 DEF Asks, Fire, ResumeRun, Rerun, RequestCancel, SweepLostRun
  <2> QED
    BY <2>1, StartedMoves DEF Kinds
<1>2. ASSUME NEW r \in Rows, TakeRow(w, r)
      PROVE  Goal
  <2>1. Started(w, IF r = TimerRow THEN "timer" ELSE "wake", r)
    BY <1>2 DEF TakeRow
  <2>2. CASE r = TimerRow
    BY <2>1, <2>2, StartedMoves DEF Kinds
  <2>3. CASE r # TimerRow
    BY <2>1, <2>3, StartedMoves, ConstantTypes DEF Kinds
  <2> QED
    BY <2>2, <2>3
<1>3. CASE TakeLease(w) \/ EnterFired(w) \/ EnterRerun(w) \/ EnterToFail(w) \/ Recheck(w) \/ TearDown(w)
           \/ FailRun(w) \/ DropFailed(w) \/ ClearIfQuiescent(w) \/ Unlease(w) \/ Outcome(w)
  <2>1. \E step \in {"enter", "segment", "unlease", "drop", "teardown", "quiesce", "next", "outcome", "finish"} : Goto(w, step)
    BY <1>3 DEF TakeLease, EnterFired, EnterRerun, EnterToFail, Recheck, TearDown,
                FailRun, DropFailed, ClearIfQuiescent, Unlease, Outcome
  <2> QED
    BY <2>1, GotoMoves DEF Steps
<1>4. CASE FinishRow(w) \/ FinishCommand(w) \/ Crash(w)
  BY <1>4, IdleMoves DEF FinishRow, FinishCommand, Crash
<1>5. CASE Busy(w)
  <2> DEFINE j == [j0 EXCEPT !.step = "finish", !.lost = TRUE]
  <2>1. Fits(j)
    BY <1>0 DEF Fits, Job, Steps
  <2>2. Moved(w, j)
    BY <1>0, <1>5 DEF Busy, Moved
  <2> QED
    BY <2>1, <2>2
<1>6. CASE EnterDrain(w)
  <2>1. CASE \E step \in {"unlease", "drop"} : Goto(w, step)
    BY <2>1, GotoMoves DEF Steps
  <2>2. CASE job' = [job EXCEPT ![w].step = "next", ![w].todo = Chosen(w)]
    <3> DEFINE j == [j0 EXCEPT !.step = "next", !.todo = Chosen(w)]
    <3>1. Chosen(w) \in SUBSET Leaves
      BY <1>0, <1>6 DEF EnterDrain, Drains, Chosen, Fits, Leaves, ParkedLeaves, ParkedTimers
    <3>2. Fits(j)
      BY <1>0, <3>1 DEF Fits, Job, Steps
    <3>3. Moved(w, j)
      BY <1>0, <2>2 DEF Moved
    <3> QED
      BY <3>2, <3>3
  <2> QED
    BY <1>6, <2>1, <2>2 DEF EnterDrain
<1>7. CASE NextLeaf(w)
  <2>1. CASE job' = [job EXCEPT ![w].step = "unlease", ![w].lost = TRUE]
    <3> DEFINE j == [j0 EXCEPT !.step = "unlease", !.lost = TRUE]
    <3>1. Fits(j)
      BY <1>0 DEF Fits, Job, Steps
    <3>2. Moved(w, j)
      BY <1>0, <2>1 DEF Moved
    <3> QED
      BY <3>1, <3>2
  <2>2. CASE Goto(w, "quiesce")
    BY <2>2, GotoMoves DEF Steps
  <2>3. ASSUME NEW l \in j0.todo, job' = [job EXCEPT ![w].step = "claim", ![w].leaf = l, ![w].todo = @ \ {l}]
        PROVE  Goal
    <3> DEFINE j == [j0 EXCEPT !.step = "claim", !.leaf = l, !.todo = @ \ {l}]
    <3>1. l \in Leaves
      BY <1>0 DEF Job
    <3>2. Fits(j)
      BY <1>0, <3>1 DEF Fits, Job, Steps
    <3>3. Moved(w, j)
      BY <1>0, <2>3 DEF Moved
    <3> QED
      BY <3>2, <3>3
  <2> QED
    BY <1>7, <2>1, <2>2, <2>3 DEF NextLeaf
<1>8. CASE ClaimLeaf(w)
  <2> DEFINE j == [j0 EXCEPT !.step = "segment", !.park = leaf[j0.leaf].park]
  <2>1. leaf[j0.leaf].park \in Nat
    <3>1. j0.leaf \in Leaves /\ leaf[j0.leaf] # NoLeaf
      BY <1>8 DEF ClaimLeaf, ParkedLeaves
    <3>2. leaf[j0.leaf] \in LeafRow
      BY <3>1 DEF ShapeInv, TypeOK
    <3> QED
      BY <3>2 DEF LeafRow
  <2>2. Fits(j)
    BY <1>0, <2>1 DEF Fits, Job, Steps
  <2>3. Moved(w, j)
    BY <1>0, <1>8 DEF ClaimLeaf, Moved
  <2> QED
    BY <2>2, <2>3
<1>9. CASE LeafGone(w)
  <2> DEFINE j == [j0 EXCEPT !.step = "next", !.leaf = NoLeaf]
  <2>1. Fits(j)
    BY <1>0 DEF Fits, Job, Steps
  <2>2. Moved(w, j)
    BY <1>0, <1>9 DEF LeafGone, Moved
  <2> QED
    BY <2>1, <2>2
<1>10. ASSUME NEW settle \in {"parked", "completed", "failed"}, NEW parks \in SUBSET Leaves, SegmentEnds(w, settle, parks)
       PROVE  Goal
  <2> DEFINE j == [j0 EXCEPT !.step = "commit", !.stepped = TRUE, !.settle = settle, !.parks = parks]
  <2>1. Fits(j)
    BY <1>0 DEF Fits, Job, Steps
  <2>2. Moved(w, j)
    BY <1>0, <1>10 DEF SegmentEnds, Moved
  <2> QED
    BY <2>1, <2>2
<1>11. CASE SegmentParks(w) \/ SegmentFinishes(w)
  BY <1>10, <1>11 DEF SegmentParks, SegmentFinishes, Parkable
<1>12. CASE SegmentFails(w)
  <2>1. CASE SegmentEnds(w, "failed", {})
    BY <1>10, <2>1
  <2>2. CASE job' = [job EXCEPT ![w].step = "failing", ![w].stepped = TRUE]
    <3> DEFINE j == [j0 EXCEPT !.step = "failing", !.stepped = TRUE]
    <3>1. Fits(j)
      BY <1>0 DEF Fits, Job, Steps
    <3>2. Moved(w, j)
      BY <1>0, <2>2 DEF Moved
    <3> QED
      BY <3>1, <3>2
  <2> QED
    BY <1>12, <2>1, <2>2 DEF SegmentFails
<1>13. CASE SegmentLosesRun(w)
  <2> DEFINE j == [j0 EXCEPT !.step = "unlease", !.stepped = TRUE, !.lost = TRUE]
  <2>1. Fits(j)
    BY <1>0 DEF Fits, Job, Steps
  <2>2. Moved(w, j)
    BY <1>0, <1>13 DEF SegmentLosesRun, Moved
  <2> QED
    BY <2>1, <2>2
<1>14. CASE Commit(w) \/ SettleAlone(w)
  <2>1. PICK step \in Steps :
            step = CASE job[w].settle = "failed" -> "failing"
                     [] job[w].settle # "failed" /\ job[w].parks # {} -> "recheck"
                     [] OTHER -> IF Fresh(w) THEN "quiesce" ELSE "next"
    BY DEF Steps
  <2> DEFINE j == [j0 EXCEPT !.leaf = NoLeaf, !.park = 0, !.parks = {}, !.settle = "running", !.step = step]
  <2>2. Fits(j)
    BY <1>0 DEF Fits, Job
  <2>3. AfterCommit(w)
    BY <1>14 DEF Commit, SettleAlone
  <2>4. job' = [job EXCEPT ![w].leaf = NoLeaf, ![w].park = 0, ![w].parks = {}, ![w].settle = "running", ![w].step = step]
    BY <2>1, <2>3, Zenon DEF AfterCommit
  <2>5. Moved(w, j)
    BY <1>0, <2>4 DEF Moved
  <2> QED
    BY <2>2, <2>5
<1>15. CASE CommitRefused(w)
  <2> DEFINE j == [j0 EXCEPT !.step = "unlease", !.lost = TRUE]
  <2>1. Fits(j)
    BY <1>0 DEF Fits, Job, Steps
  <2>2. Moved(w, j)
    BY <1>0, <1>15 DEF CommitRefused, Moved
  <2> QED
    BY <2>1, <2>2
<1>16. CASE Stall(w)
  BY <1>16 DEF Stall
<1> QED
  BY <1>1, <1>2, <1>3, <1>4, <1>5, <1>6, <1>7, <1>8, <1>9, <1>11, <1>12, <1>13, <1>14, <1>15, <1>16
  DEF Works, Enters, Segments, Exits

RestTypes ==
    /\ now \in 0..Horizon
    /\ run \in [status : {"none", "running", "parked", "completed", "failed"}, cancel : BOOLEAN, attempt : Nat]
    /\ lease \in [by : Workers \cup {Nobody, Gone}, lapsed : BOOLEAN]
    /\ leaf \in [Leaves -> LeafRow \cup {NoLeaf}]
    /\ wait \in [Awaits -> [logged : Nat, noted : Nat, kept : Nat]]
    /\ ask \in [Rows -> Queue!AskStates] /\ holder \in [Rows -> SUBSET Workers]
    /\ timerDue \in Nat
    /\ ends \in [Leaves -> [Parks -> Nat]]
    /\ left \in [BoundNames -> Nat]

LEMMA ShapeTypes == ShapeInv => RestTypes /\ job \in [Workers -> Job]
BY DEF ShapeInv, TypeOK, RestTypes, Queue!QueueTypeOK

LEMMA RowTypes ==
    ASSUME ShapeInv
    PROVE  /\ \A l \in Leaves : leaf[l] # NoLeaf => leaf[l] \in LeafRow
           /\ \A l \in Awaits : wait[l] \in [logged : Nat, noted : Nat, kept : Nat]
BY DEF ShapeInv, TypeOK

\* What is enqueued leaves the rows rows.
LEMMA EnqueuedTypes ==
    ASSUME ShapeInv, NEW dues \in SUBSET Nat, NEW wakes, Enqueued(dues, wakes)
    PROVE  ask' \in [Rows -> Queue!AskStates] /\ holder' \in [Rows -> SUBSET Workers] /\ timerDue' \in Nat
<1>0. ask \in [Rows -> Queue!AskStates] /\ holder \in [Rows -> SUBSET Workers] /\ timerDue \in Nat
  BY ShapeTypes DEF RestTypes
<1>1. ask' \in [Rows -> Queue!AskStates]
  BY <1>0 DEF Enqueued, Queue!AskStates
<1>2. timerDue' \in Nat
  <2>1. CASE dues = {}
    BY <1>0, <2>1 DEF Enqueued
  <2>2. CASE dues # {}
    <3>1. Min(dues) \in Nat /\ Min(dues \cup {timerDue}) \in Nat
      BY <1>0, <2>2, Earliest
    <3>2. TimerDueAfter(dues) \subseteq Nat
      BY <3>1 DEF TimerDueAfter
    <3> QED
      BY <2>2, <3>2 DEF Enqueued
  <2> QED
    BY <2>1, <2>2
<1> QED
  BY <1>0, <1>1, <1>2 DEF Enqueued

\* The queue's own steps keep the rows rows.
LEMMA QueueTypes ==
    ASSUME ShapeInv, NEW w \in Workers, NEW r \in Rows,
           \/ Queue!Take(w, {r}) \/ Queue!Complete(r, w) \/ Queue!GiveBack(r, w) \/ Queue!Die(w)
    PROVE  ask' \in [Rows -> Queue!AskStates] /\ holder' \in [Rows -> SUBSET Workers]
<1>0. ask \in [Rows -> Queue!AskStates] /\ holder \in [Rows -> SUBSET Workers]
  BY ShapeTypes DEF RestTypes
<1>1. CASE Queue!Take(w, {r})
  BY <1>0, <1>1 DEF Queue!Take, Queue!AskStates
<1>2. CASE Queue!Complete(r, w)
  BY <1>0, <1>2 DEF Queue!Complete, Queue!Finish, Queue!AskStates
<1>3. CASE Queue!GiveBack(r, w)
  BY <1>0, <1>3 DEF Queue!GiveBack, Queue!Finish, Queue!AskStates
<1>4. CASE Queue!Die(w)
  BY <1>0, <1>4 DEF Queue!Die
<1> QED
  BY <1>1, <1>2, <1>3, <1>4

\* Every step of a process keeps the types of what it writes.
LEMMA WorkTypes ==
    ASSUME ShapeInv, NEW w \in Workers,
           \/ Asks(w) \/ SweepLostRun(w) \/ (\E r \in Rows : TakeRow(w, r))
           \/ Works(w) \/ Crash(w) \/ Stall(w)
    PROVE  RestTypes'
<1>0. RestTypes /\ job[w] \in Job
  BY ShapeTypes DEF ShapeInv, TypeOK
<1>1. CASE Asks(w)
  <2>1. CASE Fire(w)
    BY <1>0, <2>1 DEF Fire, RestTypes, queue
  <2>2. CASE ResumeRun(w)
    BY <1>0, <2>2, Spent DEF ResumeRun, RestTypes, queue, runVars, BoundNames
  <2>3. CASE Rerun(w)
    BY <1>0, <2>3, Spent DEF Rerun, RestTypes, queue, runVars, BoundNames
  <2>4. CASE RequestCancel(w)
    BY <1>0, <2>4, Spent DEF RequestCancel, RestTypes, queue, BoundNames
  <2> QED
    BY <1>1, <2>1, <2>2, <2>3, <2>4 DEF Asks
<1>2. ASSUME NEW r \in Rows, TakeRow(w, r)
      PROVE  RestTypes'
  <2>1. ask' \in [Rows -> Queue!AskStates] /\ holder' \in [Rows -> SUBSET Workers]
    BY <1>2, QueueTypes DEF TakeRow
  <2>2. left' \in [BoundNames -> Nat]
    BY <1>0, <1>2, Spent DEF TakeRow, RestTypes, BoundNames
  <2> QED
    BY <1>0, <1>2, <2>1, <2>2 DEF TakeRow, RestTypes, runVars
<1>3. CASE TakeLease(w)
  <2>1. leaf' \in [Leaves -> LeafRow \cup {NoLeaf}]
    BY <1>0, <1>3, RowTypes DEF TakeLease, Returned, LeafRow
  <2> QED
    BY <1>0, <1>3, <2>1 DEF TakeLease, LeaseOf, RestTypes, queue
<1>4. CASE \/ SweepLostRun(w) \/ Busy(w) \/ EnterFired(w) \/ NextLeaf(w) \/ LeafGone(w) \/ SegmentFails(w)
           \/ SegmentLosesRun(w) \/ CommitRefused(w) \/ FinishCommand(w)
  BY <1>0, <1>4 DEF SweepLostRun, Busy, EnterFired, NextLeaf, LeafGone, SegmentFails, SegmentLosesRun, CommitRefused,
                    FinishCommand, RestTypes, runVars, queue
<1>5. CASE EnterRerun(w) \/ EnterToFail(w) \/ EnterDrain(w) \/ Recheck(w) \/ FailRun(w)
  <2>1. run' \in [status : {"none", "running", "parked", "completed", "failed"}, cancel : BOOLEAN, attempt : Nat]
    <3>1. MarkFailed => run' \in [status : {"none", "running", "parked", "completed", "failed"}, cancel : BOOLEAN, attempt : Nat]
      BY <1>0 DEF MarkFailed, RestTypes
    <3>2. UNCHANGED run => run' \in [status : {"none", "running", "parked", "completed", "failed"}, cancel : BOOLEAN, attempt : Nat]
      BY <1>0 DEF RestTypes
    <3>3. run' = [status |-> "running", cancel |-> FALSE, attempt |-> run.attempt + 1] =>
              run' \in [status : {"none", "running", "parked", "completed", "failed"}, cancel : BOOLEAN, attempt : Nat]
      BY <1>0 DEF RestTypes
    <3>4. \/ MarkFailed \/ UNCHANGED run
          \/ run' = [status |-> "running", cancel |-> FALSE, attempt |-> run.attempt + 1]
      BY <1>5 DEF EnterRerun, EnterToFail, EnterDrain, Recheck, FailRun
    <3> QED
      BY <3>1, <3>2, <3>3, <3>4
  <2> QED
    BY <1>0, <1>5, <2>1 DEF EnterRerun, EnterToFail, EnterDrain, Recheck, FailRun, RestTypes, queue
<1>6. CASE ClaimLeaf(w)
  <2>1. leaf' \in [Leaves -> LeafRow \cup {NoLeaf}]
    <3>1. PICK l \in Leaves : l = job[w].leaf /\ leaf[l] # NoLeaf
      BY <1>6 DEF ClaimLeaf, ParkedLeaves
    <3>2. leaf[l] \in LeafRow
      BY <3>1, RowTypes
    <3>3. [leaf[l] EXCEPT !.status = "resuming"] \in LeafRow
      BY <3>2 DEF LeafRow
    <3>4. leaf' = [leaf EXCEPT ![l] = [leaf[l] EXCEPT !.status = "resuming"]]
      BY <1>0, <1>6, <3>1 DEF ClaimLeaf, RestTypes
    <3> QED
      BY <1>0, <3>3, <3>4 DEF RestTypes
  <2>2. wait' \in [Awaits -> [logged : Nat, noted : Nat, kept : Nat]]
    BY <1>0, <1>6, RowTypes DEF ClaimLeaf
  <2> QED
    BY <1>0, <1>6, <2>1, <2>2 DEF ClaimLeaf, RestTypes, queue
<1>7. CASE SegmentParks(w) \/ SegmentFinishes(w)
  <2>1. wait' \in [Awaits -> [logged : Nat, noted : Nat, kept : Nat]]
    <3>1. CASE UNCHANGED wait
      BY <1>0, <3>1 DEF RestTypes
    <3>2. ASSUME job[w].leaf \in Awaits, NEW noted \in Nat, wait' = [wait EXCEPT ![job[w].leaf].noted = noted]
          PROVE  wait' \in [Awaits -> [logged : Nat, noted : Nat, kept : Nat]]
      BY <1>0, <3>2 DEF RestTypes
    <3>3. job[w].leaf \in Awaits => wait[job[w].leaf].noted \in Nat /\ wait[job[w].leaf].logged \in Nat
      BY RowTypes
    <3>4. job[w].leaf \in Awaits =>
              /\ wait[job[w].leaf].noted .. wait[job[w].leaf].logged \subseteq Nat
              /\ wait[job[w].leaf].noted + 1 .. wait[job[w].leaf].logged \subseteq Nat
      BY <3>3
    <3> QED
      BY <1>7, <3>1, <3>2, <3>4 DEF SegmentParks, SegmentFinishes
  <2> QED
    BY <1>0, <1>7, <2>1 DEF SegmentParks, SegmentFinishes, RestTypes, queue
<1>8. CASE Commit(w)
  <2>1. job[w].parks \in SUBSET Leaves /\ Cardinality(job[w].parks) \in Nat
    BY <1>0, ConstantTypes DEF Job
  <2>2. left' \in [BoundNames -> Nat]
    BY <1>0, <1>8, <2>1, Spent DEF Commit, RestTypes, BoundNames
  <2>3. PICK wakes \in [job[w].parks \cap Timers -> now + 1 .. Horizon + 1] :
            leaf' = LeavesAfter(w, wakes) /\ Enqueued({wakes[l] : l \in DOMAIN wakes}, Woken(w))
    BY <1>8 DEF Commit
  <2>4. \A l \in job[w].parks \cap Timers : wakes[l] \in Nat
    BY <1>0, ConstantTypes DEF RestTypes
  <2>5. leaf' \in [Leaves -> LeafRow \cup {NoLeaf}]
    <3> SUFFICES ASSUME NEW l \in Leaves
                 PROVE  LeavesAfter(w, wakes)[l] \in LeafRow \cup {NoLeaf}
      BY <2>3 DEF LeavesAfter
    <3>1. left["parks"] \in Nat /\ run.attempt \in Nat
      BY <1>0 DEF RestTypes, BoundNames
    <3>2. leaf[l] \in LeafRow \cup {NoLeaf}
      BY <1>0 DEF RestTypes
    <3>3. l \in job[w].parks => (IF l \in Timers THEN wakes[l] ELSE 0) \in Nat
      BY <2>4
    <3> HIDE DEF LeafRow
    <3>4. CASE l \in job[w].parks
      <4>1. [status |-> "parked", wake |-> IF l \in Timers THEN wakes[l] ELSE 0, park |-> left["parks"], attempt |-> run.attempt] \in LeafRow
        BY <3>1, <3>3, <3>4 DEF LeafRow
      <4> QED
        BY <3>4, <4>1 DEF LeavesAfter
    <3>5. CASE l \notin job[w].parks
      BY <3>2, <3>5 DEF LeavesAfter
    <3> QED
      BY <3>4, <3>5
  <2>6. ask' \in [Rows -> Queue!AskStates] /\ holder' \in [Rows -> SUBSET Workers] /\ timerDue' \in Nat
    <3>1. {wakes[l] : l \in DOMAIN wakes} \in SUBSET Nat
      BY <2>4
    <3> QED
      BY <2>3, <3>1, EnqueuedTypes
  <2>7. wait' \in [Awaits -> [logged : Nat, noted : Nat, kept : Nat]]
    BY <1>0, <1>8, RowTypes DEF Commit, WaitsAfter
  <2>8. run' \in [status : {"none", "running", "parked", "completed", "failed"}, cancel : BOOLEAN, attempt : Nat]
    BY <1>0, <1>8 DEF Commit, RestTypes, Job
  <2>9. ends' \in [Leaves -> [Parks -> Nat]]
    <3>1. job[w].leaf # NoLeaf => job[w].leaf \in Leaves
      BY <1>0 DEF Job
    <3>2. CASE job[w].leaf = NoLeaf
      BY <1>0, <1>8, <3>2 DEF Commit, RestTypes
    <3>3. ASSUME NEW l \in Leaves, job[w].leaf = l
          PROVE  ends' \in [Leaves -> [Parks -> Nat]]
      <4>1. ends' = [ends EXCEPT ![l][job[w].park] = @ + 1]
        BY <1>8, <3>3, ConstantTypes DEF Commit
      <4>2. [ends[l] EXCEPT ![job[w].park] = @ + 1] \in [Parks -> Nat]
        <5>1. ends[l] \in [Parks -> Nat]
          BY <1>0 DEF RestTypes
        <5>2. \A p \in Parks : ends[l][p] \in Nat /\ ends[l][p] + 1 \in Nat
          BY <5>1
        <5>3. job[w].park \in Parks \/ job[w].park \notin Parks
          OBVIOUS
        <5> QED
          BY <5>1, <5>2, <5>3
      <4>3. ends' = [ends EXCEPT ![l] = [ends[l] EXCEPT ![job[w].park] = @ + 1]]
        BY <4>1
      <4> QED
        BY <1>0, <4>2, <4>3 DEF RestTypes
    <3> QED
      BY <3>1, <3>2, <3>3
  <2> QED
    BY <1>0, <1>8, <2>2, <2>5, <2>6, <2>7, <2>8, <2>9 DEF Commit, RestTypes
<1>9. CASE SettleAlone(w)
  BY <1>0, <1>9 DEF SettleAlone, RestTypes, Job, queue
<1>10. CASE TearDown(w) \/ DropFailed(w) \/ ClearIfQuiescent(w)
  <2>1. DropState => leaf' \in [Leaves -> LeafRow \cup {NoLeaf}] /\ wait' \in [Awaits -> [logged : Nat, noted : Nat, kept : Nat]]
    BY DEF DropState, NoArrivals
  <2>2. leaf' \in [Leaves -> LeafRow \cup {NoLeaf}] /\ wait' \in [Awaits -> [logged : Nat, noted : Nat, kept : Nat]]
    BY <1>0, <1>10, <2>1 DEF TearDown, DropFailed, ClearIfQuiescent, RestTypes
  <2> QED
    BY <1>0, <1>10, <2>2 DEF TearDown, DropFailed, ClearIfQuiescent, RestTypes, queue
<1>11. CASE Unlease(w)
  BY <1>0, <1>11 DEF Unlease, LeaseOf, RestTypes, queue
<1>12. CASE Outcome(w)
  <2>1. Rearms \in SUBSET Nat
    <3>1. {leaf[l].wake : l \in ParkedTimers} \in SUBSET Nat
      BY RowTypes DEF ParkedTimers, ParkedLeaves, LeafRow
    <3> QED
      BY <3>1, Earliest DEF Rearms
  <2>2. ask' \in [Rows -> Queue!AskStates] /\ holder' \in [Rows -> SUBSET Workers] /\ timerDue' \in Nat
    BY <1>12, <2>1, EnqueuedTypes DEF Outcome
  <2> QED
    BY <1>0, <1>12, <2>2 DEF Outcome, RestTypes, runVars
<1>13. CASE FinishRow(w)
  <2>1. job[w].row \in Rows
    BY <1>0, <1>13 DEF FinishRow, Job
  <2>2. CASE UNCHANGED queue
    BY <1>0, <1>13, <2>2 DEF FinishRow, RestTypes, runVars, queue
  <2>3. CASE Queue!GiveBack(job[w].row, w) /\ timerDue' \in {now, timerDue}
    <3>1. ask' \in [Rows -> Queue!AskStates] /\ holder' \in [Rows -> SUBSET Workers]
      BY <2>1, <2>3, QueueTypes
    <3> QED
      BY <1>0, <1>13, <2>3, <3>1 DEF FinishRow, RestTypes, runVars
  <2>4. CASE Queue!Complete(job[w].row, w) /\ UNCHANGED timerDue
    <3>1. ask' \in [Rows -> Queue!AskStates] /\ holder' \in [Rows -> SUBSET Workers]
      BY <2>1, <2>4, QueueTypes
    <3> QED
      BY <1>0, <1>13, <2>4, <3>1 DEF FinishRow, RestTypes, runVars
  <2> QED
    BY <1>13, <2>2, <2>3, <2>4 DEF FinishRow
<1>14. CASE Crash(w)
  <2>1. ask' \in [Rows -> Queue!AskStates] /\ holder' \in [Rows -> SUBSET Workers]
    <3>1. CASE Queue!Die(w)
      BY <3>1, QueueTypes, ConstantTypes
    <3>2. CASE UNCHANGED <<ask, holder>>
      BY <1>0, <3>2 DEF RestTypes
    <3> QED
      BY <1>14, <3>1, <3>2 DEF Crash
  <2>2. lease' \in [by : Workers \cup {Nobody, Gone}, lapsed : BOOLEAN]
    BY <1>0, <1>14 DEF Crash, RestTypes
  <2>3. left' \in [BoundNames -> Nat]
    BY <1>0, <1>14, Spent DEF Crash, RestTypes, BoundNames
  <2> QED
    BY <1>0, <1>14, <2>1, <2>2, <2>3 DEF Crash, RestTypes
<1>15. CASE Stall(w)
  <2>1. left' \in [BoundNames -> Nat] /\ lease' \in [by : Workers \cup {Nobody, Gone}, lapsed : BOOLEAN]
    BY <1>0, <1>15, Spent DEF Stall, RestTypes, BoundNames
  <2> QED
    BY <1>0, <1>15, <2>1 DEF Stall, RestTypes, queue
<1> QED
  BY <1>1, <1>2, <1>3, <1>4, <1>5, <1>6, <1>7, <1>8, <1>9, <1>10, <1>11, <1>12, <1>13, <1>14, <1>15
  DEF Works, Enters, Segments, Exits

LEMMA EnvTypes ==
    ASSUME ShapeInv, (\E l \in Awaits : Arrive(l)) \/ LeaseLapses \/ Tick
    PROVE  RestTypes' /\ UNCHANGED job
<1>0. RestTypes
  BY ShapeTypes
<1>1. ASSUME NEW l \in Awaits, Arrive(l)
      PROVE  RestTypes' /\ UNCHANGED job
  <2>1. ask' \in [Rows -> Queue!AskStates] /\ holder' \in [Rows -> SUBSET Workers] /\ timerDue' \in Nat
    BY <1>1, EnqueuedTypes DEF Arrive
  <2>2. wait' \in [Awaits -> [logged : Nat, noted : Nat, kept : Nat]]
    BY <1>0, <1>1 DEF Arrive, RestTypes
  <2> QED
    BY <1>0, <1>1, <2>1, <2>2 DEF Arrive, RestTypes
<1>2. CASE LeaseLapses
  BY <1>0, <1>2 DEF LeaseLapses, LeaseOf, RestTypes, queue
<1>3. CASE Tick
  BY <1>0, <1>3, ConstantTypes DEF Tick, RestTypes, runVars, queue
<1> QED
  BY <1>1, <1>2, <1>3

\* The steps of Next: a process's, or the world's.
LEMMA StepOf ==
    Next => \/ \E w \in Workers :
                 \/ Asks(w) \/ SweepLostRun(w) \/ (\E r \in Rows : TakeRow(w, r))
                 \/ Works(w) \/ Crash(w) \/ Stall(w)
            \/ (\E l \in Awaits : Arrive(l)) \/ LeaseLapses \/ Tick
BY DEF Next

LEMMA ShapeStep == ShapeInv /\ [Next]_vars => ShapeInv'
<1> SUFFICES ASSUME ShapeInv, [Next]_vars
             PROVE  ShapeInv'
  OBVIOUS
<1>1. RestTypes' /\ job' \in [Workers -> Job] /\ \A v \in Workers : Fits(job'[v])
  <2>1. CASE UNCHANGED vars
    BY <2>1, ShapeTypes DEF ShapeInv, vars, RestTypes
  <2>2. ASSUME NEW w \in Workers,
               \/ Asks(w) \/ SweepLostRun(w) \/ (\E r \in Rows : TakeRow(w, r))
               \/ Works(w) \/ Crash(w) \/ Stall(w)
        PROVE  RestTypes' /\ job' \in [Workers -> Job] /\ \A v \in Workers : Fits(job'[v])
    <3>1. RestTypes'
      BY <2>2, WorkTypes
    <3>2. UNCHANGED job \/ \E j : Fits(j) /\ Moved(w, j)
      BY <2>2, JobsMove
    <3>3. job' \in [Workers -> Job] /\ \A v \in Workers : Fits(job'[v])
      BY <3>2, ShapeTypes, MovedFits DEF ShapeInv
    <3> QED
      BY <3>1, <3>3
  <2>3. CASE (\E l \in Awaits : Arrive(l)) \/ LeaseLapses \/ Tick
    BY <2>3, EnvTypes, ShapeTypes DEF ShapeInv
  <2> QED
    BY <2>1, <2>2, <2>3, StepOf
<1> QED
  BY <1>1 DEF ShapeInv, TypeOK, RestTypes, Queue!QueueTypeOK

LEMMA ShapeInit == Init => ShapeInv
<1> SUFFICES ASSUME Init
             PROVE  ShapeInv
  OBVIOUS
<1>1. RestTypes
  BY ConstantTypes DEF Init, RestTypes, LeaseOf, NoArrivals, Queue!QueueInit, Queue!AskStates
<1>2. job \in [Workers -> Job] /\ \A w \in Workers : Fits(job[w])
  BY IdleFits DEF Init, Fits
<1> QED
  BY <1>1, <1>2 DEF ShapeInv, TypeOK, RestTypes, Queue!QueueTypeOK

LEMMA AlwaysShaped == Spec => []ShapeInv
BY ShapeInit, ShapeStep, PTL DEF Spec

\* Every state has the types TypeOK gives it: a run, its leaves, its waits and
\* its rows keep to the tables' columns, a wake's process stays at a wait's row,
\* and no bound is overspent.
THEOREM RunHostTypes == Spec => []TypeOK
<1>1. ShapeInv => TypeOK
  BY DEF ShapeInv
<1> QED
  BY <1>1, AlwaysShaped, PTL

-----------------------------------------------------------------------------
(* What each step makes of its process's job. *)

Others(w) == \A v \in Workers : v # w => job'[v] = job[v]

\* The process's row, leaf and what it is to write stay.
Stays(w) ==
    /\ job'[w].kind = job[w].kind /\ job'[w].row = job[w].row /\ job'[w].leaf = job[w].leaf
    /\ job'[w].park = job[w].park /\ job'[w].settle = job[w].settle /\ job'[w].parks = job[w].parks

\* It goes on to a step, its leaves still to do and what it lost as they were.
Went(w, step) ==
    /\ Others(w) /\ Stays(w) /\ job'[w].step = step
    /\ job'[w].todo = job[w].todo /\ job'[w].lost = job[w].lost

LostAt(w, step) ==
    Others(w) /\ Stays(w) /\ job'[w].step = step /\ job'[w].todo = job[w].todo /\ job'[w].lost

Began(w, kind, r) ==
    /\ Others(w) /\ job'[w].step = "lease" /\ job'[w].kind = kind /\ job'[w].row = r
    /\ job'[w].leaf = NoLeaf /\ job'[w].todo = {} /\ job'[w].parks = {} /\ ~job'[w].lost

Ended(w) == Others(w) /\ job'[w] = Idle

LEMMA JobTypes ==
    ASSUME ShapeInv, NEW w \in Workers
    PROVE  job \in [Workers -> Job] /\ job[w] \in Job /\ Fits(job[w])
BY DEF ShapeInv, TypeOK

LEMMA GotoWent ==
    ASSUME ShapeInv, NEW w \in Workers, NEW step, Goto(w, step)
    PROVE  Went(w, step)
<1>1. job \in [Workers -> Job] /\ job[w] \in Job
  BY JobTypes
<1>2. job'[w] = [job[w] EXCEPT !.step = step] /\ Others(w)
  BY <1>1 DEF Goto, Others
<1> QED
  BY <1>1, <1>2 DEF Went, Stays, Job

LEMMA StartedBegan ==
    ASSUME ShapeInv, NEW w \in Workers, NEW kind, NEW r, Started(w, kind, r)
    PROVE  Began(w, kind, r)
<1>1. job \in [Workers -> Job] /\ job[w] \in Job
  BY JobTypes
<1>2. job'[w] = [Idle EXCEPT !.kind = kind, !.step = "lease", !.row = r] /\ Others(w)
  BY <1>1 DEF Started, Others
<1> QED
  BY <1>1, <1>2 DEF Began, Idle

LEMMA IdleEnded ==
    ASSUME ShapeInv, NEW w \in Workers, GoIdle(w)
    PROVE  Ended(w)
BY JobTypes DEF GoIdle, Ended, Others

LEMMA IdleIs ==
    /\ Idle.kind = "fired" /\ Idle.step = "idle" /\ Idle.row = NoRow /\ Idle.leaf = NoLeaf
    /\ Idle.todo = {} /\ Idle.parks = {} /\ ~Idle.lost
BY DEF Idle

\* A process that finds its run held, or that it lost it.
LEMMA LosesAt ==
    ASSUME ShapeInv, NEW w \in Workers
    PROVE  /\ Busy(w) => LostAt(w, "finish")
           /\ SegmentLosesRun(w) \/ CommitRefused(w) => LostAt(w, "unlease")
<1>1. job \in [Workers -> Job] /\ job[w] \in Job
  BY JobTypes
<1>2. CASE Busy(w)
  <2>1. job'[w] = [job[w] EXCEPT !.step = "finish", !.lost = TRUE] /\ Others(w)
    BY <1>1, <1>2 DEF Busy, Others
  <2> QED
    BY <1>1, <1>2, <2>1 DEF LostAt, Stays, Job, Busy, SegmentLosesRun, CommitRefused, At
<1>3. CASE SegmentLosesRun(w)
  <2>1. job'[w] = [job[w] EXCEPT !.step = "unlease", !.stepped = TRUE, !.lost = TRUE] /\ Others(w)
    BY <1>1, <1>3 DEF SegmentLosesRun, Others
  <2> QED
    BY <1>1, <1>3, <2>1 DEF LostAt, Stays, Job, Busy, SegmentLosesRun, At
<1>4. CASE CommitRefused(w)
  <2>1. job'[w] = [job[w] EXCEPT !.step = "unlease", !.lost = TRUE] /\ Others(w)
    BY <1>1, <1>4 DEF CommitRefused, Others
  <2> QED
    BY <1>1, <1>4, <2>1 DEF LostAt, Stays, Job, Busy, CommitRefused, At
<1> QED
  BY <1>2, <1>3, <1>4

LEMMA EnterDrainGoes ==
    ASSUME ShapeInv, NEW w \in Workers, EnterDrain(w)
    PROVE  \/ run.status # "parked" /\ Went(w, "unlease") /\ UNCHANGED run
           \/ run.status = "parked" /\ run.cancel /\ Went(w, "drop") /\ MarkFailed
           \/ /\ run.status = "parked" /\ ~run.cancel /\ UNCHANGED run
              /\ Others(w) /\ Stays(w) /\ job'[w].step = "next"
              /\ job'[w].todo = Chosen(w) /\ job'[w].lost = job[w].lost
<1>1. job \in [Workers -> Job] /\ job[w] \in Job
  BY JobTypes
<1>2. CASE run.status # "parked" \/ (run.status = "parked" /\ run.cancel)
  BY <1>2, GotoWent DEF EnterDrain
<1>3. CASE run.status = "parked" /\ ~run.cancel
  <2>1. job' = [job EXCEPT ![w].step = "next", ![w].todo = Chosen(w)] /\ UNCHANGED run
    BY <1>3 DEF EnterDrain
  <2>2. job'[w] = [job[w] EXCEPT !.step = "next", !.todo = Chosen(w)] /\ Others(w)
    BY <1>1, <2>1 DEF Others
  <2> QED
    BY <1>1, <1>3, <2>1, <2>2 DEF Stays, Job
<1> QED
  BY <1>2, <1>3

LEMMA NextLeafGoes ==
    ASSUME ShapeInv, NEW w \in Workers, NextLeaf(w)
    PROVE  \/ ~Holds(w) /\ LostAt(w, "unlease")
           \/ Holds(w) /\ job[w].todo = {} /\ Went(w, "quiesce")
           \/ /\ Holds(w) /\ job'[w].leaf \in job[w].todo /\ job'[w].step = "claim" /\ Others(w)
              /\ job'[w].kind = job[w].kind /\ job'[w].row = job[w].row
              /\ job'[w].todo = job[w].todo \ {job'[w].leaf} /\ job'[w].lost = job[w].lost
<1>1. job \in [Workers -> Job] /\ job[w] \in Job
  BY JobTypes
<1>2. CASE ~Holds(w)
  <2>1. job' = [job EXCEPT ![w].step = "unlease", ![w].lost = TRUE]
    BY <1>2 DEF NextLeaf
  <2>2. job'[w] = [job[w] EXCEPT !.step = "unlease", !.lost = TRUE] /\ Others(w)
    BY <1>1, <2>1 DEF Others
  <2> QED
    BY <1>1, <1>2, <2>2 DEF LostAt, Stays, Job
<1>3. CASE Holds(w) /\ job[w].todo = {}
  BY <1>3, GotoWent DEF NextLeaf
<1>4. CASE Holds(w) /\ job[w].todo # {}
  <2>1. PICK l \in job[w].todo : job' = [job EXCEPT ![w].step = "claim", ![w].leaf = l, ![w].todo = @ \ {l}]
    BY <1>4 DEF NextLeaf
  <2>2. job'[w] = [job[w] EXCEPT !.step = "claim", !.leaf = l, !.todo = job[w].todo \ {l}] /\ Others(w)
    BY <1>1, <2>1 DEF Others
  <2> QED
    BY <1>1, <1>4, <2>2 DEF Job
<1> QED
  BY <1>2, <1>3, <1>4

LEMMA ClaimLeafGoes ==
    ASSUME ShapeInv, NEW w \in Workers, ClaimLeaf(w)
    PROVE  /\ Others(w) /\ job'[w].step = "segment" /\ job'[w].leaf = job[w].leaf
           /\ job'[w].park = leaf[job[w].leaf].park /\ job'[w].kind = job[w].kind /\ job'[w].row = job[w].row
           /\ job'[w].todo = job[w].todo /\ job'[w].lost = job[w].lost
<1>1. job \in [Workers -> Job] /\ job[w] \in Job
  BY JobTypes
<1>2. job'[w] = [job[w] EXCEPT !.step = "segment", !.park = leaf[job[w].leaf].park] /\ Others(w)
  BY <1>1 DEF ClaimLeaf, Others
<1> QED
  BY <1>1, <1>2 DEF Job

LEMMA LeafGoneGoes ==
    ASSUME ShapeInv, NEW w \in Workers, LeafGone(w)
    PROVE  /\ Others(w) /\ job'[w].step = "next" /\ job'[w].kind = job[w].kind /\ job'[w].row = job[w].row
           /\ job'[w].todo = job[w].todo /\ job'[w].lost = job[w].lost
<1>1. job \in [Workers -> Job] /\ job[w] \in Job
  BY JobTypes
<1>2. job'[w] = [job[w] EXCEPT !.step = "next", !.leaf = NoLeaf] /\ Others(w)
  BY <1>1 DEF LeafGone, Others
<1> QED
  BY <1>1, <1>2 DEF Job

\* A segment at its end: what it resumed stays, and what it is to write is set.
EndedAs(w, settle, parks) ==
    /\ Others(w) /\ job'[w].step = "commit" /\ job'[w].leaf = job[w].leaf /\ job'[w].park = job[w].park
    /\ job'[w].kind = job[w].kind /\ job'[w].row = job[w].row
    /\ job'[w].settle = settle /\ job'[w].parks = parks
    /\ job'[w].todo = job[w].todo /\ job'[w].lost = job[w].lost

LEMMA SegmentEndedAs ==
    ASSUME ShapeInv, NEW w \in Workers, NEW settle, NEW parks, SegmentEnds(w, settle, parks)
    PROVE  EndedAs(w, settle, parks)
<1>1. job \in [Workers -> Job] /\ job[w] \in Job
  BY JobTypes
<1>2. job'[w] = [job[w] EXCEPT !.step = "commit", !.stepped = TRUE, !.settle = settle, !.parks = parks] /\ Others(w)
  BY <1>1 DEF SegmentEnds, Others
<1> QED
  BY <1>1, <1>2 DEF EndedAs, Job

LEMMA SegmentFailsGoes ==
    ASSUME ShapeInv, NEW w \in Workers, SegmentFails(w)
    PROVE  \/ (run.status \in Unsettled \/ run.cancel) /\ EndedAs(w, "failed", {})
           \/ ~(run.status \in Unsettled \/ run.cancel) /\ Went(w, "failing")
<1>1. job \in [Workers -> Job] /\ job[w] \in Job
  BY JobTypes
<1>2. CASE run.status \in Unsettled \/ run.cancel
  BY <1>2, SegmentEndedAs DEF SegmentFails
<1>3. CASE ~(run.status \in Unsettled \/ run.cancel)
  <2>1. job' = [job EXCEPT ![w].step = "failing", ![w].stepped = TRUE]
    BY <1>3 DEF SegmentFails
  <2>2. job'[w] = [job[w] EXCEPT !.step = "failing", !.stepped = TRUE] /\ Others(w)
    BY <1>1, <2>1 DEF Others
  <2> QED
    BY <1>1, <1>3, <2>2 DEF Went, Stays, Job
<1> QED
  BY <1>2, <1>3

LEMMA AfterCommitGoes ==
    ASSUME ShapeInv, NEW w \in Workers, AfterCommit(w)
    PROVE  /\ Others(w) /\ job'[w].leaf = NoLeaf /\ job'[w].parks = {}
           /\ job'[w].kind = job[w].kind /\ job'[w].row = job[w].row
           /\ job'[w].todo = job[w].todo /\ job'[w].lost = job[w].lost
           /\ \/ job[w].settle = "failed" /\ job'[w].step = "failing"
              \/ job[w].settle # "failed" /\ job[w].parks # {} /\ job'[w].step = "recheck"
              \/ /\ job[w].settle # "failed" /\ job[w].parks = {}
                 /\ job'[w].step = IF Fresh(w) THEN "quiesce" ELSE "next"
<1>1. job \in [Workers -> Job] /\ job[w] \in Job
  BY JobTypes
<1>2. PICK step : step = CASE job[w].settle = "failed" -> "failing"
                           [] job[w].settle # "failed" /\ job[w].parks # {} -> "recheck"
                           [] OTHER -> IF Fresh(w) THEN "quiesce" ELSE "next"
  OBVIOUS
<1>3. job' = [job EXCEPT ![w].leaf = NoLeaf, ![w].park = 0, ![w].parks = {}, ![w].settle = "running", ![w].step = step]
  BY <1>2, Zenon DEF AfterCommit
<1>4. job'[w] = [job[w] EXCEPT !.leaf = NoLeaf, !.park = 0, !.parks = {}, !.settle = "running", !.step = step] /\ Others(w)
  BY <1>1, <1>3 DEF Others
<1>5. \/ job[w].settle = "failed" /\ step = "failing"
      \/ job[w].settle # "failed" /\ job[w].parks # {} /\ step = "recheck"
      \/ /\ job[w].settle # "failed" /\ job[w].parks = {}
         /\ step = IF Fresh(w) THEN "quiesce" ELSE "next"
  <2>1. CASE job[w].settle = "failed"
    BY <1>2, <2>1
  <2>2. CASE job[w].settle # "failed" /\ job[w].parks # {}
    BY <1>2, <2>2, Zenon
  <2>3. CASE job[w].settle # "failed" /\ job[w].parks = {}
    BY <1>2, <2>3
  <2> QED
    BY <2>1, <2>2, <2>3
<1> QED
  BY <1>1, <1>4, <1>5 DEF Job

-----------------------------------------------------------------------------
(* The end of each resume of a leaf is kept once: each park has a number of  *)
(* its own, none yet given has an end, and what is parked, or resumed by the *)
(* run's holder, is at a number with no end.                                 *)

InSegment(w) == job[w].step \in {"segment", "commit"}

EntersBare == \A w \in Workers : job[w].step \in {"lease", "enter"} => job[w].leaf = NoLeaf

ParksLeft == left["parks"] <= Bounds["parks"]

EndsOnce == \A l \in Leaves : \A p \in Parks : ends[l][p] <= 1 /\ (p <= left["parks"] => ends[l][p] = 0)

\* A leaf's park p is given, and not yet ended.
Open(l, p) == p \in Parks /\ p > left["parks"] /\ ends[l][p] = 0

ParkedOpen == \A l \in Leaves : leaf[l] # NoLeaf => Open(l, leaf[l].park)

ResumesOpen ==
    \A w \in Workers : lease.by = w /\ InSegment(w) /\ job[w].leaf # NoLeaf =>
        /\ Open(job[w].leaf, job[w].park)
        /\ leaf[job[w].leaf] # NoLeaf => leaf[job[w].leaf].status = "resuming"

ApartInv == ShapeInv /\ EntersBare /\ ParksLeft /\ EndsOnce /\ ParkedOpen /\ ResumesOpen

\* What a process resumes is what it resumed before.
SameHold(w) ==
    /\ job'[w].step \in {"lease", "enter"} => job'[w].leaf = NoLeaf
    /\ job'[w].step \in {"segment", "commit"} /\ job'[w].leaf # NoLeaf =>
           job[w].step \in {"segment", "commit"} /\ job'[w].leaf = job[w].leaf /\ job'[w].park = job[w].park

\* A step that keeps no end and parks nothing.
LEMMA CalmStep ==
    ASSUME ApartInv, ShapeInv', UNCHANGED ends, left'["parks"] = left["parks"],
           \A l \in Leaves : leaf'[l] \in {leaf[l], NoLeaf},
           lease'.by \in {lease.by, Nobody, Gone}, \A w \in Workers : SameHold(w)
    PROVE  ApartInv'
<1>1. EntersBare' /\ ParksLeft' /\ EndsOnce'
  BY DEF ApartInv, EntersBare, ParksLeft, EndsOnce, SameHold
<1>2. \A l, p : Open(l, p) => Open(l, p)'
  BY DEF Open
<1>3. ParkedOpen'
  <2> SUFFICES ASSUME NEW l \in Leaves, leaf'[l] # NoLeaf
               PROVE  Open(l, leaf[l].park)'
    BY DEF ParkedOpen
  <2>1. leaf'[l] = leaf[l]
    OBVIOUS
  <2>2. Open(l, leaf[l].park)
    BY <2>1 DEF ApartInv, ParkedOpen
  <2> QED
    BY <2>1, <2>2 DEF Open
<1>4. ResumesOpen'
  <2> SUFFICES ASSUME NEW w \in Workers, lease'.by = w, job'[w].step \in {"segment", "commit"}, job'[w].leaf # NoLeaf
               PROVE  /\ Open(job[w].leaf, job[w].park)'
                      /\ leaf'[job'[w].leaf] # NoLeaf => leaf'[job'[w].leaf].status = "resuming"
    BY DEF ResumesOpen, InSegment
  <2>1. lease.by = w
    BY ConstantTypes
  <2>2. job[w].step \in {"segment", "commit"} /\ job'[w].leaf = job[w].leaf /\ job'[w].park = job[w].park
    BY DEF SameHold
  <2>3. Open(job[w].leaf, job[w].park) /\ (leaf[job[w].leaf] # NoLeaf => leaf[job[w].leaf].status = "resuming")
    BY <2>1, <2>2 DEF ApartInv, ResumesOpen, InSegment
  <2>4. job[w].leaf \in Leaves
    BY <2>2, JobTypes DEF ApartInv, Job
  <2>5. leaf'[job[w].leaf] \in {leaf[job[w].leaf], NoLeaf}
    BY <2>4
  <2> QED
    BY <2>2, <2>3, <2>5 DEF Open
<1> QED
  BY <1>1, <1>3, <1>4 DEF ApartInv

\* Every step of a process but a claim of a leaf keeps what it resumes.
LEMMA HoldsSame ==
    ASSUME ShapeInv, EntersBare, NEW w \in Workers,
           \/ Asks(w) \/ SweepLostRun(w) \/ (\E r \in Rows : TakeRow(w, r))
           \/ (Works(w) /\ ~ClaimLeaf(w)) \/ Crash(w) \/ Stall(w)
    PROVE  \A v \in Workers : SameHold(v)
<1>0. EntersBare => (job[w].step = "enter" \/ job[w].step = "lease" => job[w].leaf = NoLeaf)
  BY DEF EntersBare
<1>1. CASE Asks(w) \/ SweepLostRun(w)
  <2>1. \E kind \in {"fired", "resume", "rerun", "cancel", "sweep"} : Started(w, kind, NoRow)
    BY <1>1 DEF Asks, Fire, ResumeRun, Rerun, RequestCancel, SweepLostRun
  <2>2. PICK kind : Began(w, kind, NoRow)
    BY <2>1, StartedBegan
  <2> QED
    BY <2>2 DEF Began, Others, SameHold, EntersBare
<1>2. ASSUME NEW r \in Rows, TakeRow(w, r)
      PROVE  \A v \in Workers : SameHold(v)
  <2>1. PICK kind : Began(w, kind, r)
    BY <1>2, StartedBegan DEF TakeRow
  <2> QED
    BY <2>1 DEF Began, Others, SameHold, EntersBare
<1>3. ASSUME NEW step \in {"enter", "segment", "unlease", "drop", "teardown", "quiesce", "next", "outcome", "finish", "failing"},
             Went(w, step), step \in {"enter", "segment"} => job[w].leaf = NoLeaf
      PROVE  \A v \in Workers : SameHold(v)
  BY <1>3 DEF Went, Stays, Others, SameHold, EntersBare
<1>4. CASE TakeLease(w)
  <2>1. Went(w, "enter") /\ job[w].leaf = NoLeaf
    BY <1>0, <1>4, GotoWent DEF TakeLease, At
  <2> QED
    BY <1>3, <2>1
<1>5. CASE EnterFired(w) \/ EnterRerun(w) \/ EnterToFail(w)
  <2>1. job[w].leaf = NoLeaf /\ \E step \in {"segment", "unlease", "drop"} : Went(w, step)
    BY <1>0, <1>5, GotoWent DEF EnterFired, EnterRerun, EnterToFail, At
  <2> QED
    BY <1>3, <2>1
<1>6. CASE Recheck(w) \/ TearDown(w) \/ FailRun(w) \/ DropFailed(w) \/ ClearIfQuiescent(w) \/ Unlease(w) \/ Outcome(w)
  <2>1. \E step \in {"teardown", "quiesce", "next", "drop", "unlease", "outcome", "finish"} : Goto(w, step)
    BY <1>6 DEF Recheck, TearDown, FailRun, DropFailed, ClearIfQuiescent, Unlease, Outcome
  <2>2. \E step \in {"teardown", "quiesce", "next", "drop", "unlease", "outcome", "finish"} : Went(w, step)
    BY <2>1, GotoWent
  <2> QED
    BY <1>3, <2>2
<1>7. CASE EnterDrain(w)
  BY <1>7, EnterDrainGoes DEF Went, Stays, Others, SameHold, EntersBare
<1>8. CASE Busy(w) \/ SegmentLosesRun(w) \/ CommitRefused(w)
  BY <1>8, LosesAt DEF LostAt, Stays, Others, SameHold, EntersBare
<1>9. CASE NextLeaf(w)
  BY <1>9, NextLeafGoes DEF LostAt, Went, Stays, Others, SameHold, EntersBare
<1>10. CASE LeafGone(w)
  BY <1>10, LeafGoneGoes DEF Others, SameHold, EntersBare
<1>11. ASSUME NEW settle, NEW parks, EndedAs(w, settle, parks), job[w].step = "segment"
       PROVE  \A v \in Workers : SameHold(v)
  BY <1>11 DEF EndedAs, Others, SameHold, EntersBare
<1>12. CASE SegmentParks(w) \/ SegmentFinishes(w)
  <2>1. \E settle, parks : SegmentEnds(w, settle, parks)
    BY <1>12 DEF SegmentParks, SegmentFinishes
  <2>2. \E settle, parks : EndedAs(w, settle, parks)
    BY <2>1, SegmentEndedAs
  <2>3. job[w].step = "segment"
    BY <1>12 DEF SegmentParks, SegmentFinishes, At
  <2> QED
    BY <1>11, <2>2, <2>3
<1>13. CASE SegmentFails(w)
  <2>1. job[w].step = "segment"
    BY <1>13 DEF SegmentFails, At
  <2>2. EndedAs(w, "failed", {}) \/ Went(w, "failing")
    BY <1>13, SegmentFailsGoes
  <2> QED
    BY <1>3, <1>11, <2>1, <2>2
<1>14. CASE Commit(w) \/ SettleAlone(w)
  <2>1. AfterCommit(w)
    BY <1>14 DEF Commit, SettleAlone
  <2> QED
    BY <2>1, AfterCommitGoes DEF Others, SameHold, EntersBare
<1>15. CASE FinishRow(w) \/ FinishCommand(w) \/ Crash(w)
  <2>1. Ended(w)
    BY <1>15, IdleEnded DEF FinishRow, FinishCommand, Crash
  <2> QED
    BY <2>1, IdleIs DEF Ended, Others, SameHold, EntersBare
<1>16. CASE Stall(w)
  BY <1>16 DEF Stall, SameHold, EntersBare
<1> QED
  BY <1>1, <1>2, <1>4, <1>5, <1>6, <1>7, <1>8, <1>9, <1>10, <1>12, <1>13, <1>14, <1>15, <1>16
  DEF Works, Enters, Segments, Exits

\* A process's steps that park nothing, take no lease and claim no leaf.
Calm(w) ==
    \/ Asks(w) \/ SweepLostRun(w) \/ (\E r \in Rows : TakeRow(w, r))
    \/ Busy(w) \/ EnterFired(w) \/ EnterRerun(w) \/ EnterToFail(w) \/ EnterDrain(w)
    \/ NextLeaf(w) \/ LeafGone(w) \/ SegmentParks(w) \/ SegmentFinishes(w) \/ SegmentFails(w) \/ SegmentLosesRun(w)
    \/ SettleAlone(w) \/ CommitRefused(w) \/ Recheck(w) \/ TearDown(w)
    \/ Exits(w) \/ Crash(w) \/ Stall(w)

LEMMA CalmWrites ==
    ASSUME ShapeInv, NEW w \in Workers, Calm(w)
    PROVE  /\ UNCHANGED ends /\ left'["parks"] = left["parks"]
           /\ \A l \in Leaves : leaf'[l] \in {leaf[l], NoLeaf}
           /\ lease'.by \in {lease.by, Nobody, Gone}
<1>0. RestTypes
  BY ShapeTypes
<1>1. UNCHANGED ends
  BY DEF Calm, Asks, Fire, ResumeRun, Rerun, RequestCancel, SweepLostRun, TakeRow, Busy, EnterFired, EnterRerun,
         EnterToFail, EnterDrain, NextLeaf, LeafGone, SegmentParks, SegmentFinishes, SegmentFails, SegmentLosesRun,
         SettleAlone, CommitRefused, Recheck, TearDown, Exits, FailRun, DropFailed, ClearIfQuiescent, Unlease, Outcome,
         FinishRow, FinishCommand, Crash, Stall
<1>2. left'["parks"] = left["parks"]
  <2>1. UNCHANGED left \/ \E b \in {"resumes", "reruns", "cancels", "overruns", "crashes", "stalls"} : Spend(b, 1)
    BY DEF Calm, Asks, Fire, ResumeRun, Rerun, RequestCancel, SweepLostRun, TakeRow, Busy, EnterFired, EnterRerun,
           EnterToFail, EnterDrain, NextLeaf, LeafGone, SegmentParks, SegmentFinishes, SegmentFails, SegmentLosesRun,
           SettleAlone, CommitRefused, Recheck, TearDown, Exits, FailRun, DropFailed, ClearIfQuiescent, Unlease, Outcome,
           FinishRow, FinishCommand, Crash, Stall
  <2> QED
    BY <1>0, <2>1, Spent DEF RestTypes, BoundNames
<1>3. \A l \in Leaves : leaf'[l] \in {leaf[l], NoLeaf}
  <2>1. UNCHANGED leaf \/ DropState
    BY DEF Calm, Asks, Fire, ResumeRun, Rerun, RequestCancel, SweepLostRun, TakeRow, Busy, EnterFired, EnterRerun,
           EnterToFail, EnterDrain, NextLeaf, LeafGone, SegmentParks, SegmentFinishes, SegmentFails, SegmentLosesRun,
           SettleAlone, CommitRefused, Recheck, TearDown, Exits, FailRun, DropFailed, ClearIfQuiescent, Unlease, Outcome,
           FinishRow, FinishCommand, Crash, Stall, runVars
  <2> QED
    BY <2>1 DEF DropState
<1>4. lease'.by \in {lease.by, Nobody, Gone}
  <2>1. UNCHANGED lease \/ lease' = LeaseOf(Nobody) \/ lease' = [lease EXCEPT !.by = Gone] \/ lease' = [lease EXCEPT !.lapsed = TRUE]
    BY DEF Calm, Asks, Fire, ResumeRun, Rerun, RequestCancel, SweepLostRun, TakeRow, Busy, EnterFired, EnterRerun,
           EnterToFail, EnterDrain, NextLeaf, LeafGone, SegmentParks, SegmentFinishes, SegmentFails, SegmentLosesRun,
           SettleAlone, CommitRefused, Recheck, TearDown, Exits, FailRun, DropFailed, ClearIfQuiescent, Unlease, Outcome,
           FinishRow, FinishCommand, Crash, Stall, runVars
  <2> QED
    BY <1>0, <2>1 DEF RestTypes, LeaseOf
<1> QED
  BY <1>1, <1>2, <1>3, <1>4

LEMMA CalmKeepsApart ==
    ASSUME ApartInv, ShapeInv', NEW w \in Workers, Calm(w)
    PROVE  ApartInv'
<1>1. ShapeInv /\ EntersBare
  BY DEF ApartInv
<1>2. \A v \in Workers : SameHold(v)
  <2>1. ~ClaimLeaf(w) \/ Asks(w) \/ SweepLostRun(w) \/ (\E r \in Rows : TakeRow(w, r)) \/ Crash(w) \/ Stall(w)
    <3>1. ASSUME ClaimLeaf(w), Calm(w), ~(Asks(w) \/ SweepLostRun(w) \/ (\E r \in Rows : TakeRow(w, r)) \/ Crash(w) \/ Stall(w))
          PROVE  FALSE
      <4>1. job'[w].step = "segment" /\ job[w].step = "claim" /\ job[w].leaf \in ParkedLeaves
        BY <1>1, <3>1, ClaimLeafGoes DEF ClaimLeaf, At
      <4>2. LeafGone(w)
        BY <3>1, <4>1 DEF Calm, Busy, EnterFired, EnterRerun, EnterToFail, EnterDrain, NextLeaf, SegmentParks,
              SegmentFinishes, SegmentFails, SegmentLosesRun, SettleAlone, CommitRefused, Recheck, TearDown,
              Exits, FailRun, DropFailed, ClearIfQuiescent, Unlease, Outcome, FinishRow, FinishCommand, At
      <4> QED
        BY <4>1, <4>2 DEF LeafGone
    <3> QED
      BY <3>1
  <2> QED
    BY <1>1, <2>1, HoldsSame DEF Calm, Works, Enters, Segments
<1> QED
  BY <1>1, <1>2, CalmWrites, CalmStep

\* A lease taken: nobody resumes anything under it yet.
LEMMA LeaseKeepsApart ==
    ASSUME ApartInv, ShapeInv', NEW w \in Workers, TakeLease(w)
    PROVE  ApartInv'
<1>1. Went(w, "enter") /\ UNCHANGED <<ends, left>> /\ lease'.by = w
  BY GotoWent DEF TakeLease, ApartInv, LeaseOf
<1>2. EntersBare' /\ ParksLeft' /\ EndsOnce'
  <2>1. job[w].step = "lease"
    BY DEF TakeLease, At
  <2> QED
    BY <1>1, <2>1 DEF ApartInv, EntersBare, ParksLeft, EndsOnce, Went, Stays, Others
<1>3. ParkedOpen'
  <2> SUFFICES ASSUME NEW l \in Leaves, leaf'[l] # NoLeaf
               PROVE  Open(l, leaf[l].park)'
    BY DEF ParkedOpen
  <2>1. leaf'[l] = IF leaf[l] # NoLeaf THEN [leaf[l] EXCEPT !.status = "parked"] ELSE NoLeaf
    BY DEF TakeLease, Returned
  <2>2. leaf[l] # NoLeaf /\ leaf[l] \in LeafRow /\ leaf'[l] = [leaf[l] EXCEPT !.status = "parked"]
    BY <2>1, RowTypes DEF ApartInv
  <2>3. leaf'[l].park = leaf[l].park
    BY <2>2 DEF LeafRow
  <2>4. Open(l, leaf[l].park)
    BY <2>2 DEF ApartInv, ParkedOpen
  <2> QED
    BY <1>1, <2>3, <2>4 DEF Open
<1>4. ResumesOpen'
  BY <1>1 DEF Went, ResumesOpen, InSegment
<1> QED
  BY <1>2, <1>3, <1>4 DEF ApartInv

\* A leaf claimed: the claim takes the number the leaf was parked at.
LEMMA ClaimKeepsApart ==
    ASSUME ApartInv, ShapeInv', NEW w \in Workers, ClaimLeaf(w)
    PROVE  ApartInv'
<1>0. PICK l \in Leaves : l = job[w].leaf /\ leaf[l] # NoLeaf /\ leaf[l].status = "parked"
  BY DEF ClaimLeaf, ParkedLeaves
<1>1. /\ UNCHANGED <<ends, left, lease>> /\ Others(w) /\ job'[w].step = "segment" /\ job'[w].leaf = l
      /\ job'[w].park = leaf[l].park
  BY <1>0, ClaimLeafGoes DEF ClaimLeaf, ApartInv
<1>2. EntersBare' /\ ParksLeft' /\ EndsOnce'
  BY <1>1 DEF ApartInv, EntersBare, ParksLeft, EndsOnce, Others
<1>3. /\ \A m \in Leaves : m # l => leaf'[m] = leaf[m]
      /\ leaf'[l] = [leaf[l] EXCEPT !.status = "resuming"]
  BY <1>0, ShapeTypes DEF ClaimLeaf, ApartInv, RestTypes
<1>4. leaf[l] \in LeafRow
  BY <1>0, RowTypes DEF ApartInv
<1>5. leaf'[l].park = leaf[l].park /\ leaf'[l].status = "resuming"
  BY <1>3, <1>4 DEF LeafRow
<1>6. Open(l, leaf[l].park)
  BY <1>0 DEF ApartInv, ParkedOpen
<1>7. ParkedOpen'
  BY <1>1, <1>3, <1>5, <1>6 DEF ApartInv, ParkedOpen, Open
<1>8. ResumesOpen'
  <2> SUFFICES ASSUME NEW v \in Workers, lease'.by = v, job'[v].step \in {"segment", "commit"}, job'[v].leaf # NoLeaf
               PROVE  /\ Open(job[v].leaf, job[v].park)'
                      /\ leaf'[job'[v].leaf] # NoLeaf => leaf'[job'[v].leaf].status = "resuming"
    BY DEF ResumesOpen, InSegment
  <2>1. CASE v = w
    BY <1>1, <1>5, <1>6, <2>1 DEF Open
  <2>2. CASE v # w
    <3>1. job'[v] = job[v] /\ lease.by = v
      BY <1>1, <2>2 DEF Others
    <3>2. Open(job[v].leaf, job[v].park) /\ (leaf[job[v].leaf] # NoLeaf => leaf[job[v].leaf].status = "resuming")
      BY <3>1 DEF ApartInv, ResumesOpen, InSegment
    <3>3. job[v].leaf \in Leaves
      BY <3>1, JobTypes DEF ApartInv, Job
    <3>4. job[v].leaf = l \/ leaf'[job[v].leaf] = leaf[job[v].leaf]
      BY <1>3, <3>3
    <3> QED
      BY <1>1, <1>5, <3>1, <3>2, <3>4 DEF Open
  <2> QED
    BY <2>1, <2>2
<1> QED
  BY <1>2, <1>7, <1>8 DEF ApartInv

\* A commit under the lease: the end it keeps is its park's first, and what it
\* parks gets a number no end was kept at.
LEMMA CommitKeepsApart ==
    ASSUME ApartInv, ShapeInv', NEW w \in Workers, Commit(w)
    PROVE  ApartInv'
<1> DEFINE parks == job[w].parks
           q == left["parks"]
<1>0. RestTypes /\ ShapeInv /\ job[w] \in Job /\ parks \in SUBSET Leaves /\ Cardinality(parks) \in Nat
      /\ q \in Nat /\ Bounds["parks"] \in Nat
  BY ShapeTypes, JobTypes, ConstantTypes DEF ApartInv, Job, RestTypes, BoundNames
<1>1. lease.by = w /\ job[w].step = "commit" /\ UNCHANGED lease
  BY DEF Commit, Fenced, At
<1>2. left'["parks"] = q - Cardinality(parks) /\ q >= Cardinality(parks)
  BY <1>0, Spent DEF Commit, RestTypes, BoundNames
<1>3. job[w].leaf # NoLeaf =>
          Open(job[w].leaf, job[w].park) /\ (leaf[job[w].leaf] # NoLeaf => leaf[job[w].leaf].status = "resuming")
  BY <1>1 DEF ApartInv, ResumesOpen, InSegment
<1>4. ends' = IF job[w].leaf # NoLeaf THEN [ends EXCEPT ![job[w].leaf][job[w].park] = @ + 1] ELSE ends
  BY DEF Commit
<1>5. \A l \in Leaves : \A p \in Parks :
          ends'[l][p] = IF l = job[w].leaf /\ p = job[w].park THEN ends[l][p] + 1 ELSE ends[l][p]
  <2> SUFFICES ASSUME NEW l \in Leaves, NEW p \in Parks
               PROVE  ends'[l][p] = IF l = job[w].leaf /\ p = job[w].park THEN ends[l][p] + 1 ELSE ends[l][p]
    OBVIOUS
  <2>1. ends \in [Leaves -> [Parks -> Nat]] /\ ends[l] \in [Parks -> Nat] /\ l # NoLeaf
    BY <1>0, ConstantTypes DEF RestTypes
  <2>2. CASE job[w].leaf = NoLeaf
    BY <1>4, <2>1, <2>2
  <2>3. CASE job[w].leaf # NoLeaf
    BY <1>4, <2>1, <2>3
  <2> QED
    BY <2>2, <2>3
<1>6. ends \in [Leaves -> [Parks -> Nat]] /\ \A l \in Leaves : \A p \in Parks : ends[l][p] \in Nat
  BY <1>0 DEF RestTypes
<1>7. ParksLeft'
  BY <1>0, <1>2 DEF ApartInv, ParksLeft
<1>8. EndsOnce'
  <2> SUFFICES ASSUME NEW l \in Leaves, NEW p \in Parks
               PROVE  ends'[l][p] <= 1 /\ (p <= left'["parks"] => ends'[l][p] = 0)
    BY DEF EndsOnce
  <2>1. ends[l][p] <= 1 /\ (p <= q => ends[l][p] = 0) /\ ends[l][p] \in Nat /\ p \in Nat
    BY <1>6 DEF ApartInv, EndsOnce, Parks
  <2>2. CASE l = job[w].leaf /\ p = job[w].park
    <3>1. l # NoLeaf
      BY ConstantTypes
    <3>2. ends[l][p] = 0 /\ p > q
      BY <1>3, <2>2, <3>1 DEF Open
    <3> QED
      BY <1>0, <1>2, <1>5, <2>1, <2>2, <3>2
  <2>3. CASE ~(l = job[w].leaf /\ p = job[w].park)
    BY <1>0, <1>2, <1>5, <2>1, <2>3
  <2> QED
    BY <2>2, <2>3
<1>9. AfterCommit(w)
  BY DEF Commit
<1>10. Others(w) /\ job'[w].step \notin {"lease", "enter", "segment", "commit"}
  BY <1>0, <1>9, AfterCommitGoes
<1>11. EntersBare'
  BY <1>10 DEF ApartInv, EntersBare, Others
<1>12. ResumesOpen'
  BY <1>1, <1>10 DEF ResumesOpen, InSegment
<1>13. ParkedOpen'
  <2> SUFFICES ASSUME NEW l \in Leaves, leaf'[l] # NoLeaf
               PROVE  Open(l, leaf[l].park)'
    BY DEF ParkedOpen
  <2>1. PICK wakes : leaf' = LeavesAfter(w, wakes)
    BY DEF Commit
  <2>2. CASE l \in parks
    <3>1. leaf'[l] = [status |-> "parked", wake |-> IF l \in Timers THEN wakes[l] ELSE 0, park |-> q, attempt |-> run.attempt]
      BY <2>1, <2>2 DEF LeavesAfter
    <3>2. leaf'[l].park = q
      BY <3>1
    <3>3. Cardinality(parks) >= 1
      BY <1>0, <2>2, ConstantTypes, FS_EmptySet
    <3>4. q \in Parks
      BY <1>0, <1>2, <3>3 DEF ApartInv, ParksLeft, Parks
    <3>5. ends[l][q] = 0
      BY <1>0, <3>4 DEF ApartInv, EndsOnce
    <3>6. ~(l = job[w].leaf /\ q = job[w].park)
      <4>1. ASSUME l = job[w].leaf, q = job[w].park
            PROVE  FALSE
        BY <1>0, <1>3, <4>1, ConstantTypes DEF Open
      <4> QED
        BY <4>1
    <3>7. ends'[l][q] = 0
      BY <1>5, <3>4, <3>5, <3>6
    <3> QED
      BY <1>0, <1>2, <3>2, <3>3, <3>4, <3>7 DEF Open
  <2>3. CASE l \notin parks
    <3>1. leaf'[l] = IF l = job[w].leaf /\ leaf[l] # NoLeaf /\ leaf[l].status = "resuming" THEN NoLeaf ELSE leaf[l]
      BY <2>1, <2>3 DEF LeavesAfter
    <3>2. leaf'[l] = leaf[l] /\ l # job[w].leaf
      BY <1>3, <3>1, ConstantTypes
    <3>3. Open(l, leaf[l].park)
      BY <3>2 DEF ApartInv, ParkedOpen
    <3>4. ends'[l][leaf[l].park] = ends[l][leaf[l].park]
      BY <1>5, <3>2, <3>3 DEF Open
    <3> QED
      BY <1>0, <1>2, <3>2, <3>3, <3>4 DEF Open, Parks
  <2> QED
    BY <2>2, <2>3
<1> QED
  BY <1>7, <1>8, <1>11, <1>12, <1>13 DEF ApartInv

LEMMA ApartInit == Init => ApartInv
<1> SUFFICES ASSUME Init
             PROVE  ApartInv
  OBVIOUS
<1>1. ShapeInv /\ \A w \in Workers : job[w] = Idle
  BY ShapeInit DEF Init
<1>2. EntersBare /\ ResumesOpen
  BY <1>1, IdleIs DEF EntersBare, ResumesOpen, InSegment
<1>3. ParksLeft /\ EndsOnce /\ ParkedOpen
  BY ConstantTypes DEF Init, ParksLeft, EndsOnce, ParkedOpen, BoundNames
<1> QED
  BY <1>1, <1>2, <1>3 DEF ApartInv

LEMMA ApartStep == ApartInv /\ [Next]_vars => ApartInv'
<1> SUFFICES ASSUME ApartInv, [Next]_vars
             PROVE  ApartInv'
  OBVIOUS
<1>0. ShapeInv /\ ShapeInv'
  BY ShapeStep DEF ApartInv
<1>1. ASSUME UNCHANGED <<ends, left, leaf, job>>, lease'.by \in {lease.by, Nobody, Gone}
      PROVE  ApartInv'
  <2>1. \A w \in Workers : SameHold(w)
    BY <1>1 DEF SameHold, ApartInv, EntersBare
  <2> QED
    BY <1>0, <1>1, <2>1, CalmStep
<1>2. CASE UNCHANGED vars
  BY <1>1, <1>2 DEF vars
<1>3. CASE (\E l \in Awaits : Arrive(l)) \/ LeaseLapses \/ Tick
  <2>1. UNCHANGED <<ends, left, leaf, job>> /\ (UNCHANGED lease \/ lease' = [lease EXCEPT !.lapsed = TRUE])
    BY <1>3 DEF Arrive, LeaseLapses, Tick, runVars
  <2>2. lease'.by = lease.by
    BY <1>0, <2>1, ShapeTypes DEF RestTypes
  <2> QED
    BY <1>1, <2>1, <2>2
<1>4. ASSUME NEW w \in Workers,
             \/ Asks(w) \/ SweepLostRun(w) \/ (\E r \in Rows : TakeRow(w, r))
             \/ Works(w) \/ Crash(w) \/ Stall(w)
      PROVE  ApartInv'
  <2>1. Calm(w) \/ TakeLease(w) \/ ClaimLeaf(w) \/ Commit(w)
    BY <1>4 DEF Calm, Works, Enters, Segments
  <2> QED
    BY <1>0, <2>1, CalmKeepsApart, LeaseKeepsApart, ClaimKeepsApart, CommitKeepsApart
<1> QED
  BY <1>2, <1>3, <1>4, StepOf

LEMMA AlwaysApart == Spec => []ApartInv
BY ApartInit, ApartStep, PTL DEF Spec

\* Whatever process dies, stalls or is overtaken, on either store, the end of
\* each resume of a leaf is kept once (claim_leaf, commit_segment, abandon_run).
THEOREM ResumesEndOnce == Spec => []ResumeKeptOnce
<1>1. ApartInv => ResumeKeptOnce
  BY DEF ApartInv, EndsOnce, ResumeKeptOnce
<1> QED
  BY <1>1, AlwaysApart, PTL

-----------------------------------------------------------------------------
(* While no process outstalls its lease, one process at a time is inside the *)
(* run: only it writes the leaves and settles it.                            *)

Inside == {"enter", "next", "claim", "segment", "commit", "recheck", "teardown", "failing", "drop", "quiesce", "unlease"}

NoStalls == Bounds["stalls"] = 0

IsInside(w) == job[w].step \in Inside

OneInside == \A w \in Workers : IsInside(w) => lease = LeaseOf(w)

\* A run not fired yet has nothing.
NotYet ==
    run.status = "none" =>
        /\ \A w \in Workers : job[w].step = "idle"
        /\ \A r \in Rows : ask[r] = "none"
        /\ \A l \in Leaves : leaf[l] = NoLeaf

\* A leaf being resumed under a process inside is the one it resumes.
OwnResumingOf(w) ==
    IsInside(w) => \A l \in Leaves : leaf[l] # NoLeaf /\ leaf[l].status = "resuming" =>
        job[w].leaf = l /\ job[w].step \in {"segment", "commit", "failing", "drop"}

\* What a segment settles the run as fits the leaves there are and it parks.
EndsFitOf(w) ==
    job[w].step = "commit" =>
        /\ job[w].settle # "running"
        /\ job[w].parks # {} => job[w].settle = "parked"
        /\ job[w].settle = "completed" => ParkedLeaves \subseteq {job[w].leaf}
        /\ job[w].settle = "parked" => job[w].parks # {} \/ \E l \in ParkedLeaves : l # job[w].leaf

\* A run's leaves are dropped once it is settled.
DropsSettledOf(w) == job[w].step \in {"drop", "teardown"} => run.status \in {"completed", "failed"}

CompletedIsBare == run.status = "completed" => \A l \in Leaves : leaf[l] = NoLeaf

ParkedHas == run.status = "parked" => \E l \in Leaves : leaf[l] # NoLeaf

InsideFits == \A w \in Workers : OwnResumingOf(w) /\ EndsFitOf(w) /\ DropsSettledOf(w)

SoleInv ==
    /\ ApartInv /\ left["stalls"] = 0
    /\ OneInside /\ NotYet /\ InsideFits /\ CompletedIsBare /\ ParkedHas

\* Who is inside is alone there, and its lease stands.
LEMMA Sole ==
    ASSUME SoleInv, NEW w \in Workers, IsInside(w)
    PROVE  /\ lease = LeaseOf(w) /\ Holds(w) /\ Fenced(w) /\ ~Free /\ run.status # "none"
           /\ \A v \in Workers : v # w => ~IsInside(v)
<1>1. lease = LeaseOf(w) /\ lease.by = w /\ lease.lapsed = FALSE
  BY DEF SoleInv, OneInside, LeaseOf
<1>2. \A v \in Workers : v # w => ~IsInside(v)
  BY <1>1 DEF SoleInv, OneInside, LeaseOf
<1>3. run.status # "none"
  BY DEF SoleInv, NotYet, IsInside, Inside
<1> QED
  BY <1>1, <1>2, <1>3, ConstantTypes DEF Holds, Fenced, Free

\* A step of the process inside.
LEMMA InsideStep ==
    ASSUME SoleInv, ApartInv', NEW w \in Workers, IsInside(w), Others(w), UNCHANGED lease,
           left'["stalls"] = left["stalls"], run'.status # "none",
           OwnResumingOf(w)', EndsFitOf(w)', DropsSettledOf(w)', CompletedIsBare', ParkedHas'
    PROVE  SoleInv'
<1>1. OneInside'
  BY Sole DEF Others, OneInside, IsInside
<1>2. NotYet'
  BY DEF NotYet
<1>3. InsideFits'
  <2> SUFFICES ASSUME NEW v \in Workers, v # w
               PROVE  OwnResumingOf(v)' /\ EndsFitOf(v)' /\ DropsSettledOf(v)'
    BY DEF InsideFits
  <2>1. job'[v].step \notin Inside
    BY Sole DEF Others, IsInside
  <2> QED
    BY <2>1 DEF OwnResumingOf, EndsFitOf, DropsSettledOf, IsInside, Inside
<1> QED
  BY <1>1, <1>2, <1>3 DEF SoleInv

\* A step of a process outside, or of none, that writes no leaf and leaves the
\* run's status and its lease, or the lease of a process dead.
LEMMA OutsideStep ==
    ASSUME SoleInv, ApartInv', UNCHANGED leaf, run'.status = run.status, run.status # "none",
           left'["stalls"] = left["stalls"],
           \A v \in Workers : job'[v].step \in Inside => job'[v] = job[v] /\ (lease = LeaseOf(v) => lease' = lease)
    PROVE  SoleInv'
<1>1. OneInside'
  BY DEF SoleInv, OneInside, IsInside
<1>2. NotYet' /\ CompletedIsBare' /\ ParkedHas'
  BY DEF SoleInv, NotYet, CompletedIsBare, ParkedHas
<1>3. InsideFits'
  <2> SUFFICES ASSUME NEW v \in Workers
               PROVE  OwnResumingOf(v)' /\ EndsFitOf(v)' /\ DropsSettledOf(v)'
    BY DEF InsideFits
  <2>1. CASE job'[v].step \notin Inside
    BY <2>1 DEF OwnResumingOf, EndsFitOf, DropsSettledOf, IsInside, Inside
  <2>2. CASE job'[v].step \in Inside
    <3>1. job'[v] = job[v] /\ OwnResumingOf(v) /\ EndsFitOf(v) /\ DropsSettledOf(v)
      BY <2>2 DEF SoleInv, InsideFits
    <3> QED
      BY <3>1 DEF OwnResumingOf, EndsFitOf, DropsSettledOf, IsInside, ParkedLeaves
  <2> QED
    BY <2>1, <2>2
<1> QED
  BY <1>1, <1>2, <1>3 DEF SoleInv

\* The bound of stalls is nobody else's.
LEMMA StallsLeft ==
    ASSUME SoleInv, NEW w \in Workers,
           \/ Asks(w) \/ SweepLostRun(w) \/ (\E r \in Rows : TakeRow(w, r)) \/ Works(w) \/ Crash(w)
    PROVE  left'["stalls"] = left["stalls"]
<1>0. left \in [BoundNames -> Nat] /\ job[w] \in Job /\ Cardinality(job[w].parks) \in Nat
  BY ShapeTypes, JobTypes, ConstantTypes DEF SoleInv, ApartInv, RestTypes, Job
<1>1. CASE Commit(w)
  BY <1>0, <1>1, Spent DEF Commit, BoundNames
<1>2. CASE ~Commit(w)
  <2>1. UNCHANGED left \/ \E b \in {"resumes", "reruns", "cancels", "overruns", "crashes"} : Spend(b, 1)
    BY <1>2 DEF Asks, Fire, ResumeRun, Rerun, RequestCancel, SweepLostRun, TakeRow, Works, Enters, Segments, TakeLease,
           Busy, EnterFired, EnterRerun,
           EnterToFail, EnterDrain, NextLeaf, ClaimLeaf, LeafGone, SegmentParks, SegmentFinishes, SegmentFails, SegmentLosesRun,
           SettleAlone, CommitRefused, Recheck, TearDown, Exits, FailRun, DropFailed, ClearIfQuiescent, Unlease, Outcome,
           FinishRow, FinishCommand, Crash
  <2> QED
    BY <1>0, <2>1, Spent DEF BoundNames
<1> QED
  BY <1>1, <1>2

LEMMA NotNone ==
    ASSUME SoleInv, NEW w \in Workers, job[w].step # "idle"
    PROVE  run.status # "none"
BY DEF SoleInv, NotYet

LEMMA FireIsSole ==
    ASSUME SoleInv, ApartInv', NEW w \in Workers, Fire(w)
    PROVE  SoleInv'
<1>0. ShapeInv /\ RestTypes
  BY ShapeTypes DEF SoleInv, ApartInv
<1>1. run.status = "none" /\ run'.status = "running" /\ UNCHANGED <<lease, leaf, left>>
  BY <1>0 DEF Fire, RestTypes
<1>2. Began(w, "fired", NoRow)
  BY <1>0, StartedBegan DEF Fire
<1>3. \A v \in Workers : job'[v].step \in {"idle", "lease"}
  BY <1>1, <1>2 DEF Began, Others, SoleInv, NotYet
<1>4. OneInside' /\ InsideFits'
  BY <1>3 DEF OneInside, IsInside, Inside, InsideFits, OwnResumingOf, EndsFitOf, DropsSettledOf
<1>5. NotYet' /\ CompletedIsBare' /\ ParkedHas'
  BY <1>1 DEF NotYet, CompletedIsBare, ParkedHas
<1> QED
  BY <1>1, <1>4, <1>5 DEF SoleInv

\* What is done outside the lease, and the lease given back.
Outside(w) ==
    \/ ResumeRun(w) \/ Rerun(w) \/ RequestCancel(w) \/ SweepLostRun(w) \/ (\E r \in Rows : TakeRow(w, r))
    \/ Busy(w) \/ Unlease(w) \/ Outcome(w) \/ FinishRow(w) \/ FinishCommand(w) \/ Crash(w)

LEMMA OutsideWrites ==
    ASSUME SoleInv, NEW w \in Workers, Outside(w)
    PROVE  /\ UNCHANGED leaf /\ run'.status = run.status /\ run.status # "none" /\ (run.cancel => run'.cancel)
           /\ Others(w) /\ job'[w].step \notin Inside
<1>0. ShapeInv /\ RestTypes
  BY ShapeTypes DEF SoleInv, ApartInv
<1>1. UNCHANGED leaf
  BY DEF Outside, ResumeRun, Rerun, RequestCancel, SweepLostRun, TakeRow, Busy, Unlease, Outcome, FinishRow, FinishCommand, Crash,
         runVars
<1>2. run'.status = run.status /\ (run.cancel => run'.cancel)
  <2>1. CASE RequestCancel(w)
    BY <1>0, <2>1 DEF RequestCancel, RestTypes
  <2>2. CASE ~RequestCancel(w)
    BY <2>2 DEF Outside, ResumeRun, Rerun, SweepLostRun, TakeRow, Busy, Unlease, Outcome, FinishRow, FinishCommand, Crash, runVars
  <2> QED
    BY <2>1, <2>2
<1>3. run.status # "none"
  <2>1. CASE ResumeRun(w) \/ Rerun(w) \/ RequestCancel(w) \/ SweepLostRun(w)
    BY <2>1 DEF ResumeRun, Rerun, RequestCancel, SweepLostRun, Lapsed, Unsettled
  <2>2. ASSUME NEW r \in Rows, TakeRow(w, r)
        PROVE  run.status # "none"
    BY <2>2 DEF TakeRow, Queue!Take, SoleInv, NotYet
  <2>3. CASE Busy(w) \/ Unlease(w) \/ Outcome(w) \/ FinishRow(w) \/ FinishCommand(w) \/ Crash(w)
    <3>1. job[w].step # "idle"
      BY <2>3 DEF Busy, Unlease, Outcome, FinishRow, FinishCommand, Crash, At
    <3> QED
      BY <3>1, NotNone
  <2> QED
    BY <2>1, <2>2, <2>3 DEF Outside
<1>4. Others(w) /\ job'[w].step \notin Inside
  <2>1. CASE ResumeRun(w) \/ Rerun(w) \/ RequestCancel(w) \/ SweepLostRun(w) \/ (\E r \in Rows : TakeRow(w, r))
    <3>1. \E kind, r : Started(w, kind, r)
      BY <2>1 DEF ResumeRun, Rerun, RequestCancel, SweepLostRun, TakeRow
    <3> QED
      BY <1>0, <3>1, StartedBegan DEF Began, Inside
  <2>2. CASE Busy(w)
    BY <1>0, <2>2, LosesAt DEF LostAt, Inside
  <2>3. CASE Unlease(w) \/ Outcome(w)
    <3>1. Went(w, "outcome") \/ Went(w, "finish")
      BY <1>0, <2>3, GotoWent DEF Unlease, Outcome
    <3> QED
      BY <3>1 DEF Went, Inside
  <2>4. CASE FinishRow(w) \/ FinishCommand(w) \/ Crash(w)
    <3>1. Ended(w)
      BY <1>0, <2>4, IdleEnded DEF FinishRow, FinishCommand, Crash
    <3> QED
      BY <3>1, IdleIs DEF Ended, Inside
  <2> QED
    BY <2>1, <2>2, <2>3, <2>4 DEF Outside
<1> QED
  BY <1>1, <1>2, <1>3, <1>4

LEMMA OutsideIsSole ==
    ASSUME SoleInv, ApartInv', NEW w \in Workers, Outside(w)
    PROVE  SoleInv'
<1>1. left'["stalls"] = left["stalls"]
  BY StallsLeft DEF Outside, Asks, Works, Enters, Exits
<1>2. ASSUME NEW v \in Workers, job'[v].step \in Inside
      PROVE  job'[v] = job[v] /\ (lease = LeaseOf(v) => lease' = lease)
  <2>1. v # w /\ job'[v] = job[v] /\ IsInside(v)
    BY <1>2, OutsideWrites DEF Others, IsInside
  <2>2. ~Unlease(w)
    <3>1. Unlease(w) => IsInside(w)
      BY DEF Unlease, At, IsInside, Inside
    <3> QED
      BY <2>1, <3>1, Sole
  <2>3. UNCHANGED lease \/ (Crash(w) /\ lease' = IF lease.by = w THEN [lease EXCEPT !.by = Gone] ELSE lease)
    BY <2>2 DEF Outside, ResumeRun, Rerun, RequestCancel, SweepLostRun, TakeRow, Busy, Outcome, FinishRow, FinishCommand, Crash,
         runVars
  <2> QED
    BY <2>1, <2>3 DEF LeaseOf
<1> QED
  BY <1>1, <1>2, OutsideWrites, OutsideStep

\* A lease taken: nobody was inside, and nothing is being resumed.
LEMMA LeaseIsSole ==
    ASSUME SoleInv, ApartInv', NEW w \in Workers, TakeLease(w)
    PROVE  SoleInv'
<1>0. ShapeInv /\ RestTypes
  BY ShapeTypes DEF SoleInv, ApartInv
<1>1. Free /\ lease' = LeaseOf(w) /\ leaf' = Returned /\ UNCHANGED <<run, left>> /\ Went(w, "enter") /\ job[w].step = "lease"
  BY <1>0, GotoWent DEF TakeLease, At
<1>2. \A v \in Workers : ~IsInside(v)
  BY <1>1, Sole
<1>3. OneInside'
  BY <1>1, <1>2 DEF Went, Others, OneInside, IsInside
<1>4. run.status # "none"
  BY <1>1, NotNone
<1>5. \A l \in Leaves : /\ leaf'[l] = NoLeaf <=> leaf[l] = NoLeaf
                        /\ leaf'[l] # NoLeaf => leaf'[l].status # "resuming"
  <2> SUFFICES ASSUME NEW l \in Leaves, leaf[l] # NoLeaf
               PROVE  leaf'[l] # NoLeaf /\ leaf'[l].status # "resuming"
    BY <1>1 DEF Returned
  <2>1. leaf[l] \in LeafRow /\ leaf'[l] = [leaf[l] EXCEPT !.status = "parked"]
    BY <1>0, <1>1, RowTypes DEF Returned
  <2>2. leaf'[l] \in LeafRow /\ leaf'[l].status = "parked"
    BY <2>1 DEF LeafRow
  <2> QED
    BY <2>2, ConstantTypes
<1>6. InsideFits'
  <2> SUFFICES ASSUME NEW v \in Workers
               PROVE  OwnResumingOf(v)' /\ EndsFitOf(v)' /\ DropsSettledOf(v)'
    BY DEF InsideFits
  <2>1. job'[v].step \notin {"commit", "drop", "teardown"}
    BY <1>1, <1>2 DEF Went, Others, IsInside, Inside
  <2> QED
    BY <1>5, <2>1 DEF OwnResumingOf, EndsFitOf, DropsSettledOf
<1>7. NotYet' /\ CompletedIsBare' /\ ParkedHas'
  BY <1>1, <1>4, <1>5 DEF SoleInv, NotYet, CompletedIsBare, ParkedHas
<1> QED
  BY <1>1, <1>3, <1>6, <1>7 DEF SoleInv

\* The leaves as a process inside finds them when it resumes none.
LEMMA NoneResuming ==
    ASSUME SoleInv, NEW w \in Workers, IsInside(w), job[w].step \notin {"segment", "commit", "failing", "drop"}
    PROVE  \A l \in Leaves : leaf[l] # NoLeaf => leaf[l].status = "parked"
<1>1. \A l \in Leaves : leaf[l] # NoLeaf => leaf[l].status # "resuming"
  BY DEF SoleInv, InsideFits, OwnResumingOf
<1>2. \A l \in Leaves : leaf[l] # NoLeaf => leaf[l] \in LeafRow
  BY RowTypes DEF SoleInv, ApartInv
<1> QED
  BY <1>1, <1>2 DEF LeafRow

\* A failed write settles the run, and nothing else.
LEMMA FailedIs ==
    ASSUME ShapeInv, MarkFailed
    PROVE  /\ run'.status = IF run.status \in Unsettled THEN "failed" ELSE run.status
           /\ run'.cancel = run.cancel /\ run'.attempt = run.attempt
           /\ run.status # "none" => run'.status \in {"completed", "failed"}
<1>1. RestTypes
  BY ShapeTypes
<1>2. /\ run'.status = IF run.status \in Unsettled THEN "failed" ELSE run.status
      /\ run'.cancel = run.cancel /\ run'.attempt = run.attempt
  BY <1>1 DEF RestTypes, MarkFailed
<1> QED
  BY <1>1, <1>2 DEF RestTypes, Unsettled

\* A step inside that writes no leaf, and parks or completes nothing.
LEMMA QuietInside ==
    ASSUME SoleInv, ApartInv', NEW w \in Workers, IsInside(w), Works(w), Others(w), UNCHANGED <<lease, leaf>>,
           run'.status \in {run.status, "failed", "running"},
           OwnResumingOf(w)', EndsFitOf(w)', DropsSettledOf(w)'
    PROVE  SoleInv'
<1>1. run.status # "none" /\ run'.status # "none"
  BY Sole
<1>2. CompletedIsBare' /\ ParkedHas'
  BY DEF SoleInv, CompletedIsBare, ParkedHas
<1> QED
  BY <1>1, <1>2, StallsLeft, InsideStep

LEMMA EntersAreSole ==
    ASSUME SoleInv, ApartInv', NEW w \in Workers, EnterFired(w) \/ EnterRerun(w) \/ EnterToFail(w) \/ EnterDrain(w)
    PROVE  SoleInv'
<1>0. ShapeInv /\ RestTypes
  BY ShapeTypes DEF SoleInv, ApartInv
<1>1. job[w].step = "enter" /\ IsInside(w) /\ Works(w) /\ UNCHANGED <<lease, leaf>>
  BY DEF EnterFired, EnterRerun, EnterToFail, EnterDrain, At, IsInside, Inside, Works, Enters, runVars
<1>2. run.status # "none"
  BY <1>1, Sole
<1>3. /\ Others(w) /\ job'[w].step \in {"segment", "unlease", "drop", "next"}
      /\ run'.status \in {run.status, "failed", "running"}
      /\ job'[w].step = "drop" => run'.status \in {"completed", "failed"}
  <2>1. CASE EnterFired(w)
    <3>1. Went(w, "segment") /\ UNCHANGED run
      BY <1>0, <2>1, GotoWent DEF EnterFired, runVars
    <3> QED
      BY <3>1 DEF Went
  <2>2. CASE EnterRerun(w)
    <3>1. Went(w, "segment") \/ Went(w, "unlease")
      BY <1>0, <2>2, GotoWent DEF EnterRerun
    <3>2. run'.status \in {run.status, "running"}
      BY <2>2 DEF EnterRerun
    <3> QED
      BY <3>1, <3>2 DEF Went
  <2>3. CASE EnterToFail(w)
    <3>1. (Went(w, "drop") /\ MarkFailed) \/ (Went(w, "unlease") /\ UNCHANGED run)
      BY <1>0, <2>3, GotoWent DEF EnterToFail
    <3> QED
      BY <1>0, <1>2, <3>1, FailedIs DEF Went
  <2>4. CASE EnterDrain(w)
    BY <1>0, <1>2, <2>4, EnterDrainGoes, FailedIs DEF Went
  <2> QED
    BY <2>1, <2>2, <2>3, <2>4
<1>4. OwnResumingOf(w)'
  <2>1. \A l \in Leaves : leaf'[l] # NoLeaf => leaf'[l].status = "parked"
    BY <1>1, NoneResuming
  <2> QED
    BY <2>1 DEF OwnResumingOf
<1>5. EndsFitOf(w)' /\ DropsSettledOf(w)'
  BY <1>3 DEF EndsFitOf, DropsSettledOf
<1> QED
  BY <1>1, <1>3, <1>4, <1>5, QuietInside

LEMMA LeavesNextAreSole ==
    ASSUME SoleInv, ApartInv', NEW w \in Workers, NextLeaf(w) \/ LeafGone(w) \/ Recheck(w)
    PROVE  SoleInv'
<1>0. ShapeInv /\ RestTypes
  BY ShapeTypes DEF SoleInv, ApartInv
<1>1. job[w].step \in {"next", "claim", "recheck"} /\ IsInside(w) /\ Works(w) /\ UNCHANGED <<lease, leaf>>
  BY DEF NextLeaf, LeafGone, Recheck, At, IsInside, Inside, Works, Segments, runVars
<1>2. run.status # "none"
  BY <1>1, Sole
<1>3. /\ Others(w) /\ job'[w].step \in {"quiesce", "claim", "next", "unlease", "teardown"}
      /\ run'.status \in {run.status, "failed"}
      /\ job'[w].step = "teardown" => run'.status \in {"completed", "failed"}
  <2>1. CASE NextLeaf(w)
    <3>1. UNCHANGED run
      BY <2>1 DEF NextLeaf, runVars
    <3> QED
      BY <1>0, <2>1, <3>1, NextLeafGoes DEF Went, LostAt
  <2>2. CASE LeafGone(w)
    <3>1. UNCHANGED run
      BY <2>2 DEF LeafGone, runVars
    <3> QED
      BY <1>0, <2>2, <3>1, LeafGoneGoes
  <2>3. CASE Recheck(w)
    <3>1. (Went(w, "teardown") /\ MarkFailed) \/ ((Went(w, "quiesce") \/ Went(w, "next")) /\ UNCHANGED run)
      BY <1>0, <2>3, GotoWent DEF Recheck
    <3> QED
      BY <1>0, <1>2, <3>1, FailedIs DEF Went
  <2> QED
    BY <2>1, <2>2, <2>3
<1>4. OwnResumingOf(w)'
  <2>1. \A l \in Leaves : leaf'[l] # NoLeaf => leaf'[l].status = "parked"
    BY <1>1, NoneResuming
  <2> QED
    BY <2>1 DEF OwnResumingOf
<1>5. EndsFitOf(w)' /\ DropsSettledOf(w)'
  BY <1>3 DEF EndsFitOf, DropsSettledOf
<1> QED
  BY <1>1, <1>3, <1>4, <1>5, QuietInside

\* Nobody loses the run it is inside.
LEMMA NothingLost ==
    ASSUME SoleInv, NEW w \in Workers
    PROVE  ~SegmentLosesRun(w) /\ ~CommitRefused(w)
<1>1. SegmentLosesRun(w) => IsInside(w) /\ ~Fenced(w)
  BY DEF SegmentLosesRun, At, IsInside, Inside
<1>2. CommitRefused(w) => IsInside(w) /\ ~Fenced(w)
  BY DEF CommitRefused, At, IsInside, Inside
<1> QED
  BY <1>1, <1>2, Sole

LEMMA SegmentsAreSole ==
    ASSUME SoleInv, ApartInv', NEW w \in Workers, SegmentParks(w) \/ SegmentFinishes(w) \/ SegmentFails(w)
    PROVE  SoleInv'
<1>0. ShapeInv /\ RestTypes
  BY ShapeTypes DEF SoleInv, ApartInv
<1>1. job[w].step = "segment" /\ IsInside(w) /\ Works(w) /\ UNCHANGED <<lease, leaf, run>>
  BY DEF SegmentParks, SegmentFinishes, SegmentFails, At, IsInside, Inside, Works, Segments, runVars
<1>2. /\ Others(w) /\ job'[w].leaf = job[w].leaf /\ job'[w].step \in {"commit", "failing"}
      /\ EndsFitOf(w)'
  <2>1. CASE SegmentParks(w)
    <3>1. PICK parks \in SUBSET Parkable(w) : parks # {} /\ SegmentEnds(w, "parked", parks)
      BY <2>1 DEF SegmentParks
    <3>2. EndedAs(w, "parked", parks)
      BY <1>0, <3>1, SegmentEndedAs
    <3> QED
      BY <3>1, <3>2 DEF EndedAs, EndsFitOf
  <2>2. CASE SegmentFinishes(w)
    <3>1. PICK settle : settle = (IF NothingLeft(w) THEN "completed" ELSE "parked") /\ EndedAs(w, settle, {})
      BY <1>0, <2>2, SegmentEndedAs DEF SegmentFinishes
    <3>2. ParkedLeaves' = ParkedLeaves
      BY <1>1 DEF ParkedLeaves
    <3>3. settle = "completed" => ParkedLeaves \subseteq {job[w].leaf}
      BY <3>1 DEF NothingLeft
    <3>4. settle = "parked" => \E l \in ParkedLeaves : l # job[w].leaf
      BY <3>1 DEF NothingLeft
    <3> QED
      BY <3>1, <3>2, <3>3, <3>4 DEF EndedAs, EndsFitOf
  <2>3. CASE SegmentFails(w)
    BY <1>0, <2>3, SegmentFailsGoes DEF EndedAs, Went, Stays, EndsFitOf
  <2> QED
    BY <2>1, <2>2, <2>3
<1>3. OwnResumingOf(w)'
  BY <1>1, <1>2 DEF SoleInv, InsideFits, OwnResumingOf
<1>4. DropsSettledOf(w)'
  BY <1>2 DEF DropsSettledOf
<1> QED
  BY <1>1, <1>2, <1>3, <1>4, QuietInside

LEMMA ClaimIsSole ==
    ASSUME SoleInv, ApartInv', NEW w \in Workers, ClaimLeaf(w)
    PROVE  SoleInv'
<1>0. ShapeInv /\ RestTypes
  BY ShapeTypes DEF SoleInv, ApartInv
<1>1. job[w].step = "claim" /\ IsInside(w) /\ Works(w) /\ UNCHANGED <<lease, run>>
  BY DEF ClaimLeaf, At, IsInside, Inside, Works, Segments
<1>2. PICK l \in Leaves : l = job[w].leaf /\ leaf[l] # NoLeaf /\ leaf[l].status = "parked"
  BY DEF ClaimLeaf, ParkedLeaves
<1>3. Others(w) /\ job'[w].step = "segment" /\ job'[w].leaf = l
  BY <1>0, <1>2, ClaimLeafGoes
<1>4. /\ \A m \in Leaves : m # l => leaf'[m] = leaf[m]
      /\ leaf'[l] = [leaf[l] EXCEPT !.status = "resuming"]
  BY <1>0, <1>2 DEF ClaimLeaf, RestTypes
<1>5. leaf'[l] \in LeafRow
  BY <1>0, <1>2, <1>4, RowTypes DEF LeafRow
<1>6. \A m \in Leaves : leaf'[m] = NoLeaf <=> leaf[m] = NoLeaf
  BY <1>2, <1>4, <1>5, ConstantTypes
<1>7. OwnResumingOf(w)'
  <2>1. \A m \in Leaves : leaf[m] # NoLeaf => leaf[m].status = "parked"
    BY <1>1, NoneResuming
  <2> QED
    BY <1>3, <1>4, <2>1 DEF OwnResumingOf
<1>8. EndsFitOf(w)' /\ DropsSettledOf(w)'
  BY <1>3 DEF EndsFitOf, DropsSettledOf
<1>9. CompletedIsBare' /\ ParkedHas' /\ run'.status # "none"
  BY <1>1, <1>6, Sole DEF SoleInv, CompletedIsBare, ParkedHas
<1> QED
  BY <1>1, <1>3, <1>7, <1>8, <1>9, StallsLeft, InsideStep

\* The leaves once a segment's end is kept.
LEMMA CommitLeaves ==
    ASSUME ShapeInv, NEW w \in Workers, Commit(w), NEW l \in Leaves
    PROVE  /\ l \in job[w].parks => /\ leaf'[l] # NoLeaf /\ leaf'[l].status = "parked" /\ leaf'[l].attempt = run.attempt
           /\ l \notin job[w].parks =>
                leaf'[l] = IF l = job[w].leaf /\ leaf[l] # NoLeaf /\ leaf[l].status = "resuming" THEN NoLeaf ELSE leaf[l]
<1>0. RestTypes
  BY ShapeTypes
<1>1. PICK wakes \in [job[w].parks \cap Timers -> now + 1 .. Horizon + 1] : leaf' = LeavesAfter(w, wakes)
  BY DEF Commit
<1>2. CASE l \in job[w].parks
  <2>1. leaf'[l] = [status |-> "parked", wake |-> IF l \in Timers THEN wakes[l] ELSE 0, park |-> left["parks"], attempt |-> run.attempt]
    BY <1>1, <1>2 DEF LeavesAfter
  <2>2. left["parks"] \in Nat /\ run.attempt \in Nat /\ (IF l \in Timers THEN wakes[l] ELSE 0) \in Nat
    <3>1. l \in Timers => wakes[l] \in now + 1 .. Horizon + 1
      BY <1>1, <1>2
    <3> QED
      BY <1>0, <3>1, ConstantTypes DEF RestTypes, BoundNames
  <2>3. leaf'[l] \in LeafRow
    BY <2>1, <2>2 DEF LeafRow
  <2>4. leaf'[l].status = "parked" /\ leaf'[l].attempt = run.attempt
    BY <2>1
  <2> QED
    BY <1>2, <2>3, <2>4, ConstantTypes
<1>3. CASE l \notin job[w].parks
  BY <1>1, <1>3 DEF LeavesAfter
<1> QED
  BY <1>2, <1>3

LEMMA CommitIsSole ==
    ASSUME SoleInv, ApartInv', NEW w \in Workers, Commit(w)
    PROVE  SoleInv'
<1>0. ShapeInv /\ RestTypes /\ job[w] \in Job
  BY ShapeTypes, JobTypes DEF SoleInv, ApartInv
<1>1. job[w].step = "commit" /\ IsInside(w) /\ Works(w) /\ UNCHANGED lease
  BY DEF Commit, At, IsInside, Inside, Works, Segments
<1>2. run'.status = job[w].settle
  BY <1>0 DEF Commit, RestTypes
<1>3. Others(w) /\ job'[w].step \in {"failing", "recheck", "quiesce", "next"}
  BY <1>0, AfterCommitGoes DEF Commit
<1>4. job[w].leaf # NoLeaf => (leaf[job[w].leaf] # NoLeaf => leaf[job[w].leaf].status = "resuming")
  <2>1. lease.by = w
    BY DEF Commit, Fenced
  <2> QED
    BY <1>1, <2>1 DEF SoleInv, ApartInv, ResumesOpen, InSegment
<1>5. EndsFitOf(w) /\ OwnResumingOf(w)
  BY DEF SoleInv, InsideFits
<1>6. \A l \in Leaves : leaf[l] # NoLeaf => leaf[l].status \in {"parked", "resuming"}
  BY <1>0, RowTypes DEF LeafRow
<1>7. OwnResumingOf(w)'
  <2> SUFFICES ASSUME NEW l \in Leaves, leaf'[l] # NoLeaf, leaf'[l].status = "resuming"
               PROVE  FALSE
    BY DEF OwnResumingOf
  <2>1. l \notin job[w].parks
    BY <1>0, CommitLeaves
  <2>2. leaf'[l] = leaf[l] /\ ~(l = job[w].leaf /\ leaf[l].status = "resuming")
    BY <1>0, <2>1, CommitLeaves
  <2> QED
    BY <1>1, <1>5, <2>2 DEF OwnResumingOf
<1>8. EndsFitOf(w)' /\ DropsSettledOf(w)'
  BY <1>3 DEF EndsFitOf, DropsSettledOf
<1>9. CompletedIsBare'
  <2> SUFFICES ASSUME run'.status = "completed", NEW l \in Leaves, leaf'[l] # NoLeaf
               PROVE  FALSE
    BY DEF CompletedIsBare
  <2>1. job[w].parks = {} /\ ParkedLeaves \subseteq {job[w].leaf}
    BY <1>1, <1>2, <1>5 DEF EndsFitOf
  <2>2. leaf'[l] = leaf[l] /\ ~(l = job[w].leaf /\ leaf[l].status = "resuming")
    BY <1>0, <2>1, CommitLeaves
  <2>3. CASE leaf[l].status = "parked"
    <3>1. l = job[w].leaf
      BY <2>1, <2>2, <2>3 DEF ParkedLeaves
    <3> QED
      BY <1>4, <2>2, <3>1, ConstantTypes
  <2>4. CASE leaf[l].status = "resuming"
    BY <1>1, <1>5, <2>2, <2>4 DEF OwnResumingOf
  <2> QED
    BY <1>6, <2>2, <2>3, <2>4
<1>10. ParkedHas'
  <2> SUFFICES ASSUME run'.status = "parked"
               PROVE  \E l \in Leaves : leaf'[l] # NoLeaf
    BY DEF ParkedHas
  <2>1. CASE job[w].parks # {}
    <3>1. PICK l \in Leaves : l \in job[w].parks
      BY <1>0, <2>1 DEF Job
    <3> QED
      BY <1>0, <3>1, CommitLeaves
  <2>2. CASE job[w].parks = {}
    <3>1. PICK l \in ParkedLeaves : l # job[w].leaf
      BY <1>1, <1>2, <1>5, <2>2 DEF EndsFitOf
    <3>2. l \in Leaves /\ leaf[l] # NoLeaf
      BY DEF ParkedLeaves
    <3>3. leaf'[l] = leaf[l]
      BY <1>0, <2>2, <3>1, <3>2, CommitLeaves
    <3> QED
      BY <3>2, <3>3
  <2> QED
    BY <2>1, <2>2
<1>11. run'.status # "none"
  BY <1>0, <1>2 DEF Job
<1> QED
  BY <1>1, <1>3, <1>7, <1>8, <1>9, <1>10, <1>11, StallsLeft, InsideStep

\* A fresh run's segment settles it alone.
LEMMA SettleIsSole ==
    ASSUME SoleInv, ApartInv', NEW w \in Workers, SettleAlone(w)
    PROVE  SoleInv'
<1>0. ShapeInv /\ RestTypes /\ job[w] \in Job
  BY ShapeTypes, JobTypes DEF SoleInv, ApartInv
<1>1. job[w].step = "commit" /\ IsInside(w) /\ Works(w) /\ UNCHANGED <<lease, leaf>> /\ job[w].leaf = NoLeaf /\ job[w].parks = {}
  BY DEF SettleAlone, HoldsNothing, At, IsInside, Inside, Works, Segments
<1>2. run'.status = job[w].settle
  BY <1>0 DEF SettleAlone, RestTypes
<1>3. Others(w) /\ job'[w].step \in {"failing", "recheck", "quiesce", "next"}
  BY <1>0, AfterCommitGoes DEF SettleAlone
<1>4. EndsFitOf(w) /\ OwnResumingOf(w)
  BY DEF SoleInv, InsideFits
<1>5. \A l \in Leaves : leaf[l] # NoLeaf => leaf[l].status = "parked"
  BY <1>0, <1>1, <1>4, RowTypes, ConstantTypes DEF LeafRow, OwnResumingOf
<1>6. OwnResumingOf(w)'
  BY <1>1, <1>5 DEF OwnResumingOf
<1>7. EndsFitOf(w)' /\ DropsSettledOf(w)'
  BY <1>3 DEF EndsFitOf, DropsSettledOf
<1>8. CompletedIsBare'
  BY <1>1, <1>2, <1>4, <1>5, ConstantTypes DEF CompletedIsBare, EndsFitOf, ParkedLeaves
<1>9. ParkedHas'
  BY <1>1, <1>2, <1>4 DEF ParkedHas, EndsFitOf, ParkedLeaves
<1>10. run'.status # "none"
  BY <1>0, <1>2 DEF Job
<1> QED
  BY <1>1, <1>3, <1>6, <1>7, <1>8, <1>9, <1>10, StallsLeft, InsideStep

\* The leaves dropped, or found to be none.
LEMMA DropsAreSole ==
    ASSUME SoleInv, ApartInv', NEW w \in Workers, TearDown(w) \/ FailRun(w) \/ DropFailed(w) \/ ClearIfQuiescent(w)
    PROVE  SoleInv'
<1>0. ShapeInv /\ RestTypes
  BY ShapeTypes DEF SoleInv, ApartInv
<1>1. IsInside(w) /\ Works(w) /\ UNCHANGED lease
  BY DEF TearDown, FailRun, DropFailed, ClearIfQuiescent, At, IsInside, Inside, Works, Segments, Exits
<1>2. run.status # "none" /\ Fenced(w) /\ OwnResumingOf(w) /\ DropsSettledOf(w)
  BY <1>1, Sole DEF SoleInv, InsideFits
<1>3. CASE FailRun(w)
  <2>1. Went(w, "drop") /\ MarkFailed /\ UNCHANGED leaf /\ job[w].step = "failing"
    BY <1>0, <1>3, GotoWent DEF FailRun, At
  <2>2. OwnResumingOf(w)'
    BY <1>1, <1>2, <2>1 DEF OwnResumingOf, Went, Stays
  <2>3. run'.status \in {run.status, "failed"} /\ run'.status \in {"completed", "failed"}
    BY <1>0, <1>2, <2>1, FailedIs
  <2>4. EndsFitOf(w)' /\ DropsSettledOf(w)' /\ Others(w)
    BY <2>1, <2>3 DEF EndsFitOf, DropsSettledOf, Went
  <2> QED
    BY <1>1, <2>1, <2>2, <2>3, <2>4, QuietInside
<1>4. CASE ~FailRun(w)
  <2>1. UNCHANGED run
    BY <1>4 DEF TearDown, DropFailed, ClearIfQuiescent
  <2>2. Others(w) /\ job'[w].step \in {"quiesce", "next", "unlease"}
    <3>1. Went(w, "quiesce") \/ Went(w, "next") \/ Went(w, "unlease")
      BY <1>0, <1>4, GotoWent DEF TearDown, DropFailed, ClearIfQuiescent
    <3> QED
      BY <3>1 DEF Went
  <2>3. CASE \A l \in Leaves : leaf'[l] = NoLeaf
    <3>1. run.status = "parked" => UNCHANGED leaf
      <4>1. CASE TearDown(w) \/ DropFailed(w)
        BY <1>2, <4>1 DEF TearDown, DropFailed, At, DropsSettledOf
      <4>2. ASSUME ClearIfQuiescent(w), run.status = "parked"
            PROVE  UNCHANGED leaf
        <5>1. job[w].step = "quiesce"
          BY <4>2 DEF ClearIfQuiescent, At
        <5>2. \A l \in Leaves : leaf[l] # NoLeaf => leaf[l].status = "parked"
          BY <1>1, <5>1, NoneResuming
        <5>3. ParkedLeaves # {}
          BY <4>2, <5>2 DEF SoleInv, ParkedHas, ParkedLeaves
        <5> QED
          BY <4>2, <5>3 DEF ClearIfQuiescent
      <4> QED
        BY <1>4, <4>1, <4>2
    <3>2. OwnResumingOf(w)' /\ EndsFitOf(w)' /\ DropsSettledOf(w)' /\ CompletedIsBare'
      BY <2>2, <2>3 DEF OwnResumingOf, EndsFitOf, DropsSettledOf, CompletedIsBare
    <3>3. ParkedHas'
      BY <2>1, <3>1 DEF SoleInv, ParkedHas
    <3> QED
      BY <1>1, <1>2, <2>1, <2>2, <3>2, <3>3, StallsLeft, InsideStep
  <2>4. CASE UNCHANGED leaf /\ job[w].step = "quiesce"
    <3>1. \A l \in Leaves : leaf'[l] # NoLeaf => leaf'[l].status = "parked"
      BY <1>1, <2>4, NoneResuming
    <3>2. OwnResumingOf(w)' /\ EndsFitOf(w)' /\ DropsSettledOf(w)'
      BY <2>2, <3>1 DEF OwnResumingOf, EndsFitOf, DropsSettledOf
    <3> QED
      BY <1>1, <2>1, <2>2, <2>4, <3>2, QuietInside
  <2> QED
    BY <1>2, <1>4, <2>3, <2>4 DEF TearDown, DropFailed, ClearIfQuiescent, DropState, At
<1> QED
  BY <1>3, <1>4

LEMMA SoleInit == NoStalls /\ Init => SoleInv
<1> SUFFICES ASSUME NoStalls, Init
             PROVE  SoleInv
  OBVIOUS
<1>1. ApartInv /\ \A w \in Workers : job[w] = Idle
  BY ApartInit DEF Init
<1>2. OneInside /\ InsideFits
  BY <1>1, IdleIs DEF OneInside, InsideFits, OwnResumingOf, EndsFitOf, DropsSettledOf, IsInside, Inside
<1>3. NotYet /\ CompletedIsBare /\ ParkedHas
  BY <1>1, IdleIs DEF Init, NotYet, CompletedIsBare, ParkedHas, Queue!QueueInit
<1> QED
  BY <1>1, <1>2, <1>3 DEF Init, SoleInv, NoStalls

LEMMA SoleStep == SoleInv /\ [Next]_vars => SoleInv'
<1> SUFFICES ASSUME SoleInv, [Next]_vars
             PROVE  SoleInv'
  OBVIOUS
<1>0. ShapeInv /\ RestTypes /\ ApartInv'
  BY ShapeTypes, ApartStep DEF SoleInv, ApartInv
<1>1. ASSUME UNCHANGED <<run, left, leaf, job, ask>>, \A v \in Workers : lease = LeaseOf(v) => lease' = lease
      PROVE  SoleInv'
  <2>1. OneInside' /\ NotYet' /\ CompletedIsBare' /\ ParkedHas'
    BY <1>1 DEF SoleInv, OneInside, NotYet, CompletedIsBare, ParkedHas, IsInside
  <2>2. InsideFits'
    BY <1>1 DEF SoleInv, InsideFits, OwnResumingOf, EndsFitOf, DropsSettledOf, IsInside, ParkedLeaves
  <2> QED
    BY <1>0, <1>1, <2>1, <2>2 DEF SoleInv
<1>2. CASE UNCHANGED vars
  BY <1>1, <1>2 DEF vars
<1>3. CASE LeaseLapses \/ Tick
  <2>1. UNCHANGED <<run, left, leaf, job, ask>> /\ (lease = LeaseOf(Gone) \/ UNCHANGED lease)
    BY <1>3 DEF LeaseLapses, Tick, runVars, queue
  <2>2. \A v \in Workers : LeaseOf(v) # LeaseOf(Gone)
    BY ConstantTypes DEF LeaseOf
  <2> QED
    BY <1>1, <2>1, <2>2
<1>4. ASSUME NEW l \in Awaits, Arrive(l)
      PROVE  SoleInv'
  <2>1. UNCHANGED <<run, lease, leaf, job, left>> /\ run.status # "none"
    BY <1>4 DEF Arrive, Unsettled
  <2> QED
    BY <1>0, <2>1, OutsideStep
<1>5. ASSUME NEW w \in Workers,
             \/ Asks(w) \/ SweepLostRun(w) \/ (\E r \in Rows : TakeRow(w, r))
             \/ Works(w) \/ Crash(w) \/ Stall(w)
      PROVE  SoleInv'
  <2>1. CASE Fire(w)
    BY <1>0, <2>1, FireIsSole
  <2>2. CASE Outside(w)
    BY <1>0, <2>2, OutsideIsSole
  <2>3. CASE TakeLease(w)
    BY <1>0, <2>3, LeaseIsSole
  <2>4. CASE EnterFired(w) \/ EnterRerun(w) \/ EnterToFail(w) \/ EnterDrain(w)
    BY <1>0, <2>4, EntersAreSole
  <2>5. CASE NextLeaf(w) \/ LeafGone(w) \/ Recheck(w)
    BY <1>0, <2>5, LeavesNextAreSole
  <2>6. CASE SegmentParks(w) \/ SegmentFinishes(w) \/ SegmentFails(w)
    BY <1>0, <2>6, SegmentsAreSole
  <2>7. CASE SegmentLosesRun(w) \/ CommitRefused(w)
    BY <2>7, NothingLost
  <2>8. CASE ClaimLeaf(w)
    BY <1>0, <2>8, ClaimIsSole
  <2>9. CASE Commit(w)
    BY <1>0, <2>9, CommitIsSole
  <2>10. CASE SettleAlone(w)
    BY <1>0, <2>10, SettleIsSole
  <2>11. CASE TearDown(w) \/ FailRun(w) \/ DropFailed(w) \/ ClearIfQuiescent(w)
    BY <1>0, <2>11, DropsAreSole
  <2>12. CASE Stall(w)
    <3>1. left["stalls"] >= 1
      BY <2>12 DEF Stall, Spend
    <3> QED
      BY <3>1 DEF SoleInv
  <2> QED
    BY <1>5, <2>1, <2>2, <2>3, <2>4, <2>5, <2>6, <2>7, <2>8, <2>9, <2>10, <2>11, <2>12
    DEF Outside, Asks, Works, Enters, Segments, Exits
<1> QED
  BY <1>2, <1>3, <1>4, <1>5, StepOf

LEMMA AlwaysSole == NoStalls => (Spec => []SoleInv)
BY SoleInit, SoleStep, PTL DEF Spec

\* While no process outstalls its lease, a run completes with nothing parked,
\* whatever else is parked, resumed or cancelled meanwhile (run_complete_without).
THEOREM CompletedRunsAreBare == NoStalls => (Spec => []CompletedLeftNothing)
<1>1. SoleInv => CompletedLeftNothing
  BY DEF SoleInv, CompletedIsBare, CompletedLeftNothing, ParkedLeaves
<1> QED
  BY <1>1, AlwaysSole, PTL

\* While no process outstalls its lease, a run that is parked has a leaf to go
\* on from, held or not (run_quiescent, abandon_run, fail_run).
THEOREM ParkedRunsGoOn == NoStalls => (Spec => []ParkedHasALeaf)
<1>1. SoleInv => ParkedHasALeaf
  BY DEF SoleInv, ParkedHas, ParkedHasALeaf
<1> QED
  BY <1>1, AlwaysSole, PTL

-----------------------------------------------------------------------------
(* What runs leave of a settled run. One in which both a cancel and a rerun  *)
(* are asked for may be overtaken before its first segment, so that one or   *)
(* the other is left out here.                                               *)

OnceOnly == NoStalls /\ (Bounds["cancels"] = 0 \/ Bounds["reruns"] = 0)

Settled == run.status \in {"completed", "failed"}

\* What is not asked for is nobody's job.
Asked ==
    /\ Bounds["cancels"] = 0 => /\ ~run.cancel /\ left["cancels"] = 0
                                /\ \A w \in Workers : job[w].kind # "cancel"
    /\ Bounds["reruns"] = 0 => /\ left["reruns"] = 0
                               /\ \A w \in Workers : job[w].kind # "rerun"

ToFire(w) == job[w].kind = "fired" /\ job[w].step \in {"lease", "enter"}

\* Beside a run still to be fired.
Beside(w) ==
    job[w].step # "idle" =>
        /\ job[w].kind \in {"cancel", "timer", "wake", "resume"}
        /\ IsInside(w) => job[w].step \in {"enter", "drop", "unlease"}

\* A run to be fired is as it was, or was cancelled first.
FiringOf(w) ==
    ToFire(w) =>
        /\ run.status = "running" \/ (run.status = "failed" /\ run.cancel)
        /\ \A v \in Workers : v # w => Beside(v)

\* A process that steps a run has it parked or running, unless a cancel failed
\* it meanwhile; what it then commits is that it failed.
GoingOf(w) ==
    /\ job[w].step \in {"next", "claim"} => run.status = "parked" \/ (Settled /\ \A l \in Leaves : leaf[l] = NoLeaf)
    /\ job[w].step = "recheck" => run.status = "parked"
    /\ InSegment(w) => ~Settled \/ (run.status = "failed" /\ run.cancel)
    /\ job[w].step = "commit" => ~Settled \/ job[w].settle = "failed"

OnceInv ==
    /\ OnceOnly /\ SoleInv /\ Asked
    /\ \A w \in Workers : FiringOf(w) /\ GoingOf(w)

\* A bound never grows.
LEMMA LeftFalls ==
    ASSUME ShapeInv, NEW w \in Workers,
           \/ Asks(w) \/ SweepLostRun(w) \/ (\E r \in Rows : TakeRow(w, r)) \/ Works(w) \/ Crash(w) \/ Stall(w)
    PROVE  \A b \in BoundNames : left'[b] <= left[b]
<1>0. left \in [BoundNames -> Nat] /\ job[w] \in Job /\ Cardinality(job[w].parks) \in Nat
  BY ShapeTypes, JobTypes, ConstantTypes DEF RestTypes, Job
<1>1. UNCHANGED left \/ \E b \in BoundNames : \E n \in {1, Cardinality(job[w].parks)} : Spend(b, n)
  <2>1. UNCHANGED left \/ \E b \in {"resumes", "reruns", "cancels", "overruns", "crashes", "stalls", "parks"} :
                              \E n \in {1, Cardinality(job[w].parks)} : Spend(b, n)
    BY DEF Asks, Fire, ResumeRun, Rerun, RequestCancel, SweepLostRun, TakeRow, Works, Enters, Segments, TakeLease,
           Busy, EnterFired, EnterRerun,
           EnterToFail, EnterDrain, NextLeaf, ClaimLeaf, LeafGone, SegmentParks, SegmentFinishes, SegmentFails, SegmentLosesRun,
           SettleAlone, Commit, CommitRefused, Recheck, TearDown, Exits, FailRun, DropFailed, ClearIfQuiescent, Unlease, Outcome,
           FinishRow, FinishCommand, Crash, Stall
  <2> QED
    BY <2>1 DEF BoundNames
<1>2. CASE UNCHANGED left
  BY <1>0, <1>2
<1>3. ASSUME NEW b \in BoundNames, NEW n \in Nat, Spend(b, n)
      PROVE  \A c \in BoundNames : left'[c] <= left[c]
  BY <1>0, <1>3, Spent
<1> QED
  BY <1>0, <1>1, <1>2, <1>3

\* A process at work keeps to its row and what it is there for, until it ends.
LEMMA WorksKeepKind ==
    ASSUME ShapeInv, NEW w \in Workers, Works(w)
    PROVE  /\ Others(w)
           /\ \/ job'[w].kind = job[w].kind /\ job'[w].row = job[w].row /\ ~FinishRow(w) /\ ~FinishCommand(w)
              \/ Ended(w)
<1>1. CASE FinishRow(w) \/ FinishCommand(w)
  BY <1>1, IdleEnded DEF FinishRow, FinishCommand, Ended
<1>2. CASE ~FinishRow(w) /\ ~FinishCommand(w)
  <2>1. CASE \E step : Goto(w, step)
    BY <1>2, <2>1, GotoWent DEF Went, Stays
  <2>2. CASE TakeLease(w) \/ EnterFired(w) \/ EnterRerun(w) \/ EnterToFail(w) \/ Recheck(w) \/ TearDown(w)
             \/ FailRun(w) \/ DropFailed(w) \/ ClearIfQuiescent(w) \/ Unlease(w) \/ Outcome(w)
    BY <2>1, <2>2 DEF TakeLease, EnterFired, EnterRerun, EnterToFail, Recheck, TearDown,
                  FailRun, DropFailed, ClearIfQuiescent, Unlease, Outcome
  <2>3. CASE Busy(w) \/ SegmentLosesRun(w) \/ CommitRefused(w)
    BY <1>2, <2>3, LosesAt DEF LostAt, Stays
  <2>4. CASE EnterDrain(w)
    BY <1>2, <2>4, EnterDrainGoes DEF Went, Stays
  <2>5. CASE NextLeaf(w)
    BY <1>2, <2>5, NextLeafGoes DEF Went, LostAt, Stays
  <2>6. CASE ClaimLeaf(w)
    BY <1>2, <2>6, ClaimLeafGoes
  <2>7. CASE LeafGone(w)
    BY <1>2, <2>7, LeafGoneGoes
  <2>8. CASE SegmentParks(w) \/ SegmentFinishes(w)
    <3>1. \E settle, parks : SegmentEnds(w, settle, parks)
      BY <2>8 DEF SegmentParks, SegmentFinishes
    <3>2. \E settle, parks : EndedAs(w, settle, parks)
      BY <3>1, SegmentEndedAs
    <3> QED
      BY <1>2, <3>2 DEF EndedAs
  <2>9. CASE SegmentFails(w)
    BY <1>2, <2>9, SegmentFailsGoes DEF EndedAs, Went, Stays
  <2>10. CASE Commit(w) \/ SettleAlone(w)
    <3>1. AfterCommit(w)
      BY <2>10 DEF Commit, SettleAlone
    <3> QED
      BY <1>2, <3>1, AfterCommitGoes
  <2> QED
    BY <1>2, <2>2, <2>3, <2>4, <2>5, <2>6, <2>7, <2>8, <2>9, <2>10 DEF Works, Enters, Segments, Exits
<1> QED
  BY <1>1, <1>2

LEMMA AskedStep ==
    ASSUME ShapeInv, ShapeInv', Asked, NEW w \in Workers,
           \/ Asks(w) \/ SweepLostRun(w) \/ (\E r \in Rows : TakeRow(w, r)) \/ Works(w) \/ Crash(w)
    PROVE  Asked'
<1>0. RestTypes /\ left' \in [BoundNames -> Nat]
  BY ShapeTypes DEF ShapeInv, TypeOK
<1>1. /\ left["cancels"] = 0 => left'["cancels"] = 0
      /\ left["reruns"] = 0 => left'["reruns"] = 0
  <2>1. \A b \in BoundNames : left[b] \in Nat /\ left'[b] \in Nat /\ left'[b] <= left[b]
    BY <1>0, LeftFalls DEF RestTypes
  <2>2. "cancels" \in BoundNames /\ "reruns" \in BoundNames
    BY DEF BoundNames
  <2>3. \A b \in BoundNames : left[b] = 0 => left'[b] = 0
    BY <2>1
  <2> QED
    BY <2>2, <2>3
<1>2. run'.cancel => run.cancel \/ RequestCancel(w)
  <2>1. CASE UNCHANGED run
    BY <2>1
  <2>2. CASE MarkFailed
    BY <2>2, FailedIs
  <2>3. CASE Fire(w) \/ EnterRerun(w) \/ Commit(w) \/ SettleAlone(w)
    BY <1>0, <2>3 DEF Fire, EnterRerun, Commit, SettleAlone, RestTypes
  <2>4. UNCHANGED run \/ MarkFailed \/ Fire(w) \/ EnterRerun(w) \/ Commit(w) \/ SettleAlone(w) \/ RequestCancel(w)
    BY DEF Asks, Fire, ResumeRun, Rerun, RequestCancel, SweepLostRun, TakeRow, Works, Enters, Segments, TakeLease,
           Busy, EnterFired, EnterRerun,
           EnterToFail, EnterDrain, NextLeaf, ClaimLeaf, LeafGone, SegmentParks, SegmentFinishes, SegmentFails, SegmentLosesRun,
           SettleAlone, Commit, CommitRefused, Recheck, TearDown, Exits, FailRun, DropFailed, ClearIfQuiescent, Unlease, Outcome,
           FinishRow, FinishCommand, Crash, runVars
  <2> QED
    BY <2>1, <2>2, <2>3, <2>4
<1>3. /\ Others(w)
      /\ job'[w].kind \in {job[w].kind, "fired", "resume", "sweep", "timer", "wake"}
         \/ (job'[w].kind = "rerun" /\ Rerun(w)) \/ (job'[w].kind = "cancel" /\ RequestCancel(w))
  <2>1. CASE Works(w)
    BY <2>1, WorksKeepKind, IdleIs DEF Ended
  <2>2. CASE Crash(w)
    BY <2>2, IdleEnded, IdleIs DEF Ended, Crash
  <2>3. CASE Asks(w) \/ SweepLostRun(w)
    BY <2>3, StartedBegan DEF Began, Asks, Fire, ResumeRun, Rerun, RequestCancel, SweepLostRun
  <2>4. ASSUME NEW r \in Rows, TakeRow(w, r)
        PROVE  Others(w) /\ job'[w].kind \in {"timer", "wake"}
    BY <2>4, StartedBegan DEF Began, TakeRow
  <2> QED
    BY <2>1, <2>2, <2>3, <2>4
<1>4. Rerun(w) => left["reruns"] # 0
  BY <1>0 DEF Rerun, Spend, RestTypes, BoundNames
<1>5. RequestCancel(w) => left["cancels"] # 0
  BY <1>0 DEF RequestCancel, Spend, RestTypes, BoundNames
<1> QED
  BY <1>1, <1>2, <1>3, <1>4, <1>5 DEF Asked, Others

\* How a segment's end is kept: it settles the run as the segment said.
LEMMA CommitsGo ==
    ASSUME SoleInv, NEW w \in Workers, Commit(w) \/ SettleAlone(w)
    PROVE  /\ run'.status = job[w].settle /\ run'.cancel = run.cancel /\ run'.attempt = run.attempt
           /\ IsInside(w) /\ job[w].step = "commit" /\ Others(w)
           /\ job'[w].leaf = NoLeaf /\ job'[w].kind = job[w].kind
           /\ job'[w].todo = job[w].todo /\ job'[w].lost = job[w].lost
           /\ \/ job'[w].step = "failing" /\ run'.status = "failed"
              \/ job'[w].step = "recheck" /\ run'.status = "parked"
              \/ job'[w].step \in {"next", "quiesce"} /\ run'.status \in {"parked", "completed"}
<1>0. ShapeInv /\ RestTypes /\ job[w] \in Job
  BY ShapeTypes, JobTypes DEF SoleInv, ApartInv
<1>1. run'.status = job[w].settle /\ run'.cancel = run.cancel /\ run'.attempt = run.attempt
  BY <1>0 DEF Commit, SettleAlone, RestTypes
<1>2. job[w].step = "commit" /\ IsInside(w) /\ EndsFitOf(w) /\ AfterCommit(w)
  BY DEF Commit, SettleAlone, At, IsInside, Inside, SoleInv, InsideFits
<1>3. job[w].settle \in {"parked", "completed", "failed"} /\ (job[w].parks # {} => job[w].settle = "parked")
  BY <1>0, <1>2 DEF EndsFitOf, Job
<1> QED
  BY <1>0, <1>1, <1>2, <1>3, AfterCommitGoes

LEMMA GoingStep ==
    ASSUME OnceInv, SoleInv', NEW w \in Workers,
           \/ Asks(w) \/ SweepLostRun(w) \/ (\E r \in Rows : TakeRow(w, r)) \/ Works(w) \/ Crash(w)
    PROVE  \A v \in Workers : GoingOf(v)'
<1>0. SoleInv /\ ShapeInv /\ RestTypes /\ Settled' = (run'.status \in {"completed", "failed"})
  BY ShapeTypes DEF OnceInv, SoleInv, ApartInv, Settled
<1>1. ASSUME NEW v \in Workers, job'[v].step \notin {"next", "claim", "recheck", "segment", "commit"}
      PROVE  GoingOf(v)'
  BY <1>1 DEF GoingOf, InSegment
<1>2. CASE Outside(w)
  <2> SUFFICES ASSUME NEW v \in Workers, job'[v].step \in {"next", "claim", "recheck", "segment", "commit"}
               PROVE  GoingOf(v)'
    BY <1>1
  <2>1. job'[v] = job[v] /\ UNCHANGED leaf /\ run'.status = run.status /\ (run.cancel => run'.cancel)
    BY <1>0, <1>2, OutsideWrites DEF Others, Inside
  <2>2. GoingOf(v)
    BY DEF OnceInv
  <2> QED
    BY <2>1, <2>2 DEF GoingOf, InSegment, Settled
<1>3. CASE Fire(w)
  <2>1. Began(w, "fired", NoRow) /\ \A v \in Workers : job[v].step = "idle"
    BY <1>0, <1>3, StartedBegan DEF Fire, SoleInv, NotYet
  <2> QED
    BY <1>1, <2>1 DEF Began, Others
<1>4. CASE TakeLease(w)
  <2>1. Went(w, "enter") /\ Free
    BY <1>0, <1>4, GotoWent DEF TakeLease
  <2>2. \A v \in Workers : job'[v].step \notin Inside \ {"enter"}
    BY <1>0, <2>1, Sole DEF Went, Others, IsInside
  <2> QED
    BY <1>1, <2>2 DEF Inside
<1>5. CASE ~Outside(w) /\ ~Fire(w) /\ ~TakeLease(w)
  <2>1. Works(w) /\ IsInside(w) /\ Others(w)
    <3>1. Works(w)
      BY <1>5 DEF Outside, Asks
    <3>2. job[w].step \in Inside
      BY <1>5, <3>1 DEF Outside, Works, Enters, Segments, Exits, EnterFired, EnterRerun, EnterToFail, EnterDrain, NextLeaf,
         ClaimLeaf, LeafGone, SegmentParks, SegmentFinishes, SegmentFails, SegmentLosesRun, Commit, SettleAlone,
         CommitRefused, Recheck, TearDown, FailRun, DropFailed, ClearIfQuiescent, At, Inside
    <3> QED
      BY <1>0, <3>1, <3>2, WorksKeepKind DEF IsInside
  <2>2. \A v \in Workers : v # w => job'[v].step \notin Inside
    BY <1>0, <2>1, Sole DEF Others, IsInside
  <2>3. GoingOf(w) /\ FiringOf(w) /\ run.status # "none"
    BY <1>0, <2>1, Sole DEF OnceInv
  <2>4. SUFFICES GoingOf(w)'
    BY <1>1, <2>2 DEF Inside
  <2>5. CASE EnterFired(w)
    <3>1. Went(w, "segment") /\ UNCHANGED run /\ ToFire(w)
      BY <1>0, <2>5, GotoWent DEF EnterFired, ToFire, At, runVars
    <3> QED
      BY <2>3, <3>1 DEF Went, FiringOf, GoingOf, InSegment, Settled
  <2>6. CASE EnterRerun(w)
    <3>1. (Went(w, "segment") /\ run'.status = "running") \/ Went(w, "unlease")
      BY <1>0, <2>6, GotoWent DEF EnterRerun
    <3> QED
      BY <1>0, <1>1, <3>1 DEF Went, GoingOf, InSegment
  <2>7. CASE EnterToFail(w) \/ FailRun(w) \/ DropFailed(w) \/ ClearIfQuiescent(w)
    <3>1. Went(w, "drop") \/ Went(w, "unlease")
      BY <1>0, <2>7, GotoWent DEF EnterToFail, FailRun, DropFailed, ClearIfQuiescent
    <3> QED
      BY <1>1, <3>1 DEF Went
  <2>8. CASE EnterDrain(w)
    <3>1. Went(w, "drop") \/ Went(w, "unlease") \/ (job'[w].step = "next" /\ run'.status = "parked")
      BY <1>0, <2>8, EnterDrainGoes
    <3> QED
      BY <1>1, <3>1 DEF Went, GoingOf, InSegment
  <2>9. CASE NextLeaf(w) \/ LeafGone(w)
    <3>1. UNCHANGED <<run, leaf>> /\ job[w].step \in {"next", "claim"}
      BY <2>9 DEF NextLeaf, LeafGone, runVars, At
    <3>2. job'[w].step \in {"next", "claim", "quiesce", "unlease"}
      BY <1>0, <2>9, NextLeafGoes, LeafGoneGoes DEF LostAt, Went
    <3> QED
      BY <2>3, <3>1, <3>2 DEF GoingOf, InSegment, Settled
  <2>10. CASE ClaimLeaf(w)
    <3>1. UNCHANGED run /\ job[w].step = "claim" /\ job[w].leaf \in Leaves /\ leaf[job[w].leaf] # NoLeaf
      BY <2>10 DEF ClaimLeaf, At, ParkedLeaves
    <3>2. job'[w].step = "segment"
      BY <1>0, <2>10, ClaimLeafGoes
    <3> QED
      BY <2>3, <3>1, <3>2 DEF GoingOf, InSegment, Settled
  <2>11. CASE SegmentParks(w) \/ SegmentFinishes(w)
    <3>1. ~run.cancel /\ UNCHANGED run /\ InSegment(w)
      BY <2>11 DEF SegmentParks, SegmentFinishes, At, InSegment
    <3>2. \E settle, parks : EndedAs(w, settle, parks)
      BY <1>0, <2>11, SegmentEndedAs DEF SegmentParks, SegmentFinishes
    <3> QED
      BY <2>3, <3>1, <3>2 DEF GoingOf, InSegment, Settled, EndedAs
  <2>12. CASE SegmentFails(w)
    <3>1. UNCHANGED run /\ InSegment(w)
      BY <2>12 DEF SegmentFails, At, InSegment, runVars
    <3> QED
      BY <1>0, <2>3, <2>12, <3>1, SegmentFailsGoes DEF GoingOf, InSegment, Settled, EndedAs, Went
  <2>13. CASE SegmentLosesRun(w) \/ CommitRefused(w)
    BY <1>0, <2>13, NothingLost
  <2>14. CASE Commit(w) \/ SettleAlone(w)
    <3>1. run'.status = "completed" => \A l \in Leaves : leaf'[l] = NoLeaf
      BY DEF SoleInv, CompletedIsBare
    <3> QED
      BY <1>0, <2>14, <3>1, CommitsGo DEF GoingOf, InSegment
  <2>15. CASE Recheck(w)
    <3>1. Went(w, "teardown") \/ Went(w, "quiesce") \/ (Went(w, "next") /\ UNCHANGED run)
      BY <1>0, <2>15, GotoWent DEF Recheck
    <3>2. run.status = "parked"
      BY <2>3, <2>15 DEF Recheck, At, GoingOf
    <3> QED
      BY <1>1, <3>1, <3>2 DEF Went, GoingOf, InSegment
  <2>16. CASE TearDown(w)
    <3>1. Went(w, "quiesce") \/ Went(w, "next")
      BY <1>0, <2>16, GotoWent DEF TearDown
    <3>2. UNCHANGED run /\ (\A l \in Leaves : leaf'[l] = NoLeaf) /\ job[w].step = "teardown"
      BY <2>16 DEF TearDown, DropState, At
    <3>3. Settled
      BY <1>0, <3>2 DEF SoleInv, InsideFits, DropsSettledOf, Settled
    <3> QED
      BY <1>1, <3>1, <3>2, <3>3 DEF Went, GoingOf, InSegment, Settled
  <2> QED
    BY <1>5, <2>1, <2>5, <2>6, <2>7, <2>8, <2>9, <2>10, <2>11, <2>12, <2>13, <2>14, <2>15, <2>16
    DEF Outside, Works, Enters, Segments, Exits
<1> QED
  BY <1>2, <1>3, <1>4, <1>5

\* Beside a run to be fired, nobody asks but for its cancel, and nobody gets
\* further than finding that it is not parked, or failing it on a cancel.
LEMMA BesideStep ==
    ASSUME OnceInv, NEW u \in Workers, ToFire(u), NEW w \in Workers, w # u,
           \/ Asks(w) \/ SweepLostRun(w) \/ (\E r \in Rows : TakeRow(w, r)) \/ Works(w) \/ Crash(w)
    PROVE  /\ Beside(w)' /\ Others(w)
           /\ run'.status = "running" \/ (run'.status = "failed" /\ run'.cancel)
<1>0. SoleInv /\ ShapeInv /\ RestTypes
  BY ShapeTypes DEF OnceInv, SoleInv, ApartInv
<1>1. /\ run.status = "running" \/ (run.status = "failed" /\ run.cancel)
      /\ Beside(w)
  BY DEF OnceInv, FiringOf
<1>2. CASE Asks(w) \/ SweepLostRun(w)
  <2>1. ~Fire(w) /\ ~ResumeRun(w)
    BY <1>1 DEF Fire, ResumeRun
  <2>2. ~Rerun(w)
    <3>1. run.status = "failed" => Bounds["cancels"] # 0
      BY <1>1 DEF OnceInv, Asked
    <3>2. Rerun(w) => run.status = "failed" /\ left["reruns"] >= 1
      BY DEF Rerun, Spend
    <3> QED
      BY <3>1, <3>2 DEF OnceInv, OnceOnly, Asked
  <2>3. ~SweepLostRun(w)
    <3>1. CASE job[u].step = "lease"
      BY <3>1 DEF SweepLostRun, Lapsed, Fresh, ToFire, At
    <3>2. CASE job[u].step = "enter"
      <4>1. ~Free
        BY <1>0, <3>2, Sole DEF IsInside, Inside
      <4> QED
        BY <4>1 DEF SweepLostRun, Lapsed
    <3> QED
      BY <3>1, <3>2 DEF ToFire
  <2>4. RequestCancel(w)
    BY <1>2, <2>1, <2>2, <2>3 DEF Asks
  <2>5. Began(w, "cancel", NoRow)
    BY <1>0, <2>4, StartedBegan DEF RequestCancel
  <2>6. run'.status = run.status /\ run'.cancel
    BY <1>0, <2>4 DEF RequestCancel, RestTypes
  <2> QED
    BY <1>1, <2>5, <2>6 DEF Began, Beside, IsInside, Inside
<1>3. ASSUME NEW r \in Rows, TakeRow(w, r)
      PROVE  /\ Beside(w)' /\ Others(w)
             /\ run'.status = "running" \/ (run'.status = "failed" /\ run'.cancel)
  <2>1. Began(w, "timer", r) \/ Began(w, "wake", r)
    BY <1>0, <1>3, StartedBegan DEF TakeRow
  <2>2. UNCHANGED run
    BY <1>3 DEF TakeRow, runVars
  <2> QED
    BY <1>1, <2>1, <2>2 DEF Began, Beside, IsInside, Inside
<1>4. CASE Crash(w) \/ FinishRow(w) \/ FinishCommand(w)
  <2>1. Ended(w) /\ UNCHANGED run
    BY <1>0, <1>4, IdleEnded DEF Crash, FinishRow, FinishCommand, runVars
  <2> QED
    BY <1>1, <2>1, IdleIs DEF Ended, Beside
<1>5. CASE Works(w) /\ ~FinishRow(w) /\ ~FinishCommand(w)
  <2>1. Others(w) /\ job[w].step # "idle"
    <3>1. job[w].step # "idle"
      BY <1>5 DEF Works, Enters, Segments, Exits, TakeLease, Busy, EnterFired, EnterRerun, EnterToFail, EnterDrain, NextLeaf,
         ClaimLeaf, LeafGone, SegmentParks, SegmentFinishes, SegmentFails, SegmentLosesRun, Commit, SettleAlone,
         CommitRefused, Recheck, TearDown, FailRun, DropFailed, ClearIfQuiescent, Unlease, Outcome, At
    <3> QED
      BY <1>0, <1>5, <3>1, WorksKeepKind
  <2>2. job[w].kind \in {"cancel", "timer", "wake", "resume"} /\ (job[w].step \in Inside => job[w].step \in {"enter", "drop", "unlease"})
    BY <1>1, <2>1 DEF Beside, IsInside
  <2>3. CASE TakeLease(w)
    <3>1. Went(w, "enter") /\ UNCHANGED run
      BY <1>0, <2>3, GotoWent DEF TakeLease
    <3> QED
      BY <1>1, <2>1, <2>2, <3>1 DEF Went, Stays, Beside
  <2>4. CASE Busy(w)
    <3>1. LostAt(w, "finish") /\ UNCHANGED run
      BY <1>0, <2>4, LosesAt DEF Busy, runVars
    <3> QED
      BY <1>1, <2>1, <2>2, <3>1 DEF LostAt, Stays, Beside, IsInside, Inside
  <2>5. CASE EnterToFail(w)
    <3>1. job[w].kind = "cancel"
      BY <2>2, <2>5 DEF EnterToFail
    <3>2. (run.cancel /\ MarkFailed /\ Went(w, "drop")) \/ (UNCHANGED run /\ Went(w, "unlease"))
      BY <1>0, <2>5, <3>1, GotoWent DEF EnterToFail
    <3>3. run'.status = "running" \/ (run'.status = "failed" /\ run'.cancel)
      BY <1>0, <1>1, <3>2, FailedIs DEF Unsettled
    <3> QED
      BY <2>1, <2>2, <3>2, <3>3 DEF Went, Stays, Beside
  <2>6. CASE EnterDrain(w)
    <3>1. UNCHANGED run /\ Went(w, "unlease")
      BY <1>0, <1>1, <2>6, EnterDrainGoes
    <3> QED
      BY <1>1, <2>1, <2>2, <3>1 DEF Went, Stays, Beside
  <2>7. CASE DropFailed(w)
    <3>1. UNCHANGED run /\ Went(w, "unlease")
      BY <1>0, <2>7, GotoWent DEF DropFailed
    <3> QED
      BY <1>1, <2>1, <2>2, <3>1 DEF Went, Stays, Beside
  <2>8. CASE Unlease(w) \/ Outcome(w)
    <3>1. UNCHANGED run /\ (Went(w, "outcome") \/ Went(w, "finish"))
      BY <1>0, <2>8, GotoWent DEF Unlease, Outcome, runVars
    <3> QED
      BY <1>1, <2>1, <2>2, <3>1 DEF Went, Stays, Beside, IsInside, Inside
  <2>9. CASE EnterFired(w) \/ EnterRerun(w)
    BY <2>2, <2>9 DEF EnterFired, EnterRerun
  <2>10. CASE \/ NextLeaf(w) \/ ClaimLeaf(w) \/ LeafGone(w) \/ SegmentParks(w) \/ SegmentFinishes(w) \/ SegmentFails(w)
              \/ SegmentLosesRun(w) \/ Commit(w) \/ SettleAlone(w) \/ CommitRefused(w) \/ Recheck(w) \/ TearDown(w)
              \/ FailRun(w) \/ ClearIfQuiescent(w)
    <3>1. job[w].step \in {"next", "claim", "segment", "commit", "recheck", "teardown", "failing", "quiesce"}
      BY <2>10 DEF NextLeaf, ClaimLeaf, LeafGone, SegmentParks, SegmentFinishes, SegmentFails, SegmentLosesRun, Commit,
         SettleAlone, CommitRefused, Recheck, TearDown, FailRun, ClearIfQuiescent, At
    <3> QED
      BY <2>2, <3>1 DEF Inside
  <2> QED
    BY <1>5, <2>3, <2>4, <2>5, <2>6, <2>7, <2>8, <2>9, <2>10 DEF Works, Enters, Segments, Exits
<1> QED
  BY <1>2, <1>3, <1>4, <1>5

LEMMA FiringStep ==
    ASSUME OnceInv, SoleInv', NEW w \in Workers,
           \/ Asks(w) \/ SweepLostRun(w) \/ (\E r \in Rows : TakeRow(w, r)) \/ Works(w) \/ Crash(w)
    PROVE  \A u \in Workers : FiringOf(u)'
<1>0. SoleInv /\ ShapeInv /\ RestTypes
  BY ShapeTypes DEF OnceInv, SoleInv, ApartInv
<1> SUFFICES ASSUME NEW u \in Workers, job'[u].kind = "fired", job'[u].step \in {"lease", "enter"}
             PROVE  /\ run'.status = "running" \/ (run'.status = "failed" /\ run'.cancel)
                    /\ \A v \in Workers : v # u => Beside(v)'
  BY DEF FiringOf, ToFire
<1>1. CASE u # w
  <2>1. Others(w)
    <3>1. CASE Works(w)
      BY <1>0, <3>1, WorksKeepKind
    <3>2. CASE Crash(w)
      BY <1>0, <3>2, IdleEnded DEF Crash, Ended
    <3>3. CASE Asks(w) \/ SweepLostRun(w) \/ (\E r \in Rows : TakeRow(w, r))
      BY <1>0, <3>3, StartedBegan DEF Asks, Fire, ResumeRun, Rerun, RequestCancel, SweepLostRun, TakeRow, Began
    <3> QED
      BY <3>1, <3>2, <3>3
  <2>2. ToFire(u)
    BY <1>1, <2>1 DEF Others, ToFire
  <2>3. /\ Beside(w)'
        /\ run'.status = "running" \/ (run'.status = "failed" /\ run'.cancel)
    BY <1>1, <2>2, BesideStep
  <2>4. \A v \in Workers : v # u /\ v # w => Beside(v)'
    <3>1. \A v \in Workers : v # u => Beside(v)
      BY <2>2 DEF OnceInv, FiringOf
    <3> QED
      BY <2>1, <3>1 DEF Others, Beside, IsInside
  <2> QED
    BY <2>3, <2>4
<1>2. CASE u = w
  <2>1. CASE Fire(w)
    <3>1. run.status = "none" /\ run'.status = "running" /\ Began(w, "fired", NoRow)
      BY <1>0, <2>1, StartedBegan DEF Fire, RestTypes
    <3>2. \A v \in Workers : job[v].step = "idle"
      BY <1>0, <3>1 DEF SoleInv, NotYet
    <3> QED
      BY <1>2, <3>1, <3>2 DEF Began, Others, Beside
  <2>2. CASE TakeLease(w)
    <3>1. Went(w, "enter") /\ UNCHANGED run /\ job[w].step = "lease"
      BY <1>0, <2>2, GotoWent DEF TakeLease, At
    <3>2. ToFire(w)
      BY <1>2, <3>1 DEF Went, Stays, ToFire
    <3>3. /\ run.status = "running" \/ (run.status = "failed" /\ run.cancel)
          /\ \A v \in Workers : v # w => Beside(v)
      BY <3>2 DEF OnceInv, FiringOf
    <3> QED
      BY <1>2, <3>1, <3>3 DEF Went, Others, Beside, IsInside
  <2>3. CASE ResumeRun(w) \/ Rerun(w) \/ RequestCancel(w) \/ SweepLostRun(w) \/ (\E r \in Rows : TakeRow(w, r))
    <3>1. \E r : \E kind \in {"resume", "rerun", "cancel", "sweep", "timer", "wake"} : Began(w, kind, r)
      BY <1>0, <2>3, StartedBegan DEF ResumeRun, Rerun, RequestCancel, SweepLostRun, TakeRow
    <3> QED
      BY <1>2, <3>1 DEF Began
  <2>4. CASE Crash(w) \/ FinishRow(w) \/ FinishCommand(w)
    BY <1>0, <1>2, <2>4, IdleEnded, IdleIs DEF Crash, FinishRow, FinishCommand, Ended
  <2>5. CASE Works(w) /\ ~TakeLease(w) /\ ~FinishRow(w) /\ ~FinishCommand(w)
    <3>1. job'[w].step \notin {"lease", "enter"}
      <4>1. CASE \E step \in {"segment", "unlease", "drop", "teardown", "quiesce", "next", "outcome", "finish"} : Goto(w, step)
        BY <1>0, <4>1, GotoWent DEF Went
      <4>2. CASE EnterFired(w) \/ EnterRerun(w) \/ EnterToFail(w) \/ Recheck(w) \/ TearDown(w)
                 \/ FailRun(w) \/ DropFailed(w) \/ ClearIfQuiescent(w) \/ Unlease(w) \/ Outcome(w)
        BY <4>1, <4>2 DEF EnterFired, EnterRerun, EnterToFail, Recheck, TearDown,
                      FailRun, DropFailed, ClearIfQuiescent, Unlease, Outcome
      <4>3. CASE Busy(w) \/ SegmentLosesRun(w) \/ CommitRefused(w)
        BY <1>0, <4>3, LosesAt DEF LostAt
      <4>4. CASE EnterDrain(w)
        BY <1>0, <4>4, EnterDrainGoes DEF Went
      <4>5. CASE NextLeaf(w)
        BY <1>0, <4>5, NextLeafGoes DEF Went, LostAt
      <4>6. CASE ClaimLeaf(w) \/ LeafGone(w)
        BY <1>0, <4>6, ClaimLeafGoes, LeafGoneGoes
      <4>7. CASE SegmentParks(w) \/ SegmentFinishes(w)
        <5>1. \E settle, parks : SegmentEnds(w, settle, parks)
          BY <4>7 DEF SegmentParks, SegmentFinishes
        <5> QED
          BY <1>0, <5>1, SegmentEndedAs DEF EndedAs
      <4>8. CASE SegmentFails(w)
        BY <1>0, <4>8, SegmentFailsGoes DEF EndedAs, Went
      <4>9. CASE Commit(w) \/ SettleAlone(w)
        BY <1>0, <4>9, CommitsGo
      <4> QED
        BY <2>5, <4>2, <4>3, <4>4, <4>5, <4>6, <4>7, <4>8, <4>9 DEF Works, Enters, Segments, Exits
    <3> QED
      BY <1>2, <3>1
  <2> QED
    BY <2>1, <2>2, <2>3, <2>4, <2>5 DEF Asks
<1> QED
  BY <1>1, <1>2

LEMMA OnceInit == OnceOnly /\ Init => OnceInv
<1> SUFFICES ASSUME OnceOnly, Init
             PROVE  OnceInv
  OBVIOUS
<1>1. SoleInv /\ \A w \in Workers : job[w] = Idle
  BY SoleInit DEF Init, OnceOnly
<1>2. Asked /\ \A w \in Workers : FiringOf(w) /\ GoingOf(w)
  BY <1>1, IdleIs DEF Init, Asked, FiringOf, ToFire, GoingOf, InSegment
<1> QED
  BY <1>1, <1>2 DEF OnceInv

LEMMA OnceStep == OnceInv /\ [Next]_vars => OnceInv'
<1> SUFFICES ASSUME OnceInv, [Next]_vars
             PROVE  OnceInv'
  OBVIOUS
<1>0. SoleInv /\ ShapeInv /\ SoleInv' /\ ShapeInv' /\ OnceOnly'
  BY SoleStep DEF OnceInv, SoleInv, ApartInv, OnceOnly, NoStalls
<1>1. ASSUME UNCHANGED <<run, left, leaf, job>>
      PROVE  OnceInv'
  BY <1>0, <1>1 DEF OnceInv, Asked, FiringOf, ToFire, Beside, IsInside, GoingOf, InSegment, Settled
<1>2. CASE UNCHANGED vars
  BY <1>1, <1>2 DEF vars
<1>3. CASE (\E l \in Awaits : Arrive(l)) \/ LeaseLapses \/ Tick
  BY <1>1, <1>3 DEF Arrive, LeaseLapses, Tick, runVars
<1>4. ASSUME NEW w \in Workers,
             \/ Asks(w) \/ SweepLostRun(w) \/ (\E r \in Rows : TakeRow(w, r))
             \/ Works(w) \/ Crash(w) \/ Stall(w)
      PROVE  OnceInv'
  <2>1. CASE Stall(w)
    BY <1>0, <2>1 DEF Stall, Spend, SoleInv
  <2>2. CASE ~Stall(w)
    <3>1. Asked'
      BY <1>0, <1>4, <2>2, AskedStep DEF OnceInv
    <3>2. \A u \in Workers : FiringOf(u)'
      BY <1>0, <1>4, <2>2, FiringStep
    <3>3. \A u \in Workers : GoingOf(u)'
      BY <1>0, <1>4, <2>2, GoingStep
    <3> QED
      BY <1>0, <3>1, <3>2, <3>3 DEF OnceInv
  <2> QED
    BY <2>1, <2>2
<1> QED
  BY <1>2, <1>3, <1>4, StepOf

LEMMA AlwaysOnce == OnceOnly => (Spec => []OnceInv)
BY OnceInit, OnceStep, PTL DEF Spec

LEMMA SettledStep ==
    OnceInv /\ [Next]_vars =>
        [run.status \in {"completed", "failed"} => run'.status = run.status \/ run'.attempt > run.attempt]_vars
<1> SUFFICES ASSUME OnceInv, Next, run.status \in {"completed", "failed"}
             PROVE  run'.status = run.status \/ run'.attempt > run.attempt
  OBVIOUS
<1>0. SoleInv /\ ShapeInv /\ RestTypes
  BY ShapeTypes DEF OnceInv, SoleInv, ApartInv
<1>1. CASE UNCHANGED run
  BY <1>1
<1>2. CASE MarkFailed
  BY <1>0, <1>2, FailedIs DEF Unsettled
<1>3. ASSUME NEW w \in Workers, Fire(w) \/ RequestCancel(w)
      PROVE  FALSE
  BY <1>3 DEF Fire, RequestCancel, Unsettled
<1>4. ASSUME NEW w \in Workers, EnterRerun(w)
      PROVE  run'.status = run.status \/ run'.attempt > run.attempt
  <2>1. UNCHANGED run \/ run'.attempt = run.attempt + 1
    BY <1>4 DEF EnterRerun
  <2> QED
    BY <1>0, <2>1 DEF RestTypes
<1>5. ASSUME NEW w \in Workers, Commit(w) \/ SettleAlone(w)
      PROVE  run'.status = run.status
  <2>1. run'.status = job[w].settle /\ job[w].step = "commit"
    BY <1>0, <1>5, CommitsGo
  <2>2. GoingOf(w)
    BY DEF OnceInv
  <2> QED
    BY <2>1, <2>2 DEF GoingOf, InSegment, Settled
<1>6. CASE (\E l \in Awaits : Arrive(l)) \/ LeaseLapses \/ Tick
  BY <1>1, <1>6 DEF Arrive, LeaseLapses, Tick, runVars
<1>7. ASSUME NEW w \in Workers,
             \/ Asks(w) \/ SweepLostRun(w) \/ (\E r \in Rows : TakeRow(w, r))
             \/ Works(w) \/ Crash(w) \/ Stall(w)
      PROVE  run'.status = run.status \/ run'.attempt > run.attempt
  <2>1. \/ UNCHANGED run \/ MarkFailed \/ Fire(w) \/ RequestCancel(w) \/ EnterRerun(w) \/ Commit(w) \/ SettleAlone(w)
    BY <1>7 DEF Asks, Fire, ResumeRun, Rerun, RequestCancel, SweepLostRun, TakeRow, Works, Enters, Segments, TakeLease,
           Busy, EnterFired, EnterRerun,
           EnterToFail, EnterDrain, NextLeaf, ClaimLeaf, LeafGone, SegmentParks, SegmentFinishes, SegmentFails, SegmentLosesRun,
           SettleAlone, Commit, CommitRefused, Recheck, TearDown, Exits, FailRun, DropFailed, ClearIfQuiescent, Unlease, Outcome,
           FinishRow, FinishCommand, Crash, Stall, runVars
  <2> QED
    BY <1>1, <1>2, <1>3, <1>4, <1>5, <2>1
<1> QED
  BY <1>6, <1>7, StepOf

\* A settled run stays so but for a rerun's next attempt: nothing a process
\* still commits, fails or sweeps overwrites what it was settled as
\* (mark_failed, settle_run, after_step). While no process outstalls its lease,
\* and not both cancels and reruns are asked for.
THEOREM SettledRunsStay == OnceOnly => (Spec => SettledStays)
<1>1. OnceInv /\ [Next]_vars =>
          [run.status \in {"completed", "failed"} => run'.status = run.status \/ run'.attempt > run.attempt]_vars
  BY SettledStep
<1> QED
  BY <1>1, AlwaysOnce, PTL DEF Spec, SettledStays

-----------------------------------------------------------------------------
(* What wakes an answered wait: its row, once taken, stays with a process    *)
(* that still has the wait to handle.                                        *)

\* Who holds a row is at work on it, alone; a wait's row is held for a wake,
\* whose only leaf to do is the wait.
HeldRight ==
    \A r \in Rows : \A w \in Workers : w \in holder[r] =>
        /\ holder[r] = {w} /\ job[w].row = r /\ job[w].step # "idle"
        /\ r \in Awaits => job[w].kind = "wake"

TodoFits(w) == job[w].kind = "wake" => job[w].todo \subseteq {job[w].row}

\* No leaf is of an attempt to come, nor of one that still runs.
OldLeaves ==
    \A l \in Leaves : leaf[l] # NoLeaf =>
        /\ leaf[l].attempt <= run.attempt
        /\ run.status = "running" => leaf[l].attempt # run.attempt

Awaited(l) == leaf[l] # NoLeaf /\ leaf[l].attempt = run.attempt /\ wait[l].logged > wait[l].kept

\* The process that has the wait's row has the wait itself still before it, or
\* gives the row back.
ToHandle(w, l) ==
    \/ job[w].lost
    \/ job[w].step \in {"lease", "enter"}
    \/ job[w].step = "next" /\ l \in job[w].todo
    \/ job[w].step \in {"claim", "segment", "commit"} /\ job[w].leaf = l

WokenAt(l) ==
    /\ ask[l] # "none"
    /\ \A w \in Workers : ask[l] = "taken" /\ holder[l] = {w} => ToHandle(w, l)

Wakes == \A l \in Awaits : run.status = "parked" /\ Awaited(l) => WokenAt(l)

WakeInv == OnceInv /\ HeldRight /\ (\A w \in Workers : TodoFits(w)) /\ OldLeaves /\ Wakes

LEMMA HeldStep ==
    ASSUME ShapeInv, HeldRight, NEW w \in Workers,
           \/ Asks(w) \/ SweepLostRun(w) \/ (\E r \in Rows : TakeRow(w, r)) \/ Works(w) \/ Crash(w)
    PROVE  HeldRight'
<1>0. RestTypes
  BY ShapeTypes
<1>1. ASSUME UNCHANGED holder, job[w].step # "idle", Others(w), job'[w].row = job[w].row, job'[w].kind = job[w].kind,
             job'[w].step # "idle"
      PROVE  HeldRight'
  BY <1>1 DEF HeldRight, Others
<1>2. CASE Asks(w) \/ SweepLostRun(w)
  <2>1. UNCHANGED holder /\ job[w].step = "idle" /\ Others(w)
    BY <1>2, StartedBegan DEF Asks, Fire, ResumeRun, Rerun, RequestCancel, SweepLostRun, queue, At, Began
  <2> QED
    BY <2>1 DEF HeldRight, Others
<1>3. ASSUME NEW r \in Rows, TakeRow(w, r)
      PROVE  HeldRight'
  <2>1. job[w].step = "idle" /\ Began(w, IF r = TimerRow THEN "timer" ELSE "wake", r)
    BY <1>3, StartedBegan DEF TakeRow, At
  <2>2. holder' = [k \in Rows |-> IF k = r THEN {w} ELSE holder[k]]
    BY <1>3 DEF TakeRow, Queue!Take
  <2>3. r \in Awaits => r # TimerRow
    BY ConstantTypes
  <2> QED
    BY <2>1, <2>2, <2>3 DEF HeldRight, Began, Others
<1>4. CASE Crash(w)
  <2>1. Ended(w)
    BY <1>4, IdleEnded DEF Crash
  <2>2. \A r \in Rows : holder'[r] = holder[r] \ {w}
    <3>1. CASE \E r \in Rows : w \in holder[r]
      BY <1>4, <3>1 DEF Crash, Queue!Die
    <3>2. CASE \A r \in Rows : w \notin holder[r]
      BY <1>4, <3>2 DEF Crash
    <3> QED
      BY <3>1, <3>2
  <2> QED
    BY <2>1, <2>2 DEF HeldRight, Ended, Others
<1>5. CASE FinishRow(w)
  <2>1. Ended(w) /\ job[w].row \in Rows
    BY <1>5, IdleEnded, JobTypes DEF FinishRow, Job
  <2>2. \A r \in Rows : w \notin holder'[r] /\ (holder'[r] = holder[r] \/ holder'[r] = {})
    <3>1. UNCHANGED holder \/ holder' = [holder EXCEPT ![job[w].row] = {}]
      BY <1>5 DEF FinishRow, queue, Queue!GiveBack, Queue!Complete, Queue!Finish
    <3>2. UNCHANGED holder => holder[job[w].row] # {w}
      BY <1>0, <1>5, <2>1 DEF FinishRow, queue, Queue!GiveBack, Queue!Complete, Queue!Finish, RestTypes
    <3>3. \A r \in Rows : w \in holder[r] => r = job[w].row /\ holder[r] = {w}
      BY DEF HeldRight
    <3> QED
      BY <1>0, <2>1, <3>1, <3>2, <3>3 DEF RestTypes
  <2> QED
    BY <2>1, <2>2 DEF HeldRight, Ended, Others
<1>6. CASE FinishCommand(w)
  <2>1. Ended(w) /\ UNCHANGED holder /\ job[w].row = NoRow
    BY <1>6, IdleEnded DEF FinishCommand, queue
  <2> QED
    BY <2>1, ConstantTypes DEF HeldRight, Ended, Others
<1>7. CASE Works(w) /\ ~FinishRow(w) /\ ~FinishCommand(w)
  <2>1. UNCHANGED holder /\ job[w].step # "idle"
    BY <1>7 DEF Works, Enters, Segments, Exits, TakeLease, Busy, EnterFired, EnterRerun, EnterToFail, EnterDrain, NextLeaf,
         ClaimLeaf, LeafGone, SegmentParks, SegmentFinishes, SegmentFails, SegmentLosesRun, Commit, SettleAlone,
         CommitRefused, Recheck, TearDown, FailRun, DropFailed, ClearIfQuiescent, Unlease, Outcome, Enqueued, queue, At
  <2>2. Others(w) /\ (Ended(w) \/ (job'[w].row = job[w].row /\ job'[w].kind = job[w].kind))
    BY <1>7, WorksKeepKind
  <2>3. job'[w].step # "idle"
    <3>1. CASE \E step \in {"enter", "segment", "unlease", "drop", "teardown", "quiesce", "next", "outcome", "finish"} : Goto(w, step)
      BY <3>1, GotoWent DEF Went
    <3>2. CASE TakeLease(w) \/ EnterFired(w) \/ EnterRerun(w) \/ EnterToFail(w) \/ Recheck(w) \/ TearDown(w)
               \/ FailRun(w) \/ DropFailed(w) \/ ClearIfQuiescent(w) \/ Unlease(w) \/ Outcome(w)
      BY <3>1, <3>2 DEF TakeLease, EnterFired, EnterRerun, EnterToFail, Recheck, TearDown,
                    FailRun, DropFailed, ClearIfQuiescent, Unlease, Outcome
    <3>3. CASE Busy(w) \/ SegmentLosesRun(w) \/ CommitRefused(w)
      BY <3>3, LosesAt DEF LostAt
    <3>4. CASE EnterDrain(w)
      BY <3>4, EnterDrainGoes DEF Went
    <3>5. CASE NextLeaf(w)
      BY <3>5, NextLeafGoes DEF Went, LostAt
    <3>6. CASE ClaimLeaf(w) \/ LeafGone(w)
      BY <3>6, ClaimLeafGoes, LeafGoneGoes
    <3>7. CASE SegmentParks(w) \/ SegmentFinishes(w)
      <4>1. \E settle, parks : SegmentEnds(w, settle, parks)
        BY <3>7 DEF SegmentParks, SegmentFinishes
      <4> QED
        BY <4>1, SegmentEndedAs DEF EndedAs
    <3>8. CASE SegmentFails(w)
      BY <3>8, SegmentFailsGoes DEF EndedAs, Went
    <3>9. CASE Commit(w) \/ SettleAlone(w)
      <4>1. AfterCommit(w)
        BY <3>9 DEF Commit, SettleAlone
      <4> QED
        BY <4>1, AfterCommitGoes
    <3> QED
      BY <1>7, <3>2, <3>3, <3>4, <3>5, <3>6, <3>7, <3>8, <3>9 DEF Works, Enters, Segments, Exits
  <2>4. ~Ended(w)
    BY <2>3, IdleIs DEF Ended
  <2> QED
    BY <1>1, <2>1, <2>2, <2>3, <2>4
<1> QED
  BY <1>2, <1>3, <1>4, <1>5, <1>6, <1>7

LEMMA TodoStep ==
    ASSUME ShapeInv, \A v \in Workers : TodoFits(v), NEW w \in Workers,
           \/ Asks(w) \/ SweepLostRun(w) \/ (\E r \in Rows : TakeRow(w, r)) \/ Works(w) \/ Crash(w)
    PROVE  \A v \in Workers : TodoFits(v)'
<1>1. ASSUME Others(w), job'[w].kind = job[w].kind, job'[w].row = job[w].row, job'[w].todo \subseteq job[w].todo
      PROVE  \A v \in Workers : TodoFits(v)'
  BY <1>1 DEF Others, TodoFits
<1>2. ASSUME Others(w), job'[w].todo = {}
      PROVE  \A v \in Workers : TodoFits(v)'
  BY <1>2 DEF Others, TodoFits
<1>3. CASE Asks(w) \/ SweepLostRun(w) \/ (\E r \in Rows : TakeRow(w, r))
  BY <1>2, <1>3, StartedBegan DEF Asks, Fire, ResumeRun, Rerun, RequestCancel, SweepLostRun, TakeRow, Began
<1>4. CASE FinishRow(w) \/ FinishCommand(w) \/ Crash(w)
  BY <1>2, <1>4, IdleEnded, IdleIs DEF FinishRow, FinishCommand, Crash, Ended
<1>5. CASE TakeLease(w) \/ EnterFired(w) \/ EnterRerun(w) \/ EnterToFail(w) \/ Recheck(w) \/ TearDown(w)
           \/ FailRun(w) \/ DropFailed(w) \/ ClearIfQuiescent(w) \/ Unlease(w) \/ Outcome(w)
  <2>1. \E step : Goto(w, step)
    BY <1>5 DEF TakeLease, EnterFired, EnterRerun, EnterToFail, Recheck, TearDown,
                FailRun, DropFailed, ClearIfQuiescent, Unlease, Outcome
  <2> QED
    BY <1>1, <2>1, GotoWent DEF Went, Stays
<1>6. CASE Busy(w) \/ SegmentLosesRun(w) \/ CommitRefused(w)
  BY <1>1, <1>6, LosesAt DEF LostAt, Stays
<1>7. CASE EnterDrain(w)
  <2>1. CASE \E step : Went(w, step)
    BY <1>1, <2>1 DEF Went, Stays
  <2>2. CASE Others(w) /\ Stays(w) /\ job'[w].todo = Chosen(w)
    <3>1. job[w].kind = "wake" => Chosen(w) = {job[w].row}
      BY DEF Chosen
    <3> QED
      BY <2>2, <3>1 DEF Others, Stays, TodoFits
  <2> QED
    BY <1>7, <2>1, <2>2, EnterDrainGoes
<1>8. CASE NextLeaf(w)
  BY <1>1, <1>8, NextLeafGoes DEF Went, LostAt, Stays
<1>9. CASE ClaimLeaf(w) \/ LeafGone(w)
  BY <1>1, <1>9, ClaimLeafGoes, LeafGoneGoes
<1>10. CASE SegmentParks(w) \/ SegmentFinishes(w)
  <2>1. \E settle, parks : SegmentEnds(w, settle, parks)
    BY <1>10 DEF SegmentParks, SegmentFinishes
  <2> QED
    BY <1>1, <2>1, SegmentEndedAs DEF EndedAs
<1>11. CASE SegmentFails(w)
  BY <1>1, <1>11, SegmentFailsGoes DEF EndedAs, Went, Stays
<1>12. CASE Commit(w) \/ SettleAlone(w)
  <2>1. AfterCommit(w)
    BY <1>12 DEF Commit, SettleAlone
  <2> QED
    BY <1>1, <2>1, AfterCommitGoes
<1> QED
  BY <1>3, <1>4, <1>5, <1>6, <1>7, <1>8, <1>9, <1>10, <1>11, <1>12 DEF Works, Enters, Segments, Exits

LEMMA AttemptStep ==
    ASSUME SoleInv, OldLeaves, NEW w \in Workers,
           \/ Asks(w) \/ SweepLostRun(w) \/ (\E r \in Rows : TakeRow(w, r)) \/ Works(w) \/ Crash(w)
    PROVE  OldLeaves'
<1>0. ShapeInv /\ RestTypes
  BY ShapeTypes DEF SoleInv, ApartInv
<1> SUFFICES ASSUME NEW l \in Leaves, leaf'[l] # NoLeaf
             PROVE  /\ leaf'[l].attempt <= run'.attempt
                    /\ run'.status = "running" => leaf'[l].attempt # run'.attempt
  BY DEF OldLeaves
<1>1. CASE Fire(w)
  <2>1. leaf'[l] = NoLeaf
    BY <1>1 DEF Fire, SoleInv, NotYet
  <2> QED
    BY <2>1
<1>2. ASSUME leaf[l] # NoLeaf, leaf'[l].attempt = leaf[l].attempt, run'.attempt = run.attempt,
             run'.status = "running" => run.status = "running"
      PROVE  /\ leaf'[l].attempt <= run'.attempt
             /\ run'.status = "running" => leaf'[l].attempt # run'.attempt
  BY <1>2 DEF OldLeaves
<1>3. UNCHANGED run => run'.attempt = run.attempt /\ run'.status = run.status
  OBVIOUS
<1>4. CASE TakeLease(w)
  <2>1. leaf[l] # NoLeaf /\ leaf[l] \in LeafRow /\ leaf'[l] = [leaf[l] EXCEPT !.status = "parked"]
    BY <1>0, <1>4, RowTypes DEF TakeLease, Returned
  <2>2. leaf'[l].attempt = leaf[l].attempt
    BY <2>1 DEF LeafRow
  <2> QED
    BY <1>2, <1>4, <2>1, <2>2 DEF TakeLease
<1>5. CASE ClaimLeaf(w)
  <2>1. PICK m \in Leaves : m = job[w].leaf /\ leaf[m] # NoLeaf
    BY <1>5 DEF ClaimLeaf, ParkedLeaves
  <2>2. leaf'[l] = IF l = m THEN [leaf[m] EXCEPT !.status = "resuming"] ELSE leaf[l]
    BY <1>0, <1>5, <2>1 DEF ClaimLeaf, RestTypes
  <2>3. leaf[l] # NoLeaf /\ leaf[l] \in LeafRow
    BY <1>0, <2>1, <2>2, RowTypes
  <2>4. leaf'[l].attempt = leaf[l].attempt
    BY <2>2, <2>3 DEF LeafRow
  <2> QED
    BY <1>2, <1>5, <2>3, <2>4 DEF ClaimLeaf
<1>6. CASE EnterRerun(w)
  <2>1. leaf'[l] = leaf[l] /\ leaf[l] \in LeafRow
    BY <1>0, <1>6, RowTypes DEF EnterRerun
  <2>2. leaf[l].attempt <= run.attempt /\ leaf[l].attempt \in Nat /\ run.attempt \in Nat
    BY <1>0, <1>6, <2>1 DEF OldLeaves, EnterRerun, LeafRow, RestTypes
  <2>3. UNCHANGED run \/ run'.attempt = run.attempt + 1
    BY <1>6 DEF EnterRerun
  <2>4. CASE UNCHANGED run
    BY <1>2, <1>6, <2>1, <2>4 DEF EnterRerun
  <2>5. CASE run'.attempt = run.attempt + 1
    BY <2>1, <2>2, <2>5
  <2> QED
    BY <2>3, <2>4, <2>5
<1>7. CASE Commit(w)
  <2>1. run'.attempt = run.attempt /\ run'.status # "running"
    BY <1>7, CommitsGo
  <2>2. run.attempt \in Nat
    BY <1>0 DEF RestTypes
  <2>3. CASE l \in job[w].parks
    BY <1>0, <1>7, <2>1, <2>2, <2>3, CommitLeaves
  <2>4. CASE l \notin job[w].parks
    <3>1. leaf'[l] = leaf[l]
      BY <1>0, <1>7, <2>4, CommitLeaves
    <3> QED
      BY <1>2, <2>1, <3>1
  <2> QED
    BY <2>3, <2>4
<1>8. CASE SettleAlone(w)
  <2>1. run'.attempt = run.attempt /\ run'.status # "running"
    BY <1>8, CommitsGo
  <2> QED
    BY <1>2, <1>8, <2>1 DEF SettleAlone
<1>9. CASE ~Fire(w) /\ ~TakeLease(w) /\ ~ClaimLeaf(w) /\ ~EnterRerun(w) /\ ~Commit(w) /\ ~SettleAlone(w)
  <2>1. leaf'[l] = leaf[l]
    <3>1. UNCHANGED leaf \/ DropState
      BY <1>9 DEF Asks, Fire, ResumeRun, Rerun, RequestCancel, SweepLostRun, TakeRow, Works, Enters, Segments,
           Busy, EnterFired,
           EnterToFail, EnterDrain, NextLeaf, LeafGone, SegmentParks, SegmentFinishes, SegmentFails, SegmentLosesRun,
           CommitRefused, Recheck, TearDown, Exits, FailRun, DropFailed, ClearIfQuiescent, Unlease, Outcome,
           FinishRow, FinishCommand, Crash, runVars
    <3> QED
      BY <3>1 DEF DropState
  <2>2. run'.attempt = run.attempt /\ (run'.status = "running" => run.status = "running")
    <3>1. UNCHANGED run \/ MarkFailed \/ RequestCancel(w)
      BY <1>9 DEF Asks, Fire, ResumeRun, Rerun, RequestCancel, SweepLostRun, TakeRow, Works, Enters, Segments,
           Busy, EnterFired,
           EnterToFail, EnterDrain, NextLeaf, LeafGone, SegmentParks, SegmentFinishes, SegmentFails, SegmentLosesRun,
           CommitRefused, Recheck, TearDown, Exits, FailRun, DropFailed, ClearIfQuiescent, Unlease, Outcome,
           FinishRow, FinishCommand, Crash, runVars
    <3>2. MarkFailed => run'.attempt = run.attempt /\ run'.status # "running"
      BY <1>0, FailedIs DEF Unsettled
    <3>3. RequestCancel(w) => run'.attempt = run.attempt /\ run'.status = run.status
      BY <1>0 DEF RequestCancel, RestTypes
    <3> QED
      BY <3>1, <3>2, <3>3
  <2> QED
    BY <1>2, <2>1, <2>2
<1> QED
  BY <1>1, <1>4, <1>5, <1>6, <1>7, <1>8, <1>9

\* But for an arrival and a segment's end, a wait awaited under a parked run
\* was awaited before.
LEMMA StillAwaited ==
    ASSUME SoleInv, NEW w \in Workers, NEW l \in Awaits, ~Commit(w), ~SettleAlone(w),
           \/ Asks(w) \/ SweepLostRun(w) \/ (\E r \in Rows : TakeRow(w, r)) \/ Works(w) \/ Crash(w),
           run'.status = "parked", Awaited(l)'
    PROVE  run.status = "parked" /\ Awaited(l)
<1>0. ShapeInv /\ RestTypes /\ l \in Leaves
  BY ShapeTypes DEF SoleInv, ApartInv, Leaves
<1>1. run.status = "parked" /\ run'.attempt = run.attempt
  <2>1. UNCHANGED run \/ MarkFailed \/ RequestCancel(w) \/ Fire(w) \/ EnterRerun(w)
    BY DEF Asks, Fire, ResumeRun, Rerun, RequestCancel, SweepLostRun, TakeRow, Works, Enters, Segments, TakeLease,
           Busy, EnterFired, EnterRerun,
           EnterToFail, EnterDrain, NextLeaf, ClaimLeaf, LeafGone, SegmentParks, SegmentFinishes, SegmentFails, SegmentLosesRun,
           CommitRefused, Recheck, TearDown, Exits, FailRun, DropFailed, ClearIfQuiescent, Unlease, Outcome,
           FinishRow, FinishCommand, Crash, runVars
  <2>2. ~MarkFailed
    BY <1>0, FailedIs DEF Unsettled
  <2>3. ~Fire(w)
    BY <1>0 DEF Fire, RestTypes
  <2>4. EnterRerun(w) => UNCHANGED run
    BY DEF EnterRerun
  <2>5. RequestCancel(w) => run'.status = run.status /\ run'.attempt = run.attempt
    BY <1>0 DEF RequestCancel, RestTypes
  <2> QED
    BY <2>1, <2>2, <2>3, <2>4, <2>5
<1>2. leaf[l] # NoLeaf /\ leaf'[l].attempt = leaf[l].attempt /\ ~DropState
  <2>1. ~DropState
    BY <1>0 DEF DropState, Awaited
  <2>2. CASE TakeLease(w)
    <3>1. leaf[l] # NoLeaf /\ leaf[l] \in LeafRow /\ leaf'[l] = [leaf[l] EXCEPT !.status = "parked"]
      BY <1>0, <2>2, RowTypes DEF TakeLease, Returned, Awaited
    <3>2. leaf'[l].attempt = leaf[l].attempt
      BY <3>1 DEF LeafRow
    <3> QED
      BY <2>1, <3>1, <3>2
  <2>3. CASE ClaimLeaf(w)
    <3>1. PICK m \in Leaves : m = job[w].leaf /\ leaf[m] # NoLeaf
      BY <2>3 DEF ClaimLeaf, ParkedLeaves
    <3>2. leaf'[l] = IF l = m THEN [leaf[m] EXCEPT !.status = "resuming"] ELSE leaf[l]
      BY <1>0, <2>3, <3>1 DEF ClaimLeaf, RestTypes
    <3>3. leaf[l] # NoLeaf /\ leaf[l] \in LeafRow
      BY <1>0, <3>1, <3>2, RowTypes DEF Awaited
    <3>4. leaf'[l].attempt = leaf[l].attempt
      BY <3>2, <3>3 DEF LeafRow
    <3> QED
      BY <2>1, <3>3, <3>4
  <2>4. CASE ~TakeLease(w) /\ ~ClaimLeaf(w)
    <3>1. UNCHANGED leaf
      BY <2>1, <2>4 DEF Asks, Fire, ResumeRun, Rerun, RequestCancel, SweepLostRun, TakeRow, Works, Enters, Segments,
           Busy, EnterFired, EnterRerun,
           EnterToFail, EnterDrain, NextLeaf, LeafGone, SegmentParks, SegmentFinishes, SegmentFails, SegmentLosesRun,
           CommitRefused, Recheck, TearDown, Exits, FailRun, DropFailed, ClearIfQuiescent, Unlease, Outcome,
           FinishRow, FinishCommand, Crash, runVars
    <3> QED
      BY <2>1, <3>1 DEF Awaited
  <2> QED
    BY <2>2, <2>3, <2>4
<1>3. wait'[l].logged = wait[l].logged /\ wait'[l].kept = wait[l].kept
  <2>1. wait[l] \in [logged : Nat, noted : Nat, kept : Nat]
    BY <1>0, RowTypes
  <2>2. \/ UNCHANGED wait
        \/ \E noted : wait' = [wait EXCEPT ![job[w].leaf].noted = noted]
        \/ ClaimLeaf(w)
    BY <1>2 DEF Asks, Fire, ResumeRun, Rerun, RequestCancel, SweepLostRun, TakeRow, Works, Enters, Segments, TakeLease,
           Busy, EnterFired, EnterRerun,
           EnterToFail, EnterDrain, NextLeaf, ClaimLeaf, LeafGone, SegmentParks, SegmentFinishes, SegmentFails, SegmentLosesRun,
           CommitRefused, Recheck, TearDown, Exits, FailRun, DropFailed, ClearIfQuiescent, Unlease, Outcome,
           FinishRow, FinishCommand, Crash, runVars
  <2>3. ASSUME NEW noted, wait' = [wait EXCEPT ![job[w].leaf].noted = noted]
        PROVE  wait'[l].logged = wait[l].logged /\ wait'[l].kept = wait[l].kept
    <3>1. wait'[l] = wait[l] \/ wait'[l] = [wait[l] EXCEPT !.noted = noted]
      BY <1>0, <2>3 DEF RestTypes
    <3> QED
      BY <2>1, <3>1
  <2>4. CASE ClaimLeaf(w)
    <3>1. wait'[l] = wait[l] \/ wait'[l] = [wait[l] EXCEPT !.noted = wait[l].kept]
      BY <2>4 DEF ClaimLeaf
    <3> QED
      BY <2>1, <3>1
  <2> QED
    BY <2>2, <2>3, <2>4
<1> QED
  BY <1>1, <1>2, <1>3 DEF Awaited

\* The process that has a wait's row keeps the wait before it until it
\* completes the row or ends the segment of it.
LEMMA StillHandles ==
    ASSUME OnceInv, NEW w \in Workers, NEW l \in Awaits, TodoFits(w), Works(w),
           ~Commit(w), ~SettleAlone(w), ~FinishRow(w), ~FinishCommand(w),
           job[w].kind = "wake", job[w].row = l, run.status = "parked", run'.status = "parked", Awaited(l), ToHandle(w, l)
    PROVE  ToHandle(w, l)'
<1>0. SoleInv /\ ShapeInv /\ l \in Leaves
  BY DEF OnceInv, SoleInv, ApartInv, Leaves
<1>1. ~MarkFailed
  BY <1>0, FailedIs DEF Unsettled
<1>2. ASSUME NEW step, Went(w, step), job[w].lost
      PROVE  ToHandle(w, l)'
  BY <1>2 DEF Went, ToHandle
<1>3. CASE Busy(w) \/ SegmentLosesRun(w) \/ CommitRefused(w)
  BY <1>0, <1>3, LosesAt DEF LostAt, ToHandle
<1>4. CASE TakeLease(w)
  <2>1. Went(w, "enter")
    BY <1>0, <1>4, GotoWent DEF TakeLease
  <2> QED
    BY <2>1 DEF Went, ToHandle
<1>5. CASE EnterFired(w) \/ EnterRerun(w) \/ EnterToFail(w)
  BY <1>5 DEF EnterFired, EnterRerun, EnterToFail
<1>6. CASE EnterDrain(w)
  <2>1. job'[w].step = "next" /\ job'[w].todo = Chosen(w)
    BY <1>0, <1>1, <1>6, EnterDrainGoes
  <2>2. Chosen(w) = {l}
    BY DEF Chosen
  <2> QED
    BY <2>1, <2>2 DEF ToHandle
<1>7. CASE NextLeaf(w)
  <2>1. job[w].step = "next" /\ job[w].todo \subseteq {l}
    BY <1>7 DEF NextLeaf, At, TodoFits
  <2>2. job[w].lost \/ l \in job[w].todo
    BY <2>1 DEF ToHandle
  <2> QED
    BY <1>0, <1>7, <2>1, <2>2, NextLeafGoes DEF LostAt, Went, ToHandle
<1>8. CASE ClaimLeaf(w)
  <2>1. job[w].step = "claim"
    BY <1>8 DEF ClaimLeaf, At
  <2> QED
    BY <1>0, <1>8, <2>1, ClaimLeafGoes DEF ToHandle
<1>9. CASE LeafGone(w)
  <2>1. job[w].step = "claim" /\ job[w].leaf \notin ParkedLeaves
    BY <1>9 DEF LeafGone, At
  <2>2. leaf[l].status = "parked"
    BY <1>0, <2>1, NoneResuming DEF IsInside, Inside, Awaited
  <2>3. job[w].leaf # l
    BY <1>0, <2>1, <2>2 DEF ParkedLeaves, Awaited
  <2>4. job[w].lost
    BY <2>1, <2>3 DEF ToHandle
  <2> QED
    BY <1>0, <1>9, <2>4, LeafGoneGoes DEF ToHandle
<1>10. CASE SegmentParks(w) \/ SegmentFinishes(w) \/ SegmentFails(w)
  <2>1. job[w].step = "segment"
    BY <1>10 DEF SegmentParks, SegmentFinishes, SegmentFails, At
  <2>2. \E settle, parks : EndedAs(w, settle, parks)
    <3>1. CASE SegmentParks(w) \/ SegmentFinishes(w)
      <4>1. \E settle, parks : SegmentEnds(w, settle, parks)
        BY <3>1 DEF SegmentParks, SegmentFinishes
      <4> QED
        BY <1>0, <4>1, SegmentEndedAs
    <3>2. CASE SegmentFails(w)
      BY <1>0, <3>2, SegmentFailsGoes DEF Unsettled
    <3> QED
      BY <1>10, <3>1, <3>2
  <2> QED
    BY <2>1, <2>2 DEF EndedAs, ToHandle
<1>11. CASE Recheck(w) \/ TearDown(w) \/ FailRun(w) \/ DropFailed(w) \/ ClearIfQuiescent(w) \/ Unlease(w) \/ Outcome(w)
  <2>1. job[w].step \in {"recheck", "teardown", "failing", "drop", "quiesce", "unlease", "outcome"}
    BY <1>11 DEF Recheck, TearDown, FailRun, DropFailed, ClearIfQuiescent, Unlease, Outcome, At
  <2>2. job[w].lost
    BY <2>1 DEF ToHandle
  <2>3. \E step : Goto(w, step)
    BY <1>11 DEF Recheck, TearDown, FailRun, DropFailed, ClearIfQuiescent, Unlease, Outcome
  <2> QED
    BY <1>0, <1>2, <2>2, <2>3, GotoWent
<1> QED
  BY <1>3, <1>4, <1>5, <1>6, <1>7, <1>8, <1>9, <1>10, <1>11 DEF Works, Enters, Segments, Exits

\* A wait whose row is as it was, or given up by who had it.
LEMMA StillWoken ==
    ASSUME NEW l \in Awaits, WokenAt(l), ask'[l] = ask[l],
           \A v \in Workers : holder'[l] = {v} => holder[l] = {v},
           \A v \in Workers : ask[l] = "taken" /\ holder[l] = {v} /\ holder'[l] = {v} /\ ToHandle(v, l) => ToHandle(v, l)'
    PROVE  WokenAt(l)'
BY DEF WokenAt

\* The end of a segment: what it parks unanswered is woken in the same write.
LEMMA CommitWakes ==
    ASSUME WakeInv, NEW w \in Workers, NEW l \in Awaits, Commit(w) \/ SettleAlone(w),
           run'.status = "parked", Awaited(l)'
    PROVE  WokenAt(l)'
<1>0. SoleInv /\ ShapeInv /\ RestTypes /\ OnceInv /\ l \in Leaves /\ l \in Rows /\ l # TimerRow /\ l # NoLeaf
  BY ShapeTypes, ConstantTypes DEF WakeInv, OnceInv, SoleInv, ApartInv
<1>1. CASE Commit(w) /\ l \in job[w].parks
  <2>1. wait'[l] = [wait[l] EXCEPT !.kept = wait[l].noted]
    BY <1>1 DEF Commit, WaitsAfter
  <2>2. wait[l] \in [logged : Nat, noted : Nat, kept : Nat]
    BY <1>0, RowTypes
  <2>3. Unread(l) > 0
    BY <2>1, <2>2 DEF Awaited, Unread
  <2>4. l \in Woken(w)
    BY <1>1, <2>3 DEF Woken
  <2>5. ask'[l] \in {"again", "waiting"}
    BY <1>0, <1>1, <2>4 DEF Commit, Enqueued
  <2> QED
    BY <2>5 DEF WokenAt
<1>2. CASE ~(Commit(w) /\ l \in job[w].parks)
  <2>1. leaf'[l] = leaf[l] /\ l # job[w].leaf /\ wait'[l] = wait[l] /\ ask'[l] = ask[l] /\ holder' = holder
    <3>1. CASE SettleAlone(w)
      BY <1>0, <3>1 DEF SettleAlone, HoldsNothing, queue
    <3>2. CASE Commit(w)
      <4>1. leaf'[l] = IF l = job[w].leaf /\ leaf[l] # NoLeaf /\ leaf[l].status = "resuming" THEN NoLeaf ELSE leaf[l]
        BY <1>0, <1>2, <3>2, CommitLeaves
      <4>2. l = job[w].leaf /\ leaf[l] # NoLeaf => leaf[l].status = "resuming"
        <5>1. lease.by = w /\ InSegment(w)
          BY <3>2 DEF Commit, Fenced, At, InSegment
        <5> QED
          BY <1>0, <5>1 DEF SoleInv, ApartInv, ResumesOpen
      <4>3. leaf'[l] = leaf[l] /\ l # job[w].leaf
        BY <4>1, <4>2 DEF Awaited
      <4>4. wait'[l] = wait[l]
        BY <1>2, <3>2, <4>3 DEF Commit, WaitsAfter
      <4>5. ask'[l] = ask[l] /\ holder' = holder
        <5>1. l \notin Woken(w)
          BY <1>2, <3>2 DEF Woken
        <5> QED
          BY <1>0, <3>2, <5>1 DEF Commit, Enqueued
      <4> QED
        BY <4>3, <4>4, <4>5
    <3> QED
      BY <3>1, <3>2
  <2>2. /\ run'.attempt = run.attempt /\ run'.status = job[w].settle /\ job[w].step = "commit" /\ Others(w)
        /\ job'[w].lost = job[w].lost /\ IsInside(w)
    BY <1>0, CommitsGo
  <2>3. Awaited(l)
    BY <2>1, <2>2 DEF Awaited
  <2>4. run.status = "parked"
    <3>1. run.status # "running"
      BY <1>0, <2>3 DEF WakeInv, OldLeaves, Awaited
    <3>2. ~Settled
      BY <2>2 DEF WakeInv, OnceInv, GoingOf
    <3>3. run.status # "none"
      BY <1>0, <2>2, Sole
    <3> QED
      BY <1>0, <3>1, <3>2, <3>3 DEF RestTypes, Settled
  <2>5. WokenAt(l)
    BY <2>3, <2>4 DEF WakeInv, Wakes
  <2>6. ASSUME NEW v \in Workers, ToHandle(v, l)
        PROVE  ToHandle(v, l)'
    BY <2>1, <2>2, <2>6 DEF ToHandle, Others
  <2> QED
    BY <2>1, <2>5, <2>6, StillWoken
<1> QED
  BY <1>1, <1>2

\* Every other step of a process leaves an awaited wait woken.
LEMMA WakesStep ==
    ASSUME WakeInv, NEW w \in Workers, NEW l \in Awaits, ~Commit(w), ~SettleAlone(w),
           \/ Asks(w) \/ SweepLostRun(w) \/ (\E r \in Rows : TakeRow(w, r)) \/ Works(w) \/ Crash(w),
           run'.status = "parked", Awaited(l)'
    PROVE  WokenAt(l)'
<1>0. SoleInv /\ ShapeInv /\ RestTypes /\ OnceInv /\ HeldRight /\ l \in Leaves /\ l \in Rows /\ l # TimerRow
  BY ShapeTypes, ConstantTypes DEF WakeInv, OnceInv, SoleInv, ApartInv
<1>1. run.status = "parked" /\ Awaited(l)
  BY <1>0, StillAwaited
<1>2. WokenAt(l)
  BY <1>1 DEF WakeInv, Wakes
<1>3. \A v \in Workers : holder[l] = {v} =>
          job[v].row = l /\ job[v].kind = "wake" /\ job[v].step # "idle"
  BY <1>0 DEF HeldRight
<1>4. ASSUME Others(w), ask'[l] = ask[l], \A v \in Workers : holder'[l] = {v} => holder[l] = {v},
             holder'[l] # {w}
      PROVE  WokenAt(l)'
  <2>1. \A v \in Workers : v # w /\ ToHandle(v, l) => ToHandle(v, l)'
    BY <1>4 DEF Others, ToHandle
  <2> QED
    BY <1>2, <1>4, <2>1, StillWoken
<1>5. CASE Asks(w) \/ SweepLostRun(w)
  <2>1. UNCHANGED <<ask, holder>> /\ job[w].step = "idle" /\ Others(w)
    BY <1>0, <1>5, StartedBegan DEF Asks, Fire, ResumeRun, Rerun, RequestCancel, SweepLostRun, queue, At, Began
  <2> QED
    BY <1>3, <1>4, <2>1
<1>6. ASSUME NEW r \in Rows, TakeRow(w, r)
      PROVE  WokenAt(l)'
  <2>1. job[w].step = "idle" /\ Others(w) /\ job'[w].step = "lease"
    BY <1>0, <1>6, StartedBegan DEF TakeRow, At, Began
  <2>2. /\ ask' = [k \in Rows |-> IF k = r THEN "taken" ELSE ask[k]]
        /\ holder' = [k \in Rows |-> IF k = r THEN {w} ELSE holder[k]]
    BY <1>6 DEF TakeRow, Queue!Take
  <2>3. CASE r = l
    <3>1. ask'[l] = "taken" /\ holder'[l] = {w}
      BY <1>0, <2>2, <2>3
    <3>2. \A v \in Workers : holder'[l] = {v} => v = w
      BY <3>1
    <3>3. ToHandle(w, l)'
      BY <2>1 DEF ToHandle
    <3> QED
      BY <3>1, <3>2, <3>3 DEF WokenAt
  <2>4. CASE r # l
    BY <1>0, <1>3, <1>4, <2>1, <2>2, <2>4
  <2> QED
    BY <2>3, <2>4
<1>7. CASE Crash(w)
  <2>1. Others(w) /\ UNCHANGED ask
    BY <1>0, <1>7, IdleEnded DEF Crash, Ended, Queue!Die
  <2>2. holder'[l] = holder[l] \ {w}
    <3>1. CASE \E r \in Rows : w \in holder[r]
      BY <1>0, <1>7, <3>1 DEF Crash, Queue!Die
    <3>2. CASE \A r \in Rows : w \notin holder[r]
      BY <1>0, <1>7, <3>2 DEF Crash
    <3> QED
      BY <3>1, <3>2
  <2>3. \A v \in Workers : holder'[l] = {v} => holder[l] = {v}
    BY <1>0, <2>2 DEF HeldRight
  <2> QED
    BY <1>4, <2>1, <2>2, <2>3
<1>8. CASE FinishCommand(w)
  <2>1. Others(w) /\ UNCHANGED <<ask, holder>> /\ job[w].row = NoRow
    BY <1>0, <1>8, IdleEnded DEF FinishCommand, Ended, queue
  <2>2. holder[l] # {w}
    BY <1>0, <1>3, <2>1, ConstantTypes
  <2> QED
    BY <1>4, <2>1, <2>2
<1>9. CASE FinishRow(w)
  <2>1. Others(w) /\ job[w].row \in Rows /\ job[w].step = "finish"
    BY <1>0, <1>9, IdleEnded, JobTypes DEF FinishRow, Job, Ended, At
  <2>2. CASE holder[job[w].row] # {w}
    <3>1. UNCHANGED <<ask, holder>>
      BY <1>9, <2>2 DEF FinishRow, queue
    <3>2. holder[l] # {w}
      BY <1>3, <2>2
    <3> QED
      BY <1>4, <2>1, <3>1, <3>2
  <2>3. CASE holder[job[w].row] = {w}
    <3>1. /\ \/ job[w].lost /\ Queue!Finish(job[w].row, w, "waiting")
             \/ ~job[w].lost /\ Queue!Finish(job[w].row, w, "none")
      BY <1>9, <2>3 DEF FinishRow, Queue!GiveBack, Queue!Complete
    <3>2. CASE job[w].row # l
      <4>1. ask'[l] = ask[l] /\ holder'[l] = holder[l]
        BY <1>0, <2>1, <3>1, <3>2 DEF Queue!Finish, RestTypes
      <4>2. holder[l] # {w}
        BY <1>3, <3>2
      <4> QED
        BY <1>4, <2>1, <4>1, <4>2
    <3>3. CASE job[w].row = l
      <4>1. ask[l] \in {"taken", "again"} /\ holder[l] = {w}
        BY <3>1, <3>3 DEF Queue!Finish, Queue!InClaim
      <4>2. ask[l] = "taken" => job[w].lost
        BY <1>2, <2>1, <4>1 DEF WokenAt, ToHandle
      <4>3. ask'[l] = "waiting"
        BY <1>0, <3>1, <3>3, <4>1, <4>2 DEF Queue!Finish, RestTypes
      <4> QED
        BY <4>3 DEF WokenAt
    <3> QED
      BY <3>2, <3>3
  <2> QED
    BY <2>2, <2>3
<1>10. CASE Works(w) /\ ~FinishRow(w) /\ ~FinishCommand(w)
  <2>1. ask'[l] = ask[l] /\ UNCHANGED holder
    <3>1. CASE Outcome(w)
      BY <1>0, <3>1 DEF Outcome, Enqueued
    <3>2. CASE ~Outcome(w)
      BY <1>10, <3>2 DEF Works, Enters, Segments, Exits, TakeLease, Busy, EnterFired, EnterRerun, EnterToFail, EnterDrain, NextLeaf,
         ClaimLeaf, LeafGone, SegmentParks, SegmentFinishes, SegmentFails, SegmentLosesRun,
         CommitRefused, Recheck, TearDown, FailRun, DropFailed, ClearIfQuiescent, Unlease, queue
    <3> QED
      BY <3>1, <3>2
  <2>2. Others(w)
    BY <1>0, <1>10, WorksKeepKind
  <2>3. CASE holder[l] # {w}
    BY <1>4, <2>1, <2>2, <2>3
  <2>4. CASE holder[l] = {w}
    <3>1. ToHandle(w, l) => ToHandle(w, l)'
      BY <1>0, <1>1, <1>3, <1>10, <2>4, StillHandles DEF WakeInv
    <3>2. \A v \in Workers : holder[l] = {v} => v = w
      BY <2>4
    <3> QED
      BY <1>2, <2>1, <3>1, <3>2, StillWoken
  <2> QED
    BY <2>3, <2>4
<1> QED
  BY <1>5, <1>6, <1>7, <1>8, <1>9, <1>10

LEMMA WakeInit == OnceOnly /\ Init => WakeInv
<1> SUFFICES ASSUME OnceOnly, Init
             PROVE  WakeInv
  OBVIOUS
<1>1. OnceInv /\ \A w \in Workers : job[w] = Idle
  BY OnceInit DEF Init
<1> QED
  BY <1>1, IdleIs DEF Init, Queue!QueueInit, WakeInv, HeldRight, TodoFits, OldLeaves, Wakes

LEMMA WakeStep == WakeInv /\ [Next]_vars => WakeInv'
<1> SUFFICES ASSUME WakeInv, [Next]_vars
             PROVE  WakeInv'
  OBVIOUS
<1>0. OnceInv' /\ OnceInv /\ SoleInv /\ ShapeInv /\ RestTypes
  BY OnceStep, ShapeTypes DEF WakeInv, OnceInv, SoleInv, ApartInv
<1>1. ASSUME UNCHANGED <<run, leaf, wait, ask, holder, job>>
      PROVE  WakeInv'
  <2>1. HeldRight' /\ (\A w \in Workers : TodoFits(w)') /\ OldLeaves'
    BY <1>1 DEF WakeInv, HeldRight, TodoFits, OldLeaves
  <2>2. Wakes'
    BY <1>1 DEF WakeInv, Wakes, Awaited, WokenAt, ToHandle
  <2> QED
    BY <1>0, <2>1, <2>2 DEF WakeInv
<1>2. CASE UNCHANGED vars
  BY <1>1, <1>2 DEF vars
<1>3. CASE LeaseLapses \/ Tick
  BY <1>1, <1>3 DEF LeaseLapses, Tick, runVars, queue
<1>4. ASSUME NEW m \in Awaits, Arrive(m)
      PROVE  WakeInv'
  <2>1. /\ UNCHANGED <<run, leaf, job, holder>>
        /\ ask' = [r \in Rows |-> IF r \notin (IF leaf[m] # NoLeaf THEN {m} ELSE {}) THEN ask[r]
                                  ELSE IF Queue!InClaim(r) THEN "again" ELSE "waiting"]
    BY <1>4 DEF Arrive, Enqueued
  <2>2. HeldRight' /\ (\A w \in Workers : TodoFits(w)') /\ OldLeaves'
    BY <2>1 DEF WakeInv, HeldRight, TodoFits, OldLeaves
  <2>3. ASSUME NEW l \in Awaits, run'.status = "parked", Awaited(l)'
        PROVE  WokenAt(l)'
    <3>0. l \in Rows
      BY ConstantTypes
    <3>1. CASE l = m
      <4>1. ask'[l] \in {"again", "waiting"}
        BY <2>1, <2>3, <3>0, <3>1 DEF Awaited
      <4> QED
        BY <4>1 DEF WokenAt
    <3>2. CASE l # m
      <4>1. wait'[l] = wait[l]
        BY <1>0, <1>4, <3>2 DEF Arrive, RestTypes
      <4>2. Awaited(l) /\ run.status = "parked"
        BY <2>1, <2>3, <4>1 DEF Awaited
      <4>3. WokenAt(l)
        BY <4>2 DEF WakeInv, Wakes
      <4>4. ask'[l] = ask[l]
        BY <2>1, <3>0, <3>2
      <4>5. \A v \in Workers : ToHandle(v, l) => ToHandle(v, l)'
        BY <2>1 DEF ToHandle
      <4> QED
        BY <2>1, <4>3, <4>4, <4>5, StillWoken
    <3> QED
      BY <3>1, <3>2
  <2> QED
    BY <1>0, <2>2, <2>3 DEF WakeInv, Wakes
<1>5. ASSUME NEW w \in Workers,
             \/ Asks(w) \/ SweepLostRun(w) \/ (\E r \in Rows : TakeRow(w, r))
             \/ Works(w) \/ Crash(w) \/ Stall(w)
      PROVE  WakeInv'
  <2>1. CASE Stall(w)
    BY <1>0, <2>1 DEF Stall, Spend, SoleInv
  <2>2. CASE ~Stall(w)
    <3>1. HeldRight' /\ (\A v \in Workers : TodoFits(v)')
      BY <1>0, <1>5, <2>2, HeldStep, TodoStep DEF WakeInv
    <3>2. OldLeaves'
      BY <1>0, <1>5, <2>2, AttemptStep DEF WakeInv
    <3>3. \A l \in Awaits : run'.status = "parked" /\ Awaited(l)' => WokenAt(l)'
      BY <1>5, <2>2, CommitWakes, WakesStep
    <3> QED
      BY <1>0, <3>1, <3>2, <3>3 DEF WakeInv, Wakes
  <2> QED
    BY <2>1, <2>2
<1> QED
  BY <1>2, <1>3, <1>4, <1>5, StepOf

LEMMA AlwaysWakes == OnceOnly => (Spec => []WakeInv)
BY WakeInit, WakeStep, PTL DEF Spec

\* A wait parked with an arrival that no kept note has read has a wake row that
\* will be claimed, whoever died on the way, was cancelled or found the run held
\* (waits.rs log_arrivals_in, store.rs commit_segment, drain.rs). While no
\* process outstalls its lease, and not both cancels and reruns are asked for.
THEOREM AnswersAreWoken == OnceOnly => (Spec => []AnswersWake)
<1>1. WakeInv => AnswersWake
  <2> SUFFICES ASSUME WakeInv, run.status = "parked", NEW l \in ParkedLeaves \cap Awaits,
                      leaf[l].attempt = run.attempt, wait[l].logged > wait[l].kept
               PROVE  ask[l] # "none"
    BY DEF AnswersWake
  <2>1. Awaited(l)
    BY DEF Awaited, ParkedLeaves
  <2> QED
    BY <2>1 DEF WakeInv, Wakes, WokenAt
<1> QED
  BY <1>1, AlwaysWakes, PTL
=============================================================================
