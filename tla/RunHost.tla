------------------------------- MODULE RunHost -------------------------------
(***************************************************************************)
(* One durable run and the processes that step it (run_host.rs, runs.rs,   *)
(* segment.rs, and the run, leaf, wait and work writes of store.rs): fired,*)
(* stepped segment by segment from what it parked, settled, cancelled,     *)
(* rerun, or failed by the sweep that finds its worker lost.               *)
(*                                                                         *)
(* A run is stepped under its lease; its timer and its waits are driven by *)
(* work rows, kept here by what the work queue promises (WorkQueue, which  *)
(* WorkStore implements). One action is one store write, or one read and   *)
(* the decision made of it. What a movement does is a free choice of how   *)
(* each segment ends. Joins and races are left out.                        *)
(***************************************************************************)
EXTENDS Integers, FiniteSetsExt

CONSTANTS
    Timers,     \* addresses that park on a timer
    Awaits,     \* addresses that park on a wait
    TimerRow,   \* the key of the run's one resume_timer row
    Workers,    \* the processes: drains, servers and commands
    Nobody,     \* nobody's lease: never taken, or released
    Gone,       \* the lease of a process that died
    NoLeaf,     \* no leaf, or no leaf at an address
    NoRow,      \* no work row
    FenceReadsTime, \* a fence refuses a lapsed lease nobody took since: SQLite's does, Postgres's does not
    Horizon,    \* bound: the clock stops there
    Bounds      \* bound: how often each of BoundNames happens

Leaves == Timers \cup Awaits
Rows == {TimerRow} \cup Awaits

BoundNames == {
    "parks",    \* leaves parked
    "arrivals", \* arrivals logged on each wait's record
    "resumes",  \* `resume <run>`
    "cancels",  \* `cancel <run>`
    "reruns",   \* `runs rerun <run>`
    "crashes",  \* processes that die
    "overruns", \* rows taken over from a worker that outran its row lease
    "stalls"}   \* run leases lapsed under a process that goes on

\* A row of the leaf table.
LeafRow ==
    [status : {"parked", "resuming"}, wake : Nat, park : Nat, attempt : Nat]

ASSUME AddressesAssumption ==
    /\ IsFiniteSet(Leaves) /\ Timers \cap Awaits = {}
    /\ TimerRow \notin Leaves /\ NoLeaf \notin Leaves \cup LeafRow /\ NoRow \notin Rows
ASSUME FenceAssumption == FenceReadsTime \in BOOLEAN
ASSUME HoldersAssumption == Nobody \notin Workers /\ Gone \notin Workers /\ Nobody # Gone
ASSUME RunBoundsAssumption == Horizon \in Nat /\ Bounds \in [BoundNames -> Nat]

VARIABLES
    now,        \* the clock
    run,        \* the run's row: status, cancel request, attempt
    lease,      \* the run's lease: whose token it is, and whether it lapsed
    leaf,       \* the leaf table
    wait,       \* each wait's arrivals: logged, noted, and notes kept
    ask,        \* each work row, as WorkQueue has it
    holder,     \* the worker whose claim of each row stands
    timerDue,   \* the resume_timer row's due time
    job,        \* what each process is doing
    ends,       \* history: how often the resume of each leaf's each park was kept
    left        \* what is left of the bounds

queue == <<ask, holder, timerDue>>
runVars == <<run, lease, leaf, wait>>
vars == <<now, run, lease, leaf, wait, ask, holder, timerDue, job, ends, left>>

Queue == INSTANCE WorkQueue WITH Keys <- Rows, GivesUp <- {}, Landed <- {}

Parks == 1..Bounds["parks"]

Unsettled == {"running", "parked"}

Kinds == {"fired", "timer", "wake", "resume", "rerun", "sweep", "cancel"}

Steps == {
    "idle", "lease", "enter", "next", "claim", "segment", "commit", "recheck",
    "teardown", "failing", "drop", "quiesce", "unlease", "outcome", "finish"}

Idle == [kind |-> "fired", step |-> "idle", row |-> NoRow, todo |-> {}, leaf |-> NoLeaf, park |-> 0,
         settle |-> "running", parks |-> {}, stepped |-> FALSE, lost |-> FALSE]

At(w, step) == job[w].step = step
Goto(w, step) == job' = [job EXCEPT ![w].step = step]
GoIdle(w) == job' = [job EXCEPT ![w] = Idle]

Started(w, kind, row) ==
    job' = [job EXCEPT ![w] = [Idle EXCEPT !.kind = kind, !.step = "lease", !.row = row]]

Spend(bound, n) ==
    /\ left[bound] >= n
    /\ left' = [left EXCEPT ![bound] = @ - n]

LeaseOf(w) == [by |-> w, lapsed |-> FALSE]

\* claim_lease takes a lease nobody holds or whose time is past.
Free == lease.by = Nobody \/ lease.lapsed

\* The holder, by its own deadline, still has the run (is_lost).
Holds(w) == lease = LeaseOf(w)

\* Mutant of Fenced: any write lands.
FencedByNobody(w) == TRUE

\* A fence finds the run leased under this holder's token.
Fenced(w) == lease.by = w /\ (FenceReadsTime => ~lease.lapsed)

Fresh(w) == job[w].kind \in {"fired", "rerun"}
Drains(w) == job[w].kind \in {"timer", "wake", "resume"}

ParkedLeaves == {l \in Leaves : leaf[l] # NoLeaf /\ leaf[l].status = "parked"}
ParkedTimers == ParkedLeaves \cap Timers

Unread(l) == wait[l].logged - wait[l].noted

-----------------------------------------------------------------------------
(* The run's work rows. *)

\* The due times the timer row may have once each of `dues` is enqueued: the
\* earliest, unless a live claim holds it, when the last enqueued stands.
TimerDueAfter(dues) ==
    LET earliest == Min(dues \cup {timerDue}) IN
    CASE ask[TimerRow] = "none" -> {Min(dues)}
      [] ask[TimerRow] = "waiting" -> {earliest}
      [] Queue!InClaim(TimerRow) /\ holder[TimerRow] # {} /\ left["overruns"] = 0 -> dues
      [] OTHER -> dues \cup {earliest}

\* What a write enqueues: the timer row for each of `dues`, and these wakes.
Enqueued(dues, wakes) ==
    LET rows == wakes \cup IF dues = {} THEN {} ELSE {TimerRow} IN
    /\ ask' = [r \in Rows |->
           IF r \notin rows THEN ask[r] ELSE IF Queue!InClaim(r) THEN "again" ELSE "waiting"]
    /\ IF dues = {} THEN UNCHANGED timerDue ELSE timerDue' \in TimerDueAfter(dues)
    /\ UNCHANGED holder

RowDue(r) == r = TimerRow => timerDue <= now

\* A drain claims a due row: one that waits, one whose worker died, or one
\* whose worker outran its lease.
TakeRow(w, r) ==
    /\ At(w, "idle") /\ RowDue(r)
    /\ Queue!Take(w, {r})
    /\ IF ask[r] # "waiting" /\ holder[r] # {} THEN Spend("overruns", 1) ELSE UNCHANGED left
    /\ Started(w, IF r = TimerRow THEN "timer" ELSE "wake", r)
    /\ UNCHANGED <<now, runVars, timerDue, ends>>

\* Mutant of FinishRow: a drain that lost the run completes its row.
CompletesLostRow(w) ==
    /\ At(w, "finish") /\ job[w].row # NoRow
    /\ IF holder[job[w].row] = {w} THEN Queue!Complete(job[w].row, w) ELSE UNCHANGED <<ask, holder>>
    /\ GoIdle(w)
    /\ UNCHANGED <<now, runVars, timerDue, ends, left>>

\* The row is completed; or, its run held elsewhere or taken over, released.
FinishRow(w) ==
    /\ At(w, "finish") /\ job[w].row # NoRow
    /\ LET r == job[w].row IN
       IF holder[r] # {w} THEN UNCHANGED queue
       ELSE IF job[w].lost
       THEN /\ Queue!GiveBack(r, w)
            /\ timerDue' = IF r = TimerRow /\ ask[r] = "taken" THEN now ELSE timerDue
       ELSE Queue!Complete(r, w) /\ UNCHANGED timerDue
    /\ GoIdle(w)
    /\ UNCHANGED <<now, runVars, ends, left>>

FinishCommand(w) ==
    /\ At(w, "finish") /\ job[w].row = NoRow
    /\ GoIdle(w)
    /\ UNCHANGED <<now, runVars, queue, ends, left>>

-----------------------------------------------------------------------------
(* What is asked of the run, and what befalls it. *)

\* run_listen: the run's row is written before its lease is claimed.
Fire(w) ==
    /\ At(w, "idle") /\ run.status = "none"
    /\ run' = [run EXCEPT !.status = "running"]
    /\ Started(w, "fired", NoRow)
    /\ UNCHANGED <<now, lease, leaf, wait, queue, ends, left>>

ResumeRun(w) ==
    /\ At(w, "idle") /\ run.status = "parked"
    /\ Spend("resumes", 1)
    /\ Started(w, "resume", NoRow)
    /\ UNCHANGED <<now, runVars, queue, ends>>

Rerun(w) ==
    /\ At(w, "idle") /\ run.status = "failed"
    /\ Spend("reruns", 1)
    /\ Started(w, "rerun", NoRow)
    /\ UNCHANGED <<now, runVars, queue, ends>>

RequestCancel(w) ==
    /\ At(w, "idle") /\ run.status \in Unsettled
    /\ Spend("cancels", 1)
    /\ run' = [run EXCEPT !.cancel = TRUE]
    /\ Started(w, "cancel", NoRow)
    /\ UNCHANGED <<now, lease, leaf, wait, queue, ends>>

\* Still running with no lease, and started a lease's length ago: by then
\* who fired it has taken one, or died.
Lapsed == run.status = "running" /\ Free /\ \A v \in Workers : Fresh(v) => ~At(v, "lease")

SweepLostRun(w) ==
    /\ At(w, "idle") /\ Lapsed
    /\ Started(w, "sweep", NoRow)
    /\ UNCHANGED <<now, runVars, queue, ends, left>>

\* log_arrivals: an arrival on the wait's record wakes the wait when a leaf
\* is at its address, parked or being resumed.
Arrive(l) ==
    /\ run.status \in Unsettled /\ wait[l].logged < Bounds["arrivals"]
    /\ wait' = [wait EXCEPT ![l].logged = @ + 1]
    /\ Enqueued({}, IF leaf[l] # NoLeaf THEN {l} ELSE {})
    /\ UNCHANGED <<now, run, lease, leaf, job, ends, left>>

Tick ==
    /\ now < Horizon
    /\ now' = now + 1
    /\ UNCHANGED <<runVars, queue, job, ends, left>>

\* A process dies: its lease and its row stay until they lapse.
Crash(w) ==
    /\ ~At(w, "idle")
    /\ Spend("crashes", 1)
    /\ lease' = IF lease.by = w THEN [lease EXCEPT !.by = Gone] ELSE lease
    /\ IF \E r \in Rows : w \in holder[r] THEN Queue!Die(w) ELSE UNCHANGED <<ask, holder>>
    /\ GoIdle(w)
    /\ UNCHANGED <<now, run, leaf, wait, timerDue, ends>>

LeaseLapses ==
    /\ lease = LeaseOf(Gone)
    /\ lease' = [lease EXCEPT !.lapsed = TRUE]
    /\ UNCHANGED <<now, run, leaf, wait, queue, job, ends, left>>

\* A holder stalls past its lease's deadline, and goes on.
Stall(w) ==
    /\ Holds(w)
    /\ Spend("stalls", 1)
    /\ lease' = [lease EXCEPT !.lapsed = TRUE]
    /\ UNCHANGED <<now, run, leaf, wait, queue, job, ends>>

-----------------------------------------------------------------------------
(* The run's own writes. *)

\* Mutant of Returned: a leaf a dead holder was resuming stays so.
StaysResuming == leaf

\* A lease claimed parks again what its last holder was resuming.
Returned == [l \in Leaves |-> IF leaf[l] # NoLeaf THEN [leaf[l] EXCEPT !.status = "parked"] ELSE NoLeaf]

\* Mutants of MarkFailed: a settled run is failed too; a status no reader knows.
MarkFailedAnyway == run' = [run EXCEPT !.status = "failed"]
MarkCancelled == run' = [run EXCEPT !.status = IF @ \in Unsettled THEN "cancelled" ELSE @]

\* mark_failed: a settled run stays.
MarkFailed == run' = [run EXCEPT !.status = IF @ \in Unsettled THEN "failed" ELSE @]

NoArrivals == [logged |-> 0, noted |-> 0, kept |-> 0]

\* drop_run_state: the leaves and the waits.
DropState ==
    /\ leaf' = [l \in Leaves |-> NoLeaf]
    /\ wait' = [l \in Awaits |-> NoArrivals]

-----------------------------------------------------------------------------
(* A process under the run's lease (with_run_lease). *)

TakeLease(w) ==
    /\ At(w, "lease") /\ Free
    /\ lease' = LeaseOf(w)
    /\ leaf' = Returned
    /\ Goto(w, "enter")
    /\ UNCHANGED <<now, run, wait, queue, ends, left>>

Busy(w) ==
    /\ At(w, "lease") /\ ~Free
    /\ job' = [job EXCEPT ![w].step = "finish", ![w].lost = TRUE]
    /\ UNCHANGED <<now, runVars, queue, ends, left>>

EnterFired(w) ==
    /\ At(w, "enter") /\ job[w].kind = "fired"
    /\ Goto(w, "segment")
    /\ UNCHANGED <<now, runVars, queue, ends, left>>

\* rerun: read again under the lease, then rerun_run in one fenced write.
EnterRerun(w) ==
    /\ At(w, "enter") /\ job[w].kind = "rerun"
    /\ IF Fenced(w) /\ run.status = "failed"
       THEN /\ run' = [status |-> "running", cancel |-> FALSE, attempt |-> run.attempt + 1]
            /\ Goto(w, "segment")
       ELSE /\ Goto(w, "unlease")
            /\ UNCHANGED run
    /\ UNCHANGED <<now, lease, leaf, wait, queue, ends, left>>

\* Mutant of EnterToFail: the sweep, too, fails only what was cancelled.
FailsTheCancelled(w) ==
    /\ At(w, "enter") /\ job[w].kind \in {"sweep", "cancel"}
    /\ IF run.cancel THEN MarkFailed ELSE UNCHANGED run
    /\ Goto(w, IF run.cancel THEN "drop" ELSE "unlease")
    /\ UNCHANGED <<now, lease, leaf, wait, queue, ends, left>>

\* fail_lost_runs, and cancel_run's settle_if_cancel_requested.
EnterToFail(w) ==
    /\ At(w, "enter")
    /\ LET fails == \/ job[w].kind = "sweep" /\ run.status = "running"
                    \/ job[w].kind = "cancel" /\ run.cancel
       IN  /\ job[w].kind \in {"sweep", "cancel"}
           /\ IF fails THEN MarkFailed ELSE UNCHANGED run
           /\ Goto(w, IF fails THEN "drop" ELSE "unlease")
    /\ UNCHANGED <<now, lease, leaf, wait, queue, ends, left>>

\* The leaves each drain steps.
Chosen(w) ==
    CASE job[w].kind = "timer" -> {l \in ParkedTimers : leaf[l].wake <= now}
      [] job[w].kind = "wake" -> {job[w].row}
      [] job[w].kind = "resume" -> ParkedLeaves

\* drive_parked_run: a run not parked is not stepped; one whose cancel was
\* requested fails before a leaf is.
EnterDrain(w) ==
    /\ At(w, "enter") /\ Drains(w)
    /\ CASE run.status # "parked" -> Goto(w, "unlease") /\ UNCHANGED run
         [] run.status = "parked" /\ run.cancel -> Goto(w, "drop") /\ MarkFailed
         [] OTHER -> /\ job' = [job EXCEPT ![w].step = "next", ![w].todo = Chosen(w)]
                     /\ UNCHANGED run
    /\ UNCHANGED <<now, lease, leaf, wait, queue, ends, left>>

\* drain_run's loop: the lease looked at before each leaf.
NextLeaf(w) ==
    /\ At(w, "next")
    /\ CASE ~Holds(w) -> job' = [job EXCEPT ![w].step = "unlease", ![w].lost = TRUE]
         [] Holds(w) /\ job[w].todo = {} -> Goto(w, "quiesce")
         [] OTHER -> \E l \in job[w].todo :
                job' = [job EXCEPT ![w].step = "claim", ![w].leaf = l, ![w].todo = @ \ {l}]
    /\ UNCHANGED <<now, runVars, queue, ends, left>>

\* claim_leaf, under no fence: a parked leaf is resuming, and what a dead
\* segment noted of its wait is dropped.
ClaimLeaf(w) ==
    /\ At(w, "claim") /\ job[w].leaf \in ParkedLeaves
    /\ leaf' = [leaf EXCEPT ![job[w].leaf].status = "resuming"]
    /\ wait' = [l \in Awaits |-> IF l = job[w].leaf THEN [wait[l] EXCEPT !.noted = wait[l].kept] ELSE wait[l]]
    /\ job' = [job EXCEPT ![w].step = "segment", ![w].park = leaf[job[w].leaf].park]
    /\ UNCHANGED <<now, run, lease, queue, ends, left>>

LeafGone(w) ==
    /\ At(w, "claim") /\ job[w].leaf \notin ParkedLeaves
    /\ job' = [job EXCEPT ![w].step = "next", ![w].leaf = NoLeaf]
    /\ UNCHANGED <<now, runVars, queue, ends, left>>

-----------------------------------------------------------------------------
(* A segment, and its commit. *)

SegmentEnds(w, settle, parks) ==
    job' = [job EXCEPT ![w].step = "commit", ![w].stepped = TRUE, ![w].settle = settle, ![w].parks = parks]

\* A movement parks where nothing is parked, or again at the leaf it resumed.
Parkable(w) == {l \in Leaves : leaf[l] = NoLeaf \/ l = job[w].leaf}

\* An await nothing answered parks again.
NotedAt(w, noted) == job[w].leaf \in Awaits => noted > wait[job[w].leaf].noted

SegmentParks(w) ==
    /\ At(w, "segment") /\ ~run.cancel
    /\ \E parks \in SUBSET Parkable(w) :
         /\ parks # {}
         /\ Cardinality(parks) <= left["parks"]
         /\ SegmentEnds(w, "parked", parks)
    /\ IF job[w].leaf \in Awaits /\ Fenced(w)
       THEN \E noted \in wait[job[w].leaf].noted .. wait[job[w].leaf].logged :
              /\ NotedAt(w, noted) \/ job[w].leaf \in job'[w].parks
              /\ wait' = [wait EXCEPT ![job[w].leaf].noted = noted]
       ELSE UNCHANGED wait
    /\ UNCHANGED <<now, run, lease, leaf, queue, ends, left>>

\* Mutant of NothingLeft: a run completes with its first branch.
FirstBranchEnds(w) == TRUE

\* run_quiescent, run_complete_without: no other leaf is parked.
NothingLeft(w) == ParkedLeaves \subseteq {job[w].leaf}

SegmentFinishes(w) ==
    /\ At(w, "segment") /\ ~run.cancel
    /\ IF job[w].leaf \in Awaits
       THEN /\ Unread(job[w].leaf) > 0
            /\ Fenced(w)
            /\ \E noted \in wait[job[w].leaf].noted + 1 .. wait[job[w].leaf].logged :
                 wait' = [wait EXCEPT ![job[w].leaf].noted = noted]
       ELSE UNCHANGED wait
    /\ SegmentEnds(w, IF NothingLeft(w) THEN "completed" ELSE "parked", {})
    /\ UNCHANGED <<now, run, lease, leaf, queue, ends, left>>

\* The segment fails, or stops at a boundary where it sees the cancel: it
\* keeps none of its parks. A failed one of a run already settled is not
\* committed.
SegmentFails(w) ==
    /\ At(w, "segment")
    /\ IF run.status \in Unsettled \/ run.cancel
       THEN SegmentEnds(w, "failed", {})
       ELSE job' = [job EXCEPT ![w].step = "failing", ![w].stepped = TRUE]
    /\ UNCHANGED <<now, runVars, queue, ends, left>>

\* A fenced write of the segment's own finds the lease gone.
SegmentLosesRun(w) ==
    /\ At(w, "segment") /\ ~Fenced(w)
    /\ job' = [job EXCEPT ![w].step = "unlease", ![w].stepped = TRUE, ![w].lost = TRUE]
    /\ UNCHANGED <<now, runVars, queue, ends, left>>

AfterCommit(w) ==
    job' = [job EXCEPT ![w].leaf = NoLeaf, ![w].park = 0, ![w].parks = {}, ![w].settle = "running",
               ![w].step = CASE job[w].settle = "failed" -> "failing"
                             [] job[w].settle # "failed" /\ job[w].parks # {} -> "recheck"
                             [] OTHER -> IF Fresh(w) THEN "quiesce" ELSE "next"]

\* The leaves once the segment's end is kept: the one it resumed is gone,
\* unless it parked there again, and its parks are there.
LeavesAfter(w, wakes) ==
    [l \in Leaves |->
        IF l \in job[w].parks
        THEN [status |-> "parked", wake |-> IF l \in Timers THEN wakes[l] ELSE 0,
              park |-> left["parks"], attempt |-> run.attempt]
        ELSE IF l = job[w].leaf /\ leaf[l] # NoLeaf /\ leaf[l].status = "resuming" THEN NoLeaf
        ELSE leaf[l]]

\* The notes made of the waits at the segment's leaf and parks are kept.
WaitsAfter(w) ==
    [l \in Awaits |-> IF l \in job[w].parks \cup {job[w].leaf} THEN [wait[l] EXCEPT !.kept = wait[l].noted] ELSE wait[l]]

\* A segment that resumed no leaf and parks nothing settles the run alone.
HoldsNothing(w) == job[w].leaf = NoLeaf /\ job[w].parks = {}

\* Mutant of Woken: a wait parked with arrivals unread is not woken.
NoneWoken(w) == {}

\* The waits it parks whose arrivals are unread, read in the write.
Woken(w) == {l \in job[w].parks \cap Awaits : Unread(l) > 0}

Commit(w) ==
    /\ At(w, "commit") /\ ~HoldsNothing(w) /\ Fenced(w)
    /\ Spend("parks", Cardinality(job[w].parks))
    /\ \E wakes \in [job[w].parks \cap Timers -> now + 1 .. Horizon + 1] :
         /\ leaf' = LeavesAfter(w, wakes)
         /\ Enqueued({wakes[l] : l \in DOMAIN wakes}, Woken(w))
    /\ wait' = WaitsAfter(w)
    /\ run' = [run EXCEPT !.status = job[w].settle]
    /\ ends' = IF job[w].leaf # NoLeaf THEN [ends EXCEPT ![job[w].leaf][job[w].park] = @ + 1] ELSE ends
    /\ AfterCommit(w)
    /\ UNCHANGED <<now, lease>>

\* settle_run, under no fence.
SettleAlone(w) ==
    /\ At(w, "commit") /\ HoldsNothing(w)
    /\ run' = [run EXCEPT !.status = job[w].settle]
    /\ AfterCommit(w)
    /\ UNCHANGED <<now, lease, leaf, wait, queue, ends, left>>

CommitRefused(w) ==
    /\ At(w, "commit") /\ ~HoldsNothing(w) /\ ~Fenced(w)
    /\ job' = [job EXCEPT ![w].step = "unlease", ![w].lost = TRUE]
    /\ UNCHANGED <<now, runVars, queue, ends, left>>

\* After a segment that parked, under no fence: a cancel requested meanwhile
\* fails the run, then tears it down.
Recheck(w) ==
    /\ At(w, "recheck")
    /\ IF run.cancel THEN MarkFailed ELSE UNCHANGED run
    /\ Goto(w, IF run.cancel THEN "teardown" ELSE IF Fresh(w) THEN "quiesce" ELSE "next")
    /\ UNCHANGED <<now, lease, leaf, wait, queue, ends, left>>

TearDown(w) ==
    /\ At(w, "teardown")
    /\ DropState
    /\ Goto(w, IF Fresh(w) THEN "quiesce" ELSE "next")
    /\ UNCHANGED <<now, run, lease, queue, ends, left>>

-----------------------------------------------------------------------------
(* How a process leaves the run. *)

\* fail_run's first write, under no fence.
FailRun(w) ==
    /\ At(w, "failing")
    /\ MarkFailed
    /\ Goto(w, "drop")
    /\ UNCHANGED <<now, lease, leaf, wait, queue, ends, left>>

\* fail_run's second write, abandon_run, fenced.
DropFailed(w) ==
    /\ At(w, "drop")
    /\ IF Fenced(w) THEN DropState ELSE UNCHANGED <<leaf, wait>>
    /\ Goto(w, "unlease")
    /\ UNCHANGED <<now, run, lease, queue, ends, left>>

\* clear_if_quiescent.
ClearIfQuiescent(w) ==
    /\ At(w, "quiesce")
    /\ IF ParkedLeaves = {} /\ Fenced(w) THEN DropState ELSE UNCHANGED <<leaf, wait>>
    /\ Goto(w, "unlease")
    /\ UNCHANGED <<now, run, lease, queue, ends, left>>

\* A process that stepped the run, and has not lost it.
Tells(w) == job[w].stepped /\ ~job[w].lost

Unlease(w) ==
    /\ At(w, "unlease")
    /\ lease' = IF lease.by = w THEN LeaseOf(Nobody) ELSE lease
    /\ Goto(w, IF Tells(w) THEN "outcome" ELSE "finish")
    /\ UNCHANGED <<now, run, leaf, wait, queue, ends, left>>

\* next_timer_wake: the earliest of the timers still parked.
Rearms == IF run.status \in Unsettled /\ ParkedTimers # {} THEN {Min({leaf[l].wake : l \in ParkedTimers})} ELSE {}

\* settled_outcome, the lease released: a run still parked re-arms its timer.
Outcome(w) ==
    /\ At(w, "outcome")
    /\ Enqueued(Rearms, {})
    /\ Goto(w, "finish")
    /\ UNCHANGED <<now, runVars, ends, left>>

-----------------------------------------------------------------------------
Init ==
    /\ now = 0
    /\ run = [status |-> "none", cancel |-> FALSE, attempt |-> 1]
    /\ lease = LeaseOf(Nobody)
    /\ leaf = [l \in Leaves |-> NoLeaf]
    /\ wait = [l \in Awaits |-> NoArrivals]
    /\ Queue!QueueInit
    /\ timerDue = 0
    /\ job = [w \in Workers |-> Idle]
    /\ ends = [l \in Leaves |-> [p \in Parks |-> 0]]
    /\ left = Bounds

Asks(w) == Fire(w) \/ ResumeRun(w) \/ Rerun(w) \/ RequestCancel(w)

Enters(w) == TakeLease(w) \/ Busy(w) \/ EnterFired(w) \/ EnterRerun(w) \/ EnterToFail(w) \/ EnterDrain(w)

Segments(w) ==
    \/ NextLeaf(w) \/ ClaimLeaf(w) \/ LeafGone(w)
    \/ SegmentParks(w) \/ SegmentFinishes(w) \/ SegmentFails(w) \/ SegmentLosesRun(w)
    \/ Commit(w) \/ SettleAlone(w) \/ CommitRefused(w)
    \/ Recheck(w) \/ TearDown(w)

Exits(w) ==
    \/ FailRun(w) \/ DropFailed(w) \/ ClearIfQuiescent(w)
    \/ Unlease(w) \/ Outcome(w) \/ FinishRow(w) \/ FinishCommand(w)

Works(w) == Enters(w) \/ Segments(w) \/ Exits(w)

Next ==
    \/ \E w \in Workers :
         \/ Asks(w)
         \/ SweepLostRun(w)
         \/ \E r \in Rows : TakeRow(w, r)
         \/ Works(w)
         \/ Crash(w)
         \/ Stall(w)
    \/ \E l \in Awaits : Arrive(l)
    \/ LeaseLapses
    \/ Tick

Spec == Init /\ [][Next]_vars

\* Time passes, a dead holder's lease lapses, every process steps on, and the
\* workers that drain go on sweeping and claiming what is due.
Fairness ==
    /\ WF_vars(Tick) /\ WF_vars(LeaseLapses)
    /\ \A w \in Workers : WF_vars(Works(w))
    /\ SF_vars(\E w \in Workers : SweepLostRun(w))
    /\ \A r \in Rows : SF_vars(\E w \in Workers : TakeRow(w, r))

FairSpec == Spec /\ Fairness

-----------------------------------------------------------------------------
(* What a run is promised. *)

Job ==
    [kind : Kinds, step : Steps, row : Rows \cup {NoRow}, todo : SUBSET Leaves,
     leaf : Leaves \cup {NoLeaf}, park : Nat, settle : {"running", "parked", "completed", "failed"},
     parks : SUBSET Leaves, stepped : BOOLEAN, lost : BOOLEAN]

\* The type invariant.
TypeOK ==
    /\ now \in 0..Horizon
    /\ run \in [status : {"none", "running", "parked", "completed", "failed"}, cancel : BOOLEAN, attempt : Nat]
    /\ lease \in [by : Workers \cup {Nobody, Gone}, lapsed : BOOLEAN]
    /\ leaf \in [Leaves -> LeafRow \cup {NoLeaf}]
    /\ wait \in [Awaits -> [logged : Nat, noted : Nat, kept : Nat]]
    /\ Queue!QueueTypeOK
    /\ timerDue \in Nat
    /\ job \in [Workers -> Job]
    /\ ends \in [Leaves -> [Parks -> Nat]]
    /\ left \in [BoundNames -> Nat]

AllIdle == \A w \in Workers : At(w, "idle")

\* One row is "shared by every timer leaf the run parks: due at its earliest"
\* (rules.ts, timerWorkKey): once nobody steps a run, each timer it parked
\* has its row, due by the time the timer is.
TimersArmed ==
    run.status = "parked" /\ AllIdle =>
        \A t \in ParkedTimers : ask[TimerRow] # "none" /\ timerDue <= leaf[t].wake

\* A wait parked with an arrival no kept note has read has a wake row that
\* will be claimed, whoever died on the way (waits.rs log_arrivals_in,
\* store.rs commit_segment).
AnswersWake ==
    run.status = "parked" =>
        \A l \in ParkedLeaves \cap Awaits :
            leaf[l].attempt = run.attempt /\ wait[l].logged > wait[l].kept => ask[l] # "none"

\* A run that nobody holds and that is parked has a parked leaf to go on
\* from ("parked but has no parked leaf", runs.rs resume_run, never happens).
ParkedHasALeaf ==
    run.status = "parked" /\ AllIdle => \E l \in Leaves : leaf[l] # NoLeaf

\* A completed run left nothing parked (run_complete_without).
CompletedLeftNothing == run.status = "completed" => ParkedLeaves = {}

\* A settled run stays as it is, but for a rerun's next attempt (mark_failed,
\* settle_run, after_step).
SettledStays ==
    [][run.status \in {"completed", "failed"} =>
           run'.status = run.status \/ run'.attempt > run.attempt]_vars

\* Whatever lease lapses under whom, the end of each resume of a leaf is kept
\* at most once ("a run is stepped by whoever holds its lease, so every run's
\* work is done once", drain.rs).
ResumeKeptOnce == \A l \in Leaves : \A p \in Parks : ends[l][p] <= 1

\* A run whose worker was lost does not stay running: it goes on to park or
\* settle, or the sweep fails it (fail_lost_runs).
LostRunSettles == run.status = "running" ~> run.status # "running"

\* A parked wait that was answered is resumed: its arrivals are noted and
\* kept, or its run is over.
AnsweredWaitResumes ==
    \A l \in Awaits :
        leaf[l] # NoLeaf /\ wait[l].logged > wait[l].kept
            ~> leaf[l] = NoLeaf \/ wait[l].logged = wait[l].kept \/ run.status \in {"completed", "failed"}
=============================================================================
