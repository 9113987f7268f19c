------------------------------- MODULE Waits -------------------------------
(***************************************************************************)
(* Runs' waits on listenable edges, over the log of what modules report    *)
(* (waits.rs, the wait writes of store.rs and pg_store.rs, and the engine's *)
(* waits.rs and awaits.rs).                                                *)
(*                                                                         *)
(* A wait reads the arrivals logged on its record's edge after its mark,   *)
(* notes each it judges, and is woken or stranded by what is logged while  *)
(* it is parked. One action is one transaction, except that a log's is     *)
(* two: it draws its seq, then commits.                                    *)
(*                                                                         *)
(* A movement is what these properties tell apart of it: the records it    *)
(* enters, the addresses it awaits them at, and which of those awaits is   *)
(* reached after which. What a WHERE takes is a free choice per arrival.   *)
(* One process steps a run at a time: one whose lease lapses ends before   *)
(* another takes the run.                                                  *)
(***************************************************************************)
EXTENDS Integers, Sequences, FiniteSetsExt, SequencesExt

CONSTANTS
    Runs,
    Records,        \* the records' listenable edges, one key each
    Trigger,        \* the record whose arrivals start runs
    Identities,     \* what arrivals are identified by
    Versions,       \* the versions of one identity
    Addresses,      \* the awaits of the movement
    AwaitOf,        \* the record each awaits
    After,          \* the awaits passed before each is reached
    Nowhere,        \* no address, and no identity
    NoWait,
    TakesTurns,     \* logs take turns, as SQLite's do; Postgres's only on one record's edge
    MaxArrivals,    \* bound: arrivals logged
    MaxFailures     \* bound: processes that die and leases that lapse

ASSUME RecordsAssumption == Trigger \in Records
ASSUME AwaitsAssumption ==
    /\ AwaitOf \in [Addresses -> Records] /\ After \in [Addresses -> SUBSET Addresses]
    /\ \A a \in Addresses : \A b \in After[a] : After[b] \subseteq After[a]
    /\ IsFiniteSet(Addresses)
ASSUME NowhereAssumption == Nowhere \notin Addresses \cup Identities
ASSUME VersionsAssumption == Versions \subseteq Nat /\ Versions # {}

\* What a run waits for on a record: what is logged since its mark, at the
\* address it is parked at. (before: a history.)
Wait == [since : 0..MaxArrivals, before : SUBSET (1..MaxArrivals), at : Addresses \cup {Nowhere}, stranded : BOOLEAN]

ASSUME NoWaitAssumption == NoWait \notin Wait
ASSUME WaitsBoundsAssumption == TakesTurns \in BOOLEAN /\ MaxArrivals \in Nat /\ MaxFailures \in Nat

VARIABLES
    reported,   \* every arrival that drew a seq, at its seq
    flight,     \* the seqs drawn by logs that have not committed
    swept,      \* the seqs the sweep forgot
    known,      \* the identities and versions inside their re-send window
    run,        \* each run: its status, its lease, what its progress kept
    leaf,       \* each run's leaves
    wait,       \* each run's waits, by record
    seen,       \* what each wait noted, and which it noted before which
    wakes,      \* the wake_await rows nobody has claimed
    job,        \* what the process that steps each run is doing
    failures    \* how many processes died or lost their lease

vars == <<reported, flight, swept, known, run, leaf, wait, seen, wakes, job, failures>>

Seqs == DOMAIN reported
Logged == Seqs \ (flight \cup swept)

\* arrival_mark: the latest seq a reader sees, none being 0.
Latest == Max(Logged \cup {0})

\* A mark, with (history) the seqs whose logs had committed when it was taken.
NoMark == [seq |-> -1, before |-> {}]
MarkNow == [seq |-> Latest, before |-> Seqs \ flight]

Arrival == [rec : Records, id : Identities \cup {Nowhere}, ver : Versions, gone : BOOLEAN]

On(k) == {s \in Logged : reported[s].rec = k}

SameVersion(x, y) == x.id = y.id /\ x.ver = y.ver

Noted(r, k, a) == \E n \in seen[r][k] : SameVersion(n, a)

\* wait_arrivals: after the wait's mark, not gone, not noted, the first of
\* each identity and version.
Unread(r, k) ==
    {s \in On(k) :
        /\ s > wait[r][k].since
        /\ ~reported[s].gone
        /\ ~Noted(r, k, reported[s])
        /\ \A t \in On(k) : t > wait[r][k].since /\ ~reported[t].gone /\ SameVersion(reported[s], reported[t]) => t >= s}

Parked(r, k) == wait[r][k] # NoWait /\ wait[r][k].at # Nowhere /\ leaf[r][wait[r][k].at] # "none"

\* The newest report on the record after the wait's mark says it is gone.
NewestGone(r, k) ==
    LET after == {s \in On(k) : s > wait[r][k].since} IN
    after # {} /\ reported[Max(after)].gone

-----------------------------------------------------------------------------
(* The log. *)

\* A sender's retry inside the window is not logged again.
Repeat(a) == a.id # Nowhere /\ <<a.rec, a.id, a.ver>> \in known

\* No log of the record's edge is in flight: lock_wait_key.
Unlocked(k) == \A s \in flight : reported[s].rec # k

MayLog(k) == IF TakesTurns THEN flight = {} ELSE Unlocked(k)

Draw(a) ==
    /\ Len(reported) < MaxArrivals
    /\ reported' = Append(reported, a)
    /\ known' = IF a.id = Nowhere THEN known ELSE known \cup {<<a.rec, a.id, a.ver>>}

\* Mutant of Strandings: a report that the record is back leaves its waits stranded.
StrandingsKept(w, a) ==
    [r \in Runs |-> [w[r] EXCEPT ![a.rec] =
        IF a.gone /\ Parked(r, a.rec) THEN [@ EXCEPT !.stranded = TRUE] ELSE @]]

\* A gone report strands the waits parked on the record; any other clears
\* the stranding of every wait on it.
Strandings(w, a) ==
    [r \in Runs |-> [w[r] EXCEPT ![a.rec] =
        IF @ = NoWait \/ (a.gone /\ ~Parked(r, a.rec)) THEN @ ELSE [@ EXCEPT !.stranded = a.gone]]]

\* A row for each wait parked on the record, be its leaf parked or resuming.
WakesOf(a) ==
    {<<r, a.rec, wait[r][a.rec].at>> : r \in {q \in Runs : ~a.gone /\ Parked(q, a.rec)}}

\* log_arrivals draws its seq. A repeat logs nothing.
BeginLog(a) ==
    /\ MayLog(a.rec) /\ ~Repeat(a)
    /\ Draw(a)
    /\ flight' = flight \cup {Len(reported) + 1}
    /\ UNCHANGED <<swept, run, leaf, wait, seen, wakes, job, failures>>

\* The log commits, with what it strands and the rows of the waits it wakes.
EndLog(s) ==
    /\ s \in flight
    /\ flight' = flight \ {s}
    /\ wait' = Strandings(wait, reported[s])
    /\ wakes' = wakes \cup WakesOf(reported[s])
    /\ UNCHANGED <<reported, swept, known, run, leaf, seen, job, failures>>

\* An identity's re-send window ends.
WindowEnds(x) ==
    /\ x \in known
    /\ known' = known \ {x}
    /\ UNCHANGED <<reported, flight, swept, run, leaf, wait, seen, wakes, job, failures>>

\* What a run binds at an address. Its trigger is bound first, nowhere.
Bound(a, at, listed) == [at |-> at, rec |-> a.rec, id |-> a.id, ver |-> a.ver, listed |-> listed]

\* Mutant of PreNoted: the trigger is not noted.
PreNotedNever(a) == {}

\* The trigger, noted as judged by the run it starts.
PreNoted(a) == {[id |-> a.id, ver |-> a.ver, matched |-> FALSE, by |-> Nowhere, nth |-> 1]}

\* keep_delivery, of an arrival that starts run r: its wait opened at the mark
\* before the arrival, the arrival logged, in one write.
Deliver(r, a) ==
    /\ run[r].status = "none"
    /\ a.rec = Trigger /\ ~a.gone
    /\ MayLog(a.rec) /\ ~Repeat(a)
    /\ Draw(a)
    /\ run' = [run EXCEPT ![r].status = "queued", ![r].bound = <<Bound(a, Nowhere, TRUE)>>]
    /\ wait' = [Strandings(wait, a) EXCEPT ![r][Trigger] =
                    [since |-> Latest, before |-> Seqs \ flight, at |-> Nowhere, stranded |-> FALSE]]
    /\ seen' = [seen EXCEPT ![r][Trigger] = PreNoted(a)]
    /\ wakes' = wakes \cup WakesOf(a)
    /\ UNCHANGED <<flight, swept, leaf, job, failures>>

\* Mutant of Floor: a running step keeps nothing from the sweep.
FloorOfLog == Latest

\* The lowest mark of a lease that runs, else the latest seq.
Floor ==
    LET marks == {run[r].mark : r \in {q \in Runs : run[q].lease = "held"}} IN
    IF marks = {} THEN Latest ELSE Min(marks)

\* At or below the floor, and read by no wait.
Sweepable ==
    {s \in Logged :
        /\ s <= Floor
        /\ \A r \in Runs : LET w == wait[r][reported[s].rec] IN w # NoWait => w.since >= s}

\* sweep_arrivals forgets the oldest first.
Sweep ==
    /\ Sweepable # {}
    /\ swept' = swept \cup {Min(Sweepable)}
    /\ UNCHANGED <<reported, flight, known, run, leaf, wait, seen, wakes, job, failures>>

-----------------------------------------------------------------------------
(* A run's process. *)

NoRow == <<>>

Idle == [on |-> FALSE, by |-> Nowhere, marks |-> [k \in Records |-> NoMark], at |-> Nowhere, todo |-> {},
         parks |-> {}, done |-> {}, entered |-> {}, bound |-> <<>>, row |-> NoRow]

\* A segment's job: what it resumes, and the row it works.
JobOf(by, entered, row) == [Idle EXCEPT !.on = TRUE, !.by = by, !.entered = entered, !.row = row]

\* What is left of it once its run is over.
Ending(row) == JobOf(Nowhere, {}, row)

\* claim_lease, with the mark of the step it begins.
Leased(r, status) == [run EXCEPT ![r].status = status, ![r].lease = "held", ![r].mark = Latest]

\* The run starts, fired by a delivery's row or not, and takes its lease. The
\* wait a delivery opened is the one its trigger enters with.
Start(r) ==
    /\ run[r].status \in {"none", "queued"}
    /\ run' = Leased(r, "running")
    /\ job' = [job EXCEPT ![r] =
                JobOf(Nowhere, IF run[r].status = "queued" THEN {Trigger} ELSE {}, NoRow)]
    /\ UNCHANGED <<reported, flight, swept, known, leaf, wait, seen, wakes, failures>>

\* drop_run_waits.
WaitsDropped(r) ==
    /\ wait' = [wait EXCEPT ![r] = [k \in Records |-> NoWait]]
    /\ seen' = [seen EXCEPT ![r] = [k \in Records |-> {}]]

\* Mutant of NeverStarts: a buried row leaves the waits it opened.
NeverStartsLeaving(r) ==
    /\ run[r].status = "queued"
    /\ run' = [run EXCEPT ![r].status = "ended"]
    /\ UNCHANGED <<reported, flight, swept, known, leaf, wait, seen, wakes, job, failures>>

\* The row is completed or buried without the run: drop_unstarted_waits.
NeverStarts(r) ==
    /\ run[r].status = "queued"
    /\ run' = [run EXCEPT ![r].status = "ended"]
    /\ WaitsDropped(r)
    /\ UNCHANGED <<reported, flight, swept, known, leaf, wakes, job, failures>>

\* Mutant of NotesWithout: the notes of a segment that died stay.
NotesAnyway(r, a) == seen[r]

\* drop_leaf_notes: without those made by a segment that resumed leaf a.
NotesWithout(r, a) == [k \in Records |-> {n \in seen[r][k] : n.by # a}]

\* A wake row's drain: the run's lease, its resuming leaves parked again, and
\* the leaf claimed.
Resume(w) ==
    LET r == w[1]  a == w[3] IN
    /\ w \in wakes
    /\ run[r].status = "parked" /\ leaf[r][a] # "none"
    /\ ~job[r].on /\ run[r].lease # "held"
    /\ run' = Leased(r, "parked")
    /\ leaf' = [leaf EXCEPT ![r] = [b \in Addresses |->
                    IF b = a THEN "resuming" ELSE IF leaf[r][b] = "resuming" THEN "parked" ELSE leaf[r][b]]]
    /\ seen' = [seen EXCEPT ![r] = NotesWithout(r, a)]
    /\ job' = [job EXCEPT ![r] = JobOf(a, {}, w)]
    /\ wakes' = wakes \ {w}
    /\ UNCHANGED <<reported, flight, swept, known, wait, failures>>

\* A row whose leaf is gone is completed.
RowFindsNothing(w) ==
    /\ w \in wakes
    /\ run[w[1]].status = "ended" \/ leaf[w[1]][w[3]] = "none"
    /\ wakes' = wakes \ {w}
    /\ UNCHANGED <<reported, flight, swept, known, run, leaf, wait, seen, job, failures>>

Entered(r) == run[r].entered \cup job[r].entered
Between(r) == job[r].on /\ job[r].at = Nowhere /\ run[r].status # "ended"
Resumed(r) == job[r].by = Nowhere \/ job[r].by \in job[r].done

\* entry_at: the mark, before the record is written or read.
TakeMark(r, k) ==
    /\ Between(r) /\ Resumed(r)
    /\ k \notin Entered(r) /\ job[r].marks[k] = NoMark
    /\ job' = [job EXCEPT ![r].marks[k] = MarkNow]
    /\ UNCHANGED <<reported, flight, swept, known, run, leaf, wait, seen, wakes, failures>>

Held(r) == run[r].lease = "held"

\* A run that waits there already keeps its wait and its mark. What was
\* logged `before` the run's first open is not owed it, nor is anything owed
\* to a process that lost the run.
Opened(r, k, mark) ==
    LET before == IF Held(r) THEN mark.before ELSE 1..MaxArrivals
        w == wait[r][k] IN
    IF w = NoWait THEN [since |-> mark.seq, before |-> before, at |-> Nowhere, stranded |-> FALSE]
    ELSE [w EXCEPT !.before = @ \cap before]

\* open_wait at the mark taken. It is not fenced.
Open(r, k) ==
    /\ Between(r)
    /\ k \notin Entered(r) /\ job[r].marks[k] # NoMark
    /\ wait' = [wait EXCEPT ![r][k] = Opened(r, k, job[r].marks[k])]
    /\ job' = [job EXCEPT ![r].entered = @ \cup {k}]
    /\ UNCHANGED <<reported, flight, swept, known, run, leaf, seen, wakes, failures>>

\* The await is where the segment goes on: the leaf it resumes, or one it
\* reaches past that, and past whatever comes before.
Reaches(r, a) ==
    /\ Between(r)
    /\ a \notin job[r].done \cup job[r].parks
    /\ IF job[r].by = a THEN TRUE
       ELSE /\ Resumed(r)
            /\ leaf[r][a] = "none" /\ a \notin run[r].done
            /\ AwaitOf[a] \in Entered(r)
            /\ job[r].by = Nowhere \/ job[r].by \in After[a]
            /\ After[a] \subseteq run[r].done \cup job[r].done

\* The wait's arrivals, read once.
Reach(r, a) ==
    /\ Reaches(r, a)
    /\ job' = [job EXCEPT ![r].at = a, ![r].todo = Unread(r, AwaitOf[a])]
    /\ UNCHANGED <<reported, flight, swept, known, run, leaf, wait, seen, wakes, failures>>

Note(r, k, a, matched) ==
    IF Noted(r, k, a) THEN seen
    ELSE [seen EXCEPT ![r][k] =
            @ \cup {[id |-> a.id, ver |-> a.ver, matched |-> matched, by |-> job[r].by, nth |-> 1 + Max({n.nth : n \in @} \cup {0})]}]

\* The identity's newest note matched.
MatchedBefore(r, k, id) ==
    LET of == {n \in seen[r][k] : n.id = id} IN
    \E n \in of : n.matched /\ \A m \in of : m.nth <= n.nth

\* note_arrival's answer.
Counts(r, k, a, matched) == matched /\ ~Noted(r, k, a) /\ ~MatchedBefore(r, k, a.id)

\* A plain await first reached takes the first match its record lists, noted
\* whatever was noted of it.
BindListed(r, a, s) ==
    LET k == AwaitOf[a] IN
    /\ Reaches(r, a) /\ Held(r) /\ job[r].by # a
    /\ s \in Seqs /\ reported[s].rec = k /\ ~reported[s].gone
    /\ seen' = Note(r, k, reported[s], TRUE)
    /\ job' = [job EXCEPT ![r].done = @ \cup {a}, ![r].bound = Append(@, Bound(reported[s], a, TRUE))]
    /\ UNCHANGED <<reported, flight, swept, known, run, leaf, wait, wakes, failures>>

\* judge_arrivals: the next arrival judged and noted; the first that counts
\* is bound.
Judge(r, matched) ==
    LET at == job[r].at
        k == AwaitOf[at]
        a == reported[Min(job[r].todo)] IN
    /\ job[r].on /\ job[r].todo # {} /\ Held(r)
    /\ seen' = Note(r, k, a, matched)
    /\ job' = IF Counts(r, k, a, matched)
              THEN [job EXCEPT ![r].at = Nowhere, ![r].todo = {}, ![r].done = @ \cup {at},
                               ![r].bound = Append(@, Bound(a, at, FALSE))]
              ELSE [job EXCEPT ![r].todo = @ \ {Min(@)}]
    /\ UNCHANGED <<reported, flight, swept, known, run, leaf, wait, wakes, failures>>

\* Nothing counted: the await's park is held for the segment's commit.
HoldPark(r) ==
    /\ job[r].on /\ job[r].at # Nowhere /\ job[r].todo = {}
    /\ job' = [job EXCEPT ![r].at = Nowhere, ![r].parks = @ \cup {job[r].at}]
    /\ UNCHANGED <<reported, flight, swept, known, run, leaf, wait, seen, wakes, failures>>

-----------------------------------------------------------------------------
(* A segment's end. *)

\* keep_leaf_notes: of the leaf resumed, finished or parked again, and of
\* each leaf parked.
Kept(r) ==
    LET over == {job[r].by} \cup job[r].parks IN
    [k \in Records |-> {[n EXCEPT !.by = IF @ \in over THEN Nowhere ELSE @] : n \in seen[r][k]}]

\* A record already gone: the wait is stranded as it parks.
StrandsAtPark(r, k) == NewestGone(r, k)

\* unpark_waits and park_wait, one park after another: of two on one record
\* the last in `order` has the wait.
ParkedWaits(r, order) ==
    [k \in Records |->
        LET w == wait[r][k]
            here == {i \in DOMAIN order : AwaitOf[order[i]] = k} IN
        IF w = NoWait \/ here = {} THEN w
        ELSE [w EXCEPT !.at = order[Max(here)], !.stranded = @ \/ StrandsAtPark(r, k)]]

\* Mutant of WakesAtPark: the commit does not read again.
WakesNoPark(r, order) == {}

\* The parked waits that have arrivals to read: read in the write, after the
\* notes are kept.
WakesAtPark(r, order) ==
    {<<r, AwaitOf[a], a>> : a \in {b \in Range(order) : Unread(r, AwaitOf[b]) # {}}}

LeavesAfter(r) ==
    [a \in Addresses |->
        IF a \in job[r].parks THEN "parked" ELSE IF a = job[r].by THEN "none" ELSE leaf[r][a]]

\* commit_segment, fenced. A run with nothing parked is over, its waits still
\* to be dropped; of another the lease is released and the row completed.
Commit(r, order) ==
    LET left == {a \in Addresses : LeavesAfter(r)[a] # "none"} IN
    /\ Between(r) /\ Held(r)
    /\ job[r].by = Nowhere \/ job[r].by \in job[r].done \cup job[r].parks
    /\ \A a \in job[r].parks : Unlocked(AwaitOf[a])
    /\ leaf' = [leaf EXCEPT ![r] = LeavesAfter(r)]
    /\ run' = [run EXCEPT ![r] =
                [status |-> IF left = {} THEN "ended" ELSE "parked",
                 lease |-> IF left = {} THEN "held" ELSE "free", mark |-> @.mark,
                 entered |-> @.entered \cup job[r].entered, done |-> @.done \cup job[r].done,
                 bound |-> @.bound \o job[r].bound]]
    /\ wait' = [wait EXCEPT ![r] = ParkedWaits(r, order)]
    /\ seen' = [seen EXCEPT ![r] = Kept(r)]
    /\ wakes' = wakes \cup WakesAtPark(r, order)
    /\ job' = [job EXCEPT ![r] = IF left = {} THEN Ending(job[r].row) ELSE Idle]
    /\ UNCHANGED <<reported, flight, swept, known, failures>>

\* drop_run_state, of a run that is over, fenced; then the lease is released
\* and the row completed.
Drop(r) ==
    /\ job[r].on /\ run[r].status = "ended" /\ Held(r)
    /\ WaitsDropped(r)
    /\ run' = [run EXCEPT ![r].lease = "free"]
    /\ job' = [job EXCEPT ![r] = Idle]
    /\ UNCHANGED <<reported, flight, swept, known, leaf, wakes, failures>>

RowOf(r) == IF job[r].row = NoRow THEN {} ELSE {job[r].row}

\* The process ends with nothing kept; another claims its row again.
Ends(r) ==
    /\ job[r].on
    /\ job' = [job EXCEPT ![r] = Idle]
    /\ wakes' = wakes \cup RowOf(r)
    /\ UNCHANGED <<reported, flight, swept, known, run, leaf, wait, seen>>

\* A write finds the lease lost: the row is given back.
LosesRun(r) == run[r].lease = "lapsed" /\ Ends(r) /\ UNCHANGED failures

Crash(r) == failures < MaxFailures /\ Ends(r) /\ failures' = failures + 1

\* A lease nobody renews lapses: of a process that died, or that goes on.
LeaseLapses(r) ==
    /\ Held(r)
    /\ job[r].on => failures < MaxFailures
    /\ run' = [run EXCEPT ![r].lease = "lapsed"]
    /\ failures' = IF job[r].on THEN failures + 1 ELSE failures
    /\ UNCHANGED <<reported, flight, swept, known, leaf, wait, seen, wakes, job>>

\* The sweep of lost runs fails, under its own lease, a run no process steps
\* that never parked; its waits are still to be dropped.
FailLost(r) ==
    /\ run[r].status = "running" /\ ~job[r].on /\ ~Held(r)
    /\ run' = Leased(r, "ended")
    /\ job' = [job EXCEPT ![r] = Ending(NoRow)]
    /\ UNCHANGED <<reported, flight, swept, known, leaf, wait, seen, wakes, failures>>

-----------------------------------------------------------------------------
Init ==
    /\ reported = <<>> /\ flight = {} /\ swept = {} /\ known = {} /\ wakes = {} /\ failures = 0
    /\ run = [r \in Runs |-> [status |-> "none", lease |-> "free", mark |-> 0, entered |-> {}, done |-> {},
                              bound |-> <<>>]]
    /\ leaf = [r \in Runs |-> [a \in Addresses |-> "none"]]
    /\ wait = [r \in Runs |-> [k \in Records |-> NoWait]]
    /\ seen = [r \in Runs |-> [k \in Records |-> {}]]
    /\ job = [r \in Runs |-> Idle]

\* What a module may report: an item on a record's edge, or that it is gone.
Reports ==
    {[rec |-> k, id |-> i, ver |-> v, gone |-> FALSE] : k \in Records, i \in Identities, v \in Versions}
    \cup {[rec |-> k, id |-> Nowhere, ver |-> Min(Versions), gone |-> TRUE] : k \in Records}

Log ==
    \/ \E a \in Reports : BeginLog(a) \/ \E r \in Runs : Deliver(r, a)
    \/ \E s \in flight : EndLog(s)
    \/ \E x \in known : WindowEnds(x)
    \/ Sweep

Segment(r) ==
    \/ \E k \in Records : TakeMark(r, k) \/ Open(r, k)
    \/ \E a \in Addresses : Reach(r, a) \/ \E s \in Seqs : BindListed(r, a, s)
    \/ \E matched \in BOOLEAN : Judge(r, matched)
    \/ HoldPark(r)
    \/ \E order \in SetToSeqs(job[r].parks) : Commit(r, order)

Step(r) ==
    Start(r) \/ NeverStarts(r) \/ Segment(r) \/ Drop(r) \/ LosesRun(r) \/ Crash(r) \/ LeaseLapses(r) \/ FailLost(r)

Next ==
    \/ Log
    \/ \E w \in wakes : Resume(w) \/ RowFindsNothing(w)
    \/ \E r \in Runs : Step(r)

Spec == Init /\ [][Next]_vars

-----------------------------------------------------------------------------
(* What the waits promise. *)

Notes == [id : Identities, ver : Versions, matched : BOOLEAN, by : Addresses \cup {Nowhere}, nth : Nat \ {0}]

\* The log, the waits and the jobs stay within their types, and a run that is
\* over has waits only while its process is still to drop them, or where a
\* process died or lost its lease (clear_if_quiescent, drop_unstarted_waits).
TypeOK ==
    /\ reported \in Seq(Arrival) /\ Len(reported) <= MaxArrivals
    /\ flight \subseteq Seqs /\ swept \subseteq Seqs \ flight
    /\ known \subseteq Records \X Identities \X Versions
    /\ failures \in 0..MaxFailures
    /\ \A w \in wakes : w[1] \in Runs /\ w[3] \in Addresses /\ w[2] = AwaitOf[w[3]]
    /\ \A r \in Runs :
        /\ run[r].status \in {"none", "queued", "running", "parked", "ended"}
        /\ run[r].lease \in {"free", "held", "lapsed"} /\ run[r].mark \in 0..MaxArrivals
        /\ leaf[r] \in [Addresses -> {"none", "parked", "resuming"}]
        /\ \A k \in Records :
            /\ seen[r][k] \subseteq Notes
            /\ wait[r][k] # NoWait =>
                wait[r][k] \in Wait /\ (run[r].status = "ended" => job[r].on \/ failures > 0)
        /\ job[r].on => run[r].status \in {"running", "parked", "ended"}

Committed == Seqs \ flight

\* Nothing logged on the record since the mark is out of a reader's reach.
InReach(k, mark, before) ==
    \A s \in Committed \ before : reported[s].rec = k => s > mark /\ s \notin swept

\* A wait reads every arrival logged after the mark its run took before the
\* record entered, though the wait is opened later and the sweep runs between
\* (the floor of live leases), through crashes, lapses and opens again.
WaitsReadAll ==
    \A r \in Runs : \A k \in Records :
        /\ wait[r][k] # NoWait => InReach(k, wait[r][k].since, wait[r][k].before)
        /\ job[r].on /\ Held(r) /\ job[r].marks[k] # NoMark /\ k \notin Entered(r) =>
               InReach(k, job[r].marks[k].seq, job[r].marks[k].before)

\* A parked wait is stranded exactly when the newest report on its record
\* says it is gone, whether the report came before the park, while parked, or
\* while its leaf was resumed; no other wait is stranded but on such a record.
StrandedAsReported ==
    \A r \in Runs : \A k \in Records : wait[r][k] # NoWait =>
        /\ wait[r][k].stranded => NewestGone(r, k)
        /\ Parked(r, k) /\ NewestGone(r, k) => wait[r][k].stranded

\* What the leaf would read: notes of a segment that resumed it and died are
\* dropped as it is claimed.
ToRead(r, a) ==
    LET k == AwaitOf[a] IN
    {s \in On(k) :
        /\ s > wait[r][k].since /\ ~reported[s].gone
        /\ \A n \in seen[r][k] : SameVersion(n, reported[s]) => n.by = a}

\* A leaf parked on a wait with an arrival to read has a row that will resume
\* it: the log woke the park or the commit's read saw the arrival, and a
\* process that dies leaves both to be done again.
WakeOwed ==
    \A r \in Runs : \A a \in Addresses :
        leaf[r][a] # "none" /\ ToRead(r, a) # {} /\ ~(job[r].on /\ job[r].by = a) =>
            <<r, AwaitOf[a], a>> \in wakes

\* A leaf parked on an arrival to read is never left with no row, and no
\* process, to go on with any leaf of its wait: either the log woke the park or
\* the read after it saw the arrival.
ArmsWoken ==
    \A r \in Runs : \A a \in Addresses :
        leaf[r][a] # "none" /\ ToRead(r, a) # {} /\ ~job[r].on =>
            \E w \in wakes : w[1] = r /\ w[2] = AwaitOf[a]

\* A run binds an arrival off the log once, however often its sender repeats
\* it, its window ends or its segments die, and never its own trigger; a
\* listing may answer with it again.
BoundOnce ==
    \A r \in Runs : \A i, j \in DOMAIN run[r].bound :
        LET x == run[r].bound[i]  y == run[r].bound[j] IN
        i < j /\ x.rec = y.rec /\ SameVersion(x, y) => y.listed

\* An arrival noted as counting was bound by progress the run kept: none is
\* used up by a segment that died.
AnswersKept ==
    \A r \in Runs : ~job[r].on /\ run[r].status = "parked" =>
        \A k \in Records : \A n \in seen[r][k] :
            LET earlier == {m \in seen[r][k] : m.id = n.id /\ m.nth < n.nth} IN
            /\ n.by = Nowhere /\ n.matched
            /\ ~\E m \in earlier : m.matched /\ \A e \in earlier : e.nth <= m.nth
            => \E b \in Range(run[r].bound) : b.rec = k /\ SameVersion(b, n)

=============================================================================
