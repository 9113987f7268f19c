----------------------------- MODULE Deliveries -----------------------------
(***************************************************************************)
(* How arrivals become runs (lf doors.rs, runs.rs, store.rs): the inbound  *)
(* door and the edge polls keep a delivery, its fire_event row and the     *)
(* waits of the runs it mints in one write; a drain, or the request itself *)
(* where the sink is inline, fires its arrivals at the listens, each of    *)
(* which takes an arrival once (its receipt), starts a run for it or holds *)
(* it while it is paused; a delivery that fails is sent again, and kept    *)
(* again, while its row stays for a drain.                                 *)
(*                                                                         *)
(* One action is one store write, or one read. Every listen judges the     *)
(* same way each time (Fires); a work row's times are WorkStore's, the     *)
(* runs themselves RunHost's.                                              *)
(***************************************************************************)
EXTENDS Integers, Sequences, FiniteSets

CONSTANTS
    Listens,        \* the listens, by pipeline
    Pushed,         \* the arrivals senders deliver, each under an id of its own
    Items,          \* the arrivals of the feed, in its order
    Fires,          \* <<listen, arrival>>: what each listen fires
    Looping,        \* of those, the arrivals at the end of a chain of loopDepth runs
    Sinks,          \* what a door does with a delivery: "queue", "inline"
    Workers,        \* requests and drains
    Nobody,         \* no process, and no id
    Caps,           \* MAX_WORK_ATTEMPTS: its values
    MaxKept,        \* bound: deliveries kept
    MaxFaults,      \* bound: processes that die, attempts that fail, leases outrun
    MaxResumes      \* bound: `listens resume`

Arrivals == Pushed \cup {Items[i] : i \in DOMAIN Items}

ASSUME DeliveriesAssumption ==
    /\ Items \in Seq(Arrivals) /\ Fires \subseteq Listens \X Arrivals /\ Looping \subseteq Fires
    /\ \A a \in Arrivals : \E l \in Listens : <<l, a>> \in Fires
    /\ Sinks \subseteq {"queue", "inline"} /\ Nobody \notin Workers \cup Arrivals
    /\ {MaxKept, MaxFaults, MaxResumes} \cup Caps \subseteq Nat

VARIABLES
    sent,       \* what each sender knows of its delivery
    kept,       \* the delivery rows, in the order kept: their arrivals, and their external id
    row,        \* the fire_event row of each
    receipt,    \* the event_receipt rows: the run, or held
    runs,       \* the runs started, each by the delivery that minted it
    waits,      \* the minted runs whose waits are open
    paused,     \* listen_state.paused
    held,       \* listen_state.held
    feed,       \* "pulled" on a ping, from a cursor kept since it was set up, or "polled"
    listed,     \* how many items the provider lists
    cursor,     \* the feed's cursor
    armedAt,    \* history: where the cursor was first
    job,        \* what each process is doing
    left        \* what is left of the bounds, and the cap on attempts

vars == <<sent, kept, row, receipt, runs, waits, paused, held, feed, listed, cursor, armedAt, job, left>>

NoCursor == -1

Deliveries == DOMAIN kept
Minted(d) == {<<d, f[1], f[2]>> : f \in {g \in Fires : g[2] \in kept[d].arrivals}}
Pair(run) == <<run[2], run[3]>>

\* Processes are alike: of those that are idle, one.
Free(w) == w = CHOOSE u \in Workers : job[u].step = "idle" \/ \A v \in Workers : job[v].step # "idle"

Idle == [step |-> "idle", of |-> 0, by |-> "row", todo |-> {}, at |-> <<>>, known |-> [l \in Listens |-> "unread"],
         started |-> {}, drops |-> {}, since |-> NoCursor, page |-> 0]

At(w, step) == job[w].step = step
Goto(w, step) == job' = [job EXCEPT ![w].step = step]
GoOn(w) == job' = [job EXCEPT ![w].step = "fire", ![w].at = <<>>]
GoIdle(w) == job' = [job EXCEPT ![w] = Idle]
Spend(bound) == left[bound] > 0 /\ left' = [left EXCEPT ![bound] = @ - 1]

\* The job of firing delivery d, whose arrivals are as.
Firing(d, as, by) ==
    [Idle EXCEPT !.step = "fire", !.of = d, !.by = by, !.todo = {f \in Fires : f[2] \in as}]

NewRow == [state |-> "queued", by |-> Nobody, attempts |-> 0]

-----------------------------------------------------------------------------
(* A delivery is kept. *)

\* keep_delivery: the delivery, its row and the waits of the runs it mints.
KeepDelivery(as, id) ==
    /\ kept' = Append(kept, [arrivals |-> as, id |-> id])
    /\ row' = Append(row, NewRow)
    /\ waits' = waits \cup {<<Len(kept) + 1, f[1], f[2]>> : f \in {g \in Fires : g[2] \in as}}

\* The bound: room for a delivery, beside the pages read.
Room == Len(kept) + Cardinality({w \in Workers : At(w, "page")}) < MaxKept

KeptBefore(id) == \E d \in Deliveries : kept[d].id = id

\* LfDoors::keep. A duplicate writes nothing. An answer may not reach its sender.
Receive(w, a) ==
    /\ At(w, "idle") /\ Free(w) /\ sent[a] \in {"unsent", "refused"}
    /\ \/ /\ KeptBefore(a)
          /\ sent' = [sent EXCEPT ![a] = "accepted"]
          /\ UNCHANGED <<kept, row, waits, job, left>>
       \/ /\ ~KeptBefore(a) /\ "queue" \in Sinks /\ Room
          /\ KeepDelivery({a}, a)
          /\ \/ sent' = [sent EXCEPT ![a] = "accepted"] /\ UNCHANGED left
             \/ sent' = [sent EXCEPT ![a] = "refused"] /\ Spend("faults")
          /\ UNCHANGED job
       \/ /\ ~KeptBefore(a) /\ "inline" \in Sinks /\ Room
          /\ KeepDelivery({a}, a)
          /\ sent' = [sent EXCEPT ![a] = "out"]
          /\ job' = [job EXCEPT ![w] = Firing(Len(kept) + 1, {a}, "request")]
          /\ UNCHANGED left
    /\ UNCHANGED <<receipt, runs, paused, held, feed, listed, cursor, armedAt>>

\* The provider lists one more item.
List ==
    /\ listed < Len(Items)
    /\ listed' = listed + 1
    /\ UNCHANGED <<sent, kept, row, receipt, runs, waits, paused, held, feed, cursor, armedAt, job, left>>

\* poll_edge_once, or the read of a delivery that only pings: the module lists
\* what is past the cursor. A poll's row is claimed; pings come together.
ReadPage(w) ==
    /\ At(w, "idle") /\ Free(w)
    /\ feed = "polled" => \A u \in Workers : ~At(u, "page")
    /\ cursor # listed /\ Room
    /\ job' = [job EXCEPT ![w] = [Idle EXCEPT !.step = "page", !.since = cursor, !.page = listed]]
    /\ UNCHANGED <<sent, kept, row, receipt, runs, waits, paused, held, feed, listed, cursor, armedAt, left>>

\* Mutant of PageCursor: the cursor goes where the feed is by now.
PageCursorNow(w) == listed

PageCursor(w) == job[w].page

\* The page, its runs and the cursor in one write. The first poll only arms.
\* An item no listen fires is not in Items: a page of such is logged, and the
\* cursor saved past it.
KeepPage(w) ==
    /\ At(w, "page")
    /\ IF job[w].since = NoCursor
       THEN UNCHANGED <<kept, row, waits>>
       ELSE KeepDelivery({Items[i] : i \in job[w].since + 1 .. job[w].page}, Nobody)
    /\ cursor' = PageCursor(w)
    /\ armedAt' = IF armedAt = NoCursor THEN cursor' ELSE armedAt
    /\ GoIdle(w)
    /\ UNCHANGED <<sent, receipt, runs, paused, held, feed, listed, left>>

-----------------------------------------------------------------------------
(* Its row. *)

\* The request that runs it inline is at it.
InRequest(d) == \E w \in Workers : ~At(w, "idle") /\ job[w].by = "request" /\ job[w].of = d

Unstarted(d) == Minted(d) \ runs

\* Mutant of GivesUp: one attempt too many.
GivesUpLater(d) == row[d].attempts > left.cap

\* past_cap, gives_up: the row has had its attempts.
GivesUp(d) == row[d].attempts >= left.cap

\* A drain claims the row: one run inline is due a run lease out, so only if
\* the request outran it. A row past its cap is buried.
Claim(w, d) ==
    /\ At(w, "idle") /\ Free(w) /\ row[d].state = "queued"
    /\ IF InRequest(d) THEN Spend("faults") ELSE UNCHANGED left
    /\ IF ~GivesUp(d)
       THEN /\ row' = [row EXCEPT ![d] = [state |-> "claimed", by |-> w, attempts |-> @.attempts + 1]]
            /\ job' = [job EXCEPT ![w] = Firing(d, kept[d].arrivals, "row")]
            /\ UNCHANGED waits
       ELSE /\ row' = [row EXCEPT ![d].state = "dead"]
            /\ waits' = waits \ Unstarted(d)
            /\ UNCHANGED job
    /\ UNCHANGED <<sent, kept, receipt, runs, paused, held, feed, listed, cursor, armedAt>>

\* The row's lease lapses under a drain that goes on.
Outrun(d) ==
    /\ row[d].state = "claimed"
    /\ Spend("faults")
    /\ row' = [row EXCEPT ![d].state = "queued", ![d].by = Nobody]
    /\ UNCHANGED <<sent, kept, receipt, runs, waits, paused, held, feed, listed, cursor, armedAt, job>>

Owns(w) == job[w].by = "row" /\ row[job[w].of].by = w

\* complete, by a drain that still holds the row; complete_key, by the
\* request, unless a drain holds it, with the waits no run owns.
Done(w) ==
    LET d == job[w].of
        by == IF job[w].by = "row" THEN Owns(w) ELSE row[d].state = "queued"
    IN  /\ row' = IF by THEN [row EXCEPT ![d].state = "done", ![d].by = Nobody] ELSE row
        /\ waits' = IF by /\ job[w].by = "request" THEN waits \ Unstarted(d) ELSE waits

-----------------------------------------------------------------------------
(* Its arrivals are fired. *)

Take(w) == job[w].at
Listen(w) == job[w].at[1]

\* fire_arrivals_to: the next arrival, at the next listen it fires, whose
\* pause is read once in the delivery. (In an order; the code's is the page's.)
Judge(w) ==
    /\ At(w, "fire") /\ job[w].todo # {}
    /\ LET f == CHOOSE g \in job[w].todo : TRUE
           pause == IF job[w].known[f[1]] # "unread" THEN job[w].known[f[1]] ELSE IF paused[f[1]] THEN "yes" ELSE "no"
           next == IF pause = "yes" THEN "held" ELSE IF f \in Looping THEN "loops" ELSE "start"
       IN  job' = [job EXCEPT ![w].step = next, ![w].todo = @ \ {f}, ![w].at = f, ![w].known[f[1]] = pause]
    /\ UNCHANGED <<sent, kept, row, receipt, runs, waits, paused, held, feed, listed, cursor, armedAt, left>>

\* Mutant of Taken: a listen takes an arrival however often it comes.
TakenAnyway(f, as) == receipt' = [receipt EXCEPT ![f] = as]

\* claim_event: the listen has not taken the arrival.
Taken(f, as) == receipt[f] = "none" /\ receipt' = [receipt EXCEPT ![f] = as]

\* The listen took the arrival before: it runs nothing.
TakenBefore(w) ==
    /\ job[w].step \in {"start", "held", "loops"} /\ receipt[Take(w)] # "none"
    /\ GoOn(w)
    /\ UNCHANGED <<sent, kept, row, receipt, runs, waits, paused, held, feed, listed, cursor, armedAt, left>>

\* start_event_run: the receipt and the run, under its minted id, in one write.
Start(w) ==
    /\ At(w, "start")
    /\ Taken(Take(w), "run")
    /\ LET run == <<job[w].of, Take(w)[1], Take(w)[2]>> IN
         /\ runs' = runs \cup {run}
         /\ job' = [job EXCEPT ![w].step = "fire", ![w].at = <<>>, ![w].started = @ \cup {run}]
    /\ UNCHANGED <<sent, kept, row, waits, paused, held, feed, listed, cursor, armedAt, left>>

\* An arrival a paused listen does not run, or one that would loop.
TakeHeld(w) ==
    /\ job[w].step \in {"held", "loops"}
    /\ Taken(Take(w), "held")
    /\ Goto(w, IF At(w, "held") THEN "count" ELSE "pause")
    /\ UNCHANGED <<sent, kept, row, runs, waits, paused, held, feed, listed, cursor, armedAt, left>>

\* set_listen_paused.
Pause(w) ==
    /\ At(w, "pause")
    /\ paused' = [paused EXCEPT ![Listen(w)] = TRUE]
    /\ job' = [job EXCEPT ![w].step = "count", ![w].known[Listen(w)] = "yes"]
    /\ UNCHANGED <<sent, kept, row, receipt, runs, waits, held, feed, listed, cursor, armedAt, left>>

\* hold_listen_arrival, while it is paused.
Count(w) ==
    /\ At(w, "count")
    /\ held' = IF paused[Listen(w)] THEN [held EXCEPT ![Listen(w)] = @ + 1] ELSE held
    /\ GoOn(w)
    /\ UNCHANGED <<sent, kept, row, receipt, runs, waits, paused, feed, listed, cursor, armedAt, left>>

\* `listens resume`.
Resume(l) ==
    /\ paused[l]
    /\ Spend("resumes")
    /\ paused' = [paused EXCEPT ![l] = FALSE]
    /\ held' = [held EXCEPT ![l] = 0]
    /\ UNCHANGED <<sent, kept, row, receipt, runs, waits, feed, listed, cursor, armedAt, job>>

\* All judged: the runs minted that this attempt did not start.
Judged(w) ==
    /\ At(w, "fire") /\ job[w].todo = {}
    /\ job' = [job EXCEPT ![w].step = "tail", ![w].drops = Minted(job[w].of) \ job[w].started,
                       ![w].started = {}, ![w].known = Idle.known]
    /\ UNCHANGED <<sent, kept, row, receipt, runs, waits, paused, held, feed, listed, cursor, armedAt, left>>

\* Mutant of NeverStarted: whether another attempt started the run is not asked.
NeverStartedHere(run) == TRUE

NeverStarted(run) == run \notin runs

\* Whether there is such a run, then its waits dropped, under no fence.
LookFor(w) ==
    /\ At(w, "tail")
    /\ job[w].drops # {}
    /\ LET run == CHOOSE r \in job[w].drops : TRUE IN
         job' = IF NeverStarted(run)
                THEN [job EXCEPT ![w].step = "drop", ![w].at = run, ![w].drops = @ \ {run}]
                ELSE [job EXCEPT ![w].drops = @ \ {run}]
    /\ UNCHANGED <<sent, kept, row, receipt, runs, waits, paused, held, feed, listed, cursor, armedAt, left>>

DropWaits(w) ==
    /\ At(w, "drop")
    /\ waits' = waits \ {job[w].at}
    /\ job' = [job EXCEPT ![w].step = "tail", ![w].at = <<>>]
    /\ UNCHANGED <<sent, kept, row, receipt, runs, paused, held, feed, listed, cursor, armedAt, left>>

\* The sender whose request w is.
Answer(w, a) == IF job[w].by = "request" THEN [s \in Pushed |-> IF {s} = kept[job[w].of].arrivals THEN a ELSE sent[s]] ELSE sent

\* The row's done, or the request's end.
Finish(w) ==
    /\ At(w, "tail") /\ job[w].drops = {}
    /\ Done(w)
    /\ sent' = Answer(w, "accepted")
    /\ GoIdle(w)
    /\ UNCHANGED <<kept, receipt, runs, paused, held, feed, listed, cursor, armedAt, left>>

-----------------------------------------------------------------------------
(* What goes wrong. *)

InFire(w) == job[w].step \in {"fire", "start", "held", "loops", "pause", "count", "tail", "drop"}

\* Mutant of Failed: a delivery that failed is done.
FailedIsDone(w) == row' = [row EXCEPT ![job[w].of].state = "done"] /\ UNCHANGED waits

\* work_failed: tried again, or buried at its cap with the waits no run owns.
\* The row a request ran is left to a drain.
Failed(w) ==
    LET d == job[w].of
        dead == Owns(w) /\ GivesUp(d)
    IN  /\ row' = IF Owns(w) THEN [row EXCEPT ![d].state = IF dead THEN "dead" ELSE "queued", ![d].by = Nobody] ELSE row
        /\ waits' = IF dead THEN waits \ Unstarted(d) ELSE waits

\* A read, a write or a listen's start fails.
Fail(w) ==
    /\ InFire(w)
    /\ Spend("faults")
    /\ Failed(w)
    /\ IF job[w].by = "row" THEN GoIdle(w) ELSE Goto(w, "forget")
    /\ UNCHANGED <<sent, kept, receipt, runs, paused, held, feed, listed, cursor, armedAt>>

\* forget_delivery_id, and the request answered 500: its sender's retry is kept.
Forget(w) ==
    /\ At(w, "forget")
    /\ kept' = [kept EXCEPT ![job[w].of].id = Nobody]
    /\ sent' = Answer(w, "refused")
    /\ GoIdle(w)
    /\ UNCHANGED <<row, receipt, runs, waits, paused, held, feed, listed, cursor, armedAt, left>>

\* A process dies: its row's lease lapses, its sender hears nothing.
Crash(w) ==
    /\ ~At(w, "idle")
    /\ Spend("faults")
    /\ row' = IF InFire(w) /\ Owns(w) THEN [row EXCEPT ![job[w].of].state = "queued", ![job[w].of].by = Nobody] ELSE row
    /\ sent' = Answer(w, "refused")
    /\ GoIdle(w)
    /\ UNCHANGED <<kept, receipt, runs, waits, paused, held, feed, listed, cursor, armedAt>>

-----------------------------------------------------------------------------
Init ==
    /\ sent = [a \in Pushed |-> "unsent"]
    /\ kept = <<>> /\ row = <<>>
    /\ receipt = [f \in Fires |-> "none"]
    /\ runs = {} /\ waits = {}
    /\ paused = [l \in Listens |-> FALSE]
    /\ held = [l \in Listens |-> 0]
    /\ listed = 0
    /\ \/ feed = "pulled" /\ cursor = 0
       \/ feed = "polled" /\ cursor = NoCursor
    /\ armedAt = cursor
    /\ job = [w \in Workers |-> Idle]
    /\ \E n \in Caps : left = [faults |-> MaxFaults, resumes |-> MaxResumes, cap |-> n]

Works(w) ==
    \/ KeepPage(w) \/ Judge(w) \/ TakenBefore(w) \/ Start(w) \/ TakeHeld(w) \/ Pause(w) \/ Count(w)
    \/ Judged(w) \/ LookFor(w) \/ DropWaits(w) \/ Finish(w) \/ Forget(w)

Next ==
    \/ List
    \/ \E l \in Listens : Resume(l)
    \/ \E d \in Deliveries : Outrun(d)
    \/ \E w \in Workers :
         \/ \E a \in Pushed : Receive(w, a)
         \/ ReadPage(w)
         \/ \E d \in Deliveries : Claim(w, d)
         \/ Works(w)
         \/ Fail(w)
         \/ Crash(w)

Spec == Init /\ [][Next]_vars

\* Every process steps on, and every row queued is claimed again and again.
Fairness ==
    /\ \A w \in Workers : WF_vars(Works(w))
    /\ \A d \in 1 .. MaxKept : SF_vars(\E w \in Workers : d \in Deliveries /\ Claim(w, d))

FairSpec == Spec /\ Fairness

-----------------------------------------------------------------------------
(* What arrivals are promised. *)

Run == (1 .. MaxKept) \X Listens \X Arrivals

Job ==
    [step : {"idle", "page", "fire", "start", "held", "loops", "pause", "count", "tail", "drop", "forget"},
     of : 0 .. MaxKept, by : {"row", "request"}, todo : SUBSET Fires, at : Run \cup Fires \cup {<<>>},
     known : [Listens -> {"unread", "yes", "no"}], started : SUBSET Run, drops : SUBSET Run,
     since : {NoCursor} \cup 0 .. Len(Items), page : 0 .. Len(Items)]

\* The type invariant.
TypeOK ==
    /\ sent \in [Pushed -> {"unsent", "out", "accepted", "refused"}]
    /\ kept \in Seq([arrivals : SUBSET Arrivals, id : Pushed \cup {Nobody}])
    /\ row \in Seq([state : {"queued", "claimed", "done", "dead"}, by : Workers \cup {Nobody}, attempts : 0 .. left.cap])
    /\ Len(row) = Len(kept) /\ Len(kept) <= MaxKept
    /\ receipt \in [Fires -> {"none", "run", "held"}]
    /\ runs \subseteq Run /\ waits \subseteq Run
    /\ paused \in [Listens -> BOOLEAN] /\ held \in [Listens -> Nat]
    /\ feed \in {"pulled", "polled"} /\ listed \in 0 .. Len(Items)
    /\ {cursor, armedAt} \subseteq {NoCursor} \cup 0 .. Len(Items)
    /\ job \in [Workers -> Job]
    /\ left \in [faults : Nat, resumes : Nat, cap : Caps]

\* However often an arrival is delivered, pulled, retried or fired by two
\* processes at once, a listen starts one run for it, and none for one it held
\* ("The same arrival delivered again runs a listen once", runs.rs
\* fire_arrivals).
OneRunEach ==
    \A f \in Fires :
        LET of == {run \in runs : Pair(run) = f} IN
        Cardinality(of) <= 1 /\ (receipt[f] = "run" <=> of # {})

\* What was accepted from a sender, or passed by the cursor since it was kept,
\* is in a delivery; and a delivery's row is done only when each of its listens
\* took each of its arrivals.
NothingLost ==
    /\ \A a \in Pushed : sent[a] = "accepted" => \E d \in Deliveries : a \in kept[d].arrivals
    /\ cursor # NoCursor => \A i \in armedAt + 1 .. cursor : \E d \in Deliveries : Items[i] \in kept[d].arrivals
    /\ \A d \in Deliveries : row[d].state = "done" => \A run \in Minted(d) : receipt[Pair(run)] # "none"

\* A run is started with the waits its delivery opened, and no other attempt at
\* the row, request or burial takes them from it afterwards ("One an earlier
\* attempt at this row started is live, and keeps its state", runs.rs
\* fire_arrivals_to). The code promises it of a row that is not buried: a drain
\* its lease outran may start a run after the burial dropped the run's waits.
StartedKeepsWaits ==
    [][\A run \in runs' :
          \/ run \in waits'
          \/ run \in runs /\ run \notin waits
          \/ run \notin runs /\ row[run[1]].state = "dead"]_vars

\* What `listens resume` says was held is arrivals the listen took and did not
\* run, none counted twice ("a redelivery of it is not counted twice", runs.rs
\* fire_arrivals_to).
HeldOnce ==
    \A l \in Listens : held[l] <= Cardinality({f \in Fires : f[1] = l /\ receipt[f] = "held"})

\* Each arrival kept is taken by each listen it fires, or its delivery's row
\* gave up after its attempts, whatever failed before.
KeptIsTaken ==
    \A d \in 1 .. MaxKept :
        d \in Deliveries ~> d \in Deliveries /\ (row[d].state = "dead" \/ \A run \in Minted(d) : receipt[Pair(run)] # "none")
=============================================================================
