------------------------------- MODULE Joins -------------------------------
(***************************************************************************)
(* The branches of a parked run (movement-engine combinator.rs and         *)
(* resume.rs, lf segment.rs and run_host.rs, the join writes of store.rs): *)
(* `all` and `race` frames that count their parked arms, arms that keep    *)
(* their exports and decrement before their segment commits, the segment   *)
(* told it closed a frame that goes on past it, and the races a segment    *)
(* owes, which a drain settles by withdrawing the arms that lost.          *)
(*                                                                         *)
(* A movement is a tree of bodies; which of a body's statements park, and  *)
(* which arms finish, is a free choice of each segment, and its `way`. A   *)
(* segment whose process died is run again: the same way, or where         *)
(* Diverges allows it another. One action is one store write, or one read  *)
(* and the decision made of it. A fan-out and a collection op whose        *)
(* members all started are `all`s. Rows and leases' times are RunHost's.   *)
(***************************************************************************)
EXTENDS Integers, Sequences, FiniteSetsExt, Functions

CONSTANTS
    Alls, Races,    \* the frames, by address
    Leaves,         \* the awaits and timers, by address
    Bodies, Top,    \* the arms' bodies, and the movement's own
    Arms,           \* each frame's arms
    Statements,     \* what each body may park at, in order
    Line,           \* where each of them comes in the movement's text
    Workers,        \* processes that drain the run
    Nobody,         \* no process, leaf or frame
    Diverges,       \* whose second attempt may go another way, of Attempts
    MaxReparks,     \* bound: leaves that park again where they resumed
    MaxFaults,      \* bound: processes that die, and leases lapsed under one that goes on
    Faults          \* which of those: "crash", "stall"

Frames == Alls \cup Races

\* A segment that resumes a leaf, one that settles a race, and either while a
\* process that lost the run still goes on.
Attempts == {"leaf", "settle", "stalled"}

\* The leaves and the frames.
Points == Leaves \cup Frames

ASSUME TreeAssumption ==
    /\ Alls \cap Races = {} /\ Frames \cap Leaves = {} /\ Top \in Bodies
    /\ IsFiniteSet(Points) /\ IsFiniteSet(Bodies)
    /\ Arms \in [Frames -> SUBSET (Bodies \ {Top})]
    /\ Statements \in [Bodies -> Seq(Points)]
    /\ Line \in [Points -> 1 .. Cardinality(Points)]
    /\ Nobody \notin Workers \cup Points

\* Every arm is of one frame, every leaf and frame is in one body, and a
\* statement comes before those that follow it and those in its arms.
ASSUME TextAssumption ==
    /\ \A a \in Bodies \ {Top} : \E f \in Frames : \A g \in Frames : a \in Arms[g] <=> g = f
    /\ \A x \in Points : \E b \in Bodies : \A c \in Bodies : (\E i \in DOMAIN Statements[c] : Statements[c][i] = x) <=> c = b
    /\ \A b \in Bodies : \A i, j \in DOMAIN Statements[b] : i < j => Line[Statements[b][i]] < Line[Statements[b][j]]
    /\ \A f \in Frames : \A a \in Arms[f] : \A i \in DOMAIN Statements[a] : Line[f] < Line[Statements[a][i]]

ASSUME JoinBoundsAssumption ==
    Diverges \subseteq Attempts /\ MaxReparks \in Nat /\ MaxFaults \in Nat /\ Faults \subseteq {"crash", "stall"}

VARIABLES
    status,     \* the run's
    leaf,       \* the leaf table
    join,       \* the join_frame rows
    export,     \* the join_branch_export rows, and whether each is decremented
    owed,       \* the races with a settle_race row
    lease,      \* who holds the run
    job,        \* what each process is doing
    plan,       \* the way each statement's continuation took, while it may be taken again
    past,       \* history: how often the going on past each frame was kept
    open,       \* history: frames whose join was kept and neither passed nor withdrawn
    left        \* what is left of the bounds

vars == <<status, leaf, join, export, owed, lease, job, plan, past, open, left>>

-----------------------------------------------------------------------------
(* The tree. *)

HomeOf(x) == CHOOSE b \in Bodies : \E i \in DOMAIN Statements[b] : Statements[b][i] = x
PlaceOf(x) == CHOOSE i \in DOMAIN Statements[HomeOf(x)] : Statements[HomeOf(x)][i] = x
FrameOf(b) == CHOOSE f \in Frames : b \in Arms[f]

\* The bodies a body is in, itself one.
Above[b \in Bodies] == IF b = Top THEN {Top} ELSE {b} \cup Above[HomeOf(FrameOf(b))]

\* is_ancestor_or_self.
In(x, bodies) == Above[HomeOf(x)] \cap bodies # {}

-----------------------------------------------------------------------------
(* The ways a body runs. A way parks leaves, holds joins, keeps the exports *)
(* of arms that finished beside parked ones, and withdraws arms that lost a *)
(* race in the segment. One that parks nothing reached the body's end.      *)

Reached == [parks |-> {}, joins |-> {}, keeps |-> {}, drops |-> {}]
ParksAt(l) == [Reached EXCEPT !.parks = {l}]

All(ways) ==
    [parks |-> UNION {v.parks : v \in ways}, joins |-> UNION {v.joins : v \in ways},
     keeps |-> UNION {v.keeps : v \in ways}, drops |-> UNION {v.drops : v \in ways}]

Finished(arms) == {a \in DOMAIN arms : arms[a].parks = {}}

\* Mutant of AllParks: the arms already finished keep nothing at the frame.
AllParksAlone(f, arms) ==
    [All(Range(arms)) EXCEPT !.joins = @ \cup {<<f, Cardinality(DOMAIN arms \ Finished(arms))>>}]

\* An `all` with an arm parked: its finished arms' exports kept, the others counted.
AllParks(f, arms) ==
    [All(Range(arms)) EXCEPT !.joins = @ \cup {<<f, Cardinality(DOMAIN arms \ Finished(arms))>>},
                             !.keeps = @ \cup Finished(arms)]

RaceParks(f, arms) == [All(Range(arms)) EXCEPT !.joins = @ \cup {<<f, 1>>}]

\* A race an arm settled as it was reached: what the others hold and keep
\* parked is withdrawn, and the body goes on as `next`.
RaceSettles(arms, next) ==
    LET ran == All(Range(arms)) IN
    [next EXCEPT !.keeps = @ \cup ran.keeps, !.drops = @ \cup ran.drops \cup (DOMAIN arms \ Finished(arms))]

\* How many statements of a body are done.
Positions == UNION {0 .. Len(Statements[b]) : b \in Bodies}

\* The ways from statement x on: those on past it, where it parks nothing, and
\* those that park in it, `of` being its arms' ways.
WaysAt(x, on, of) ==
    on \cup
    IF x \in Leaves THEN {ParksAt(x)}
    ELSE LET runs == {r \in [Arms[x] -> UNION Range(of)] : (\A a \in Arms[x] : r[a] \in of[a]) /\ Finished(r) # Arms[x]}
         IN  IF x \in Alls THEN {AllParks(x, r) : r \in runs}
             ELSE {RaceParks(x, r) : r \in {s \in runs : Finished(s) = {}}}
                  \cup {RaceSettles(r, next) : r \in {s \in runs : Finished(s) # {}}, next \in on}

\* The ways body b runs from after its statement i to its end.
Ways[b \in Bodies] == [i \in Positions |->
    IF i >= Len(Statements[b]) THEN {Reached}
    ELSE LET x == Statements[b][i + 1] IN WaysAt(x, Ways[b][i + 1], [a \in Arms[x] |-> Ways[a][0]])]

-----------------------------------------------------------------------------
(* What a process does. *)

NoJoin == [pending |-> -1, closedBy |-> Nobody]
NoExport == "none"

Idle == [step |-> "idle", todo |-> {}, settled |-> {}, of |-> Nobody, at |-> Nobody, way |-> Reached,
         losers |-> {}, passed |-> {}, owes |-> {}, settle |-> "parked"]

At(w, step) == job[w].step = step
Goto(w, step) == job' = [job EXCEPT ![w].step = step]
GoIdle(w) == job' = [job EXCEPT ![w] = Idle]
Others(w) == Workers \ {w}

Spend(bound) == left[bound] > 0 /\ left' = [left EXCEPT ![bound] = @ - 1]

Holds(w) == lease = w

Parked == {l \in Leaves : leaf[l] = "parked"}
Recorded == {f \in Frames : join[f] # NoJoin}
Pending == {f \in Frames : join[f].pending > 0}

\* The body the segment is in.
Body(w) == HomeOf(job[w].at)

\* How a segment may go on after x: as it did, when it did before.
WaysOn(x) == IF plan[x] # {} THEN plan[x] ELSE Ways[HomeOf(x)][PlaceOf(x)]

\* A leaf resumed may park again where it was.
WaysFromLeaf(l) == WaysOn(l) \cup IF plan[l] = {} /\ left["reparks"] > 0 THEN {ParksAt(l)} ELSE {}

Planned(x, way) == plan' = [plan EXCEPT ![x] = {way}]

\* claim_lease: what a dead holder was resuming is parked again.
Returned == [l \in Leaves |-> IF leaf[l] = "resuming" THEN "parked" ELSE leaf[l]]

\* Processes are alike: of those that are idle, one.
FirstIdle == CHOOSE w \in Workers : At(w, "idle") \/ \A u \in Workers : ~At(u, "idle")

\* A drain takes the run: of a row's leaf, of every leaf, or of none, for the
\* races owed.
Drain(w, todo) ==
    /\ At(w, "idle") /\ w = FirstIdle /\ lease = Nobody /\ status = "parked"
    /\ todo # {} \/ owed # {}
    /\ lease' = w
    /\ leaf' = Returned
    /\ job' = [job EXCEPT ![w] = [Idle EXCEPT !.step = "next", !.todo = todo]]
    /\ UNCHANGED <<status, join, export, owed, plan, past, open, left>>

Drainable == {l \in Leaves : leaf[l] # "none"}

\* drain_run: the next leaf, claimed. (In any order; the code's is by address.)
ClaimLeaf(w) ==
    /\ At(w, "next") /\ Holds(w)
    /\ \E l \in job[w].todo :
         IF l \in Parked
         THEN \E way \in WaysFromLeaf(l) :
                /\ leaf' = [leaf EXCEPT ![l] = "resuming"]
                /\ Planned(l, way)
                /\ IF l \in way.parks /\ plan[l] = {} THEN Spend("reparks") ELSE UNCHANGED left
                /\ job' = [job EXCEPT ![w] = [Idle EXCEPT !.step = "run", !.todo = job[w].todo \ {l}, !.of = l, !.at = l, !.way = way]]
         ELSE /\ job' = [job EXCEPT ![w].todo = @ \ {l}]
              /\ UNCHANGED <<leaf, plan, left>>
    /\ UNCHANGED <<status, join, export, owed, lease, past, open>>

\* drain_run, its leaves stepped: the races owed, each once, from the state
\* the row holds. settle_race_at withdraws every arm, then goes on.
SettleRace(w) ==
    /\ At(w, "next") /\ Holds(w) /\ job[w].todo = {}
    /\ \E f \in owed \ job[w].settled : \E way \in WaysOn(f) :
         /\ Planned(f, way)
         /\ job' = [job EXCEPT ![w] = [Idle EXCEPT !.step = "run", !.settled = job[w].settled \cup {f}, !.of = f, !.at = f,
                                                   !.way = way, !.losers = Arms[f], !.passed = {f}]]
    /\ UNCHANGED <<status, leaf, join, export, owed, lease, past, open, left>>

\* The arms to withdraw now: those of the race a segment settles before it goes
\* on, those that lost in it once they ran.
Losers(w) ==
    IF job[w].losers # {} THEN job[w].losers ELSE IF job[w].way.keeps = {} THEN job[w].way.drops ELSE {}

\* Mutant of Withdraws: only what an arm parked itself is withdrawn.
WithdrawsOwn(losers, l) == l \in Parked /\ HomeOf(l) \in losers

\* Every leaf parked under the arms.
Withdraws(losers, l) == l \in Parked /\ In(l, losers)

\* cancel_subtrees' first write, under no fence.
WithdrawLeaves(w) ==
    /\ At(w, "run") /\ Losers(w) # {}
    /\ leaf' = [l \in Leaves |-> IF Withdraws(Losers(w), l) THEN "none" ELSE leaf[l]]
    /\ Goto(w, "frames")
    /\ UNCHANGED <<status, join, export, owed, lease, plan, past, open, left>>

\* The frames in the arms withdrawn, but the one the segment itself settled.
Dead(w) == {f \in Recorded \ {job[w].of} : In(f, Losers(w))}

\* Its second: the frames, their exports and the races owed at them.
WithdrawFrames(w) ==
    /\ At(w, "frames")
    /\ LET dead == Dead(w) IN
         /\ join' = [f \in Frames |-> IF f \in dead THEN NoJoin ELSE join[f]]
         /\ export' = [b \in Bodies |-> IF b \in UNION {Arms[f] : f \in dead} THEN NoExport ELSE export[b]]
         /\ owed' = owed \ dead
         /\ open' = open \ dead
    /\ job' = [job EXCEPT ![w].step = "run", ![w].losers = {}, ![w].way.drops = @ \ Losers(w)]
    /\ UNCHANGED <<status, leaf, lease, plan, past, left>>

-----------------------------------------------------------------------------
(* A segment runs. *)

\* persist_branch_export: a rewrite leaves the decrement claimed.
Kept(b) == [export EXCEPT ![b] = IF @ = NoExport THEN "kept" ELSE @]

\* An arm's export, kept as its combinator parks.
Keep(w) ==
    /\ At(w, "run") /\ job[w].losers = {}
    /\ \E b \in job[w].way.keeps :
         /\ export' = Kept(b)
         /\ job' = [job EXCEPT ![w].way.keeps = @ \ {b}]
    /\ UNCHANGED <<status, leaf, join, owed, lease, plan, past, open, left>>

\* The arms withdrawn first, the body parked or came to its end.
Ran(w) == At(w, "run") /\ Losers(w) = {} /\ job[w].way.keeps = {}
Parks(w) == job[w].way.parks # {} \/ Body(w) = Top

\* finish_container, finish_resumed_member: the arm's own export, before its decrement.
Export(w) ==
    /\ Ran(w) /\ ~Parks(w)
    /\ export' = Kept(Body(w))
    /\ Goto(w, "decrement")
    /\ UNCHANGED <<status, leaf, join, owed, lease, plan, past, open, left>>

\* Mutant of Claims: an arm decremented again counts again.
ClaimsAgain(b) == export[b] # NoExport /\ join[FrameOf(b)].pending > 0

\* Mutant of Claims: whether the frame still waits is not looked at.
ClaimsAnyway(b) == export[b] = "kept"

\* The decrement is claimed once, and counts while the frame waits.
Claims(b) == export[b] = "kept" /\ join[FrameOf(b)].pending > 0

\* True for the one branch that closes the frame, also on a retry of it.
Closes(b, of) ==
    IF Claims(b) THEN join[FrameOf(b)].pending = 1
    ELSE join[FrameOf(b)] # NoJoin /\ join[FrameOf(b)].closedBy = of

\* A segment that resumed a leaf leaves the race its arm won to the run.
LeavesToRun(w, f) == f \in Races /\ job[w].of \in Leaves

\* The body goes on past a frame it closed: an `all`, its exports merged; a
\* race, which only a segment that settled one inside it closes, its arms
\* withdrawn first.
GoOnPast(w, f) ==
    \E way \in WaysOn(f) :
        /\ Planned(f, way)
        /\ job' = [job EXCEPT ![w].step = "run", ![w].at = f, ![w].way = way, ![w].passed = @ \cup {f},
                              ![w].losers = IF f \in Races THEN Arms[f] ELSE {}]

\* decrement_join, under no fence, and what finish_container makes of it.
Decrement(w) ==
    /\ At(w, "decrement")
    /\ LET b == Body(w)
           f == FrameOf(b)
           of == job[w].of
       IN  /\ export' = [export EXCEPT ![b] = IF @ = "kept" THEN "decremented" ELSE @]
           /\ join' = IF Claims(b)
                      THEN [join EXCEPT ![f].pending = @ - 1, ![f].closedBy = IF join[f].pending = 1 THEN of ELSE @]
                      ELSE join
           /\ IF Closes(b, of) /\ ~LeavesToRun(w, f)
              THEN GoOnPast(w, f)
              ELSE /\ job' = [job EXCEPT ![w].step = "judge", ![w].owes = IF LeavesToRun(w, f) THEN {f} ELSE {}]
                   /\ UNCHANGED plan
    /\ UNCHANGED <<status, leaf, owed, lease, past, open, left>>

-----------------------------------------------------------------------------
(* The segment ends. *)

\* run_complete_without: no join waits, no other leaf is parked, no other
\* race is owed.
NothingLeft(of) == Pending = {} /\ Parked \subseteq {of} /\ owed \subseteq {of}

HoldsProgress(w) == job[w].way.parks # {} \/ job[w].way.joins # {}

\* Mutant of Diverged: no replay is looked at.
DivergedNever(w) == FALSE

\* replay_diverged: a segment that resumed a leaf parks inside an arm whose
\* export an earlier attempt kept.
Diverged(w) ==
    /\ job[w].of \in Leaves
    /\ \E f \in Recorded \cup {j[1] : j \in job[w].way.joins} : \E b \in Arms[f] :
         export[b] # NoExport /\ \E l \in job[w].way.parks : In(l, {b})

\* end_segment: where the run is left, and whether the commit may be written.
Judge(w) ==
    /\ At(w, "judge") \/ (Ran(w) /\ Parks(w))
    /\ LET ends == ~HoldsProgress(w) /\ job[w].owes = {} /\ NothingLeft(job[w].of) IN
         job' = [job EXCEPT ![w].step = IF Diverged(w) THEN "fail" ELSE "commit",
                            ![w].settle = IF ends THEN "completed" ELSE "parked"]
    /\ UNCHANGED <<status, leaf, join, export, owed, lease, plan, past, open, left>>

\* Mutant of Owed: the race its arm won is owed by nobody.
OwedNone(w) == owed \ {job[w].of}

\* The races owed once the segment's end is kept.
Owed(w) == (owed \ {job[w].of}) \cup job[w].owes

\* The joins: one counted again keeps who closed it.
Joined(w) ==
    [f \in Frames |->
        IF \E j \in job[w].way.joins : j[1] = f
        THEN [join[f] EXCEPT !.pending = (CHOOSE j \in job[w].way.joins : j[1] = f)[2]]
        ELSE join[f]]

\* The way a kept segment took is asked again only by a process it was taken from.
Taken(w) ==
    [x \in Points |->
        IF x \in job[w].passed \cup {job[w].of} /\ (x \in job[w].way.parks \/ \A u \in Others(w) : At(u, "idle"))
        THEN {} ELSE plan[x]]

\* Mutant of Fenced: the commit is kept whoever holds the run.
FencedByNobody(w) == TRUE

Fenced(w) == Holds(w)

\* commit_segment.
Commit(w) ==
    /\ At(w, "commit") /\ Fenced(w)
    /\ LET of == job[w].of
           parks == job[w].way.parks
       IN  /\ leaf' = [l \in Leaves |->
                  IF l \in parks THEN "parked" ELSE IF l = of /\ leaf[l] = "resuming" THEN "none" ELSE leaf[l]]
           /\ plan' = Taken(w)
    /\ join' = Joined(w)
    /\ owed' = Owed(w)
    /\ status' = job[w].settle
    /\ past' = [f \in Frames |-> past[f] + IF f \in job[w].passed THEN 1 ELSE 0]
    /\ open' = (open \ job[w].passed) \cup {j[1] : j \in job[w].way.joins}
    /\ job' = [job EXCEPT ![w] = [Idle EXCEPT !.step = "next", !.todo = job[w].todo, !.settled = job[w].settled]]
    /\ UNCHANGED <<export, lease, left>>

\* The fence finds the run taken: nothing is written, and the drain ends.
CommitRefused(w) ==
    /\ At(w, "commit") /\ ~Fenced(w)
    /\ GoIdle(w)
    /\ UNCHANGED <<status, leaf, join, export, owed, lease, plan, past, open, left>>

\* drop_run_state.
Dropped ==
    /\ leaf' = [l \in Leaves |-> "none"]
    /\ join' = [f \in Frames |-> NoJoin]
    /\ export' = [b \in Bodies |-> NoExport]
    /\ owed' = {}

\* The movement failed in the segment, which is committed first, under the
\* lease; or its replay diverged: fail_run (its two writes are RunHost's), and
\* the drain ends.
FailRun(w) ==
    /\ \/ At(w, "run") /\ Holds(w)
       \/ At(w, "fail")
    /\ status' = IF status = "parked" THEN "failed" ELSE status
    /\ IF Holds(w) THEN Dropped ELSE UNCHANGED <<leaf, join, export, owed>>
    /\ lease' = IF Holds(w) THEN Nobody ELSE lease
    /\ GoIdle(w)
    /\ UNCHANGED <<plan, past, open, left>>

\* drain_run's end, and the lease released: a quiescent run's state is dropped.
EndDrain(w) ==
    /\ At(w, "next") /\ Holds(w) /\ job[w].todo = {} /\ owed \subseteq job[w].settled
    /\ IF Pending = {} /\ Parked = {} /\ owed = {} THEN Dropped ELSE UNCHANGED <<leaf, join, export, owed>>
    /\ lease' = Nobody
    /\ GoIdle(w)
    /\ UNCHANGED <<status, plan, past, open, left>>

\* is_lost, between two steps.
LoseRun(w) ==
    /\ At(w, "next") /\ ~Holds(w)
    /\ GoIdle(w)
    /\ UNCHANGED <<status, leaf, join, export, owed, lease, plan, past, open, left>>

-----------------------------------------------------------------------------
(* What goes wrong. *)

Attempt(w) == IF job[w].of \in Races THEN "settle" ELSE "leaf"

\* A second attempt may go another way.
Reconsiders(w) ==
    Attempt(w) \in Diverges /\ ("stalled" \in Diverges \/ \A u \in Others(w) : At(u, "idle"))

\* A process dies, and its lease, if it is its still, lapses.
Crash(w) ==
    /\ ~At(w, "idle")
    /\ "crash" \in Faults /\ Spend("faults")
    /\ lease' = IF Holds(w) THEN Nobody ELSE lease
    /\ plan' = IF Reconsiders(w)
               THEN [x \in Points |-> IF x \in job[w].passed \cup {job[w].of} THEN {} ELSE plan[x]]
               ELSE plan
    /\ GoIdle(w)
    /\ UNCHANGED <<status, leaf, join, export, owed, past, open>>

\* A lease lapses under a process that goes on.
Stall(w) ==
    /\ ~At(w, "idle") /\ Holds(w)
    /\ "stall" \in Faults /\ Spend("faults")
    /\ lease' = Nobody
    /\ UNCHANGED <<status, leaf, join, export, owed, job, plan, past, open>>

-----------------------------------------------------------------------------
\* A run whose first segment parked.
Init ==
    /\ status = "parked"
    /\ \E way \in Ways[Top][0] :
         /\ way.parks # {}
         /\ leaf = [l \in Leaves |-> IF l \in way.parks THEN "parked" ELSE "none"]
         /\ join = [f \in Frames |->
                IF \E j \in way.joins : j[1] = f
                THEN [NoJoin EXCEPT !.pending = (CHOOSE j \in way.joins : j[1] = f)[2]] ELSE NoJoin]
         /\ export = [b \in Bodies |-> IF b \in way.keeps THEN "kept" ELSE NoExport]
         /\ open = {j[1] : j \in way.joins}
    /\ owed = {}
    /\ lease = Nobody
    /\ job = [w \in Workers |-> Idle]
    /\ plan = [x \in Points |-> {}]
    /\ past = [f \in Frames |-> 0]
    /\ left = [reparks |-> MaxReparks, faults |-> MaxFaults]

Works(w) ==
    \/ ClaimLeaf(w) \/ SettleRace(w) \/ WithdrawLeaves(w) \/ WithdrawFrames(w)
    \/ Keep(w) \/ Export(w) \/ Decrement(w)
    \/ Judge(w) \/ Commit(w) \/ CommitRefused(w) \/ FailRun(w) \/ EndDrain(w) \/ LoseRun(w)

Next ==
    \E w \in Workers :
        \/ \E todo \in {{l} : l \in Drainable} \cup {{}, Drainable} : Drain(w, todo)
        \/ Works(w)
        \/ Crash(w)
        \/ Stall(w)

Spec == Init /\ [][Next]_vars

\* Every process steps on; every leaf's row, and every race's, is drained
\* again until its drain keeps the run.
Fairness ==
    /\ \A w \in Workers : WF_vars(Works(w))
    /\ \A l \in Leaves : SF_vars(\E w \in Workers : l \in Drainable /\ Drain(w, {l}))
    /\ SF_vars(\E w \in Workers : Drain(w, {}))

FairSpec == Spec /\ Fairness

-----------------------------------------------------------------------------
(* What a run's branches are promised. *)

Way == [parks : SUBSET Leaves, joins : SUBSET (Frames \X Nat), keeps : SUBSET Bodies, drops : SUBSET Bodies]

Job ==
    [step : {"idle", "next", "frames", "run", "decrement", "judge", "commit", "fail"},
     todo : SUBSET Leaves, settled : SUBSET Races, of : Leaves \cup Races \cup {Nobody},
     at : Points \cup {Nobody}, way : Way, losers : SUBSET Bodies,
     passed : SUBSET Frames, owes : SUBSET Races, settle : {"parked", "completed"}]

\* The type invariant.
TypeOK ==
    /\ status \in {"parked", "completed", "failed"}
    /\ leaf \in [Leaves -> {"none", "parked", "resuming"}]
    /\ join \in [Frames -> [pending : Nat \cup {-1}, closedBy : Leaves \cup Races \cup {Nobody}]]
    /\ export \in [Bodies -> {NoExport, "kept", "decremented"}]
    /\ owed \subseteq Races
    /\ lease \in Workers \cup {Nobody}
    /\ job \in [Workers -> Job]
    /\ plan \in [Points -> SUBSET Way] /\ \A x \in Points : Cardinality(plan[x]) <= 1
    /\ past \in [Frames -> Nat]
    /\ open \subseteq Frames
    /\ left \in [{"reparks", "faults"} -> Nat]

AllIdle == \A w \in Workers : At(w, "idle")

\* What goes on past a frame is kept once, however often its closer's
\* segment, or the race's, is run again ("True for the one branch that
\* closes the frame, also on a retry of it", store.rs decrement_join). Where
\* no race is in an arm of a race: there, a leaf that owes the outer one and
\* a settling that goes on past it do not look at each other.
PassedOnce == \A f \in Frames : past[f] <= 1

\* f is in an arm of a race the run owes, which will be withdrawn.
Doomed(f) == \E g \in owed : In(f, Arms[g])

\* "By the time any branch learns it closed the frame, every sibling's are
\* in" (resume.rs finish_container): the exports its receipt is built from.
\* In an arm of a race already won, a process that lost the run may withdraw
\* them from under the closer: cancel_subtrees is under no fence.
ClosesWithAllIn ==
    \A w \in Workers : \A f \in job[w].passed \cap Alls :
        At(w, "run") /\ Holds(w) /\ ~Doomed(f) => \A b \in Arms[f] : export[b] # NoExport

\* Once the run has gone on past a frame, nothing in it goes on: a race's
\* arms are withdrawn (settle_race_at), and a leaf of an `all` still parked
\* is of an arm that finished, by a segment that died before its commit.
NoneLeftBehind ==
    \A f \in Frames : past[f] > 0 =>
        \A l \in Drainable : \A b \in Arms[f] :
            In(l, {b}) => f \in Alls /\ export[b] = "decremented"

\* The arms of an `all` that still have something to go on from.
Waiting(f) ==
    {b \in Arms[f] : export[b] # "decremented" /\ \E x \in Drainable \cup owed : In(x, {b})}

\* While nobody steps the run, an `all` in no arm of a race owed waits for
\* exactly its arms that still have a leaf or an owed race: one too many and
\* it never closes, one too few and it closes over a parked arm (record_join,
\* decrement_join).
PendingIsWaiting ==
    status = "parked" /\ AllIdle =>
        \A f \in Alls \cap open : ~Doomed(f) => join[f].pending = Cardinality(Waiting(f))

\* A completed run went on past every frame it parked at, or withdrew it: a
\* replay that parks where its join cannot close it fails the run instead
\* (segment.rs replay_diverged, runs.rs end_segment).
CompletedPassedAll == status = "completed" => open = {}

\* Every run settles, its processes dying or not, once each row is drained:
\* no frame waits for ever, and a race a dead drain left owed "is settled by
\* the next" (run_host.rs drain_run).
RunSettles == <>(status # "parked")
=============================================================================
