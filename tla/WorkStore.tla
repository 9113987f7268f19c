------------------------------ MODULE WorkStore ------------------------------
(***************************************************************************)
(* The durable work queue of the run host: the `work` table of store.rs    *)
(* (SQLite) and of pg_store.rs (Postgres), the writes that arm a row, and  *)
(* the drain that claims due rows under a lease and completes, releases or *)
(* buries each (runs.rs drain_work_in, run_host.rs work_failed and         *)
(* give_up_work).                                                          *)
(*                                                                         *)
(* One action is one store write: SQLite runs each in one transaction,     *)
(* Postgres in one statement, so two workers interleave only between them. *)
(* What a row's work does is left out; how it ended is a free choice.      *)
(***************************************************************************)
EXTENDS Integers, Sequences, FiniteSets

CONSTANTS
    Keys,           \* the rows' keys, one row per key
    Workers,        \* the sessions draining the queue
    GivesUp,        \* keys of a kind that gives up (gives_up)
    Landed,         \* keys queued by a caller that runs them itself
    Armed,          \* keys queued only where absent (polls, resolves)
    RowsPerDrain,   \* rows one claim takes: 100, or a drain's 1
    WorkLease,      \* WORK_LEASE_MS
    BusyRetry,      \* BUSY_RETRY_MS
    Backoff,        \* failed_retry_ms of each attempt, the last its cap
    MaxAttempts,    \* MAX_WORK_ATTEMPTS
    CompleteResets, \* Postgres: completing a re-armed row resets its attempts
    NoRow,          \* no row has the key
    Horizon,        \* bound: the clock stops there
    MaxAsks,        \* bound: enqueues of one key
    MaxClaims       \* bound: rows claimed, over all

ASSUME KeysAssumption ==
    GivesUp \subseteq Keys /\ Landed \subseteq Keys /\ Armed \subseteq Keys /\ Landed \cap Armed = {}
ASSUME TimesAssumption ==
    /\ WorkLease \in Nat \ {0} /\ BusyRetry \in Nat
    /\ Backoff \in Seq(Nat) /\ Backoff # <<>>
ASSUME LimitsAssumption ==
    RowsPerDrain \in Nat \ {0} /\ MaxAttempts \in Nat \ {0} /\ CompleteResets \in BOOLEAN
ASSUME BoundsAssumption == Horizon \in Nat /\ MaxAsks \in Nat /\ MaxClaims \in Nat

VARIABLES
    now,        \* the store's clock
    work,       \* the work table
    rowIds,     \* the ids given out (autoincrement)
    tokens,     \* the lease tokens given out (each a fresh uuid)
    hand,       \* what each worker claimed and has not ended, in its order
    asks,       \* history: a key's asks made, taken by a claim, answered
    wanted,     \* history: the due time its last ask asked for
    misses      \* history: its claims since it last succeeded that failed or never ended

vars == <<now, work, rowIds, tokens, hand, asks, wanted, misses>>

NoLease == 0    \* lease_token and lease_until are null

Row ==
    [id : Nat, due : Nat, token : Nat, until : Nat, version : Nat, attempts : Nat, dead : BOOLEAN]

Claim == [key : Keys, id : Nat, token : Nat, version : Nat, attempts : Nat, until : Nat]

Asks == [made : Nat, taken : Nat, done : Nat]

ASSUME NoRowAssumption == NoRow \notin Row

IsRow(k) == work[k] # NoRow

-----------------------------------------------------------------------------
(* The store's writes. *)

\* The row a first enqueue inserts.
NewRow(due) ==
    [id |-> rowIds + 1, due |-> due, token |-> NoLease, until |-> 0, version |-> 0, attempts |-> 0, dead |-> FALSE]

\* lease_until > now, as an upsert judges it.
Held(row) == row.token # NoLease /\ row.until > now

\* lease_until is null or lease_until < now, as a claim judges it.
Free(row) == row.token = NoLease \/ row.until < now

Earlier(a, b) == IF a < b THEN a ELSE b

\* The upsert of a row that is there: a held row's new due time wins, and a
\* dead row lives again.
Rearmed(row, due) ==
    [row EXCEPT !.due = IF row.dead \/ Held(row) THEN due ELSE Earlier(row.due, due),
                !.attempts = IF row.dead THEN 0 ELSE @,
                !.dead = FALSE,
                !.version = @ + 1]

Unleased(row) == [row EXCEPT !.token = NoLease, !.until = 0]

\* Mutant of Owns: a finish finds its row by id alone.
OwnsById(c) == IsRow(c.key) /\ work[c.key].id = c.id

\* A finish finds its row by id and lease token: one taken over or gone is
\* left alone.
Owns(c) == IsRow(c.key) /\ work[c.key].id = c.id /\ work[c.key].token = c.token

\* Nothing re-armed the row since the claim.
Unmoved(c) == work[c.key].version = c.version

\* Mutants of Completed: the row is deleted whatever re-armed it; a re-armed
\* row keeps its attempts.
CompletedAnyway(c) == NoRow
CompletedKeepingAttempts(c) == IF Unmoved(c) THEN NoRow ELSE Unleased(work[c.key])

Completed(c) ==
    IF Unmoved(c) THEN NoRow
    ELSE [Unleased(work[c.key]) EXCEPT !.attempts = IF CompleteResets THEN 0 ELSE @]

\* Mutant of AttemptsLeft: a busy release gives back two attempts.
AttemptsLeftTwice(why, attempts) ==
    CASE why = "failed" -> attempts
      [] why = "busy" -> attempts - 2
      [] why = "rescheduled" -> 0

\* What a release makes of the row's attempts, by why it is released.
AttemptsLeft(why, attempts) ==
    CASE why = "failed" -> attempts
      [] why = "busy" -> IF attempts > 0 THEN attempts - 1 ELSE 0
      [] why = "rescheduled" -> 0

\* Mutant of Released: the release's due time stands over a re-arm's.
ReleasedAnyway(c, why, due) ==
    [Unleased(work[c.key]) EXCEPT !.attempts = AttemptsLeft(why, @), !.due = due]

Released(c, why, due) ==
    [Unleased(work[c.key]) EXCEPT !.attempts = AttemptsLeft(why, @),
                                  !.due = IF Unmoved(c) THEN due ELSE @]

Buried(c) == [Unleased(work[c.key]) EXCEPT !.dead = Unmoved(c)]

-----------------------------------------------------------------------------
(* Those who queue work. *)

Asked(k, due) ==
    /\ asks[k].made < MaxAsks
    /\ asks' = [asks EXCEPT ![k].made = @ + 1]
    /\ wanted' = [wanted EXCEPT ![k] = due]
    /\ misses' = [misses EXCEPT ![k] = IF IsRow(k) /\ ~work[k].dead THEN @ ELSE 0]

Upsert(k, due) ==
    /\ work' = [work EXCEPT ![k] = IF IsRow(k) THEN Rearmed(@, due) ELSE NewRow(due)]
    /\ rowIds' = IF IsRow(k) THEN rowIds ELSE rowIds + 1
    /\ UNCHANGED <<now, tokens, hand>>

\* A timer armed, a wait answered, a race left to its run: by anyone, the
\* row's own worker included, whatever became of the row.
Enqueue(k, due) ==
    /\ k \notin Landed \cup Armed
    /\ Asked(k, due)
    /\ Upsert(k, due)

\* A door or `run poll` queues what landed a run lease out and runs it itself.
Land(k) ==
    /\ k \in Landed /\ asks[k].made = 0
    /\ Asked(k, now + WorkLease)
    /\ Upsert(k, now + WorkLease)

\* A poll, a resolve or a refresh is armed: one there in any state is left.
EnqueueIfAbsent(k, due) ==
    /\ k \in Armed /\ ~IsRow(k)
    /\ Asked(k, due)
    /\ Upsert(k, due)

\* Mutant of CompleteKey: a live claim does not stop it.
CompleteKeyAnyway(k) ==
    /\ k \in Landed /\ IsRow(k)
    /\ ~work[k].dead
    /\ work' = [work EXCEPT ![k] = NoRow]
    /\ asks' = [asks EXCEPT ![k].done = asks[k].made]
    /\ UNCHANGED <<now, rowIds, tokens, hand, wanted, misses>>

\* The caller that ran what it landed completes it, unless a live claim holds it.
CompleteKey(k) ==
    /\ k \in Landed /\ IsRow(k)
    /\ ~work[k].dead /\ Free(work[k])
    /\ work' = [work EXCEPT ![k] = NoRow]
    /\ asks' = [asks EXCEPT ![k].done = asks[k].made]
    /\ UNCHANGED <<now, rowIds, tokens, hand, wanted, misses>>

-----------------------------------------------------------------------------
(* A worker's drain. *)

\* Mutant of Due: a row is claimed whoever holds it.
DueWhileHeld == {k \in Keys : IsRow(k) /\ work[k].due <= now /\ ~work[k].dead}

\* Mutant of Due: a dead row is claimed again.
DueOrDead == {k \in Keys : IsRow(k) /\ work[k].due <= now /\ Free(work[k])}

Due == {k \in Keys : IsRow(k) /\ work[k].due <= now /\ Free(work[k]) /\ ~work[k].dead}

\* order by due_at, id
Before(j, k) ==
    \/ work[j].due < work[k].due
    \/ work[j].due = work[k].due /\ work[j].id < work[k].id

Picked(batch, k) == \E i \in DOMAIN batch : batch[i] = k

\* The first RowsPerDrain due rows, in order.
IsDueBatch(batch) ==
    /\ \A i, j \in DOMAIN batch : i < j => Before(batch[i], batch[j])
    /\ \A k \in Due : \/ Picked(batch, k)
                      \/ Len(batch) = RowsPerDrain /\ \A i \in DOMAIN batch : Before(batch[i], k)

Taken(row, token) ==
    [row EXCEPT !.token = token, !.until = now + WorkLease, !.version = @ + 1, !.attempts = @ + 1]

\* The claim of the batch's i-th row, under a token of its own.
ClaimOf(batch, i) ==
    [key |-> batch[i], id |-> work[batch[i]].id, token |-> tokens + i,
     version |-> work[batch[i]].version + 1, attempts |-> work[batch[i]].attempts + 1,
     until |-> now + WorkLease]

PlaceOf(batch, k) == CHOOSE i \in DOMAIN batch : batch[i] = k

ClaimBatch(w, n, batch) ==
    /\ hand[w] = <<>>
    /\ IsDueBatch(batch)
    /\ tokens + n <= MaxClaims
    /\ tokens' = tokens + n
    /\ work' = [k \in Keys |->
           IF Picked(batch, k) THEN Taken(work[k], tokens + PlaceOf(batch, k)) ELSE work[k]]
    /\ hand' = [hand EXCEPT ![w] = [i \in 1..n |-> ClaimOf(batch, i)]]
    /\ asks' = [k \in Keys |->
           IF Picked(batch, k) THEN [asks[k] EXCEPT !.taken = asks[k].made] ELSE asks[k]]
    /\ misses' = [k \in Keys |->
           IF Picked(batch, k) /\ work[k].token # NoLease THEN misses[k] + 1 ELSE misses[k]]
    /\ UNCHANGED <<now, rowIds, wanted>>

ClaimDue(w) ==
    \E n \in 1..RowsPerDrain : \E batch \in [1..n -> Due] : ClaimBatch(w, n, batch)

Working(w) == hand[w] # <<>>

\* Mutant of PastCap: one attempt too late.
PastCapLate(c) == c.key \in GivesUp /\ c.attempts > MaxAttempts + 1

PastCap(c) == c.key \in GivesUp /\ c.attempts > MaxAttempts

GivesUpNow(c) == c.key \in GivesUp /\ c.attempts >= MaxAttempts

FailedRetry(attempts) ==
    Backoff[IF attempts > Len(Backoff) THEN Len(Backoff) ELSE IF attempts < 1 THEN 1 ELSE attempts]

\* The claim in hand ends: its row, still its own, becomes `row`.
Ends(w, c, row) ==
    /\ c = Head(hand[w])
    /\ work' = IF Owns(c) THEN [work EXCEPT ![c.key] = row] ELSE work
    /\ hand' = [hand EXCEPT ![w] = Tail(@)]
    /\ UNCHANGED <<now, rowIds, tokens, wanted>>

Answers(c) ==
    asks' = IF Owns(c) THEN [asks EXCEPT ![c.key].done = asks[c.key].taken] ELSE asks

Succeeds(c) ==
    misses' = IF Owns(c) THEN [misses EXCEPT ![c.key] = 0] ELSE misses

\* Next::Done
Complete(w) ==
    /\ Working(w)
    /\ LET c == Head(hand[w]) IN
         /\ ~PastCap(c)
         /\ Ends(w, c, Completed(c))
         /\ Answers(c)
         /\ Succeeds(c)

\* Next::DueAt: a poll's next poll.
Reschedule(w, due) ==
    /\ Working(w)
    /\ LET c == Head(hand[w]) IN
         /\ ~PastCap(c)
         /\ c.key \in Armed
         /\ Ends(w, c, Released(c, "rescheduled", due))
         /\ Answers(c)
         /\ Succeeds(c)

\* Next::Busy
ReleaseBusy(w) ==
    /\ Working(w)
    /\ LET c == Head(hand[w]) IN
         /\ ~PastCap(c)
         /\ Ends(w, c, Released(c, "busy", now + BusyRetry))
         /\ UNCHANGED <<asks, misses>>

\* work_failed, under the cap
Fail(w) ==
    /\ Working(w)
    /\ LET c == Head(hand[w]) IN
         /\ ~GivesUpNow(c)
         /\ Ends(w, c, Released(c, "failed", now + FailedRetry(c.attempts)))
         /\ misses' = IF Owns(c) THEN [misses EXCEPT ![c.key] = @ + 1] ELSE misses
         /\ UNCHANGED asks

\* give_up_work, of a row that failed at its cap or was claimed past it
GiveUp(w) ==
    /\ Working(w)
    /\ LET c == Head(hand[w]) IN
         /\ GivesUpNow(c)
         /\ Ends(w, c, Buried(c))
         /\ misses' = IF Owns(c) /\ ~PastCap(c) THEN [misses EXCEPT ![c.key] = @ + 1] ELSE misses
         /\ Answers(c)

\* give_up_work, its run held elsewhere
GiveUpLater(w) ==
    /\ Working(w)
    /\ LET c == Head(hand[w]) IN
         /\ GivesUpNow(c)
         /\ Ends(w, c, Released(c, "busy", now + BusyRetry))
         /\ UNCHANGED <<asks, misses>>

\* The worker stops, or a store error ends its drain: what it claimed stays
\* leased until its lease lapses.
Crash(w) ==
    /\ Working(w)
    /\ hand' = [hand EXCEPT ![w] = <<>>]
    /\ UNCHANGED <<now, work, rowIds, tokens, asks, wanted, misses>>

Tick ==
    /\ now < Horizon
    /\ now' = now + 1
    /\ UNCHANGED <<work, rowIds, tokens, hand, asks, wanted, misses>>

-----------------------------------------------------------------------------
Init ==
    /\ now = 0
    /\ work = [k \in Keys |-> NoRow]
    /\ rowIds = 0
    /\ tokens = 0
    /\ hand = [w \in Workers |-> <<>>]
    /\ asks = [k \in Keys |-> [made |-> 0, taken |-> 0, done |-> 0]]
    /\ wanted = [k \in Keys |-> 0]
    /\ misses = [k \in Keys |-> 0]

Drains(w) ==
    \/ ClaimDue(w)
    \/ Complete(w)
    \/ \E due \in now..Horizon : Reschedule(w, due)
    \/ ReleaseBusy(w)
    \/ Fail(w)
    \/ GiveUp(w)
    \/ GiveUpLater(w)
    \/ Crash(w)

Next ==
    \/ \E k \in Keys : \/ \E due \in 0..Horizon : Enqueue(k, due) \/ EnqueueIfAbsent(k, due)
                       \/ Land(k)
                       \/ CompleteKey(k)
    \/ \E w \in Workers : Drains(w)
    \/ Tick

Spec == Init /\ [][Next]_vars

-----------------------------------------------------------------------------
(* What the queue promises. *)

\* The type invariant: every row, claim and count has its shape.
TypeOK ==
    /\ now \in Nat /\ rowIds \in Nat /\ tokens \in Nat
    /\ work \in [Keys -> Row \cup {NoRow}]
    /\ hand \in [Workers -> Seq(Claim)]
    /\ asks \in [Keys -> Asks]
    /\ wanted \in [Keys -> Nat]
    /\ misses \in [Keys -> Nat]

InHand(w) == {hand[w][i] : i \in DOMAIN hand[w]}

\* Until its lease lapses, a claim is its row's: the row is there under the
\* claim's id and token, whoever re-arms it, completes an older claim of it
\* late, or completes its key (store.rs claim_due, complete, complete_key).
LiveClaimHolds ==
    \A w \in Workers : \A c \in InHand(w) : c.until >= now => Owns(c)

\* Two workers never hold claims on one row whose leases both run ("a row is
\* claimed by one of them", drain.rs).
OneLiveClaim ==
    \A v, w \in Workers : \A c \in InHand(v), d \in InHand(w) :
        v # w /\ c.key = d.key => c.until < now \/ d.until < now

\* An ask no ended claim took up has a live row to answer it: completing,
\* releasing or burying a row that was re-armed since its claim leaves the
\* re-arm standing.
NoAskLost ==
    \A k \in Keys : asks[k].made > asks[k].done => IsRow(k) /\ ~work[k].dead

\* A row re-armed since its claim comes due no later than its last ask asked
\* for, whatever its holder's failure, busy run or next poll would have made
\* of its due time.
RearmKeepsItsTime ==
    \A k \in Keys : IsRow(k) /\ asks[k].made > asks[k].taken => work[k].due <= wanted[k]

\* A row that gives up is not worked again once it has failed or outrun its
\* lease MAX_WORK_ATTEMPTS times since it last succeeded.
WorkedWithinCap ==
    \A w \in Workers : Working(w) =>
        LET c == Head(hand[w]) IN
        c.key \in GivesUp /\ ~PastCap(c) /\ Owns(c) => misses[c.key] < MaxAttempts

\* A row is dead only after MAX_WORK_ATTEMPTS of its claims, since it last
\* succeeded or was queued anew, failed or never ended: work that succeeds,
\* however often, is never given up.
DeadOnlyAfterItsAttempts ==
    \A k \in Keys : IsRow(k) /\ work[k].dead => k \in GivesUp /\ misses[k] >= MaxAttempts

\* A dead row is never claimed and keeps its place: only an ask brings it
\* back, as new work with no attempts (store.rs bury_work, enqueue_in).
DeadUntilAsked ==
    [][\A k \in Keys : IsRow(k) /\ work[k].dead =>
           \/ work'[k] = work[k]
           \/ asks'[k].made > asks[k].made /\ ~work'[k].dead /\ work'[k].attempts = 0]_vars

-----------------------------------------------------------------------------
(* The queue the contract of backend.rs describes, refined. *)

AskState(k) ==
    CASE ~IsRow(k) -> "none"
      [] IsRow(k) /\ work[k].dead -> "dead"
      [] IsRow(k) /\ ~work[k].dead /\ work[k].token = NoLease -> "waiting"
      [] OTHER -> IF asks[k].made > asks[k].taken THEN "again" ELSE "taken"

HolderOf(k) == {w \in Workers : \E c \in InHand(w) : c.key = k /\ Owns(c)}

Queue == INSTANCE WorkQueue WITH
    ask <- [k \in Keys |-> AskState(k)],
    holder <- [k \in Keys |-> HolderOf(k)]

\* Every step of the table is a step of the queue the contract promises.
ImplementsQueue == Queue!Safety
=============================================================================
