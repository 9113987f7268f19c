# Listen-Fire: a verification of its durable run host

Listen-Fire runs movements (`.mvt` programs) on events. A run that waits, for a timer, for a reply or
for another branch, is *parked* in a store and taken up again by whichever process finds it due: a
`serve` loop, a second machine on the same Postgres, or a command. The part of the program that makes
this correct, and that tests reach least, is the run host of `crates/lf`: its store, its work queue,
its run lease and its segments. These modules model that part, check it on small instances and prove
its safety for all. Paths below are relative to `crates/lf/src/` unless they say otherwise.

## The system

| Component | Source | State it keeps | Operations | What makes it correct |
| --- | --- | --- | --- | --- |
| Work queue | `store.rs`, `backend.rs`, `drain.rs` | `work`: key, kind, due time, lease token and end, version, attempts, dead mark | `enqueue`, `enqueue_if_absent`, `claim_due`, `complete`, `complete_key`, `release_work`, `bury_work` | a row is one worker's at a time; an ask made while it is worked is not lost; a row gives up only after its attempts, and then stays dead |
| Run, lease, drain | `run_host.rs`, `runs.rs`, `store.rs` | `run`: status, cancel request, attempt, lease; `leaf`: what is parked or being resumed | fire, `with_run_lease`, `drain_run`, timers, waits, `resume`, `cancel`, `runs rerun`, the lost-run sweep | a run is stepped by one process; settled runs stay; nothing parked is forgotten |
| Segment commit | `segment.rs`, `store.rs` | what a segment holds until its end is kept | `commit`, `write_commit`, `replay_diverged` | a segment's end is kept whole, once, or not at all |
| Waits, arrival log | `waits.rs` | `arrival`, `arrival_identity`, `wait_row` and its marks | `log_arrivals`, `open_wait`, `note_arrival`, `park_wait`, `sweep_arrivals` | no answer is missed between a read and a park, none is read twice |
| Joins and races | `segment.rs`, `store.rs` | `join_frame`, `join_branch_export`, owed `settle_race` rows | `decrement_join`, `persist_branch_export`, `cancel_subtrees` | a join closes once, by one branch; a race has one winner |
| Deliveries, inbound door | `doors.rs`, `inbound.rs`, `deliveries.rs` | `delivery`, and a row per delivery | receive, run inline, redeliver | an event delivered twice starts one run |
| Receipts, loop breaker | `runs.rs`, `loop_breaker.rs` | `event_receipt`, `listen_state.paused`, write ledger | `fire_arrivals`, pause, resume | a listen takes an arrival once; a loop is stopped at its depth |
| Limiter | `limiter.rs`, `limits_door.rs` | permits, windows, throttles; the door's tickets | `acquire_at`, `release`, `throttle`, `acquire` and its sleep | never more calls than declared, no caller waits past room |
| Edge polls | `edge_polls.rs` | a position per key, a poll row | poll, keep a page, poll again | every page is kept once |
| Listen resolution | `resolve.rs`, `doors.rs` | `listen_state` and its hold | claim, save | one resolve at a time; a pause survives it |
| Webhooks | `subscriptions.rs` | holders in a shared credential, refresh rows | register, hold, leave, refresh | removed by its last holder only |
| Wake slot | `wake.rs` | none | tell a scheduler when to come | a hint: the drain's tick covers a lost one |
| Stores | `store.rs` (SQLite), `pg_store.rs` (Postgres), `store_module.rs` + `store_wire.rs` (another language's) | all the tables | the same operations | they keep one contract (`backend.rs`) |
| TypeScript run host | `packages/movement-engine/services/run_host` | its own tables | the same, for the package's engine | not modelled: `crates/lf` is the host the program ships |
| Language | `crates/movement-*` | none across runs | parse, check, evaluate | sequential; golden tests |
| Adapters, packages, CLI tests | `modules/`, `packages/`, `apps/cli` | outside services | calls | outcomes are free choices here |

How they meet: a door or a poll starts a run (one write with its receipt) and steps it under the run's
lease. Its segment's commit parks leaves, opens waits and enqueues the timer's row in one write. A
timer falling due, or an arrival logged on a wait's record, makes a work row due; a drain claims it,
takes the run's lease, and resumes the leaf. Everything is shared through the store: two processes
interleave between any two of its writes, and either may die, or stall past a lease, at any of them.

The hard behaviours, each with its line and the properties that watch it, are listed in
`PROJECT.json` under `hazards`; those no property covers yet say why.

## Modules

**`WorkQueue`** states what `backend.rs` promises of the queue and nothing about how: a key is not
asked for, `waiting`, `taken`, `taken` and asked `again`, or `dead`; at most one worker is its holder.

**`WorkStore`** is the `work` table and the drain over it. One action is one store write.

| In the model | In the code |
| --- | --- |
| `work[k]`, `NoRow` | the row of key `k` (`store.rs` 184-196); ids and tokens are fresh numbers |
| `Enqueue`, `EnqueueIfAbsent`, `Land` | `enqueue_in`'s upsert, `enqueue_if_absent`, a door's row due a lease out |
| `ClaimDue` | `claim_due`: the first due rows by due time and id, each under its own token |
| `Complete`, `Reschedule`, `ReleaseBusy`, `Fail`, `GiveUp`, `GiveUpLater` | how `drain_work_in` ends a row: `Next::Done`, `Next::DueAt`, `Next::Busy`, `work_failed`, `give_up_work` |
| `Owns`, `Unmoved` | `where id = ? and lease_token = ?`, `and version = ?` |
| `CompleteKey` | `complete_key`, which a live claim stops |
| `Crash`, `Tick` | a worker that stops with rows in hand; the clock leases are measured by |
| `asks`, `wanted`, `misses` | history only: no guard reads them except the bound on asks |

`ImplementsQueue` is the refinement: `ask` and `holder` of `WorkQueue` are read off the table (a row
is *again* when it was asked since its last claim), and every step of the table is a step of the queue.
The clock, the tokens and the versions disappear, so it is the queue's callers that are spared them:
`RunHost` uses `WorkQueue` for its rows.

**`RunHost`** is one run, its leaves, its waits and its rows, and the processes that step it. What a
movement does is a free choice of how each segment ends: it parks any leaves it may, finishes, or
fails. An action is one store write, or one read and the decision made of it, so a step of the code
that is two writes is two actions with everything else between.

| In the model | In the code |
| --- | --- |
| `run`, `leaf`, `lease` | the rows of `run` and `leaf`; a lease is whose token it is, and whether its time is past |
| `wait[l]` | arrivals logged on the wait's record, noted by a step, and notes a commit kept |
| `job[w]` | where process `w` is: which of `run_listen`, a drain, `rerun`, `cancel_run` or the sweep, and at which line of it |
| `TakeLease` ... `Unlease` | `with_run_lease` |
| `EnterDrain`, `NextLeaf`, `ClaimLeaf` | `drive_parked_run`, `drain_run` |
| `SegmentParks`, `SegmentFinishes`, `SegmentFails`, `SegmentLosesRun` | `Session::segment` and `end_segment` |
| `Commit`, `SettleAlone`, `CommitRefused`, `Recheck`, `TearDown` | `segment.rs` `write_commit`, `store.rs` `commit_segment` and `settle_run` |
| `FailRun`, `DropFailed` | `fail_run`'s two writes |
| `Outcome` | `settled_outcome`'s re-arm, after the lease is released |
| `FinishRow` | `Parked::row_next`: completed, or given back when the run was lost |
| `Stall` | a holder that goes on past its lease's end; `Holds` is what it believes (`is_lost`), `Fenced` what the store finds |
| `ends` | history only: how often each resume's end was kept |

**`Waits`** is the arrival log and the waits of a run's records: what is logged, what a step reads
of it, and what each end of a step keeps. `RunHost` sees only that an arrival makes a wait due;
here is how a wait knows which arrivals are its own.

| In the model | In the code |
| --- | --- |
| `reported`, `flight` | the `arrival` rows: a log draws its seq, then commits. SQLite does both at once (`TakesTurns`); Postgres locks one record's edge between them |
| `known` | `arrival_identity`: what was last logged of an identity, in its window |
| `wait`, `seen` | `wait_row`, its mark, and its notes in the order they were made (`nth`) |
| `Deliver`, `BeginLog`, `EndLog` | `keep_delivery` with its run and its wait, and `log_arrivals` of any other, in its two steps |
| `Floor`, `Sweep` | `sweep_arrivals`, the floor read and the delete below it |
| `Start`, `Resume`, `TakeMark`, `Open` | the lease and its mark, `entry_at`, `open_wait` |
| `Reach`, `Judge`, `BindListed`, `HoldPark` | `judge_arrivals`: an await is reached, its arrivals read in order, one bound or the park held |
| `Commit`, `FailLost` | `commit_segment` (`park_wait`, `keep_leaf_notes`), and the sweep that fails a run whose process is gone |
| `Drop` | the write after it, in which an ended run's waits go (`clear_if_quiescent`, `fail_run`); a process that dies between leaves them |

**`Joins`** is a run over a tree of bodies and the `all`s and `race`s in them, with the processes
that drain its parked leaves and the races its commits owe. What one resume may do is a set of `Ways`
(the leaves it parks, the arms it finishes, the races it settles), which is the engine's combinator
with its values left out; what the store then keeps of it is one action per write.

| In the model | In the code |
| --- | --- |
| `Ways`, `WaysAt`, `AllParks`, `RaceParks`, `RaceSettles` | `Run::combinator`'s endings, all arms together |
| `Arms`, `Statements`, `Line` | the movement's text: which frame has which arms, what a body may park at, and where each comes |
| `leaf`, `join`, `export`, `owed` | the rows of `leaf`, `join_frame`, `join_branch_export`, and `settle_race` work |
| `ClaimLeaf`, `SettleRace` | `drain_run`, of a due leaf and of an owed race |
| `WithdrawLeaves`, `WithdrawFrames` | `cancel_subtrees` |
| `Keep`, `Export`, `Decrement` | what a segment writes before its end: the exports of the arms it finished, its branch's own, and `decrement_join`, after which `finish_container` owes the race to the run (`LeavesToRun`), goes on past the frame it closed (`GoOnPast`), or stops |
| `Judge`, `Commit`, `CommitRefused` | `end_segment` with `replay_diverged`, the fenced commit and its refusal |
| `FailRun`, `EndDrain` | `fail_run`, and the drain's last write |
| `past`, `open`, `plan` | history: the frames gone on past, what was recorded of a frame, where a first attempt went |

**`Deliveries`** is an event's way from the outside to a run: kept under its id, claimed by the
request that brought it or by a drain, fired at each listen it matches; and a polled edge, whose page
is kept with its cursor.

| In the model | In the code |
| --- | --- |
| `sent`, `kept`, `row`, `receipt` | what senders know of their deliveries, the `delivery` rows, their work rows, `event_receipt` |
| `listed`, `cursor` | what the provider's feed lists, and the cursor kept of it |
| `Receive`, `ReadPage`, `KeepPage` | the doors' `keep_delivery`, and `poll_edge_once`'s read and its one write of page and cursor |
| `Claim`, `Outrun`, `Finish`, `Fail` | the row's claim, its lease lapsing under a live worker, and its ends; a failure is tried again, the last one buries |
| `Judge`, `TakenBefore`, `Start`, `TakeHeld`, `Pause`, `Count` | `fire_arrivals_to`, one listen at a time: the pause read once, the receipt found taken, the run minted with it, the arrival held, the loop that pauses its listen, the held counted |
| `Judged`, `LookFor`, `DropWaits` | its tail: waits kept for a run that never started are dropped |
| `Forget`, `Resume` | `forget_delivery_id`, and a listen resumed by hand |

**`Limiter`** is `MemoryLimiter` and those who ask it: a caller in process, whose `acquire` sleeps and
asks again, and the limits door, which asks for a caller elsewhere under a ticket that may be closed.
Callers call again and again, and providers throttle as they like: no budget bounds either.
Time is relative: a ledger holds the ages of its calls and the ticks left of a throttle, so the state
is finite without a horizon.

| In the model | In the code |
| --- | --- |
| `held`, `permit`, `window`, `throttle` | the places taken of each bucket and when each permit lapses, the rolling window of each bucket, the throttle of each key |
| `atDoor`, `open`, `Ticket` | the module asks per request (`hostLimits`), under the ticket of a call that has not answered |
| `granted` | history: every call granted in the last window, which no acquire reads |
| `Refuse`, `Grant` | `acquire_at`: the longest wait of the buckets that refuse, or a permit and a call of each |
| `Sleep`, `Wake` | `acquire`'s wait: capped by the recheck, ended by time or by a release |
| `Note`, `DropTicket` | the door notes a permit under its ticket, or is to give it back; the ticket's call answered, and what it held is to be released |
| `Answer`, `Release`, `Notify` | a call that ends; its permit freed under the lock, also one whose hold had lapsed; and, after the lock, those who wait told |
| `Throttle` | a provider's *slow down* |

The mapping line by line is `map` in `PROJECT.json`. Operators commented as mutants are wrong versions
of the definition they precede (a guard dropped, a reset missed); no specification uses them. Each
property of a passing run is violated when one of them takes its definition's place.

`MCWorkStore`, `MCRunHost`, `MCWaits`, `MCJoins`, `MCDeliveries` and `MCLimiter` hold what a run's cfg
cannot write: the instance's functions, its bounds where they are records, and its symmetry.

## Runs

Passing:

| Run | Asks | Instance |
| --- | --- | --- |
| `work` | does the table keep every ask, exclude workers, respect the cap, bury only what had its attempts, and refine the queue? | two workers that claim up to two rows, a timer row, a row its caller runs and completes by key, a poll's row; lease of one tick, one attempt, `CompleteResets` |
| `run_crash` | with a process that may die anywhere and commands beside the drains, is an answer lost, a run stuck, a branch dropped, a settled run changed? | two workers, three parks, two arrivals, a crash, a resume, a cancel |
| `run_lost` | when a worker dies, or its leases lapse under it and it goes on, is a resume kept twice, does a run stay *running*, an answered wait unresumed? | Postgres's fence (the weaker: it reads no time), fairness, one wait parked, and parked again; a crash, a stall, an overrun row lease, a rerun |
| `waits` | does a wait read, once, every arrival it was open for, and is the park an arrival answers woken? | one run with two awaits in turn on its trigger's record; three arrivals of two versions or gone; two crashes or lapses |
| `joins` | is a frame gone on past once, by one branch, with every export in, its losers gone, and does the run settle? | an `all` over a race over an `all` (no race in an arm of a race: `joins_nested`), two processes, a crash or a stall at any write, a leaf that parks again, second attempts that may go another way |
| `deliveries` | does an event delivered twice start one run, is nothing kept lost or held for ever, do a started run's waits stay? | an arrival both pushed and listed by a feed of two, at most two deliveries kept, a loop, two workers, a crash or failure or overrun lease, a resume |
| `limiter` | is a limit ever passed, a caller asleep past room, a caller left waiting when the others stop? | three callers of one place with one permit, two of them under one window of two calls per two ticks, one ticket, throttles, permits that lapse |

Expected violations, each a finding:

| Run | What the code does |
| --- | --- |
| `run_timer` (`TimersArmed`) | a timer row that comes before its timer is completed by a drain that steps nothing (`runs.rs` 2168), and no row is left for the timer. An early `resume <run>` is enough: it leaves the old row, and `min(due_at)` keeps the old time when the next timer is parked. So are a crash before the re-arm, the re-arm after the lease's release racing another drain, and a rerun over a stale row |
| `joins_settle` (`CompletedPassedAll`) | `replay_diverged` is asked only where a leaf was resumed (`segment.rs` 537). A segment that settles an owed race, finishes an outer arm, dies, and on its second attempt parks inside that arm has the park committed: its frame never closes, and the run completes without going on past it |
| `joins_nested` (`PassedOnce`) | a leaf that finishes a race's arm owes the race whether or not its decrement closed it (`resume.rs` 613); a segment that settles a race inside an arm of that race closes it and goes on past it at once (624-631), and on a retry is told so again. With a death between that segment's decrement and its commit, and the other arm's leaf resumed next, both happen: what follows the outer race runs twice |
| `waits_order` (`WaitsReadAll`) | on Postgres a log draws its seq before it commits and locks one record's edge only; `arrival_mark` (`pg_store.rs` 1115) reads the highest committed, so a wait opened at that mark never reads a lower seq committed later |
| `waits_shared` (`ArmsWoken`) | a wait row has one address, overwritten by each park (`waits.rs` 524): of two arms parked on one record's wait, the first is never woken |

Behaviours met while modelling that the repository documents or says nothing about, and that are no
findings: `settle_run` of a segment that parked nothing has no fence (`docs/contracts/store-slot.md` 69),
so a stalled first firing can overwrite the sweep's `failed` and `SettledStays` is asked where processes
die, not where they stall; a cancel answered *Requested* after its holder's last look (`runs.rs` 2646)
leaves the run parked until something enters it; a crash between failing a run and dropping its leaves
(`run_host.rs` 262-263) leaves them to a rerun; `claim_leaf` (`run_host.rs` 376) is under no fence, so a
drain that lost its lease marks a leaf under the new holder; and SQLite's `complete` (`store.rs` 1471)
keeps a re-armed row's attempts where Postgres's resets them.

### Bounds, and why they are enough

* Two workers: every hazard here is between one holder and one other; workers are interchangeable
  (symmetry), except in the liveness runs, which use no symmetry.
* A work lease of one tick and a horizon of two: a lease can be taken, lapse and be taken over.
  `MaxAttempts` 1: the claim that takes a lapsed one over is past the cap.
* `MaxAsks` 2: a first ask and one made while it is held. `MaxClaims` 2: the claim and its takeover.
  The run completes rows as Postgres does (`CompleteResets`), the one field in which the stores differ;
  the theorems are of both, and of every bound.
* Parks of two and three: a leaf parks, parks again where it resumed, beside another branch. `run_lost`
  parks no timers, so its clock stands still and only leases move.
* `Waits`: two versions of one identity and three arrivals make *again, newer, gone and back*; two awaits
  in turn, the second opened over what the first read. Two failures let a step be retried after the
  retry failed.
* `Joins`: the smallest tree in which a race is inside an arm, an `all` inside a race's loser, and a body
  empty; for `joins_nested` the smallest with a race in an arm of a race. One fault at any of a segment's writes; two faults would only repeat the retry.
* `Deliveries`: `Caps` 1 and 2 are a row that is buried at once and one that is retried; `MaxKept` 2 is an
  event kept, forgotten and kept again, or one pushed and listed by the feed too.
* `Limiter`: windows and holds of two ticks are the least in which a call ages without leaving; one
  caller costs two, so room for one call is not room for every caller. One key and one ticket are enough:
  keys and tickets meet nowhere but in the buckets. The theorems are of any number of each.
* One crash, stall or overrun at a time, but two in `Waits`: each is a budget, and the interleavings
  around it are all there. Not in the runs: wider trees, more listens than one, three processes.

Runs do not check deadlock: a bounded clock and bounded budgets end every behaviour, and a run that
completed with no one asking anything more may really stop.

### Fairness

`RunHost`'s `FairSpec` asks that time passes and a dead holder's lease lapses; that each process goes on
(`Works`, weak: each is one thread of control whose next step stays possible); and, strongly, that the
sweep and the drains go on taking what is due, as some worker: `drain_forever` (`listener.rs`) wakes on a
tick for ever, sweeps, and claims by due time. Nothing is asked of commands, arrivals, crashes or
stalls. A worker may die, but not every time: crashes are bounded. `Joins` and `Deliveries` ask the same
of their processes (weak) and of each parked leaf's, owed race's and delivery's row (strong: a row that
is due again and again is claimed in the end, since a drain takes rows by due time). `Limiter` asks that
time passes and that a caller takes its own steps; of providers it asks nothing, for a permit never
released lapses. That is not enough for a call to be granted: the limiter keeps no queue, a release wakes
all who wait, and a newcomer may take the room each time, so a caller, above all one that costs more than
one, may be refused for as long as the others go on (`limiter-slot.md` says *a call asked again then may
meet calls granted meanwhile*). `EveryCallGranted` therefore says that once no call is made any more, and
no throttle, nobody is left waiting.

## Proofs

Each proof module proves its component's properties of `Spec`, for every value of the constants the
`ASSUME`s admit: every set of keys, workers, runs, records or callers, every lease, limit and bound.
TLC evaluates those assumptions on each run, and checked the invariants on small instances before they
were proved. Every invariant of every passing run is a theorem, and so are the refinement and the
action properties; some under a hypothesis, which the next section gives reasons for.

| Module | Theorem | States |
| --- | --- | --- |
| `WorkStore_proofs` | `TypeCorrect` | `[]TypeOK` |
| | `LiveClaimsHold` | `[]LiveClaimHolds`: until its lease lapses, a claim is its row's |
| | `ClaimsExclude` | `[]OneLiveClaim` |
| | `AsksKept` | `[]NoAskLost` |
| `WorkStore_queue_proofs` | `RearmsKeepTheirTime` | `[]RearmKeepsItsTime` |
| | `NoWorkPastTheCap` | `[]WorkedWithinCap` |
| | `DeadAfterItsAttempts` | `[]DeadOnlyAfterItsAttempts`, where `CompleteResets` |
| | `DeadStaysUntilAsked` | `DeadUntilAsked` |
| | `TableImplementsQueue` | `ImplementsQueue`: the table is a `WorkQueue` |
| `RunHost_proofs` | `RunHostTypes` | `[]TypeOK` |
| | `ResumesEndOnce` | `[]ResumeKeptOnce`, with crashes, stalls and either fence |
| | `CompletedRunsAreBare` | `[]CompletedLeftNothing`, where `NoStalls` |
| | `ParkedRunsGoOn` | `[]ParkedHasALeaf`, where `NoStalls` |
| | `SettledRunsStay` | `SettledStays`, where `OnceOnly` |
| | `AnswersAreWoken` | `[]AnswersWake`, where `OnceOnly` |
| `Deliveries_proofs` | `DeliveriesTypes` | `[]TypeOK` |
| | `OneRunForEach` | `[]OneRunEach` |
| | `RunsKeepTheirWaits` | `StartedKeepsWaits` |
| | `NothingIsLost` | `[]NothingLost` |
| | `HeldIsCountedOnce` | `[]HeldOnce` |
| `Limiter_proofs` | `LimiterTypes` | `[]TypeOK` |
| | `LimitsAreKept` | `[]LimitsHold` |
| | `NobodySleepsPastRoom` | `[]NoSleepPastRoom` |
| `Waits_proofs` | `WaitsTypes` | `[]TypeOK` |
| | `TurnsReadAll` | `[]WaitsReadAll`, where `TakesTurns` |
| | `TurnsStrand` | `[]StrandedAsReported`, where `TakesTurns` |
| | `InTurnBindsOnce` | `[]BoundOnce`, where `InTurn` |
| | `InTurnWakes` | `[]WakeOwed`, where `InTurn` |
| | `InTurnKeepsAnswers` | `[]AnswersKept`, where `InTurn` |
| `Joins_proofs` | `Types` | `[]TypeOK` |
| | `OncePassed` | `[]PassedOnce`, where `NoRaceInRace` |
| | `NoneBehind` | `[]NoneLeftBehind`, where `NoRaceInRace`, `NoStalls` |
| | `ClosedWithAllIn` | `[]ClosesWithAllIn`, where `NoRaceInRace`, `NoStalls` |
| `Joins_waits_proofs` | `WaitsForTheRest` | `[]PendingIsWaiting`, where `NoRaceInRace`, `NoStalls`, `SettlesAlike` |
| | `CompletedPasses` | `[]CompletedPassedAll`, where `NoRaceInRace`, `NoStalls`, `SettlesAlike` |

### The hypotheses

* `CompleteResets`: Postgres's `complete`, which resets a re-armed row's attempts. SQLite's keeps them
  (`store.rs` 1471), so there a row can die of attempts an earlier ask used up.
* `NoStalls`, of `RunHost`: no process goes on past its lease's end. A stalled first firing, whose `settle_run` has no
  fence, breaks what the theorem says; a crash, a lapse of a dead holder's lease, and a row outrun do not.
* `OnceOnly`: `NoStalls`, and cancels or reruns but not both. A firing writes its run's row and takes
  its lease in two writes (*nobody else can hold its lease*, `runs.rs` 1553); a cancel that fails the
  run between them, and a rerun of what it failed, fit there, and the firing's first segment is then
  stepped on the rerun's attempt.
* `TakesTurns`: a log draws its seq and commits while no other does, as SQLite's single writer makes it.
  Without it `WaitsReadAll` is false, which is the run `waits_order`.
* `InTurn`: of two awaits on one record, one comes after the other. It admits any number of records and
  any tree of awaits over different ones; it leaves out two arms waiting on one record, where one wait
  row serves both (`waits_shared`), and there TLC finds `WakeOwed` and `BoundOnce` violated.
* `NoRaceInRace`: no race is in an arm of a race. Without it `PassedOnce` is false, which is the run
  `joins_nested`. Races in arms of `all`s, and `all`s in arms of races, to any depth, are admitted.
* `NoStalls`, of `Joins`: no lease lapses under a process that goes on, so the writes of a segment that
  are under no fence (its withdrawals, its exports, its decrement) are those of the process that holds
  the run. The run `joins` admits such a lapse, and TLC finds the four invariants it is asked for to hold
  with it on that tree; for every tree they are proved without. `OncePassed` needs no such hypothesis.
* `SettlesAlike`: a segment that settled a race and is run again goes on the same way. A leaf's may
  diverge as it likes: `replay_diverged` looks at those. Without it `CompletedPassedAll` is false, which
  is the run `joins_settle`.

### The arguments

None of the invariants is inductive by itself.

**Work table.** Every token given out is at most `tokens` and every id at most `rowIds`, so a fresh
claim's token is no other's; a row keyed `k` that carries a claim's token carries its id and its lease's
end; and a claim whose lease has not lapsed cannot be taken over, since `Free` wants `until < now`, nor
deleted by key, for the same reason (`ClaimInv`). A finish deletes or re-leases only a row with its own
token. `OneLiveClaim` follows: two live claims of one row would both be its token's, and no two claims
share one. `NoAskLost` adds what versions say (`AskInv`): a claim taken at version `v` of a row whose
version is still `v` has seen every ask, because each upsert that counts an ask also moves the version;
so a completion that deletes, and a burial that kills, answers them all.

**Queue.** Each store write is first reduced to what it makes of one key (`KeySteps`: left alone,
upserted, called off, taken up, finished) and of one worker's claims (`ClaimSteps`); `QueueInv` is then
kept by five steps and not by every action. It says that a row asked since its claim has a version its
claim does not, so no finish moves its due time later, and that a live row's attempts count its misses.
The refinement reads the same steps: `AskStates` says what `AskState` is of each kind of row, and each
of the five is a step of `WorkQueue`, or a stutter, under the mapping.

**Run.** `ResumesEndOnce`: parks are numbered, a number is given once, what is parked or resumed by the
holder is at a number with no end (`ApartInv`), and the commit that ends it is fenced by the lease whose
taking parks it again. While nobody stalls, who is inside the lease is alone there (`SoleInv`), so a
leaf *resuming* is the one its process resumes and what a segment settles as fits the leaves there are.
`OnceInv` adds that nothing is going on for a settled run but what leaves it settled; `WakeInv`, that the
one who has a wait's row has the wait itself still before it, or gives the row back.

**Deliveries.** What a delivery owes is its arrivals at the listens they match. An attempt has taken, or
has yet to pass, or is at, each of them (`PassedIsTaken`), a receipt that says *run* is of exactly one
run (`RunsAreTaken`), and what is not taken has its waits still (`UntakenWaits`): `TakenInv`. The cursor
passes only what is kept (`CursorInv`), and of a listen's held arrivals those not counted are each a
process's that is about to count one (`HeldCounted`, an inequality of cardinalities).

**Limiter.** `RoomInv`: every bucket's ledger is in order of age and is, within its window, exactly what
was granted; the places taken are counted by the permits out. `SleepInv`: for as long as a caller has
yet to sleep, something bars it, a throttle, calls that have not left the window, or places whose
permits last as long; or one who freed a permit has yet to tell the others (`FreesStay`: it still will).

**Waits.** `EndsInv` carries beside the types who is still to drop an ended run's waits: a process that
steps without the run's lease has lost it, and an ended run has waits only while its process is to drop
them, or after a failure. `ReadInv`: the seq in flight
is the last one drawn, so a mark, which is a committed seq, has nothing in flight below it; and the
sweep's floor, the lowest mark of a live lease, is at most every mark a job has taken. `TurnInv`: a leaf
has its record's wait to itself, and a note not yet kept is the newest on its record and of the leaf
resumed. From it `BoundInv` (what is bound is noted, so it is not read again), `OwedInv` (an arrival to
read has a row, kept or in hand) and `AnswersInv` (a counting note is of a binding, kept or of the
segment that made it).

**Joins.** Four invariants, each resting on the one before. First the tree: `Line`, where a statement
comes in the movement's text, makes the recursions of `Above` and `Ways` well-founded, so what they
define is what they say, and each way is one a body may go (`Goes`: what it parks follows where it
starts, one leaf never comes after another, and the frames around a leaf are joined with the arms
counted). `TypeInv` adds that each plan is such a way.

`PassInv`, for `OncePassed`: nothing the run keeps, or a segment is of, comes after a point that
something live has yet to go past (`Fresh`), so a frame is not joined again once it is passed; a frame
with a closer has nothing pending; and a race gone past has nothing live under it, because settling
withdraws first. What a segment has in hand has not been gone past while its process holds the run
(`Holding`), and a commit is fenced.

`LeftInv`, for `NoneBehind` and `ClosedWithAllIn`: an `all` waits for at least the arms whose export is
not in or that have something live in them (`LeftCounted`, an inequality of cardinalities); each frame
around what is live has its row (`LiveRecorded`); and a segment has passed every frame from its leaf up
to where it is, and closed each `all` among them (`Chain`).

`EndInv`, for the last two, makes the inequality an equality. An arm waited for has something in it that
will end it (`Real`), and who closed a frame goes on until the run has gone past it, or owes it
(`Closers`): so with no leaf, row or join left, nothing is still to be passed. What makes it inductive is
an arm decremented by a segment that dies before its commit, whose leaf is still parked: the leaf's next
attempt may park elsewhere, and then `Diverged` fails the run, for what remains in a decremented arm has
only closed `all`s around it (`Spent`); a race's next attempt goes as it went (`RaceEnd`), which is where
`SettlesAlike` is used.

Sums, least and greatest elements are induction over data, which the library's induction theorems
cannot give here. They are proved by a least counterexample instead: `LeastNat` and `GreatestNat` come
from the well-foundedness of strict subsets of a finite set, a fact about sets with no operator
parameter. `Limiter` writes its sum as a recursive function for that reason.

### Only model-checked

Liveness, which these provers cannot do, nor `ENABLED`: `LostRunSettles`, `AnsweredWaitResumes`,
`RunSettles`, `KeptIsTaken`, `EveryCallGranted`. And of what the theorems'
hypotheses leave out, one thing: in `joins`, a lease that lapses under a process that goes on.

## Plan

1. `WorkQueue`, `WorkStore`, `RunHost`, `Waits`, `Joins`, `Deliveries`, `Limiter` and their proofs: done.
2. The proofs of `Joins` without `NoStalls`: what a process that lost the run still writes (`cancel_subtrees`,
   `decrement_join`) has to be told apart from what the holder writes.
3. `Resolve`: a listen's hold that lapses while it is resolved, and a pause written beside the save.
4. `Holders`: a webhook shared by processes in one credential.

## Not modelled, and why

Most of the repository's lines are the language: parsing, checking and evaluating movements is
sequential, tested by golden files, and too large to say shorter than its code; the models take what an
evaluation may do as a free choice. So is the outcome of every call to an outside service. Store wire,
slots and module hosts are transport. Secrets and OAuth are calls to outside services. The wake slot is
a hint. The live engine's requests between two boundaries of a segment, its budgets and its wall clock
decide how a segment ends, which the models leave free. Postgres's transactions are taken as atomic, as
its operations are one statement or one transaction each, except where a lower number may commit later
than a higher one (`Waits`).

Left out of the modules that model their surroundings: the engine's re-read of a record after it held a
park (it only adds a wake); the kept marks of collection operations and the segment's write ledger,
from which the loop breaker reads an arrival's chain (here `Looping` says which arrivals end one); a
burial that drops waits under a drain that was outrun; a firing that stalls a minute between its run's
row and its lease, so that the sweep fails the run first; a poll's page that fires nothing, which is logged
and passed in writes of their own; `run --poll` racing the poll that arms itself,
and `next_poll_at`; a webhook's handshakes and signatures; a wall clock that goes back under the limiter.
