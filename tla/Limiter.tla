------------------------------- MODULE Limiter -------------------------------
(***************************************************************************)
(* The built-in limiter and who asks it (lf limiter.rs, limits_door.rs):   *)
(* each call is granted when every limit it is under has room and its key  *)
(* is not throttled, and then counted in all of them; refused, its caller  *)
(* waits in process for a release or for the instant it was told. A module *)
(* that asks per request does so at the limits door under its call's       *)
(* ticket, and waits by itself.                                            *)
(*                                                                         *)
(* Time is relative: what is granted ages, what is to come runs out, one   *)
(* tick at a time, so that no clock bounds a behaviour. One action is what *)
(* happens under the limiter's lock, or between two of its awaits.         *)
(***************************************************************************)
EXTENDS Integers, Sequences, FiniteSetsExt

CONSTANTS
    Callers,    \* what makes calls, one at a time
    Buckets,
    Limit,      \* by bucket: calls per window, concurrent; 0 where the limit declares none
    Under,      \* the buckets each caller's request counts in
    Cost,       \* what each caller's request costs
    Keys, Key,  \* where a throttle of each caller's provider lands
    Tickets, Ticket, \* the call of the module each asks for, at the door
    Hold,       \* HOLD_MS
    Recheck,    \* CONCURRENCY_RECHECK_MS
    Throttles   \* how long providers ask to wait

NoPermit == -1

ASSUME LimiterAssumption ==
    /\ IsFiniteSet(Callers) /\ IsFiniteSet(Buckets)
    /\ Limit \in [Buckets -> [calls : Nat, per : Nat \ {0}, concurrent : Nat]]
    /\ Under \in [Callers -> SUBSET Buckets] /\ Cost \in [Callers -> Nat \ {0}]
    /\ Key \in [Callers -> Keys] /\ Ticket \in [Callers -> Tickets]
    /\ {Hold, Recheck} \cup Throttles \subseteq Nat \ {0}

VARIABLES
    window,     \* by bucket: the calls counted in its window, oldest first, with their age
    held,       \* by bucket: its places taken
    permit,     \* by caller: how long until its permit lapses
    throttle,   \* by key: how long it stays closed
    atDoor,     \* the module asks per request (hostLimits)
    open,       \* the tickets whose call has not answered
    call,       \* by caller: its step, whether a release notified it, how long it waits
    granted     \* history, by bucket: every call granted in the last window

limiterVars == <<window, held, permit, throttle, atDoor, granted>>
vars == <<window, held, permit, throttle, atDoor, open, call, granted>>

At(c, step) == call[c].step = step
Goto(c, step) == call' = [call EXCEPT ![c] = [step |-> step, woken |-> FALSE, wait |-> 0]]

-----------------------------------------------------------------------------
(* What an acquire reads. *)

\* What calls cost together.
Spent(calls) ==
    LET upto[n \in 0 .. Len(calls)] == IF n = 0 THEN 0 ELSE upto[n - 1] + calls[n].cost
    IN  upto[Len(calls)]

\* window_cost.
WindowCost(c, b) == IF Cost[c] > Limit[b].calls THEN Limit[b].calls ELSE Cost[c]

\* window_retry_at takes from the front the calls whose window passed.
Kept(calls, b) ==
    LET gone == Min({n \in 0 .. Len(calls) : n < Len(calls) => calls[n + 1].age < Limit[b].per})
    IN  SubSeq(calls, gone + 1, Len(calls))

\* The calls of a bucket that are still in its window.
InWindow(b) == Kept(window[b], b)

\* window_retry_at: how long until enough of the oldest calls have left.
WindowRetry(c, b) ==
    LET calls == InWindow(b)
        Fits(n) == Spent(SubSeq(calls, n + 1, Len(calls))) + WindowCost(c, b) <= Limit[b].calls
        leave == Min({n \in 0 .. Len(calls) : Fits(n)})
    IN  IF leave = 0 THEN 0 ELSE Limit[b].per - calls[leave].age

Windows(c) == {b \in Under[c] : Limit[b].calls > 0}
Places(c) == {b \in Under[c] : Limit[b].concurrent > 0}

Lapsed == {c \in Callers : permit[c] = 0}

\* Mutant of HeldWithout: a permit goes, and its places stay taken.
HeldStill(cs) == held

\* lapse_permits, free: the places of the permits of cs are given back.
HeldWithout(cs) == [b \in Buckets |-> held[b] - Cardinality({c \in cs : permit[c] # NoPermit /\ b \in Places(c)})]

ConcurrencyRetry(c, b) ==
    IF HeldWithout(Lapsed)[b] < Limit[b].concurrent
    THEN 0
    ELSE Min({Recheck} \cup {permit[d] : d \in {d \in Callers \ Lapsed : permit[d] # NoPermit}})

\* How long until the call may be granted: 0 if it may now.
Retry(c) ==
    IF throttle[Key[c]] > 0
    THEN throttle[Key[c]]
    ELSE Max({0} \cup {WindowRetry(c, b) : b \in Windows(c)} \cup {ConcurrencyRetry(c, b) : b \in Places(c)})

-----------------------------------------------------------------------------
(* A call asks, and waits. *)

\* acquire listens for a release before it asks; the door reads its ticket.
Ask(c) ==
    /\ At(c, "idle")
    /\ atDoor => Ticket[c] \in open
    /\ Goto(c, "asks")
    /\ UNCHANGED <<limiterVars, open>>

\* What each acquire does to permits first: those that lapsed free their places.
Unlapsed == [c \in Callers |-> IF c \in Lapsed THEN NoPermit ELSE permit[c]]

\* acquire_at, refused: the windows it read lost the calls that left.
Refuse(c) ==
    /\ At(c, "asks") /\ Retry(c) > 0
    /\ call' = [call EXCEPT ![c].step = "refused", ![c].wait = Retry(c)]
    /\ held' = HeldWithout(Lapsed) /\ permit' = Unlapsed
    /\ window' = [b \in Buckets |-> IF b \in Windows(c) /\ throttle[Key[c]] = 0 THEN InWindow(b) ELSE window[b]]
    /\ UNCHANGED <<throttle, atDoor, open, granted>>

\* acquire_at, granted: the call is counted in every limit at once.
Grant(c) ==
    /\ At(c, "asks") /\ Retry(c) = 0
    /\ Goto(c, IF atDoor THEN "granted" ELSE "calls")
    /\ held' = LET rest == HeldWithout(Lapsed) IN [b \in Buckets |-> IF b \in Places(c) THEN rest[b] + 1 ELSE rest[b]]
    /\ permit' = [Unlapsed EXCEPT ![c] = IF Places(c) # {} THEN Hold ELSE @]
    /\ LET Counted(calls, b) == IF b \in Windows(c) THEN Append(calls, [age |-> 0, cost |-> WindowCost(c, b)]) ELSE calls IN
         /\ window' = [b \in Buckets |-> Counted(IF b \in Windows(c) THEN InWindow(b) ELSE window[b], b)]
         /\ granted' = [b \in Buckets |-> Counted(granted[b], b)]
    /\ UNCHANGED <<throttle, atDoor, open>>

\* The wait begins: acquire's, or the module's own.
Sleep(c) ==
    /\ At(c, "refused")
    /\ call' = [call EXCEPT ![c].step = "waits"]
    /\ UNCHANGED <<limiterVars, open>>

\* It is over: acquire listens and asks again; a module asks at the door again
\* while its call goes on.
Wake(c) ==
    /\ At(c, "waits") /\ (call[c].woken \/ call[c].wait = 0)
    /\ Goto(c, IF atDoor /\ Ticket[c] \notin open THEN "idle" ELSE "asks")
    /\ UNCHANGED <<limiterVars, open>>

-----------------------------------------------------------------------------
(* A call that was granted. *)

\* Mutant of Listeners: a caller listens once it waits.
ListenersLate == {c \in Callers : At(c, "waits") /\ ~atDoor}

\* Who hears notify_waiters: since before it asked.
Listeners == {c \in Callers : call[c].step \in {"asks", "refused", "waits"} /\ ~atDoor}

\* Mutant of Freed: a permit that lapsed frees its places once more.
FreedAgain(c) ==
    /\ held' = [b \in Buckets |-> IF b \in Places(c) /\ held[b] > 0 THEN held[b] - 1 ELSE held[b]]
    /\ permit' = [permit EXCEPT ![c] = NoPermit]

\* free: nothing where the permit lapsed and was freed before.
Freed(c) ==
    /\ held' = HeldWithout({c})
    /\ permit' = [permit EXCEPT ![c] = NoPermit]

\* The door notes the permit under its ticket, or is to give it back where the
\* call has answered meanwhile.
Note(c) ==
    /\ At(c, "granted")
    /\ Goto(c, IF Ticket[c] \in open THEN "calls" ELSE "answered")
    /\ UNCHANGED <<limiterVars, open>>

\* The call answers, or fails: Held is dropped, or the module gives its permit
\* back, which the door takes off its ticket.
Answer(c) ==
    /\ At(c, "calls")
    /\ Goto(c, "answered")
    /\ UNCHANGED <<limiterVars, open>>

\* Its caller is done, or was refused by the provider and tells the limiter so.
Done(c) == \E step \in {"idle"} \cup (IF atDoor THEN {} ELSE {"limited"}) : Goto(c, step)

\* release: under the lock the permit is freed,
Release(c) ==
    /\ At(c, "answered")
    /\ Freed(c)
    /\ IF permit[c] # NoPermit THEN Goto(c, "frees") ELSE Done(c)
    /\ UNCHANGED <<window, throttle, atDoor, open, granted>>

\* and after it, if one was, those who wait are told.
Notify(c) ==
    /\ At(c, "frees")
    /\ \E step \in {"idle"} \cup (IF atDoor THEN {} ELSE {"limited"}) :
          call' = [d \in Callers |->
              IF d = c THEN [step |-> step, woken |-> FALSE, wait |-> 0]
              ELSE [call[d] EXCEPT !.woken = @ \/ d \in Listeners]]
    /\ UNCHANGED <<limiterVars, open>>

\* Mutant of Throttled: the waits asked for add up.
ThrottledOn(c, n) == throttle' = [throttle EXCEPT ![Key[c]] = @ + n]

\* throttle: the key stays closed for the longest its provider asked.
Throttled(c, n) == throttle' = [throttle EXCEPT ![Key[c]] = Max({@, n})]

\* The provider asks to wait: on a success that spent its budget (budget_after)
\* or at the door while the call holds its place, and on a 429 once it gave it up.
Throttle(c) ==
    /\ \/ At(c, "calls") /\ (atDoor => Ticket[c] \in open) /\ UNCHANGED call
       \/ At(c, "limited") /\ Goto(c, "idle")
    /\ \E n \in Throttles : Throttled(c, n)
    /\ UNCHANGED <<window, held, permit, granted, atDoor, open>>

\* Ticket::drop: the call answered, and what its module holds is released,
\* one permit at a time.
DropTicket(t) ==
    /\ t \in open
    /\ open' = open \ {t}
    /\ call' = [c \in Callers |->
           IF Ticket[c] = t /\ At(c, "calls") THEN [step |-> "answered", woken |-> FALSE, wait |-> 0] ELSE call[c]]
    /\ UNCHANGED limiterVars

Down(n) == IF n > 0 THEN n - 1 ELSE n
Older(calls, b) == [i \in DOMAIN calls |-> [calls[i] EXCEPT !.age = IF @ < Limit[b].per THEN @ + 1 ELSE @]]

\* Time passes.
Tick ==
    /\ window' = [b \in Buckets |-> Older(window[b], b)]
    /\ granted' = [b \in Buckets |-> Kept(Older(granted[b], b), b)]
    /\ permit' = [c \in Callers |-> Down(permit[c])]
    /\ throttle' = [k \in Keys |-> Down(throttle[k])]
    /\ call' = [c \in Callers |-> [call[c] EXCEPT !.wait = Down(@)]]
    /\ UNCHANGED <<held, atDoor, open>>

-----------------------------------------------------------------------------
Init ==
    /\ window = [b \in Buckets |-> <<>>] /\ granted = window
    /\ held = [b \in Buckets |-> 0]
    /\ permit = [c \in Callers |-> NoPermit]
    /\ throttle = [k \in Keys |-> 0]
    /\ atDoor \in BOOLEAN /\ open = IF atDoor THEN Tickets ELSE {}
    /\ call = [c \in Callers |-> [step |-> "idle", woken |-> FALSE, wait |-> 0]]

\* What a caller does without its provider.
Steps(c) == Refuse(c) \/ Grant(c) \/ Sleep(c) \/ Wake(c) \/ Note(c) \/ Release(c) \/ Notify(c)

Next ==
    \/ Tick
    \/ \E c \in Callers : Ask(c) \/ Steps(c) \/ Answer(c) \/ Throttle(c)
    \/ \E t \in Tickets : DropTicket(t)

Spec == Init /\ [][Next]_vars

\* Time passes and callers go on; no provider need ever answer.
FairSpec == Spec /\ WF_vars(Tick) /\ \A c \in Callers : WF_vars(Steps(c))

-----------------------------------------------------------------------------
(* What providers, and callers, are promised. *)

\* The type invariant.
TypeOK ==
    /\ \A b \in Buckets :
         {window[b], granted[b]} \subseteq Seq([age : 0 .. Limit[b].per, cost : 1 .. Limit[b].calls])
    /\ held \in [Buckets -> 0 .. Cardinality(Callers)]
    /\ permit \in [Callers -> NoPermit .. Hold]
    /\ throttle \in [Keys -> UNION {0 .. n : n \in Throttles \cup {0}}]
    /\ atDoor \in BOOLEAN /\ open \subseteq Tickets
    /\ call \in [Callers -> [step : {"idle", "asks", "refused", "waits", "granted", "calls", "answered", "frees", "limited"}, woken : BOOLEAN, wait : Nat]]

\* However calls are spaced, no stretch of a window's length holds more than
\* the limit's calls; and no more places are taken than it has, each by the
\* permit of a call not yet released, whichever lapsed, came back late or
\* outlived its ticket ("no stretch of perMs ever holds more than calls",
\* "at most that many permits held at once", docs/contracts/limiter-slot.md).
LimitsHold ==
    \A b \in Buckets :
        LET permits == {c \in Callers : permit[c] # NoPermit /\ b \in Places(c)} IN
        /\ Spent(granted[b]) <= Limit[b].calls
        /\ held[b] = Cardinality(permits) /\ held[b] <= Limit[b].concurrent
        /\ \A c \in permits : call[c].step \in {"granted", "calls", "answered"}

\* No caller sleeps on when its call would be granted, unless one who freed a
\* permit is about to wake it: a release between its refusal and its wait is
\* heard, and it was told the instant anything else makes room ("a release
\* between the refusal and the wait still wakes it", acquire).
NoSleepPastRoom ==
    \A c \in Callers :
        At(c, "waits") /\ ~atDoor /\ ~call[c].woken /\ call[c].wait > 0
            => Retry(c) > 0 \/ \E d \in Callers : At(d, "frees")

\* Once nobody calls and no provider throttles any more, in the end nobody
\* waits: each was granted, though no provider answers, as permits lapse and
\* windows pass. Until then a call may be refused for ever: no queue is kept, a
\* release wakes all who wait, and a newcomer may take the room ("a call asked
\* again then may meet calls granted meanwhile", docs/contracts/limiter-slot.md).
EveryCallGranted ==
    <>[][\A c \in Callers : ~Ask(c) /\ ~Throttle(c)]_vars
        => <>[](~atDoor => \A c \in Callers : call[c].step \notin {"asks", "refused", "waits"})
=============================================================================
